------------------------ MODULE IssueLifecycleProofs ------------------------
(***************************************************************************)
(* For any number of issues, any limits and any cap: the tables keep their *)
(* types, no issue is redispatched more often than configured, and a sweep *)
(* acts only on what its query found dead and nothing touched since,       *)
(* however sweeps, retries, prunes and restarts interleave.                *)
(***************************************************************************)
EXTENDS IssueLifecycle, FiniteSetTheorems, SequenceTheorems, WellFoundedInduction, TLAPS

RowState == {"queued", "running", "done", "failed", "skipped"}
RowError == {"none", "transient", "permanent", "cancelled"}

\* Delivery ids of redispatches stay within the cap and are never reused.
IdsInv ==
    \A k \in Issue :
        /\ \A i \in DOMAIN rows[k] : rows[k][i].id \in 0 .. Cap
        /\ \A i, j \in DOMAIN rows[k] :
              rows[k][i].id = rows[k][j].id /\ rows[k][i].id > 0 => i = j

\* What the sweep is about to re-queue has not used up its redispatches.
FoundInv == \A f \in sweep.found : f.of.spent < Cap

\* The last event that is not noise died, by itself, and none is to come.
Died(s) ==
    \E i \in DOMAIN s :
        /\ s[i].state = "failed" /\ s[i].error # "cancelled"
        /\ \A j \in DOMAIN s : /\ s[j].state \notin {"queued", "running"}
                               /\ j > i => s[j].state = "skipped"

\* What is left of the sweep's list, an issue at most once: nothing happened to
\* the issue since the query, and it is still as dead, or something did.
TodoInv ==
    /\ \A c \in sweep.todo : c.key \in moved \/ Died(rows[c.key])
    /\ \A c, d \in sweep.todo : c.key = d.key => c = d
    /\ \A f \in sweep.found : f.of \in sweep.todo

IInv == TypeOK /\ IdsInv /\ FoundInv /\ TodoInv

\* Rows keep their places and their delivery ids.
SameIds ==
    \A k \in Issue :
        /\ DOMAIN rows'[k] = DOMAIN rows[k]
        /\ \A i \in DOMAIN rows[k] : rows'[k][i].id = rows[k][i].id

\* No issue gets a redispatch.
NoneAdded == \A k \in Issue : Spent(k)' <= Spent(k)

-----------------------------------------------------------------------------
(* What the helpers do to the table.                                       *)

\* A function on 1..n with values in S is a sequence over S.
LEMMA FunctionIsSeq ==
    ASSUME NEW S, NEW n \in Nat, NEW f \in [1 .. n -> S]
    PROVE  f \in Seq(S)
BY SeqDef

\* An event row, field by field.
LEMMA RowFields ==
    ASSUME NEW r
    PROVE  r \in Row <=> r \in [task : Task, state : RowState, error : RowError,
                                spent : BOOLEAN, recent : BOOLEAN, id : Nat]
BY DEF Row, RowState, RowError

\* What the actions write into a row leaves it a row and keeps its id.
LEMMA RowUpdates ==
    ASSUME NEW r \in Row, NEW s \in RowState, NEW e \in RowError
    PROVE  /\ [r EXCEPT !.state = s] \in Row /\ [r EXCEPT !.state = s].id = r.id
           /\ [r EXCEPT !.state = s, !.error = e] \in Row
           /\ [r EXCEPT !.state = s, !.error = e].id = r.id
           /\ [r EXCEPT !.recent = FALSE] \in Row /\ [r EXCEPT !.recent = FALSE].id = r.id
<1>1. r \in [task : Task, state : RowState, error : RowError,
              spent : BOOLEAN, recent : BOOLEAN, id : Nat]
      BY RowFields
<1>2. /\ [r EXCEPT !.state = s] \in
            [task : Task, state : RowState, error : RowError,
             spent : BOOLEAN, recent : BOOLEAN, id : Nat]
      /\ [r EXCEPT !.state = s].id = r.id
      BY <1>1
<1>3. /\ [r EXCEPT !.state = s, !.error = e] \in
            [task : Task, state : RowState, error : RowError,
             spent : BOOLEAN, recent : BOOLEAN, id : Nat]
      /\ [r EXCEPT !.state = s, !.error = e].id = r.id
      BY <1>1
<1>4. /\ [r EXCEPT !.recent = FALSE] \in
            [task : Task, state : RowState, error : RowError,
             spent : BOOLEAN, recent : BOOLEAN, id : Nat]
      /\ [r EXCEPT !.recent = FALSE].id = r.id
      BY <1>1
<1> QED BY <1>2, <1>3, <1>4, RowFields

\* A row that is replaced by another with the same id leaves the table typed.
LEMMA ReplaceRow ==
    ASSUME rows \in [Issue -> Seq(Row)], NEW k \in Issue, NEW i \in DOMAIN rows[k],
           NEW r \in Row, r.id = rows[k][i].id,
           rows' = [rows EXCEPT ![k][i] = r]
    PROVE  rows' \in [Issue -> Seq(Row)] /\ SameIds
<1>1. rows[k] \in Seq(Row) /\ DOMAIN rows[k] = 1 .. Len(rows[k])
      BY LenProperties
<1>2. /\ [rows[k] EXCEPT ![i] = r] \in Seq(Row)
      /\ Len([rows[k] EXCEPT ![i] = r]) = Len(rows[k])
      BY <1>1, ExceptSeq
<1>3. rows' = [rows EXCEPT ![k] = [rows[k] EXCEPT ![i] = r]]
      OBVIOUS
<1>4. rows' \in [Issue -> Seq(Row)]
      BY <1>2, <1>3
<1>5. SameIds
      BY <1>1, <1>3 DEF SameIds
<1> QED BY <1>4, <1>5

\* mark_event changes neither places nor ids.
LEMMA MarkRowKeeps ==
    ASSUME rows \in [Issue -> Seq(Row)], NEW k \in Issue,
           NEW s \in RowState, NEW e \in RowError, NEW x \in BOOLEAN, MarkRow(k, s, e, x)
    PROVE  rows' \in [Issue -> Seq(Row)] /\ SameIds
<1> DEFINE new == [i \in DOMAIN rows[k] |->
                     IF i \in RunningRow(k)
                       THEN [rows[k][i] EXCEPT !.state = s, !.error = e,
                                                   !.spent = rows[k][i].spent \/ x]
                       ELSE rows[k][i]]
<1>1. Len(rows[k]) \in Nat /\ DOMAIN rows[k] = 1 .. Len(rows[k])
      /\ \A i \in DOMAIN rows[k] : rows[k][i] \in Row
      BY LenProperties
<1>2. \A i \in DOMAIN rows[k] : new[i] \in Row /\ new[i].id = rows[k][i].id
  <2> SUFFICES ASSUME NEW i \in DOMAIN rows[k]
               PROVE  new[i] \in Row /\ new[i].id = rows[k][i].id
      OBVIOUS
  <2>1. rows[k][i] \in [task : Task, state : RowState, error : RowError,
                        spent : BOOLEAN, recent : BOOLEAN, id : Nat]
        BY <1>1, RowFields
  <2> DEFINE r == rows[k][i]
             m == [r EXCEPT !.state = s, !.error = e, !.spent = r.spent \/ x]
  <2>2. m \in [task : Task, state : RowState, error : RowError,
               spent : BOOLEAN, recent : BOOLEAN, id : Nat] /\ m.id = r.id
    <3>1. (r.spent \/ x) \in BOOLEAN BY <2>1
    <3> QED BY <2>1, <3>1
  <2>3. m \in Row /\ m.id = r.id BY <2>2, RowFields
  <2>4. new[i] = IF i \in RunningRow(k) THEN m ELSE r OBVIOUS
  <2>5. r \in Row BY <1>1
  <2> HIDE DEF m, r, new
  <2>6. CASE i \in RunningRow(k) BY <2>3, <2>4, <2>6 DEF r
  <2>7. CASE i \notin RunningRow(k) BY <2>4, <2>5, <2>7 DEF r
  <2> QED BY <2>6, <2>7
<1>3. new \in [1 .. Len(rows[k]) -> Row]
      BY <1>1, <1>2
<1>4. new \in Seq(Row)
      BY <1>1, <1>3, FunctionIsSeq
<1>5. rows' = [rows EXCEPT ![k] = new]
      BY DEF MarkRow
<1>6. DOMAIN new = DOMAIN rows[k]
      OBVIOUS
<1> HIDE DEF new
<1>7. rows' \in [Issue -> Seq(Row)]
      BY <1>4, <1>5
<1> QED BY <1>2, <1>5, <1>6, <1>7 DEF SameIds

\* record_event appends one row, with the given id.
LEMMA StoreAppends ==
    ASSUME rows \in [Issue -> Seq(Row)], NEW k \in Issue, NEW t \in Task,
           NEW s \in RowState, NEW n \in Nat, Store(k, t, s, n)
    PROVE  /\ rows' \in [Issue -> Seq(Row)]
           /\ \A l \in Issue \ {k} : rows'[l] = rows[l]
           /\ DOMAIN rows[k] = 1 .. Len(rows[k]) /\ Len(rows[k]) \in Nat
           /\ DOMAIN rows'[k] = 1 .. Len(rows[k]) + 1
           /\ rows'[k][Len(rows[k]) + 1].id = n
           /\ \A i \in DOMAIN rows[k] : rows'[k][i] = rows[k][i]
<1> DEFINE r == [task |-> t, state |-> s, error |-> "none", spent |-> FALSE,
                 recent |-> TRUE, id |-> n]
<1>1. r \in Row
      BY DEF Row, RowState
<1>2. r.id = n
      OBVIOUS
<1>3. rows' = [rows EXCEPT ![k] = Append(rows[k], r)]
      BY DEF Store
<1> HIDE DEF r
<1>4. rows[k] \in Seq(Row)
      OBVIOUS
<1>5. /\ Append(rows[k], r) \in Seq(Row)
      /\ Len(Append(rows[k], r)) = Len(rows[k]) + 1
      /\ \A i \in 1 .. Len(rows[k]) : Append(rows[k], r)[i] = rows[k][i]
      /\ Append(rows[k], r)[Len(rows[k]) + 1] = r
      BY <1>1, <1>4, AppendProperties
<1>6. DOMAIN rows[k] = 1 .. Len(rows[k]) /\ Len(rows[k]) \in Nat
      BY <1>4, LenProperties
<1>7. rows'[k] = Append(rows[k], r)
      BY <1>3
<1>8. DOMAIN rows'[k] = 1 .. Len(rows[k]) + 1
      BY <1>5, <1>7, LenProperties
<1>9. rows' \in [Issue -> Seq(Row)]
      BY <1>3, <1>5
<1> QED BY <1>2, <1>3, <1>5, <1>6, <1>7, <1>8, <1>9

\* A pruned row leaves the others in their order.
LEMMA RemoveAtKeeps ==
    ASSUME rows \in [Issue -> Seq(Row)], NEW k \in Issue, NEW i \in DOMAIN rows[k],
           rows' = [rows EXCEPT ![k] = RemoveAt(@, i)]
    PROVE  /\ rows' \in [Issue -> Seq(Row)]
           /\ \A l \in Issue \ {k} : rows'[l] = rows[l]
           /\ DOMAIN rows[k] = 1 .. Len(rows[k]) /\ Len(rows[k]) \in Nat
           /\ DOMAIN rows'[k] = 1 .. Len(rows[k]) - 1
           /\ \A j \in DOMAIN rows'[k] :
                 rows'[k][j] = rows[k][IF j < i THEN j ELSE j + 1]
<1> DEFINE s == rows[k]
           a == SubSeq(s, 1, i - 1)
           b == SubSeq(s, i + 1, Len(s))
<1>1. s \in Seq(Row) /\ Len(s) \in Nat /\ DOMAIN s = 1 .. Len(s)
      /\ \A j \in 1 .. Len(s) : s[j] \in Row
      BY LenProperties
<1>2. i \in 1 .. Len(s)
      BY <1>1
<1>3. /\ a \in Seq(Row) /\ Len(a) = i - 1
      /\ \A j \in 1 .. i - 1 : a[j] = s[j]
      BY <1>1, <1>2, SubSeqProperties
<1>4. /\ b \in Seq(Row) /\ Len(b) = Len(s) - i
      /\ \A j \in 1 .. Len(s) - i : b[j] = s[i + j]
  <2>1. \A j \in i + 1 .. Len(s) : s[j] \in Row BY <1>1, <1>2
  <2> QED BY <1>1, <1>2, <2>1, SubSeqProperties
<1>5. rows' = [rows EXCEPT ![k] = a \o b]
      BY DEF RemoveAt
<1> HIDE DEF a, b
<1>6. /\ a \o b \in Seq(Row) /\ Len(a \o b) = Len(s) - 1
      /\ \A j \in 1 .. Len(s) - 1 : (a \o b)[j] = IF j <= i - 1 THEN a[j] ELSE b[j - (i - 1)]
  <2>1. /\ a \o b \in Seq(Row) /\ Len(a \o b) = Len(a) + Len(b)
        /\ \A j \in 1 .. Len(a) + Len(b) :
              (a \o b)[j] = IF j <= Len(a) THEN a[j] ELSE b[j - Len(a)]
        BY <1>3, <1>4, ConcatProperties, Zenon
  <2>2. Len(a) + Len(b) = Len(s) - 1
        BY <1>1, <1>2, <1>3, <1>4
  <2> QED BY <2>1, <2>2, <1>3, Zenon
<1>7. \A j \in 1 .. Len(s) - 1 : (a \o b)[j] = s[IF j < i THEN j ELSE j + 1]
  <2> SUFFICES ASSUME NEW j \in 1 .. Len(s) - 1
               PROVE  (a \o b)[j] = s[IF j < i THEN j ELSE j + 1]
      OBVIOUS
  <2> HIDE DEF s
  <2>1. CASE j < i
        BY <1>1, <1>2, <1>3, <1>6, <2>1
  <2>2. CASE ~(j < i)
    <3>1. j - (i - 1) \in 1 .. Len(s) - i /\ i + (j - (i - 1)) = j + 1
          BY <1>1, <1>2, <2>2
    <3>2. b[j - (i - 1)] = s[j + 1]
          BY <1>4, <3>1
    <3>3. ~(j <= i - 1)
          BY <1>1, <1>2, <2>2
    <3>4. (a \o b)[j] = b[j - (i - 1)]
          BY <1>6, <3>3, Zenon
    <3> QED BY <2>2, <3>2, <3>4, Zenon
  <2> QED BY <2>1, <2>2
<1>8. rows'[k] = a \o b
      BY <1>5
<1>9. DOMAIN rows'[k] = 1 .. Len(s) - 1
      BY <1>6, <1>8, LenProperties
<1>10. rows' \in [Issue -> Seq(Row)]
      BY <1>5, <1>6
<1> QED BY <1>1, <1>5, <1>7, <1>8, <1>9, <1>10

\* reset_stuck_running changes neither places nor ids.
LEMMA RestartKeeps ==
    ASSUME rows \in [Issue -> Seq(Row)], Restart
    PROVE  rows' \in [Issue -> Seq(Row)] /\ SameIds
<1> DEFINE new(k) == [i \in DOMAIN rows[k] |->
                        IF i \in RunningRow(k) THEN [rows[k][i] EXCEPT !.state = "queued"]
                                               ELSE rows[k][i]]
<1>1. ASSUME NEW k \in Issue
      PROVE  /\ new(k) \in Seq(Row) /\ DOMAIN new(k) = DOMAIN rows[k]
             /\ \A i \in DOMAIN rows[k] : new(k)[i].id = rows[k][i].id
  <2>1. Len(rows[k]) \in Nat /\ DOMAIN rows[k] = 1 .. Len(rows[k])
        /\ \A i \in DOMAIN rows[k] : rows[k][i] \in Row
        BY LenProperties
  <2>2. \A i \in DOMAIN rows[k] : new(k)[i] \in Row /\ new(k)[i].id = rows[k][i].id
        BY <2>1 DEF Row
  <2>3. new(k) \in [1 .. Len(rows[k]) -> Row]
        BY <2>1, <2>2
  <2>4. new(k) \in Seq(Row)
        BY <2>1, <2>3, FunctionIsSeq
  <2> QED BY <2>2, <2>4
<1>2. rows' = [k \in Issue |-> new(k)]
      BY DEF Restart
<1> HIDE DEF new
<1>3. rows' \in [Issue -> Seq(Row)]
      BY <1>1, <1>2
<1> QED BY <1>1, <1>2, <1>3 DEF SameIds

-----------------------------------------------------------------------------
(* The invariant.                                                          *)

\* The inductive invariant holds on an empty database.
LEMMA InitInv == Init => IInv
<1> SUFFICES ASSUME Init PROVE IInv
    OBVIOUS
<1>1. rows \in [Issue -> Seq(Row)]
      BY DEF Init
<1>2. state \in [Issue -> IssueState] /\ older \subseteq Issue \X Issue
      BY DEF Init, IssueState
<1>3. sweep \in [todo : SUBSET Candidate, found : SUBSET [of : Candidate, task : Task]]
      BY DEF Init, Resting
<1>4. TypeOK
      BY <1>1, <1>2, <1>3, LimitsAssumption DEF Init, TypeOK, Phase, Asleep
<1>5. IdsInv
      BY DEF Init, IdsInv
<1>6. FoundInv
      BY DEF Init, FoundInv, Resting
<1>7. TodoInv
      BY DEF Init, TodoInv, Resting
<1> QED BY <1>4, <1>5, <1>6, <1>7 DEF IInv

\* Ids stay in order when rows keep their places and their ids.
LEMMA SameIdsKeep == IdsInv /\ SameIds => IdsInv'
BY DEF IdsInv, SameIds

\* A new row whose id is free or that is a webhook.
LEMMA StoreKeepsIds ==
    ASSUME rows \in [Issue -> Seq(Row)], IdsInv, NEW k \in Issue, NEW t \in Task,
           NEW s \in RowState, NEW n \in 0 .. Cap, Store(k, t, s, n),
           n = 0 \/ \A i \in DOMAIN rows[k] : rows[k][i].id # n
    PROVE  IdsInv'
<1>1. n \in Nat
      BY LimitsAssumption
<1> DEFINE top == Len(rows[k]) + 1
<1>2. /\ \A l \in Issue \ {k} : rows'[l] = rows[l]
      /\ DOMAIN rows'[k] = DOMAIN rows[k] \cup {top} /\ rows'[k][top].id = n
      /\ \A i \in DOMAIN rows[k] : rows'[k][i] = rows[k][i]
  <2>1. \A m \in Nat : 1 .. m + 1 = (1 .. m) \cup {m + 1}
        OBVIOUS
  <2> QED BY <1>1, <2>1, StoreAppends
<1> HIDE DEF top
<1>3. \A i \in DOMAIN rows'[k] : rows'[k][i].id \in 0 .. Cap
      BY <1>2 DEF IdsInv
<1>4. \A i, j \in DOMAIN rows'[k] :
          rows'[k][i].id = rows'[k][j].id /\ rows'[k][i].id > 0 => i = j
  <2> SUFFICES ASSUME NEW i \in DOMAIN rows'[k], NEW j \in DOMAIN rows'[k],
                      rows'[k][i].id = rows'[k][j].id, rows'[k][i].id > 0
               PROVE  i = j
      OBVIOUS
  <2>1. CASE i \in DOMAIN rows[k] /\ j \in DOMAIN rows[k]
        BY <1>2, <2>1 DEF IdsInv
  <2>2. CASE i = top \/ j = top
        BY <1>2, <2>2
  <2> QED BY <1>2, <2>1, <2>2
<1> QED BY <1>2, <1>3, <1>4 DEF IdsInv

\* Removing a row frees its id and leaves the others distinct.
LEMMA RemovalKeepsIds ==
    ASSUME rows \in [Issue -> Seq(Row)], IdsInv, NEW k \in Issue, NEW i \in DOMAIN rows[k],
           rows' = [rows EXCEPT ![k] = RemoveAt(@, i)]
    PROVE  IdsInv'
<1> DEFINE old(j) == IF j < i THEN j ELSE j + 1
<1>1. /\ \A l \in Issue \ {k} : rows'[l] = rows[l]
      /\ DOMAIN rows[k] = 1 .. Len(rows[k]) /\ Len(rows[k]) \in Nat
      /\ DOMAIN rows'[k] = 1 .. Len(rows[k]) - 1
      /\ \A j \in DOMAIN rows'[k] : rows'[k][j] = rows[k][old(j)]
      BY RemoveAtKeeps
<1>2. \A j \in DOMAIN rows'[k] : old(j) \in DOMAIN rows[k]
      BY <1>1
<1>3. \A j, l \in DOMAIN rows'[k] : old(j) = old(l) => j = l
      BY <1>1
<1> HIDE DEF old
<1>4. \A j \in DOMAIN rows'[k] : rows'[k][j].id \in 0 .. Cap
      BY <1>1, <1>2 DEF IdsInv
<1>5. \A j, l \in DOMAIN rows'[k] :
          rows'[k][j].id = rows'[k][l].id /\ rows'[k][j].id > 0 => j = l
  <2> SUFFICES ASSUME NEW j \in DOMAIN rows'[k], NEW l \in DOMAIN rows'[k],
                      rows'[k][j].id = rows'[k][l].id, rows'[k][j].id > 0
               PROVE  j = l
      OBVIOUS
  <2>1. rows'[k][j] = rows[k][old(j)] /\ rows'[k][l] = rows[k][old(l)]
        BY <1>1
  <2>2. old(j) \in DOMAIN rows[k] /\ old(l) \in DOMAIN rows[k]
        BY <1>2
  <2>3. old(j) = old(l)
        BY <2>1, <2>2 DEF IdsInv
  <2> QED BY <1>3, <2>3
<1> QED BY <1>1, <1>4, <1>5 DEF IdsInv

\* Numbers of redispatches are numbers.
LEMMA SpentIsNat ==
    ASSUME rows \in [Issue -> Seq(Row)], NEW k \in Issue
    PROVE  Spent(k) \in Nat /\ IsFiniteSet({i \in DOMAIN rows[k] : rows[k][i].id > 0})
<1>1. rows[k] \in Seq(Row)
      OBVIOUS
<1>2. Len(rows[k]) \in Nat /\ DOMAIN rows[k] = 1 .. Len(rows[k])
      BY <1>1, LenProperties
<1>3. IsFiniteSet(DOMAIN rows[k])
      BY <1>2, FS_Interval
<1> QED BY <1>3, FS_Subset, FS_CardinalityType DEF Spent

\* An issue whose redispatches are the same has no more of them.
LEMMA SameSpent ==
    ASSUME rows \in [Issue -> Seq(Row)], NEW k \in Issue,
           {i \in DOMAIN rows'[k] : rows'[k][i].id > 0} = {i \in DOMAIN rows[k] : rows[k][i].id > 0}
    PROVE  Spent(k)' <= Spent(k)
<1>1. Cardinality({i \in DOMAIN rows[k] : rows[k][i].id > 0}) \in Nat
      BY SpentIsNat DEF Spent
<1>2. \A n \in Nat : n <= n
      OBVIOUS
<1> QED BY <1>1, <1>2, Zenon DEF Spent

\* They are in the next state, too.
LEMMA SpentPrimed ==
    ASSUME rows' \in [Issue -> Seq(Row)], NEW k \in Issue
    PROVE  Spent(k)' \in Nat
<1>1. rows'[k] \in Seq(Row)
      OBVIOUS
<1>2. Len(rows'[k]) \in Nat /\ DOMAIN rows'[k] = 1 .. Len(rows'[k])
      BY <1>1, LenProperties
<1>3. IsFiniteSet(DOMAIN rows'[k])
      BY <1>2, FS_Interval
<1> QED BY <1>3, FS_Subset, FS_CardinalityType DEF Spent

\* Rows that keep their ids keep the redispatches.
LEMMA SameIdsAddNone ==
    ASSUME rows \in [Issue -> Seq(Row)], SameIds
    PROVE  NoneAdded
<1> SUFFICES ASSUME NEW k \in Issue PROVE Spent(k)' <= Spent(k)
    BY DEF NoneAdded
<1>1. {i \in DOMAIN rows'[k] : rows'[k][i].id > 0} = {i \in DOMAIN rows[k] : rows[k][i].id > 0}
      BY DEF SameIds
<1> QED BY <1>1, SameSpent

\* A webhook is no redispatch.
LEMMA WebhookAddsNone ==
    ASSUME rows \in [Issue -> Seq(Row)], NEW k \in Issue, NEW t \in Task,
           NEW s \in RowState, Store(k, t, s, 0)
    PROVE  NoneAdded
<1> SUFFICES ASSUME NEW l \in Issue PROVE Spent(l)' <= Spent(l)
    BY DEF NoneAdded
<1>1. CASE l # k
  <2>1. rows'[l] = rows[l]
        BY <1>1 DEF Store
  <2> QED BY <2>1, SameSpent
<1>2. CASE l = k
  <2> DEFINE top == Len(rows[k]) + 1
  <2>1. /\ DOMAIN rows'[k] = DOMAIN rows[k] \cup {top} /\ rows'[k][top].id = 0
        /\ \A i \in DOMAIN rows[k] : rows'[k][i] = rows[k][i]
        /\ top \notin DOMAIN rows[k]
    <3>1. \A m \in Nat : 1 .. m + 1 = (1 .. m) \cup {m + 1} /\ m + 1 \notin 1 .. m
          OBVIOUS
    <3> QED BY <3>1, StoreAppends
  <2> HIDE DEF top
  <2>2. {i \in DOMAIN rows'[k] : rows'[k][i].id > 0} = {i \in DOMAIN rows[k] : rows[k][i].id > 0}
        BY <2>1
  <2> QED BY <1>2, <2>2, SameSpent
<1> QED BY <1>1, <1>2

\* Nor does pruning a row add one.
LEMMA RemovalAddsNone ==
    ASSUME rows \in [Issue -> Seq(Row)], NEW k \in Issue, NEW i \in DOMAIN rows[k],
           rows' = [rows EXCEPT ![k] = RemoveAt(@, i)]
    PROVE  NoneAdded
<1> DEFINE old(j) == IF j < i THEN j ELSE j + 1
           D == {j \in DOMAIN rows[k] : rows[k][j].id > 0}
           E == {j \in DOMAIN rows'[k] : rows'[k][j].id > 0}
           f == [j \in E |-> old(j)]
<1>1. /\ \A l \in Issue \ {k} : rows'[l] = rows[l]
      /\ DOMAIN rows[k] = 1 .. Len(rows[k]) /\ Len(rows[k]) \in Nat
      /\ DOMAIN rows'[k] = 1 .. Len(rows[k]) - 1
      /\ \A j \in DOMAIN rows'[k] : rows'[k][j] = rows[k][old(j)]
      BY RemoveAtKeeps
<1>2. \A j \in DOMAIN rows'[k] : old(j) \in DOMAIN rows[k]
      BY <1>1
<1>3. \A j, l \in DOMAIN rows'[k] : old(j) = old(l) => j = l
      BY <1>1
<1> HIDE DEF old
<1>4. f \in [E -> D]
      BY <1>1, <1>2
<1>5. \A j, l \in E : f[j] = f[l] => j = l
      BY <1>3
<1>6. f \in Injection(E, D)
      BY <1>4, <1>5 DEF Injection, IsInjective
<1>7. IsFiniteSet(D) /\ Cardinality(D) = Spent(k)
      BY SpentIsNat DEF Spent
<1> HIDE DEF D, f
<1>8. Cardinality(E) <= Cardinality(D)
      BY <1>6, <1>7, FS_Injection
<1>9. Spent(k)' <= Spent(k)
      BY <1>7, <1>8 DEF Spent
<1>10. ASSUME NEW l \in Issue, l # k PROVE Spent(l)' <= Spent(l)
  <2>1. rows'[l] = rows[l]
        BY <1>1, <1>10
  <2> QED BY <2>1, SameSpent
<1> QED BY <1>9, <1>10 DEF NoneAdded

\* Every step leaves the table typed and the delivery ids as they should be.
LEMMA TableStep ==
    ASSUME IInv, [Next]_vars
    PROVE  /\ rows' \in [Issue -> Seq(Row)] /\ IdsInv'
           /\ NoneAdded \/ \E f \in sweep.found : Requeue(f)
<1> DEFINE Good == rows' \in [Issue -> Seq(Row)] /\ IdsInv' /\ NoneAdded
           Sent == /\ rows' \in [Issue -> Seq(Row)] /\ IdsInv'
                   /\ \E f \in sweep.found : Requeue(f)
<1> USE DEF IInv
<1>0. rows \in [Issue -> Seq(Row)]
      BY DEF TypeOK
<1>a. ASSUME UNCHANGED rows PROVE Good
  <2>1. SameIds
        BY <1>a DEF SameIds
  <2> QED BY <1>0, <1>a, <2>1, SameIdsKeep, SameIdsAddNone
<1>b. ASSUME rows' \in [Issue -> Seq(Row)] /\ SameIds
      PROVE  Good
      BY <1>0, <1>b, SameIdsKeep, SameIdsAddNone
<1>c. \A k \in Issue : \A i \in DOMAIN rows[k] : rows[k][i] \in Row
      BY <1>0, LenProperties
<1>1. ASSUME NEW k \in Issue, NEW t \in Task, NEW s \in {"queued", "skipped"}, Deliver(k, t, s)
      PROVE  Good
  <2>1. Store(k, t, s, 0) /\ s \in RowState /\ 0 \in 0 .. Cap /\ 0 \in Nat
        BY <1>1, LimitsAssumption DEF Deliver, RowState
  <2> QED BY <1>0, <2>1, StoreAppends, StoreKeepsIds, WebhookAddsNone
<1>2. ASSUME NEW k \in Issue, Retry(k)
      PROVE  Good
  <2>1. PICK i \in DOMAIN rows[k] :
            rows' = [rows EXCEPT ![k][i].state = "queued", ![k][i].error = "none"]
        BY <1>2 DEF Retry
  <2> DEFINE r == [rows[k][i] EXCEPT !.state = "queued", !.error = "none"]
  <2>2. r \in Row /\ r.id = rows[k][i].id
        BY <1>c, RowUpdates DEF RowState, RowError
  <2>3. rows' = [rows EXCEPT ![k][i] = r]
        BY <1>0, <2>1
  <2> HIDE DEF r
  <2> QED BY <1>0, <1>b, <2>2, <2>3, ReplaceRow
<1>3. ASSUME NEW k \in Issue, Disappear(k) \/ CliCleanup(k)
      PROVE  UNCHANGED rows
      BY <1>3 DEF Disappear, CliCleanup
<1>4. ASSUME NEW k \in Issue, Prune(k)
      PROVE  Good
  <2>1. PICK i \in DOMAIN rows[k] : rows' = [rows EXCEPT ![k] = RemoveAt(@, i)]
        BY <1>4 DEF Prune
  <2> QED BY <1>0, <2>1, RemoveAtKeeps, RemovalKeepsIds, RemovalAddsNone
<1>5. ASSUME NEW k \in Issue, Age(k)
      PROVE  Good
  <2> DEFINE i == Latest(k)
             r == [rows[k][i] EXCEPT !.recent = FALSE]
  <2>1. i \in DOMAIN rows[k] /\ rows' = [rows EXCEPT ![k][i].recent = FALSE]
        BY <1>5 DEF Age, Orphan, DiedFor
  <2> HIDE DEF i
  <2>2. r \in Row /\ r.id = rows[k][i].id
        BY <1>c, <2>1, RowUpdates DEF RowState, RowError
  <2>3. rows' = [rows EXCEPT ![k][i] = r]
        BY <1>0, <2>1
  <2> HIDE DEF r
  <2> QED BY <1>0, <1>b, <2>1, <2>2, <2>3, ReplaceRow
<1>6. ASSUME NEW k \in Issue, Claim(k)
      PROVE  Good
  <2>1. PICK i \in DOMAIN rows[k] : rows' = [rows EXCEPT ![k][i].state = "running"]
        BY <1>6 DEF Claim
  <2> DEFINE r == [rows[k][i] EXCEPT !.state = "running"]
  <2>2. r \in Row /\ r.id = rows[k][i].id
        BY <1>c, RowUpdates DEF RowState, RowError
  <2>3. rows' = [rows EXCEPT ![k][i] = r]
        BY <1>0, <2>1
  <2> HIDE DEF r
  <2> QED BY <1>0, <1>b, <2>2, <2>3, ReplaceRow
<1>7. ASSUME NEW k \in Issue,
             \/ TearDown(k) \/ Register(k) \/ Resume(k) \/ CheckOut(k)
             \/ Advance(k) \/ Abort(k) \/ CleanUp(k)
      PROVE  UNCHANGED rows
      BY <1>7 DEF TearDown, Register, Resume, CheckOut, Advance, Abort, CleanUp, Goes
<1>8. ASSUME NEW k \in Issue, NEW s \in RowState, NEW e \in RowError, NEW x \in BOOLEAN,
             Ends(k, s, e, x)
      PROVE  Good
  <2>1. MarkRow(k, s, e, x)
        BY <1>8 DEF Ends
  <2> QED BY <1>0, <1>b, <2>1, MarkRowKeeps
<1>9. ASSUME NEW k \in Issue, Finish(k) \/ Skip(k) \/ RetryLater(k)
      PROVE  Good
      BY <1>8, <1>9 DEF Finish, Skip, RetryLater, RowState, RowError
<1>10. ASSUME NEW k \in Issue, NEW e \in {"transient", "permanent", "cancelled"},
              NEW x \in BOOLEAN, Fail(k, e, x)
      PROVE  Good
      BY <1>8, <1>10 DEF Fail, RowState, RowError
<1>11. ASSUME \/ ListStranded \/ ReaperStep
              \/ \E c \in sweep.todo : SweepAbandons(c) \/ SweepLooks(c)
      PROVE  UNCHANGED rows
      BY <1>11 DEF ListStranded, ReaperStep, ListAbandoned, FilterActive, Reap, ReapFails,
                   NextIdle, SweepAbandons, SweepLooks, database
<1>12. ASSUME NEW f \in sweep.found, Requeue(f)
      PROVE  Sent
  <2> DEFINE k == f.of.key
             n == f.of.spent + 1
  <2>1. k \in Issue /\ f.task \in Task /\ n \in Nat \ {0} /\ n \in 0 .. Cap
    <3>1. f.of \in Candidate /\ f.task \in Task
          BY DEF TypeOK
    <3>2. f.of.key \in Issue /\ f.of.spent \in Nat /\ f.of.spent < Cap
          BY <3>1 DEF Candidate, FoundInv
    <3> QED BY <3>1, <3>2, LimitsAssumption
  <2>2. \/ UNCHANGED rows
        \/ Store(k, f.task, "queued", n) /\ \A i \in DOMAIN rows[k] : rows[k][i].id # n
        BY <1>12 DEF Requeue
  <2>3. "queued" \in RowState
        BY DEF RowState
  <2> HIDE DEF k, n
  <2>4. ASSUME Store(k, f.task, "queued", n), \A i \in DOMAIN rows[k] : rows[k][i].id # n
        PROVE  Sent
        BY <1>0, <1>12, <2>1, <2>3, <2>4, StoreAppends, StoreKeepsIds
  <2> QED BY <1>a, <1>12, <2>2, <2>4
<1>13. CASE Restart
      BY <1>0, <1>13, <1>b, RestartKeeps
<1>14. CASE UNCHANGED vars
      BY <1>a, <1>14 DEF vars, database
<1>15. ASSUME NEW k \in Issue, Outside(k)
      PROVE  Good
      BY <1>a, <1>1, <1>2, <1>3, <1>4, <1>15 DEF Outside
<1>16. ASSUME NEW k \in Issue, RunStep(k)
      PROVE  Good
      BY <1>a, <1>6, <1>7, <1>9, <1>10, <1>16 DEF RunStep
<1>17. ASSUME SweepStep \/ ReaperStep PROVE Good \/ Sent
      BY <1>a, <1>11, <1>12, <1>17 DEF SweepStep
<1>18. Good \/ Sent
      BY <1>5, <1>13, <1>14, <1>15, <1>16, <1>17 DEF Next
<1> QED BY <1>18

\* The sweep's list, and what it has found, are about issues, with their counts.
LEMMA SweepStepKeeps ==
    ASSUME IInv, [Next]_vars
    PROVE  /\ sweep' \in [todo : SUBSET Candidate, found : SUBSET [of : Candidate, task : Task]]
           /\ FoundInv'
<1> DEFINE Shape == [todo : SUBSET Candidate, found : SUBSET [of : Candidate, task : Task]]
           Good == sweep' \in Shape /\ FoundInv'
<1>0. sweep \in Shape /\ rows \in [Issue -> Seq(Row)]
      BY DEF IInv, TypeOK
<1>a. ASSUME UNCHANGED sweep PROVE Good
      BY <1>0, <1>a DEF IInv, FoundInv
<1>b. ASSUME sweep' = Resting PROVE Good
      BY <1>b DEF Resting, FoundInv
<1>c. ASSUME NEW c, Proceed(c) PROVE Good
      BY <1>0, <1>c DEF Proceed, FoundInv
<1>1. ASSUME NEW k \in Issue, Outside(k) \/ Age(k) PROVE UNCHANGED sweep
      BY <1>1 DEF Outside, Deliver, Retry, Disappear, CliCleanup, Prune, Age, Sweeps
<1>2. ASSUME NEW k \in Issue, RunStep(k) PROVE UNCHANGED sweep
  <2>1. ASSUME Finish(k) \/ Skip(k) \/ RetryLater(k) PROVE UNCHANGED sweep
        BY <2>1 DEF Finish, Skip, RetryLater, Ends, Sweeps
  <2>2. ASSUME NEW e, NEW x, Fail(k, e, x) PROVE UNCHANGED sweep
        BY <2>2 DEF Fail, Ends, Sweeps
  <2>3. ASSUME TearDown(k) \/ Register(k) \/ Resume(k) \/ CheckOut(k) PROVE UNCHANGED sweep
        BY <2>3 DEF TearDown, Register, Resume, CheckOut, Goes, Sweeps
  <2>4. ASSUME Claim(k) \/ Advance(k) \/ Abort(k) \/ CleanUp(k) PROVE UNCHANGED sweep
        BY <2>4 DEF Claim, Advance, Abort, CleanUp, Goes, Sweeps
  <2> QED BY <1>2, <2>1, <2>2, <2>3, <2>4 DEF RunStep
<1>3. ASSUME ListStranded PROVE Good
  <2>1. PICK keys \in Candidates :
            sweep' = [Resting EXCEPT !.todo = {[key |-> k, spent |-> Spent(k)] : k \in keys}]
        BY <1>3 DEF ListStranded
  <2>2. keys \subseteq Issue
        BY DEF Candidates, Oldest
  <2>3. {[key |-> k, spent |-> Spent(k)] : k \in keys} \subseteq Candidate
    <3>1. \A k \in keys : Spent(k) \in Nat
          BY <1>0, <2>2, SpentIsNat, Zenon
    <3> QED BY <2>2, <3>1 DEF Candidate
  <2> QED BY <2>1, <2>3 DEF Resting, FoundInv
<1>4. ASSUME NEW c \in sweep.todo, SweepAbandons(c) PROVE Good
      BY <1>c, <1>4 DEF SweepAbandons
<1>5. ASSUME NEW c \in sweep.todo, SweepLooks(c) PROVE Good
  <2>1. c \in Candidate /\ c.key \in Issue /\ c.spent \in Nat /\ c.spent < Cap
    <3>1. c \in Candidate
          BY <1>0
    <3>2. c.key \in Issue /\ c.spent \in Nat
          BY <3>1 DEF Candidate
    <3> QED BY <1>5, <3>1, <3>2, LimitsAssumption DEF SweepLooks, Capped
  <2> DEFINE i == Latest(c.key)
             f == [of |-> c, task |-> rows[c.key][i].task]
  <2>2. ASSUME i \in DOMAIN rows[c.key], sweep' = [sweep EXCEPT !.found = {f}] PROVE Good
    <3>1. rows[c.key][i] \in Row
          BY <1>0, <2>1, <2>2, LenProperties
    <3>2. f \in [of : Candidate, task : Task] /\ f.of.spent < Cap
          BY <2>1, <3>1 DEF Row
    <3> HIDE DEF f
    <3> QED BY <1>0, <2>2, <3>2 DEF FoundInv
  <2>3. ASSUME Proceed(c) PROVE Good
        BY <1>c, <2>3
  <2> QED BY <1>5, <2>2, <2>3 DEF SweepLooks
<1>6. ASSUME NEW f \in sweep.found, Requeue(f) PROVE Good
      BY <1>c, <1>6 DEF Requeue
<1>7. ASSUME ReaperStep PROVE Good
      BY <1>7, <1>a DEF ReaperStep, ListAbandoned, FilterActive, Reap, ReapFails, NextIdle
<1>8. ASSUME Restart PROVE Good
      BY <1>8, <1>b DEF Restart
<1>9. ASSUME UNCHANGED vars PROVE Good
      BY <1>9, <1>a DEF vars
<1> HIDE DEF Good
<1>10. Good
      BY <1>a, <1>1, <1>2, <1>3, <1>4, <1>5, <1>6, <1>7, <1>8, <1>9 DEF Next, SweepStep
<1> QED BY <1>10 DEF Good

-----------------------------------------------------------------------------
(* What is left of the sweep's list.                                       *)

\* A set of numbers up to n has a greatest one.
LEMMA Greatest ==
    ASSUME NEW n \in Nat, NEW S \in SUBSET (1 .. n), S # {}
    PROVE  \E m \in S : \A j \in S : j <= m
<1> DEFINE R == {ss \in Nat \X Nat : ss[1] < ss[2]}
           T == {n - j : j \in S}
<1>1. R = OpToRel(<, Nat)
      BY DEF OpToRel
<1>2. IsWellFoundedOn(R, Nat)
      BY <1>1, NatLessThanWellFounded
<1>3. T \subseteq Nat /\ T # {}
  <2>1. \A j \in 1 .. n : n - j \in Nat
        OBVIOUS
  <2>2. \A j \in S : n - j \in Nat
        BY <2>1
  <2> QED BY <2>2
<1> HIDE DEF R, T
<1>4. PICK x \in T : \A y \in T : <<y, x>> \notin R
      BY <1>2, <1>3, WFMin
<1>5. \A y \in T : ~(y < x)
      BY <1>3, <1>4 DEF R
<1>6. PICK m \in S : x = n - m
      BY <1>4 DEF T
<1>7. \A j \in S : n - j \in T
      BY DEF T
<1>8. \A j \in S : ~(n - j < n - m)
      BY <1>5, <1>6, <1>7
<1>9. \A j \in S : j \in Int /\ m \in Int
      OBVIOUS
<1> QED BY <1>8, <1>9

\* Latest finds the last row that is not noise.
LEMMA LatestIs ==
    ASSUME rows \in [Issue -> Seq(Row)], NEW k \in Issue, NEW i \in DOMAIN rows[k],
           rows[k][i].state # "skipped",
           \A j \in DOMAIN rows[k] : j > i => rows[k][j].state = "skipped"
    PROVE  Latest(k) = i
<1> DEFINE real == {j \in DOMAIN rows[k] : rows[k][j].state # "skipped"}
<1>1. DOMAIN rows[k] \subseteq Nat
      BY LenProperties
<1>2. i \in real /\ \A j \in real : j <= i
      BY <1>1
<1>3. \A m \in real : (\A j \in real : j <= m) => m = i
      BY <1>1, <1>2
<1>4. Latest(k) = CHOOSE m \in real : \A j \in real : j <= m
      BY <1>2 DEF Latest
<1> HIDE DEF real
<1> QED BY <1>2, <1>3, <1>4, Zenon

\* What stranded_issues and latest_event_for_issue call the latest event of an
\* issue is the last that is not noise, so their conditions say it has died.
LEMMA DiedIsDead ==
    ASSUME rows \in [Issue -> Seq(Row)], NEW k \in Issue
    PROVE  Died(rows[k]) <=> /\ ~Live(k) /\ Latest(k) \in DOMAIN rows[k]
                             /\ rows[k][Latest(k)].state = "failed"
                             /\ rows[k][Latest(k)].error # "cancelled"
<1>0. DOMAIN rows[k] = 1 .. Len(rows[k]) /\ Len(rows[k]) \in Nat
      BY LenProperties
<1>1. ASSUME Died(rows[k])
      PROVE  /\ ~Live(k) /\ Latest(k) \in DOMAIN rows[k]
             /\ rows[k][Latest(k)].state = "failed"
             /\ rows[k][Latest(k)].error # "cancelled"
  <2>1. PICK i \in DOMAIN rows[k] :
            /\ rows[k][i].state = "failed" /\ rows[k][i].error # "cancelled"
            /\ \A j \in DOMAIN rows[k] : /\ rows[k][j].state \notin {"queued", "running"}
                                         /\ j > i => rows[k][j].state = "skipped"
        BY <1>1 DEF Died
  <2>2. Latest(k) = i
        BY <2>1, LatestIs
  <2> QED BY <2>1, <2>2 DEF Live
<1>2. ASSUME NEW i, i = Latest(k), ~Live(k), i \in DOMAIN rows[k],
             rows[k][i].state = "failed", rows[k][i].error # "cancelled"
      PROVE  Died(rows[k])
  <2> DEFINE real == {j \in DOMAIN rows[k] : rows[k][j].state # "skipped"}
  <2>1. i \in real /\ real \subseteq 1 .. Len(rows[k])
        BY <1>0, <1>2
  <2>2. \E m \in real : \A j \in real : j <= m
        BY <1>0, <2>1, Greatest, Zenon
  <2>3. i = CHOOSE m \in real : \A j \in real : j <= m
        BY <1>2, <2>1 DEF Latest
  <2>4. \A j \in real : j <= i
    <3> HIDE DEF real
    <3> QED BY <2>2, <2>3, Zenon
  <2>5. ASSUME NEW j \in DOMAIN rows[k], j > i PROVE rows[k][j].state = "skipped"
        BY <1>0, <1>2, <2>4, <2>5
  <2>6. \A j \in DOMAIN rows[k] : rows[k][j].state \notin {"queued", "running"}
        BY <1>2 DEF Live
  <2> QED BY <1>2, <2>5, <2>6 DEF Died
<1> QED BY <1>1, <1>2

\* Noise that ages out leaves the dead dead.
LEMMA PruneKeepsDied ==
    ASSUME rows \in [Issue -> Seq(Row)], NEW k \in Issue, Prune(k), Died(rows[k])
    PROVE  Died(rows'[k])
<1>1. PICK i \in DOMAIN rows[k] :
          rows[k][i].state = "skipped" /\ rows' = [rows EXCEPT ![k] = RemoveAt(@, i)]
      BY DEF Prune
<1> DEFINE old(j) == IF j < i THEN j ELSE j + 1
<1>2. /\ DOMAIN rows[k] = 1 .. Len(rows[k]) /\ Len(rows[k]) \in Nat
      /\ DOMAIN rows'[k] = 1 .. Len(rows[k]) - 1
      /\ \A j \in DOMAIN rows'[k] : rows'[k][j] = rows[k][old(j)]
      BY <1>1, RemoveAtKeeps
<1>3. PICK m \in DOMAIN rows[k] :
          /\ rows[k][m].state = "failed" /\ rows[k][m].error # "cancelled"
          /\ \A j \in DOMAIN rows[k] : /\ rows[k][j].state \notin {"queued", "running"}
                                       /\ j > m => rows[k][j].state = "skipped"
      BY DEF Died
<1> DEFINE n == IF m < i THEN m ELSE m - 1
<1>4. n \in DOMAIN rows'[k] /\ old(n) = m
  <2>1. m # i
        BY <1>1, <1>3
  <2> QED BY <1>1, <1>2, <1>3, <2>1
<1>5. \A j \in DOMAIN rows'[k] : old(j) \in DOMAIN rows[k] /\ (j > n => old(j) > m)
      BY <1>1, <1>2, <1>3
<1> HIDE DEF old, n
<1>6. rows'[k][n].state = "failed" /\ rows'[k][n].error # "cancelled"
      BY <1>2, <1>3, <1>4
<1>7. \A j \in DOMAIN rows'[k] : /\ rows'[k][j].state \notin {"queued", "running"}
                                 /\ j > n => rows'[k][j].state = "skipped"
      BY <1>2, <1>3, <1>5
<1> QED BY <1>4, <1>6, <1>7 DEF Died

\* Nor does the age of a row count.
LEMMA AgeKeepsDied ==
    ASSUME rows \in [Issue -> Seq(Row)], NEW k \in Issue, Age(k), Died(rows[k])
    PROVE  Died(rows'[k])
<1> DEFINE i == Latest(k)
<1>1. i \in DOMAIN rows[k] /\ rows' = [rows EXCEPT ![k][i].recent = FALSE]
      BY DEF Age, Orphan, DiedFor
<1> HIDE DEF i
<1>2. \A j \in DOMAIN rows[k] : rows[k][j] \in Row
      BY LenProperties
<1>3. DOMAIN rows'[k] = DOMAIN rows[k]
      BY <1>1
<1>4. \A j \in DOMAIN rows[k] :
          rows'[k][j].state = rows[k][j].state /\ rows'[k][j].error = rows[k][j].error
      BY <1>1, <1>2 DEF Row
<1> QED BY <1>3, <1>4 DEF Died

\* Something happens to one issue, and to no other.
LEMMA MovedKeepsTodo ==
    ASSUME TypeOK, TodoInv, NEW k \in Issue, Moves(k), UNCHANGED sweep,
           \A l \in Issue \ {k} : rows'[l] = rows[l]
    PROVE  TodoInv'
<1>1. ASSUME NEW c \in sweep.todo PROVE c.key \in moved' \/ Died(rows'[c.key])
  <2>1. c.key \in Issue /\ (c.key \in moved \/ Died(rows[c.key]))
        BY DEF TypeOK, Candidate, TodoInv
  <2> QED BY <2>1 DEF Moves
<1> QED BY <1>1 DEF TodoInv

\* Nothing happens that counts.
LEMMA QuietKeepsTodo ==
    ASSUME TypeOK, TodoInv, UNCHANGED moved, sweep'.todo \subseteq sweep.todo,
           sweep'.found = {} \/ (sweep'.todo = sweep.todo /\ \A f \in sweep'.found : f.of \in sweep.todo),
           \A c \in sweep'.todo : Died(rows[c.key]) => Died(rows'[c.key])
    PROVE  TodoInv'
BY DEF TodoInv

\* Every step keeps what is left of the list dead or moved.
LEMMA TodoStep ==
    ASSUME IInv, [Next]_vars
    PROVE  TodoInv'
<1>0. TypeOK /\ TodoInv /\ rows \in [Issue -> Seq(Row)] /\ (\A c \in sweep.todo : c.key \in Issue)
      BY DEF IInv, TypeOK, Candidate
<1>a. ASSUME UNCHANGED <<rows, sweep, moved>> PROVE TodoInv'
      BY <1>0, <1>a DEF TodoInv
<1>b. ASSUME sweep' = Resting PROVE TodoInv'
      BY <1>b DEF Resting, TodoInv
<1>c. ASSUME NEW k \in Issue, NEW s, NEW e, NEW x, Ends(k, s, e, x) PROVE TodoInv'
  <2>1. Moves(k) /\ UNCHANGED sweep /\ \A l \in Issue \ {k} : rows'[l] = rows[l]
        BY <1>0, <1>c DEF Ends, Sweeps, MarkRow
  <2> QED BY <1>0, <2>1, MovedKeepsTodo
<1>d. ASSUME NEW k \in Issue, NEW p, NEW q, Goes(k, p, q) PROVE TodoInv'
  <2>1. Moves(k) /\ UNCHANGED sweep /\ UNCHANGED rows
        BY <1>d DEF Goes, Sweeps
  <2> QED BY <1>0, <2>1, MovedKeepsTodo
<1>1. ASSUME NEW k \in Issue, Outside(k) \/ Age(k) PROVE TodoInv'
  <2>1. ASSUME \/ \E t \in Task, s \in {"queued", "skipped"} : Deliver(k, t, s)
               \/ Retry(k) \/ Disappear(k) \/ CliCleanup(k)
        PROVE  TodoInv'
    <3>1. Moves(k) /\ UNCHANGED sweep
          BY <2>1 DEF Deliver, Retry, Disappear, CliCleanup, Sweeps
    <3>2. \A l \in Issue \ {k} : rows'[l] = rows[l]
          BY <1>0, <2>1 DEF Deliver, Store, Retry, Disappear, CliCleanup
    <3> QED BY <1>0, <3>1, <3>2, MovedKeepsTodo
  <2>2. ASSUME Prune(k) \/ Age(k) PROVE TodoInv'
    <3>1. UNCHANGED <<moved, sweep>> /\ \A l \in Issue \ {k} : rows'[l] = rows[l]
          BY <1>0, <2>2 DEF Prune, Age, Sweeps
    <3>2. \A l \in Issue : Died(rows[l]) => Died(rows'[l])
          BY <1>0, <2>2, <3>1, PruneKeepsDied, AgeKeepsDied
    <3>3. \A f \in sweep.found : f.of \in sweep.todo
          BY <1>0 DEF TodoInv
    <3> QED BY <1>0, <3>1, <3>2, <3>3, QuietKeepsTodo
  <2> QED BY <1>1, <2>1, <2>2 DEF Outside
<1>2. ASSUME NEW k \in Issue, RunStep(k) PROVE TodoInv'
  <2>1. ASSUME Claim(k) PROVE TodoInv'
    <3>1. Moves(k) /\ UNCHANGED sweep /\ \A l \in Issue \ {k} : rows'[l] = rows[l]
          BY <1>0, <2>1 DEF Claim, Sweeps
    <3> QED BY <1>0, <3>1, MovedKeepsTodo
  <2>2. ASSUME \/ TearDown(k) \/ Register(k) \/ Resume(k) \/ CheckOut(k)
               \/ Advance(k) \/ Abort(k) \/ CleanUp(k)
        PROVE  TodoInv'
        BY <2>2, <1>d DEF TearDown, Register, Resume, CheckOut, Advance, Abort, CleanUp
  <2>3. ASSUME Finish(k) \/ Skip(k) \/ RetryLater(k) PROVE TodoInv'
        BY <2>3, <1>c DEF Finish, Skip, RetryLater
  <2>4. ASSUME NEW e, NEW x, Fail(k, e, x) PROVE TodoInv'
        BY <2>4, <1>c DEF Fail
  <2> QED BY <1>2, <2>1, <2>2, <2>3, <2>4 DEF RunStep
<1>3. ASSUME ListStranded PROVE TodoInv'
  <2>1. PICK keys \in Candidates :
            sweep' = [Resting EXCEPT !.todo = {[key |-> k, spent |-> Spent(k)] : k \in keys}]
        BY <1>3 DEF ListStranded
  <2>2. UNCHANGED rows /\ sweep'.found = {}
        BY <1>3, <2>1 DEF ListStranded, database, Resting
  <2>3. \A k \in keys : k \in Issue /\ DiedFor(k)
        BY DEF Candidates, Oldest, StrandedInFlight, Orphan
  <2>4. \A k \in keys : Died(rows[k])
        BY <1>0, <2>3, DiedIsDead DEF DiedFor
  <2>5. sweep'.todo = {[key |-> k, spent |-> Spent(k)] : k \in keys}
        BY <2>1 DEF Resting
  <2>6. \A c \in sweep'.todo : c.key \in keys /\ c = [key |-> c.key, spent |-> Spent(c.key)]
        BY <2>5
  <2> QED BY <2>2, <2>4, <2>6 DEF TodoInv
<1>4. ASSUME NEW c \in sweep.todo, SweepAbandons(c) PROVE TodoInv'
  <2>1. UNCHANGED <<rows, moved>> /\ Proceed(c)
        BY <1>4 DEF SweepAbandons
  <2> QED BY <1>0, <2>1, QuietKeepsTodo DEF Proceed
<1>5. ASSUME NEW c \in sweep.todo, SweepLooks(c) PROVE TodoInv'
  <2>1. UNCHANGED <<rows, moved>>
        BY <1>5 DEF SweepLooks, database
  <2>2. CASE Proceed(c)
        BY <1>0, <2>1, <2>2, QuietKeepsTodo DEF Proceed
  <2>3. ASSUME NEW t, sweep' = [sweep EXCEPT !.found = {[of |-> c, task |-> t]}] PROVE TodoInv'
    <3>1. sweep'.todo = sweep.todo /\ sweep'.found = {[of |-> c, task |-> t]}
          BY <1>0, <2>3 DEF TypeOK
    <3> QED BY <1>0, <2>1, <3>1, QuietKeepsTodo
  <2> QED BY <1>5, <2>2, <2>3 DEF SweepLooks
<1>6. ASSUME NEW f \in sweep.found, Requeue(f) PROVE TodoInv'
  <2>1. /\ f.of \in sweep.todo /\ UNCHANGED moved /\ Proceed(f.of)
        /\ \A l \in Issue \ {f.of.key} : rows'[l] = rows[l]
        BY <1>0, <1>6 DEF Requeue, Store, TodoInv
  <2>2. \A c \in sweep'.todo : c \in sweep.todo /\ c # f.of
        BY <2>1 DEF Proceed
  <2>3. \A c \in sweep'.todo : c.key \in Issue \ {f.of.key}
        BY <1>0, <2>1, <2>2 DEF TodoInv
  <2> QED BY <1>0, <2>1, <2>2, <2>3, QuietKeepsTodo DEF Proceed
<1>7. ASSUME ReaperStep PROVE TodoInv'
  <2>1. UNCHANGED <<rows, sweep, moved>>
        BY <1>7 DEF ReaperStep, ListAbandoned, FilterActive, Reap, ReapFails, NextIdle, database
  <2> QED BY <1>a, <2>1
<1>8. ASSUME Restart PROVE TodoInv'
      BY <1>8, <1>b DEF Restart
<1>9. ASSUME UNCHANGED vars PROVE TodoInv'
      BY <1>9, <1>a DEF vars, database
<1> QED BY <1>1, <1>2, <1>3, <1>4, <1>5, <1>6, <1>7, <1>8, <1>9 DEF Next, SweepStep

\* The states of the issues, their order and their worktrees.
LEMMA IssuesKeep ==
    ASSUME TypeOK, [Next]_vars
    PROVE  /\ state' \in [Issue -> IssueState] /\ older' \subseteq Issue \X Issue
           /\ worktree' \in [Issue -> BOOLEAN]
<1> DEFINE Good == state' \in [Issue -> IssueState] /\ older' \subseteq Issue \X Issue
           Tree == worktree' \in [Issue -> BOOLEAN]
<1>0. /\ state \in [Issue -> IssueState] /\ older \subseteq Issue \X Issue
      /\ worktree \in [Issue -> BOOLEAN]
      BY DEF TypeOK
<1>a. ASSUME KeepState PROVE Good
      BY <1>0, <1>a DEF KeepState
<1>b. ASSUME NEW k \in Issue, NEW s \in IssueState, Put(k, s) PROVE Good
      BY <1>0, <1>b DEF Put
<1>c. ASSUME NEW k \in Issue, NEW s \in IssueState, SetState(k, s) PROVE Good
      BY <1>0, <1>b, <1>c DEF SetState
<1>d. ASSUME UNCHANGED worktree PROVE Tree
      BY <1>0, <1>d
<1>e. ASSUME NEW k \in Issue, NEW b \in BOOLEAN, worktree' = [worktree EXCEPT ![k] = b]
      PROVE  Tree
      BY <1>0, <1>e
<1>f. /\ \A k \in Issue : Entry(k) \in IssueState
      /\ {"abandoned", "opened", "needs_info", "reproducing", "closed"} \subseteq IssueState
      BY DEF Entry, IssueState, InFlight, Finalized
<1> HIDE DEF Good, Tree
<1>1. ASSUME NEW k \in Issue, Outside(k) \/ Age(k) PROVE Good /\ Tree
      BY <1>1, <1>a, <1>b, <1>d, <1>e, <1>f
         DEF Outside, Deliver, Retry, Disappear, CliCleanup, Prune, Age
<1>2. ASSUME NEW k \in Issue, RunStep(k) PROVE Good /\ Tree
  <2>1. ASSUME Claim(k) \/ TearDown(k) \/ Resume(k) \/ CleanUp(k) PROVE Good /\ Tree
        BY <2>1, <1>a, <1>d, <1>e DEF Claim, TearDown, Resume, CleanUp
  <2>2. ASSUME Register(k) \/ CheckOut(k) PROVE Good /\ Tree
        BY <2>2, <1>a, <1>b, <1>d, <1>e, <1>f DEF Register, CheckOut
  <2>3. ASSUME Advance(k) \/ Abort(k) PROVE Good /\ Tree
        BY <2>3, <1>c, <1>d, <1>f DEF Advance, Abort
  <2>4. ASSUME Finish(k) PROVE Good /\ Tree
        BY <2>4, <1>a, <1>c, <1>d, <1>f DEF Finish, Ends
  <2>5. ASSUME Skip(k) \/ RetryLater(k) PROVE Good /\ Tree
        BY <2>5, <1>a, <1>d DEF Skip, RetryLater, Ends
  <2>6. ASSUME NEW e, NEW x, Fail(k, e, x) PROVE Good /\ Tree
        BY <2>6, <1>a, <1>d DEF Fail, Ends
  <2> QED BY <1>2, <2>1, <2>2, <2>3, <2>4, <2>5, <2>6 DEF RunStep
<1>3. ASSUME NEW c \in sweep.todo, SweepAbandons(c) PROVE Good /\ Tree
  <2>1. c.key \in Issue
        BY DEF TypeOK, Candidate
  <2> QED BY <1>3, <2>1, <1>c, <1>d, <1>f DEF SweepAbandons, Takes, Runs
<1>4. ASSUME \/ ListStranded \/ ListAbandoned \/ FilterActive
             \/ \E c \in sweep.todo : SweepLooks(c)
             \/ \E f \in sweep.found : Requeue(f)
      PROVE  Good /\ Tree
      BY <1>4, <1>a, <1>d DEF ListStranded, ListAbandoned, FilterActive, SweepLooks, Requeue,
                              Takes, Runs, database, KeepState
<1>5. ASSUME NEW k \in reaper.todo, Reap(k) \/ ReapFails(k) PROVE Good /\ Tree
  <2>1. k \in Issue
        BY DEF TypeOK
  <2> QED BY <1>5, <2>1, <1>a, <1>d, <1>e DEF Reap, ReapFails, NextIdle, database, KeepState
<1>6. ASSUME Restart PROVE Good /\ Tree
      BY <1>6, <1>a, <1>d DEF Restart
<1>7. ASSUME UNCHANGED vars PROVE Good /\ Tree
      BY <1>7, <1>a, <1>d DEF vars, database, KeepState
<1>8. Good /\ Tree
      BY <1>1, <1>2, <1>3, <1>4, <1>5, <1>6, <1>7 DEF Next, SweepStep, ReaperStep
<1> QED BY <1>8 DEF Good, Tree

\* Where the handlers are, the reaper's list, and the history.
LEMMA ProcessKeeps ==
    ASSUME TypeOK, [Next]_vars
    PROVE  /\ run' \in [Issue -> Phase] /\ moved' \subseteq Issue
           /\ reaper' \in [todo : SUBSET Issue, filtered : BOOLEAN]
           /\ exits' \in 0 .. MaxExits
<1> DEFINE Good == run' \in [Issue -> Phase] /\ moved' \subseteq Issue
           Rest == /\ reaper' \in [todo : SUBSET Issue, filtered : BOOLEAN]
                   /\ exits' \in 0 .. MaxExits
<1>0. /\ run \in [Issue -> Phase] /\ moved \subseteq Issue
      /\ reaper \in [todo : SUBSET Issue, filtered : BOOLEAN] /\ exits \in 0 .. MaxExits
      BY DEF TypeOK
<1>a. ASSUME NEW k \in Issue, Moves(k) PROVE moved' \subseteq Issue
      BY <1>0, <1>a DEF Moves
<1>b. ASSUME Sweeps PROVE Rest
      BY <1>0, <1>b DEF Sweeps
<1>c. ASSUME NEW k \in Issue, NEW p, NEW q \in Phase, Goes(k, p, q) PROVE Good /\ Rest
      BY <1>0, <1>a, <1>b, <1>c DEF Goes
<1>d. ASSUME NEW k \in Issue, NEW s, NEW e, NEW x, Ends(k, s, e, x) PROVE Good /\ Rest
      BY <1>0, <1>a, <1>b, <1>d DEF Ends, Phase
<1>e. ASSUME UNCHANGED <<run, moved>> PROVE Good
      BY <1>0, <1>e
<1>f. ASSUME UNCHANGED <<reaper, exits>> PROVE Rest
      BY <1>0, <1>f
<1>g. ASSUME UNCHANGED run, moved' \subseteq Issue PROVE Good
      BY <1>0, <1>g
<1> HIDE DEF Rest
<1>1. ASSUME NEW k \in Issue, Outside(k) \/ Age(k) PROVE Good /\ Rest
  <2> HIDE DEF Good
  <2> QED BY <1>1, <1>a, <1>b, <1>e, <1>g
             DEF Outside, Deliver, Retry, Disappear, CliCleanup, Prune, Age
<1>2. ASSUME NEW k \in Issue, RunStep(k) PROVE Good /\ Rest
  <2>1. ASSUME Claim(k) PROVE Good /\ Rest
        BY <2>1, <1>0, <1>a, <1>b DEF Claim, Phase
  <2> HIDE DEF Good
  <2>2. ASSUME \/ TearDown(k) \/ Register(k) \/ Resume(k) \/ CheckOut(k)
               \/ Advance(k) \/ Abort(k) \/ CleanUp(k)
        PROVE  Good /\ Rest
    <3>1. {"torn down", "registered", "resuming", "agent", "aborted", "cleaned"} \subseteq Phase
          BY DEF Phase
    <3> QED BY <2>2, <3>1, <1>c
            DEF TearDown, Register, Resume, CheckOut, Advance, Abort, CleanUp
  <2>3. ASSUME Finish(k) \/ Skip(k) \/ RetryLater(k) PROVE Good /\ Rest
        BY <2>3, <1>d DEF Finish, Skip, RetryLater
  <2>4. ASSUME NEW e, NEW x, Fail(k, e, x) PROVE Good /\ Rest
        BY <2>4, <1>d DEF Fail
  <2> QED BY <1>2, <2>1, <2>2, <2>3, <2>4 DEF RunStep
<1>3. ASSUME ListStranded PROVE Good /\ Rest
      BY <1>3, <1>f, <1>g DEF ListStranded, Runs
<1>4. ASSUME \/ \E c \in sweep.todo : SweepAbandons(c) \/ SweepLooks(c)
             \/ \E f \in sweep.found : Requeue(f)
      PROVE  Good /\ Rest
      BY <1>4, <1>e, <1>f DEF SweepAbandons, SweepLooks, Requeue, Takes, Runs
<1>5. ASSUME ReaperStep PROVE Good /\ Rest
  <2>1. Good
        BY <1>5, <1>e DEF ReaperStep, ListAbandoned, FilterActive, Reap, ReapFails, NextIdle, Runs
  <2>2. exits' = exits
        BY <1>5 DEF ReaperStep, ListAbandoned, FilterActive, Reap, ReapFails, NextIdle, Runs
  <2>3. ASSUME ListAbandoned PROVE Rest
        BY <1>0, <2>2, <2>3 DEF ListAbandoned, Asleep, Oldest, Rest
  <2>4. ASSUME FilterActive PROVE Rest
        BY <1>0, <2>2, <2>4 DEF FilterActive, Rest
  <2>5. ASSUME NEW k \in reaper.todo, Reap(k) \/ ReapFails(k) PROVE Rest
    <3>1. reaper' = [todo |-> reaper.todo \ {k}, filtered |-> reaper.todo # {k}]
          BY <2>5 DEF Reap, ReapFails, NextIdle
    <3>2. (reaper.todo # {k}) \in BOOLEAN /\ reaper.todo \ {k} \in SUBSET Issue
          BY <1>0
    <3>3. reaper' \in [todo : SUBSET Issue, filtered : BOOLEAN]
          BY <3>1, <3>2, Zenon
    <3> QED BY <1>0, <2>2, <3>3 DEF Rest
  <2> HIDE DEF Good
  <2> QED BY <1>5, <2>1, <2>3, <2>4, <2>5 DEF ReaperStep
<1>6. ASSUME Restart PROVE Good /\ Rest
  <2>1. Good
        BY <1>0, <1>6 DEF Restart, Phase
  <2>2. Rest
        BY <1>0, <1>6, LimitsAssumption DEF Restart, Asleep, Rest
  <2> QED BY <2>1, <2>2
<1>7. ASSUME UNCHANGED vars PROVE Good /\ Rest
      BY <1>7, <1>e, <1>f DEF vars
<1> HIDE DEF Good
<1>8. Good /\ Rest
      BY <1>1, <1>2, <1>3, <1>4, <1>5, <1>6, <1>7 DEF Next, SweepStep
<1> QED BY <1>8 DEF Good, Rest

\* The invariant is inductive.
LEMMA Invariance == Spec => []IInv
<1>1. IInv /\ [Next]_vars => IInv'
  <2> SUFFICES ASSUME IInv, [Next]_vars PROVE IInv'
      OBVIOUS
  <2>1. TypeOK
        BY DEF IInv
  <2>2. TypeOK'
        BY <2>1, TableStep, SweepStepKeeps, IssuesKeep, ProcessKeeps DEF TypeOK
  <2> QED BY <2>2, TableStep, SweepStepKeeps, TodoStep DEF IInv
<1> QED BY InitInv, <1>1, PTL DEF Spec

-----------------------------------------------------------------------------
\* The tables and the two sweeps keep their types.
THEOREM TypeCorrect == Spec => []TypeOK
<1>1. IInv => TypeOK
      BY DEF IInv
<1> QED BY Invariance, <1>1, PTL

\* An issue is redispatched at most redispatch_max_per_issue times in all, each
\* time under a delivery id of its own: distinct ids out of 1..Cap.
THEOREM RedispatchesBounded == Spec => []RedispatchBounded
<1>1. ASSUME IInv, NEW k \in Issue PROVE Spent(k) <= Cap
  <2> DEFINE D == {i \in DOMAIN rows[k] : rows[k][i].id > 0}
             f == [i \in D |-> rows[k][i].id]
  <2>1. rows[k] \in Seq(Row) /\ Cap \in Nat
        BY <1>1, LimitsAssumption DEF IInv, TypeOK
  <2>2. \A i \in D : rows[k][i].id \in 1 .. Cap
        BY <1>1, <2>1 DEF IInv, IdsInv
  <2>3. \A i, j \in D : rows[k][i].id = rows[k][j].id => i = j
        BY <1>1 DEF IInv, IdsInv
  <2>4. f \in Injection(D, 1 .. Cap)
        BY <2>2, <2>3 DEF Injection, IsInjective
  <2>5. IsFiniteSet(1 .. Cap) /\ Cardinality(1 .. Cap) = Cap
        BY <2>1, FS_Interval
  <2> HIDE DEF D, f
  <2>6. Cardinality(D) <= Cap
        BY <2>4, <2>5, FS_Injection
  <2> QED BY <2>6 DEF Spent, D
<1>2. IInv => RedispatchBounded
      BY <1>1 DEF RedispatchBounded, IInv, IdsInv
<1> QED BY Invariance, <1>2, PTL

\* The sweep abandons or re-queues an issue only when nothing of it is queued
\* or running and nobody stopped its last run, or when something happened to it
\* since the sweep's query: what the query found is still so.
THEOREM SweepsAreOfStranded == Spec => SweepActsOnStranded
<1> DEFINE Due(k) == \/ k \in moved
                     \/ /\ ~Live(k)
                        /\ rows[k][Latest(k)].state = "failed"
                        /\ rows[k][Latest(k)].error # "cancelled"
           Acts(k) == \/ Spent(k)' > Spent(k)
                      \/ state'[k] # state[k] /\ \E c \in sweep.todo : SweepAbandons(c)
<1>1. ASSUME IInv, NEW c \in sweep.todo PROVE c.key \in Issue /\ Due(c.key)
  <2>1. c.key \in Issue /\ rows \in [Issue -> Seq(Row)]
        BY <1>1 DEF IInv, TypeOK, Candidate
  <2>2. c.key \in moved \/ Died(rows[c.key])
        BY <1>1 DEF IInv, TodoInv
  <2> QED BY <2>1, <2>2, DiedIsDead
<1>2. ASSUME IInv, [Next]_vars, NEW k \in Issue, Acts(k) PROVE Due(k)
  <2> HIDE DEF Due
  <2>1. ASSUME NEW c \in sweep.todo, SweepAbandons(c), state'[k] # state[k] PROVE Due(k)
    <3>1. SetState(c.key, "abandoned") /\ state \in [Issue -> IssueState]
          BY <1>2, <2>1 DEF SweepAbandons, IInv, TypeOK
    <3>2. k = c.key
          BY <2>1, <3>1 DEF SetState, Put
    <3> QED BY <1>1, <1>2, <3>2
  <2>2. ASSUME Spent(k)' > Spent(k) PROVE Due(k)
    <3>1. rows \in [Issue -> Seq(Row)] /\ rows' \in [Issue -> Seq(Row)]
          BY <1>2, TableStep DEF IInv, TypeOK
    <3>2. ~(Spent(k)' <= Spent(k))
      <4>1. Spent(k) \in Nat /\ Spent(k)' \in Nat
            BY <3>1, SpentIsNat, SpentPrimed
      <4>2. \A m, n \in Nat : m > n => ~(m <= n)
            OBVIOUS
      <4> QED BY <2>2, <4>1, <4>2, Zenon
    <3>3. PICK f \in sweep.found : Requeue(f)
          BY <1>2, <3>2, TableStep DEF NoneAdded
    <3>4. f.of \in sweep.todo
          BY <1>2 DEF IInv, TodoInv
    <3>5. k = f.of.key
      <4> SUFFICES ASSUME k # f.of.key PROVE FALSE
          OBVIOUS
      <4>1. rows'[k] = rows[k]
            BY <3>1, <3>3 DEF Requeue, Store
      <4> QED BY <3>1, <3>2, <4>1, SameSpent
    <3> QED BY <1>1, <1>2, <3>4, <3>5
  <2> QED BY <1>2, <2>1, <2>2
<1>3. IInv /\ [Next]_vars => [\A k \in Issue : Acts(k) => Due(k)]_vars
      BY <1>2
<1> QED BY Invariance, <1>3, PTL DEF Spec, SweepActsOnStranded
=============================================================================

--------------------------- MODULE AuthorityProofs ---------------------------
(* That a run is confined to the piece of work its trigger belongs to, and is *)
(* never refused its own push, for any numbers of issues, pull requests,      *)
(* people and events.  The invariant says that whatever the orchestrator      *)
(* stores (rows, checkouts, queued events, runs, tokens) belongs to one piece *)
(* of work each, that of the number it is stored under.                       *)
EXTENDS Authority, TLAPS

-----------------------------------------------------------------------------
(* The invariant *)

\* The threads GitHub has.
Live == Issue \cup PersonPr \cup Opened

\* A branch number n may be on: its work's.  A person's branch goes with the
\* person's own pull request, and the branch for a person's pull request was
\* never renamed.
Of(n, b) ==
    b \in Branch =>
        /\ WorkOnBranch(b) = WorkOf(n)
        /\ b \notin Owned => n = b[2]
        /\ b[1] \in PersonPr => b[2] = 1

\* Of the same work as n.
Kin(n, m) == m \in Live /\ WorkOf(m) = WorkOf(n)

HasRow(n) == rows[n] # None
BranchAt(n) == rows[n].branch
PrAt(n) == rows[n].pr
RowOK(n) ==
    HasRow(n) => \A b \in {BranchAt(n)}, p \in {PrAt(n)} :
        /\ n \in Live
        /\ Of(n, b)
        /\ p # None => Kin(n, p)
        /\ p \in PersonPr => p = n
        /\ n \notin Issue => p # None
        /\ b = Review => n \in PersonPr /\ p = n

TreeOK(n) ==
    \A b \in {tree[n]} \ {None} :
        /\ n \in Live
        /\ Of(n, b)
        /\ b = Review => n \in PersonPr

EventOK(e) ==
    /\ e.thread \in Live /\ Kin(e.thread, e.key)
    /\ e.task \in {"triage_issue", "handle_comment"} => e.thread \in Issue
    /\ e.task = "handle_review" => e.thread \in BotPr
    /\ e.task = "handle_pr_conversation" => e.thread \notin Issue
    /\ e.task = "review_pr" => e.thread \in PersonPr /\ e.key = e.thread

\* What a handler has read, and what its run works on.
PlanOK(r) ==
    /\ EventOK(r.event)
    /\ Kin(r.event.thread, r.number)
    /\ Of(r.number, r.plan)
    /\ r.plan = None => r.number \in Issue
    /\ r.plan = Review =>
          r.number \in PersonPr /\ r.event.task \in {"review_pr", "handle_pr_conversation"}
    /\ r.event.task = "review_pr" => r.plan = Review /\ r.fills
    /\ r.fills => r.number = r.event.thread
    /\ ~r.fills => HasRow(r.number)
    /\ r.event.thread \notin Issue => r.pr # None
    /\ r.pr # None => Kin(r.number, r.pr)

TokenOK(r) ==
    r.token # None =>
        /\ HasRow(r.number)
        /\ r.branch \in Branch \cup {Review} /\ Of(r.number, r.branch)
        /\ r.event.task # "review_pr" => r.branch # Review
        /\ r.token.issue = r.number
        /\ r.token.caps = CapabilitiesFor(r.event.task)
        /\ r.event.thread \notin Issue => r.token.pr # None
        /\ r.token.pr # None => Kin(r.number, r.token.pr)
        /\ Of(r.number, r.token.branch)
        /\ r.token.branch = r.branch \/ {r.token.branch, r.branch} \subseteq Owned

\* While a run that may push works on a person's pull request under that
\* number, its row is not a review's.
NotReviewed(k, r) ==
    /\ r.number = k /\ k \in PersonPr /\ r.event.task # "review_pr" /\ HasRow(k)
    /\ r.token # None \/ r.plan # Review
    => BranchAt(k) # Review

RunOK(k) == \A r \in {runs[k]} \ {None} : PlanOK(r) /\ TokenOK(r) /\ NotReviewed(k, r)

PrOK(q) == prs[q] # None /\ prs[q][1] \in PersonPr => prs[q][2] = 1

IInv ==
    /\ TypeOK
    /\ \A n \in Number : RowOK(n) /\ TreeOK(n) /\ RunOK(n)
    /\ \A e \in queue : EventOK(e)
    /\ \A q \in BotPr : PrOK(q)

-----------------------------------------------------------------------------
(* Lemmas on the operators *)

\* What a branch is: the bot's, for an issue or a person's PR, or a person's.
LEMMA BranchFacts ==
    /\ \A b \in Branch : b = <<b[1], b[2]>>
    /\ \A b \in Owned : b \in Branch /\ b[1] \in Issue \cup PersonPr /\ b[2] \in {1, 2}
    /\ \A b \in Branch : b \notin Owned => b[1] = 0 /\ b[2] \in PersonPr
    /\ \A p \in PersonPr : <<0, p>> \in Branch /\ <<0, p>> \notin Owned
    /\ \A i \in Issue \cup PersonPr, s \in {1, 2} : <<i, s>> \in Owned
    /\ Review \notin Branch /\ Review # None /\ None \notin Branch
BY AuthorityAssumption, NoneAssumption DEF Branch, Owned, Review

\* The kinds of threads are disjoint, and none is 0.
LEMMA NumberFacts ==
    /\ \A n \in Issue : n \in Number /\ n \notin PersonPr /\ n \notin BotPr
    /\ \A n \in PersonPr : n \in Number /\ n \notin Issue /\ n \notin BotPr
    /\ \A n \in BotPr : n \in Number /\ n \notin Issue /\ n \notin PersonPr
    /\ \A n \in Number : n \in Issue \/ n \in PersonPr \/ n \in BotPr
    /\ \A n \in Number : n # 0 /\ n # None
BY AuthorityAssumption, NoneAssumption DEF Number

-----------------------------------------------------------------------------
(* Types *)

\* The record that an upsert leaves.
Merged(n, b, p) ==
    LET old == IF rows[n] = None THEN [branch |-> None, pr |-> None] ELSE rows[n] IN
    [branch |-> IF b = None THEN old.branch ELSE b, pr |-> IF p = None THEN old.pr ELSE p]

\* An upsert writes that record, and keeps the type of the table.
LEMMA UpsertFunction ==
    ASSUME TypeOK, NEW n \in Number, NEW b \in Branch \cup {Review, None},
           NEW p \in Number \cup {None}
    PROVE  Upsert(n, b, p) \in [Number -> Row \cup {None}]
<1>1. rows \in [Number -> Row \cup {None}]
  BY DEF TypeOK
<1>2. Merged(n, b, p) \in Row
  BY <1>1 DEF Merged, Row
<1>3. Upsert(n, b, p) = [rows EXCEPT ![n] = Merged(n, b, p)]
  BY DEF Upsert, Merged
<1> QED BY <1>1, <1>2, <1>3

\* The upserted row keeps what it is not given.
LEMMA UpsertRow ==
    ASSUME TypeOK, NEW n \in Number, NEW b \in Branch \cup {Review, None},
           NEW p \in Number \cup {None}, rows' = Upsert(n, b, p)
    PROVE  /\ HasRow(n)'
           /\ BranchAt(n)' = IF b # None THEN b ELSE IF HasRow(n) THEN BranchAt(n) ELSE None
           /\ PrAt(n)' = IF p # None THEN p ELSE IF HasRow(n) THEN PrAt(n) ELSE None
<1>1. rows \in [Number -> Row \cup {None}]
  BY DEF TypeOK
<1>2. Merged(n, b, p) \in Row
  BY <1>1 DEF Merged, Row
<1>3. Upsert(n, b, p) = [rows EXCEPT ![n] = Merged(n, b, p)]
  BY DEF Upsert, Merged
<1>4. rows'[n] = Merged(n, b, p) /\ Merged(n, b, p) # None
  BY <1>1, <1>2, <1>3, NoneAssumption
<1> QED BY <1>4 DEF Merged, HasRow, BranchAt, PrAt

\* The other rows stay.
LEMMA UpsertOthers ==
    ASSUME TypeOK, NEW n \in Number, NEW b \in Branch \cup {Review, None},
           NEW p \in Number \cup {None}, rows' = Upsert(n, b, p), NEW m \in Number, m # n
    PROVE  HasRow(m)' = HasRow(m) /\ BranchAt(m)' = BranchAt(m) /\ PrAt(m)' = PrAt(m)
<1>1. rows'[m] = rows[m]
  BY DEF TypeOK, Upsert
<1> QED BY <1>1 DEF HasRow, BranchAt, PrAt

\* A handler that starts a run puts it under the event's key, without a token.
LEMMA StartsType ==
    ASSUME TypeOK, NEW e \in Event, NEW n \in Number, NEW plan \in Branch \cup {Review, None},
           NEW fills \in BOOLEAN, Starts(e, n, plan, fills)
    PROVE  /\ runs' \in [Number -> Run \cup {None}]
           /\ \A k \in Number \ {e.key} : runs'[k] = runs[k]
           /\ runs'[e.key] # None
           /\ runs'[e.key] = [event |-> e, number |-> n, fills |-> fills, plan |-> plan,
                              branch |-> None, pr |-> TriggerPr(e), token |-> None]
<1> DEFINE new == [event |-> e, number |-> n, fills |-> fills, plan |-> plan,
                   branch |-> None, pr |-> TriggerPr(e), token |-> None]
<1>1. e.key \in Number /\ TriggerPr(e) \in Number \cup {None}
  BY DEF Event, TriggerPr
<1>2. new \in Run
  BY <1>1 DEF Run
<1>3. new # None
  BY <1>2, NoneAssumption
<1>4. runs' = [runs EXCEPT ![e.key] = new]
  BY DEF Starts
<1>5. runs \in [Number -> Run \cup {None}]
  BY DEF TypeOK
<1> QED
  <2> HIDE DEF new
  <2>1. /\ runs' \in [Number -> Run \cup {None}] /\ runs'[e.key] = new
        /\ \A k \in Number \ {e.key} : runs'[k] = runs[k]
    BY <1>1, <1>2, <1>4, <1>5
  <2> QED BY <1>3, <2>1 DEF new

\* The run of a key, and the parts of it.
LEMMA RunType ==
    ASSUME TypeOK, NEW k \in Number, runs[k] # None
    PROVE  /\ runs[k] \in Run /\ runs[k].event \in Event /\ runs[k].event.key = k
           /\ runs[k].number \in Number /\ runs[k].fills \in BOOLEAN
           /\ runs[k].plan \in Branch \cup {Review, None}
           /\ runs[k].branch \in Branch \cup {Review, None}
           /\ runs[k].pr \in Number \cup {None} /\ runs[k].token \in Token \cup {None}
<1>1. runs[k] \in Run /\ runs[k].event.key = k
  BY DEF TypeOK
<1> QED BY <1>1 DEF Run

\* The row of a number, and the parts of it.
LEMMA RowType ==
    ASSUME TypeOK, NEW n \in Number, HasRow(n)
    PROVE  BranchAt(n) \in Branch \cup {Review, None} /\ PrAt(n) \in Number \cup {None}
<1>1. rows[n] \in Row
  BY DEF TypeOK, HasRow
<1> QED BY <1>1 DEF Row, BranchAt, PrAt

\* The head of a pull request that GitHub has is a branch.
LEMMA HeadType ==
    ASSUME TypeOK, NEW p \in PersonPr \cup Opened
    PROVE  Head(p) \in Branch /\ (p \in Opened => Head(p) = prs[p] /\ prs[p] \in Owned)
BY BranchFacts, NumberFacts DEF Head, Opened, TypeOK

-----------------------------------------------------------------------------
(* Pieces of work *)

\* The branch of a pull request's head belongs to the pull request's work.
LEMMA HeadOf ==
    ASSUME IInv, NEW p \in PersonPr \cup Opened
    PROVE  /\ Head(p) \in Branch /\ WorkOnBranch(Head(p)) = WorkOf(p) /\ Of(p, Head(p))
           /\ Head(p)[1] \in PersonPr => Head(p)[2] = 1
           /\ Head(p) \in Owned <=> p \in Opened
           /\ p \in PersonPr => Head(p)[2] = p /\ p \notin Opened
<1>0. TypeOK /\ p \in Number
  BY NumberFacts DEF IInv, Opened
<1>1. CASE p \in PersonPr
  <2>1. Head(p) = <<0, p>> /\ p \notin Opened /\ <<0, p>> \in Branch /\ <<0, p>> \notin Owned
    BY <1>1, NumberFacts, BranchFacts DEF Head, Opened
  <2>2. 0 \notin PersonPr
    BY NumberFacts
  <2> QED BY <1>1, <2>1, <2>2 DEF WorkOf, WorkOnBranch, Of
<1>2. CASE p \in Opened
  <2>1. Head(p) = prs[p] /\ prs[p] \in Owned /\ p \notin PersonPr /\ p \in BotPr /\ prs[p] # None
    BY <1>0, <1>2, HeadType, NumberFacts DEF Opened
  <2>2. prs[p][1] \in PersonPr => prs[p][2] = 1
    BY <2>1 DEF IInv, PrOK
  <2> QED BY <1>2, <2>1, <2>2, BranchFacts DEF WorkOf, WorkOnBranch, Of
<1> QED BY <1>1, <1>2

\* What an upsert must be for the rows to stay of one piece of work each.
Fits(n, b, p) ==
    /\ n \in Live /\ b \in Branch \cup {Review, None} /\ p \in Number \cup {None}
    /\ Of(n, b)
    /\ p \in PersonPr => p = n
    /\ n \notin Issue => p # None \/ HasRow(n)
    /\ b = Review => n \in PersonPr /\ p = n
    /\ p \notin {None, n} /\ b = None /\ HasRow(n) => BranchAt(n) # Review

\* What a handler must have read for its run to stay within its work.
Sound(e, n, plan, fills) ==
    /\ n \in Number /\ plan \in Branch \cup {Review, None} /\ fills \in BOOLEAN
    /\ Kin(e.thread, n) /\ Of(n, plan)
    /\ plan = None => n \in Issue
    /\ plan = Review => n \in PersonPr /\ e.task \in {"review_pr", "handle_pr_conversation"}
    /\ e.task = "review_pr" => plan = Review /\ fills
    /\ fills => n = e.thread
    /\ ~fills => HasRow(n)'
    /\ n = e.key /\ n \in PersonPr /\ e.task # "review_pr" /\ plan # Review /\ HasRow(n)'
         => BranchAt(n)' # Review

RowsFit ==
    \/ rows' = rows
    \/ \E n, b, p : /\ Fits(n, b, p) /\ (p # None => Kin(n, p)) /\ b # Review
                    /\ rows' = Upsert(n, b, p)
StartsSound(e) ==
    \/ runs' = runs
    \/ \E n, plan, fills : Sound(e, n, plan, fills) /\ Starts(e, n, plan, fills)

\* A handler for an issue's thread stays on that issue.
LEMMA IssueHandlersSound ==
    ASSUME IInv, NEW e \in queue, TriageIssue(e) \/ HandleComment(e)
    PROVE  RowsFit /\ StartsSound(e)
<1> DEFINE t == e.thread
<1>1. TypeOK /\ e \in Event /\ EventOK(e)
  BY DEF IInv, TypeOK
<1>2. t \in Issue /\ t \in Number /\ t \in Live /\ t \notin PersonPr
  BY <1>1, NumberFacts DEF EventOK, TriageIssue, HandleComment, Live
<1>3. Kin(t, t) /\ Of(t, None) /\ None # Review
  BY <1>2, BranchFacts DEF Kin, Of
<1>4. Fits(t, None, None)
  BY <1>2, <1>3, NumberFacts DEF Fits
<1>6. e.task # "review_pr"
  BY DEF TriageIssue, HandleComment
<1>7. CASE rows' = Upsert(t, None, None) /\ Starts(e, t, None, TRUE)
  <2>1. Sound(e, t, None, TRUE)
    BY <1>2, <1>3, <1>6 DEF Sound
  <2> QED BY <1>3, <1>4, <1>7, <2>1 DEF RowsFit, StartsSound
<1>8. CASE rows' = rows /\ runs' = runs
  BY <1>8 DEF RowsFit, StartsSound
<1>9. CASE HasRow(t) /\ rows' = rows /\ Starts(e, t, BranchAt(t), FALSE)
  <2>1. RowOK(t) /\ BranchAt(t) \in Branch \cup {Review, None}
    BY <1>1, <1>2, <1>9, RowType DEF IInv
  <2>2. Of(t, BranchAt(t)) /\ BranchAt(t) # Review
    BY <1>2, <1>9, <2>1 DEF RowOK
  <2>3. HasRow(t)'
    BY <1>9 DEF HasRow
  <2>4. Sound(e, t, BranchAt(t), FALSE)
    BY <1>2, <1>3, <1>6, <2>1, <2>2, <2>3 DEF Sound
  <2> QED BY <1>9, <2>4 DEF RowsFit, StartsSound
<1> QED BY <1>7, <1>8, <1>9 DEF TriageIssue, HandleComment, Skip, HasRow, BranchAt

\* A review stays on the person's pull request, and is noted under its number.
LEMMA ReviewHandlerSound ==
    ASSUME IInv, NEW e \in queue, ReviewPr(e)
    PROVE  RowsFit /\ StartsSound(e)
<1> DEFINE t == e.thread
<1>1. TypeOK /\ e \in Event /\ EventOK(e) /\ e.task = "review_pr"
  BY DEF IInv, TypeOK, ReviewPr
<1>2. t \in PersonPr /\ t \in Number /\ t \in Live /\ t \notin Issue
  BY <1>1, NumberFacts DEF EventOK
<1>3. Kin(t, t) /\ Of(t, None) /\ Of(t, Review) /\ None # Review
  BY <1>2, BranchFacts DEF Kin, Of
<1>4. Fits(t, None, t)
  BY <1>2, <1>3, NumberFacts DEF Fits
<1>5. CASE rows' = rows /\ runs' = runs
  BY <1>5 DEF RowsFit, StartsSound
<1>6. CASE rows' = Upsert(t, None, t) /\ Starts(e, t, Review, TRUE)
  <2>1. Sound(e, t, Review, TRUE)
    BY <1>1, <1>2, <1>3 DEF Sound
  <2> QED BY <1>3, <1>4, <1>6, <2>1 DEF RowsFit, StartsSound
<1> QED BY <1>5, <1>6 DEF ReviewPr, Skip

\* Writing a row's own branch to it changes nothing.
LEMMA UpsertSame ==
    ASSUME TypeOK, NEW n \in Number, HasRow(n), BranchAt(n) # None
    PROVE  Upsert(n, BranchAt(n), None) = rows
<1>1. rows \in [Number -> Row \cup {None}] /\ rows[n] \in Row
  BY DEF TypeOK, HasRow
<1>2. rows[n] = [branch |-> rows[n].branch, pr |-> rows[n].pr]
  BY <1>1 DEF Row
<1>3. Upsert(n, BranchAt(n), None) = [rows EXCEPT ![n] = rows[n]]
  BY <1>2 DEF Upsert, BranchAt, HasRow
<1> QED BY <1>1, <1>3

\* The repair of a pull request's mapping: whichever row it finds, the row and
\* the run stay with the work of the pull request.
LEMMA ResolveRowSound ==
    ASSUME IInv, NEW e \in queue, HandleReview(e) \/ HandlePrConversation(e)
    PROVE  RowsFit /\ StartsSound(e)
<1> DEFINE t == e.thread
<1>1. TypeOK /\ e \in Event /\ EventOK(e) /\ e.task # "review_pr" /\ e.key \in Number
  BY DEF IInv, TypeOK, Event, HandleReview, HandlePrConversation
<1>2. /\ t \in PersonPr \cup Opened /\ t \in Number /\ t \in Live /\ t \notin Issue
      /\ t \in PersonPr => e.task = "handle_pr_conversation"
  <2>1. /\ e.task \in {"handle_review", "handle_pr_conversation"}
        /\ e.task = "handle_review" => t \in BotPr
        /\ e.task = "handle_pr_conversation" => t \notin Issue
        /\ t \in Live /\ t \in Number
    BY <1>1 DEF EventOK, HandleReview, HandlePrConversation, Event
  <2> QED BY <2>1, NumberFacts DEF Live
<1>3. /\ Head(t) \in Branch /\ WorkOnBranch(Head(t)) = WorkOf(t) /\ Of(t, Head(t))
      /\ Head(t)[1] \in PersonPr => Head(t)[2] = 1
      /\ Head(t) \in Owned <=> t \in Opened
      /\ t \in PersonPr => Head(t)[2] = t /\ t \notin Opened
  BY <1>2, HeadOf
<1>4. \A n \in Number : RowOK(n)
  BY DEF IInv
<1>5. \A n : n \in ByPr(t) <=> n \in Number /\ HasRow(n) /\ PrAt(n) = t
  BY DEF ByPr, HasRow, PrAt
<1>6. t # None /\ None # Review /\ Head(t) \notin {None, Review}
  BY <1>2, <1>3, NumberFacts, BranchFacts
<1>7. ASSUME NEW n \in Number, NEW plan, NEW fills, Sound(e, n, plan, fills),
             Continues(e, n, plan, fills)
      PROVE  StartsSound(e)
  BY <1>7 DEF Continues, StartsSound
<1>8. ASSUME NEW n \in ByPr(t),
             rows' = Upsert(n, IF BranchAt(n) = None THEN Head(t) ELSE BranchAt(n), None),
             Continues(e, n, IF BranchAt(n) = None THEN Head(t) ELSE BranchAt(n), FALSE)
      PROVE  RowsFit /\ StartsSound(e)
  <2> DEFINE b == IF BranchAt(n) = None THEN Head(t) ELSE BranchAt(n)
  <2>1. n \in Number /\ HasRow(n) /\ PrAt(n) = t /\ RowOK(n) /\ n \in Live /\ Kin(n, t)
    BY <1>4, <1>5, <1>6, <1>8 DEF RowOK
  <2>2. b \in Branch \cup {Review, None} /\ b # None /\ (t \in PersonPr => n = t)
    BY <1>1, <1>3, <1>6, <2>1, RowType DEF RowOK
  <2>3. Of(n, b)
    <3>1. CASE BranchAt(n) = None
      BY <1>3, <2>1, <2>2, <3>1, BranchFacts DEF Kin, Of
    <3>2. CASE BranchAt(n) # None
      BY <2>1, <3>2 DEF RowOK
    <3> QED BY <3>1, <3>2
  <2>4. b = Review => n \in PersonPr /\ t = n
    BY <1>6, <2>1 DEF RowOK
  <2>5. Kin(t, n)
    BY <2>1 DEF Kin
  <2>6. HasRow(n)' /\ BranchAt(n)' = b
    BY <1>1, <1>8, <2>1, <2>2, UpsertRow
  <2>7. Sound(e, n, b, FALSE)
    BY <1>1, <1>2, <2>1, <2>2, <2>3, <2>4, <2>5, <2>6 DEF Sound
  <2>8. StartsSound(e)
    BY <1>7, <1>8, <2>1, <2>7
  <2>9. RowsFit
    <3>1. CASE BranchAt(n) = None
      <4>1. Fits(n, b, None) /\ b # Review
        BY <1>6, <2>1, <2>2, <2>3, <3>1, NumberFacts DEF Fits
      <4> QED BY <1>8, <4>1 DEF RowsFit
    <3>2. CASE BranchAt(n) # None
      <4>1. rows' = rows
        BY <1>1, <1>8, <2>1, <3>2, UpsertSame
      <4> QED BY <4>1 DEF RowsFit
    <3> QED BY <3>1, <3>2
  <2> QED BY <2>8, <2>9
<1>9. ASSUME NEW n \in ByBranch(Head(t)), rows' = Upsert(n, None, t),
             Continues(e, n, BranchAt(n), FALSE)
      PROVE  RowsFit /\ StartsSound(e)
  <2>1. n \in Number /\ HasRow(n) /\ BranchAt(n) = Head(t) /\ RowOK(n)
    BY <1>4, <1>9 DEF ByBranch, HasRow, BranchAt
  <2>2. n \in Live /\ Of(n, Head(t))
    BY <2>1 DEF RowOK
  <2>3. WorkOf(n) = WorkOf(t) /\ (t \in PersonPr => n = t)
    BY <1>3, <2>2 DEF Of
  <2>4. Kin(n, t) /\ Kin(t, n) /\ Of(n, None)
    BY <1>2, <2>2, <2>3, BranchFacts DEF Kin, Of
  <2>5. Fits(n, None, t)
    BY <1>2, <1>6, <2>1, <2>2, <2>3, <2>4 DEF Fits
  <2>6. HasRow(n)' /\ BranchAt(n)' = Head(t)
    BY <1>1, <1>2, <1>9, <2>1, UpsertRow
  <2>7. Sound(e, n, Head(t), FALSE)
    BY <1>1, <1>2, <1>3, <1>6, <2>1, <2>2, <2>4, <2>6 DEF Sound
  <2> QED BY <1>6, <1>7, <1>9, <2>1, <2>4, <2>5, <2>7 DEF RowsFit
<1>10. ASSUME ByPr(t) = {}, rows' = rows, Continues(e, t, Head(t), TRUE)
       PROVE  RowsFit /\ StartsSound(e)
  <2>1. HasRow(t)' = HasRow(t) /\ BranchAt(t)' = BranchAt(t)
    BY <1>10 DEF HasRow, BranchAt
  <2>2. HasRow(t) => BranchAt(t) # Review
    BY <1>2, <1>4, <1>5, <1>10 DEF RowOK
  <2>3. Kin(t, t)
    BY <1>2 DEF Kin
  <2>4. Sound(e, t, Head(t), TRUE)
    BY <1>1, <1>2, <1>3, <1>6, <2>1, <2>2, <2>3 DEF Sound
  <2> QED BY <1>2, <1>7, <1>10, <2>4 DEF RowsFit
<1>11. ASSUME rows' = rows, runs' = runs
       PROVE  RowsFit /\ StartsSound(e)
  BY <1>11 DEF RowsFit, StartsSound
<1>12. ResolveRow(e)
  BY DEF HandleReview, HandlePrConversation
<1> QED BY <1>8, <1>9, <1>10, <1>11, <1>12 DEF ResolveRow, Skip, BranchAt

\* Every event begins a run that is sound.
LEMMA BeginSound ==
    ASSUME IInv, NEW k \in Number, Begin(k)
    PROVE  \E e \in queue : e.key = k /\ queue' = queue \ {e} /\ RowsFit /\ StartsSound(e)
<1>1. PICK e \in queue : /\ e.key = k /\ queue' = queue \ {e}
                         /\ \/ TriageIssue(e) \/ HandleComment(e) \/ ReviewPr(e)
                            \/ HandleReview(e) \/ HandlePrConversation(e) \/ LabelOnOwnPr(e)
  BY DEF Begin
<1>2. CASE LabelOnOwnPr(e)
  BY <1>1, <1>2 DEF LabelOnOwnPr, Skip, RowsFit, StartsSound
<1> QED BY <1>1, <1>2, IssueHandlersSound, ReviewHandlerSound, ResolveRowSound

-----------------------------------------------------------------------------
(* What a step leaves alone stays as it was: GitHub's pull requests are only *)
(* added to.                                                                 *)

HubStep == prs' = prs \/ \E p \in BotPr \ Opened, b \in Owned : prs' = [prs EXCEPT ![p] = b]

\* The work of a thread that is there does not change.
LEMMA WorkStable ==
    ASSUME TypeOK, HubStep, NEW n \in Live
    PROVE  n \in Live' /\ WorkOf(n)' = WorkOf(n)
<1>1. CASE prs' = prs
  BY <1>1 DEF Live, WorkOf, Opened
<1>2. ASSUME NEW p \in BotPr \ Opened, NEW b \in Owned, prs' = [prs EXCEPT ![p] = b]
      PROVE  n \in Live' /\ WorkOf(n)' = WorkOf(n)
  <2>1. b # None
    BY BranchFacts
  <2>2. \A q \in BotPr : prs'[q] = IF q = p THEN b ELSE prs[q]
    BY <1>2 DEF TypeOK
  <2>3. \A q : q \in Opened' <=> q \in Opened \/ q = p
    BY <2>1, <2>2 DEF Opened
  <2>4. n # p
    BY NumberFacts DEF Live
  <2> QED BY <2>2, <2>3, <2>4 DEF Live, WorkOf, Opened
<1> QED BY <1>1, <1>2 DEF HubStep

\* Nor what branches and threads belong to it.
LEMMA OfStable ==
    ASSUME TypeOK, HubStep, NEW n \in Live, NEW b, Of(n, b)
    PROVE  Of(n, b)'
BY WorkStable DEF Of, WorkOnBranch

\* What is kin of a live number stays its kin when pull requests are only added.
LEMMA KinStable ==
    ASSUME TypeOK, HubStep, NEW n \in Live, NEW m, Kin(n, m)
    PROVE  Kin(n, m)'
BY WorkStable DEF Kin

\* A routed event stays well routed in such a step.
LEMMA EventStable ==
    ASSUME TypeOK, HubStep, NEW e, EventOK(e)
    PROVE  EventOK(e)'
<1>1. e.thread \in Live /\ Kin(e.thread, e.key)
  BY DEF EventOK
<1>2. e.thread \in Live' /\ Kin(e.thread, e.key)'
  BY <1>1, WorkStable, KinStable
<1> QED BY <1>2 DEF EventOK

SameRow(n) ==
    HasRow(n)' = HasRow(n) /\ BranchAt(n)' = BranchAt(n) /\ PrAt(n)' = PrAt(n)

\* A row such a step leaves alone still names work of its own number.
LEMMA RowStable ==
    ASSUME TypeOK, HubStep, NEW n \in Number, RowOK(n), SameRow(n)
    PROVE  RowOK(n)'
<1> SUFFICES ASSUME HasRow(n)', NEW b \in {BranchAt(n)'}, NEW p \in {PrAt(n)'}
             PROVE  /\ n \in Live' /\ Of(n, b)' /\ (p # None => Kin(n, p)')
                    /\ p \in PersonPr => p = n
                    /\ n \notin Issue => p # None
                    /\ b = Review => n \in PersonPr /\ p = n
  BY DEF RowOK
<1>1. /\ n \in Live /\ Of(n, b) /\ (p # None => Kin(n, p))
      /\ p \in PersonPr => p = n
      /\ n \notin Issue => p # None
      /\ b = Review => n \in PersonPr /\ p = n
  BY DEF RowOK, SameRow
<1> QED BY <1>1, WorkStable, OfStable, KinStable

\* A worktree such a step leaves alone still holds work of its own number.
LEMMA TreeStable ==
    ASSUME TypeOK, HubStep, NEW n \in Number, TreeOK(n), tree'[n] = tree[n]
    PROVE  TreeOK(n)'
<1> SUFFICES ASSUME NEW b \in {tree[n]} \ {None}
             PROVE  n \in Live' /\ Of(n, b)' /\ (b = Review => n \in PersonPr)
  BY DEF TreeOK
<1>1. n \in Live /\ Of(n, b) /\ (b = Review => n \in PersonPr)
  BY DEF TreeOK
<1> QED BY <1>1, WorkStable, OfStable

\* A run whose rows are not dropped, nor its own one set to a review's, is
\* still sound.
LEMMA PlanStable ==
    ASSUME TypeOK, HubStep, NEW r \in Run, PlanOK(r),
           HasRow(r.number) => HasRow(r.number)'
    PROVE  PlanOK(r)'
<1>1. r.number \in Live /\ r.event.thread \in Live
  BY DEF PlanOK, EventOK, Kin
<1>2. EventOK(r.event)' /\ Kin(r.event.thread, r.number)' /\ Of(r.number, r.plan)'
      /\ (r.pr # None => Kin(r.number, r.pr)')
  BY <1>1, EventStable, KinStable, OfStable DEF PlanOK
<1> QED BY <1>2 DEF PlanOK

\* A token reaches in the next state what it reached before.
LEMMA TokenStable ==
    ASSUME TypeOK, HubStep, NEW r \in Run, PlanOK(r), TokenOK(r),
           HasRow(r.number) => HasRow(r.number)'
    PROVE  TokenOK(r)'
<1> SUFFICES ASSUME r.token # None PROVE TokenOK(r)'
  BY DEF TokenOK
<1>1. r.number \in Live
  BY DEF PlanOK, Kin
<1>2. Of(r.number, r.branch)' /\ Of(r.number, r.token.branch)'
      /\ (r.token.pr # None => Kin(r.number, r.token.pr)')
  BY <1>1, KinStable, OfStable DEF TokenOK
<1> QED BY <1>2 DEF TokenOK

\* A run such a step leaves alone stays within its work.
LEMMA RunStable ==
    ASSUME TypeOK, HubStep, NEW k \in Number, RunOK(k), runs'[k] = runs[k],
           \A n \in Number : HasRow(n) => HasRow(n)',
           HasRow(k)' /\ BranchAt(k)' = Review => HasRow(k) /\ BranchAt(k) = Review
    PROVE  RunOK(k)'
<1> SUFFICES ASSUME NEW r \in {runs[k]} \ {None}
             PROVE  PlanOK(r)' /\ TokenOK(r)' /\ NotReviewed(k, r)'
  BY DEF RunOK
<1>1. r \in Run /\ r.number \in Number /\ PlanOK(r) /\ TokenOK(r) /\ NotReviewed(k, r)
  BY RunType DEF RunOK
<1>2. PlanOK(r)' /\ TokenOK(r)'
  BY <1>1, PlanStable, TokenStable
<1>3. NotReviewed(k, r)'
  BY <1>1 DEF NotReviewed
<1> QED BY <1>2, <1>3

\* An upsert that fits keeps every row to its work, drops none, and makes none a
\* review's but for the sake of one.
LEMMA RowUpserted ==
    ASSUME IInv, HubStep, NEW n \in Number, NEW b, NEW p, Fits(n, b, p), rows' = Upsert(n, b, p),
           p # None => Kin(n, p)'
    PROVE  /\ \A m \in Number : RowOK(m)' /\ (HasRow(m) => HasRow(m)')
           /\ \A m \in Number : HasRow(m)' /\ BranchAt(m)' = Review /\ b # Review
                                  => HasRow(m) /\ BranchAt(m) = Review
           /\ \A m \in Number : m # n => SameRow(m)
           /\ HasRow(n)' /\ (b # None => BranchAt(n)' = b)
<1>1. TypeOK /\ \A m \in Number : RowOK(m)
  BY DEF IInv
<1>2. b \in Branch \cup {Review, None} /\ p \in Number \cup {None} /\ n \in Live /\ None # Review
  BY BranchFacts DEF Fits
<1>3. /\ HasRow(n)'
      /\ BranchAt(n)' = IF b # None THEN b ELSE IF HasRow(n) THEN BranchAt(n) ELSE None
      /\ PrAt(n)' = IF p # None THEN p ELSE IF HasRow(n) THEN PrAt(n) ELSE None
  BY <1>1, <1>2, UpsertRow
<1>4. \A m \in Number : m # n => SameRow(m)
  BY <1>1, <1>2, UpsertOthers DEF SameRow
<1>5. RowOK(n)'
  <2> SUFFICES ASSUME NEW bb \in {BranchAt(n)'}, NEW pp \in {PrAt(n)'}
               PROVE  /\ n \in Live' /\ Of(n, bb)' /\ (pp # None => Kin(n, pp)')
                      /\ pp \in PersonPr => pp = n
                      /\ n \notin Issue => pp # None
                      /\ bb = Review => n \in PersonPr /\ pp = n
    BY DEF RowOK
  <2>1. Of(n, None) /\ Of(n, b) /\ (HasRow(n) => Of(n, BranchAt(n)))
    BY <1>1, BranchFacts DEF Of, RowOK, Fits
  <2>2. n \in Live' /\ Of(n, bb)'
    BY <1>1, <1>2, <1>3, <2>1, OfStable, WorkStable
  <2>3. HasRow(n) => /\ PrAt(n) # None => Kin(n, PrAt(n))
                     /\ PrAt(n) \in PersonPr => PrAt(n) = n
                     /\ n \notin Issue => PrAt(n) # None
                     /\ BranchAt(n) = Review => n \in PersonPr /\ PrAt(n) = n
    BY <1>1 DEF RowOK
  <2>4. None \notin PersonPr
    BY NumberFacts
  <2>5. pp # None => Kin(n, pp)'
    BY <1>1, <1>2, <1>3, <2>3, KinStable
  <2>6. /\ pp \in PersonPr => pp = n
        /\ n \notin Issue => pp # None
        /\ bb = Review => n \in PersonPr /\ pp = n
    BY <1>2, <1>3, <2>3, <2>4 DEF Fits
  <2> QED BY <2>2, <2>5, <2>6
<1>6. \A m \in Number : RowOK(m)'
  BY <1>1, <1>4, <1>5, RowStable
<1>7. \A m \in Number : HasRow(m) => HasRow(m)'
  BY <1>3, <1>4 DEF SameRow
<1>8. \A m \in Number : HasRow(m)' /\ BranchAt(m)' = Review /\ b # Review
                          => HasRow(m) /\ BranchAt(m) = Review
  BY <1>2, <1>3, <1>4 DEF SameRow
<1> QED BY <1>3, <1>4, <1>6, <1>7, <1>8

\* Nor does what a handler does to the rows.
LEMMA RowsFitStable ==
    ASSUME IInv, HubStep, RowsFit
    PROVE  /\ \A m \in Number : RowOK(m)' /\ (HasRow(m) => HasRow(m)')
           /\ \A m \in Number : HasRow(m)' /\ BranchAt(m)' = Review
                                  => HasRow(m) /\ BranchAt(m) = Review
<1>1. TypeOK /\ \A m \in Number : RowOK(m)
  BY DEF IInv
<1>2. CASE rows' = rows
  <2>1. \A m \in Number : SameRow(m)
    BY <1>2 DEF SameRow, HasRow, BranchAt, PrAt
  <2> QED BY <1>1, <2>1, RowStable DEF SameRow
<1>3. ASSUME NEW n, NEW b, NEW p, Fits(n, b, p), p # None => Kin(n, p), b # Review,
             rows' = Upsert(n, b, p)
      PROVE  /\ \A m \in Number : RowOK(m)' /\ (HasRow(m) => HasRow(m)')
             /\ \A m \in Number : HasRow(m)' /\ BranchAt(m)' = Review
                                    => HasRow(m) /\ BranchAt(m) = Review
  <2>1. n \in Number /\ n \in Live
    BY <1>3, NumberFacts DEF Fits, Live, Opened
  <2>2. p # None => Kin(n, p)'
    BY <1>1, <1>3, <2>1, KinStable
  <2> QED BY <1>3, <2>1, <2>2, RowUpserted
<1> QED BY <1>2, <1>3 DEF RowsFit

-----------------------------------------------------------------------------
(* The workspace *)

\* The branch that is made for an issue or a person's pull request is its own.
LEMMA TitledOf ==
    ASSUME NEW n \in Issue \cup PersonPr
    PROVE  Titled(n) \in Owned /\ Titled(n) \in Branch /\ Of(n, Titled(n))
<1>1. n \notin Opened
  BY NumberFacts DEF Opened
<1> QED BY <1>1, BranchFacts DEF Titled, Of, WorkOf, WorkOnBranch

\* What the checkout c and the branch b of a run are, once it is prepared.
PreparedAs(k, c, b) ==
    LET r == runs[k] IN
    /\ tree' = [tree EXCEPT ![r.number] = c]
    /\ refs' = IF c \in Branch /\ (r.plan = Review \/ refs[c] = "none")
               THEN [refs EXCEPT ![c] = "clean"] ELSE refs
    /\ rows' = IF Saves(r, b)
               THEN Upsert(r.number, b, IF r.fills THEN TriggerPr(r.event) ELSE None)
               ELSE rows
    /\ runs' = [runs EXCEPT ![k] =
                   [[r EXCEPT !.branch = b] EXCEPT !.token = Mint([r EXCEPT !.branch = b])]]

\* Both belong to the number the run works on.
LEMMA PrepareSound ==
    ASSUME IInv, NEW k \in Number, Prepare(k)
    PROVE  \E c, b \in Branch \cup {Review} :
              /\ PreparedAs(k, c, b)
              /\ Of(runs[k].number, c) /\ Of(runs[k].number, b)
              /\ c = Review => runs[k].number \in PersonPr
              /\ b = Review => runs[k].plan = Review /\ runs[k].event.task = "review_pr"
<1> DEFINE r == runs[k]
           n == r.number
<1>1. /\ TypeOK /\ r \in Run /\ n \in Number /\ r.plan \in Branch \cup {Review, None}
      /\ r # None /\ PlanOK(r) /\ TreeOK(n)
  BY RunType DEF Prepare, Preparing, IInv, RunOK
<1>2. PICK out \in IF Adopts(r) THEN Adopted(r) ELSE Checkouts(r) : PreparedAs(k, out[1], out[2])
  BY DEF Prepare, PreparedAs
<1>3. SUFFICES /\ out[1] \in Branch \cup {Review} /\ out[2] \in Branch \cup {Review}
               /\ Of(n, out[1]) /\ Of(n, out[2])
               /\ out[1] = Review => n \in PersonPr
               /\ out[2] = Review => r.plan = Review /\ r.event.task = "review_pr"
  BY <1>2
<1>4. Of(n, Review) /\ Review \notin Branch /\ None \notin Branch /\ None # Review
  BY BranchFacts DEF Of
<1>5. \A x \in Kept(n) : x[1] = x[2] /\ x[1] \in Branch /\ Of(n, x[1])
  BY <1>1, <1>4 DEF Kept, TreeOK
<1>6. CASE Adopts(r)
  <2>1. n \in PersonPr /\ out = <<Titled(n), Titled(n)>>
    BY <1>1, <1>2, <1>6 DEF Adopts, Adopted, PlanOK
  <2> QED BY <1>4, <2>1, TitledOf
<1>7. CASE ~Adopts(r) /\ r.plan = Review
  <2>1. n \in PersonPr /\ r.event.task = "review_pr"
    BY <1>1, <1>7 DEF Adopts, PlanOK
  <2>2. out = <<Review, Review>> \/ out \in Kept(n)
    BY <1>2, <1>7 DEF Checkouts, ReviewCheckouts
  <2> QED BY <1>4, <1>5, <1>7, <2>1, <2>2
<1>8. CASE ~Adopts(r) /\ r.plan # Review
  <2> DEFINE b == IF r.plan = None THEN Titled(n) ELSE r.plan
  <2>1. b \in Branch /\ Of(n, b)
    BY <1>1, <1>8, TitledOf DEF PlanOK
  <2>2. \/ out \in Kept(n) \/ out = <<b, b>>
        \/ out = <<Review, b>> /\ tree[n] = Review
    BY <1>2, <1>8 DEF Checkouts
  <2>3. tree[n] = Review => n \in PersonPr
    BY <1>1, <1>4 DEF TreeOK
  <2> QED BY <1>4, <1>5, <2>1, <2>2, <2>3
<1> QED BY <1>6, <1>7, <1>8

\* A prepared run has its branch, and a token minted for it.
LEMMA PreparedRun ==
    ASSUME TypeOK, NEW k \in Number, runs[k] # None, NEW c, NEW b \in Branch \cup {Review},
           PreparedAs(k, c, b)
    PROVE  LET r == runs[k]  q == runs'[k] IN
           /\ runs' \in [Number -> Run \cup {None}] /\ q # None
           /\ \A j \in Number : j # k => runs'[j] = runs[j]
           /\ q.event = r.event /\ q.number = r.number /\ q.fills = r.fills /\ q.plan = r.plan
           /\ q.pr = r.pr /\ q.branch = b /\ q.token # None
           /\ q.token.issue = r.number /\ q.token.pr = r.pr /\ q.token.branch = b
           /\ q.token.caps = CapabilitiesFor(r.event.task)
<1> DEFINE r == runs[k]
           new == [r EXCEPT !.branch = b]
           t == Mint(new)
           q == [new EXCEPT !.token = t]
<1>1. r \in Run /\ runs \in [Number -> Run \cup {None}]
  BY RunType DEF TypeOK
<1>2. new \in Run /\ new.event = r.event /\ new.number = r.number /\ new.pr = r.pr
      /\ new.fills = r.fills /\ new.plan = r.plan /\ new.branch = b
  BY <1>1 DEF Run
<1>3. t = [issue |-> r.number, pr |-> r.pr, branch |-> b, caps |-> CapabilitiesFor(r.event.task)]
  BY <1>2 DEF Mint
<1>4. CapabilitiesFor(r.event.task) \subseteq Cap
  BY DEF CapabilitiesFor, Cap
<1>5. t \in Token
  BY <1>1, <1>3, <1>4 DEF Token, Run
<1>6. t # None
  BY <1>5, NoneAssumption
<1>7. /\ q \in Run /\ q.event = r.event /\ q.number = r.number /\ q.pr = r.pr
      /\ q.fills = r.fills /\ q.plan = r.plan /\ q.branch = b /\ q.token = t
  <2> HIDE DEF new, t
  <2> QED BY <1>2, <1>5 DEF Run
<1>8. runs'[k] = q /\ runs' \in [Number -> Run \cup {None}]
      /\ \A j \in Number : j # k => runs'[j] = runs[j]
  <2>1. runs' = [runs EXCEPT ![k] = q]
    BY DEF PreparedAs
  <2> HIDE DEF q
  <2> QED BY <1>1, <1>7, <2>1
<1>9. q # None
  BY <1>7, NoneAssumption
<1> QED BY <1>3, <1>6, <1>7, <1>8, <1>9

\* A run whose token may have been minted again.
LEMMA RefreshedRun ==
    ASSUME TypeOK, NEW k \in Number, NEW r \in Run, r.event.key = k, r.token # None,
           r.branch \in Branch \cup {Review}, Refreshed(k, r)
    PROVE  LET q == runs'[k] IN
           /\ runs' \in [Number -> Run \cup {None}] /\ q # None
           /\ \A j \in Number : j # k => runs'[j] = runs[j]
           /\ q.event = r.event /\ q.number = r.number /\ q.fills = r.fills /\ q.plan = r.plan
           /\ q.pr = r.pr /\ q.branch = r.branch /\ q.token # None
           /\ \/ q.token = r.token
              \/ /\ q.token.issue = r.number /\ q.token.pr = r.pr /\ q.token.branch = r.branch
                 /\ q.token.caps = CapabilitiesFor(r.event.task)
<1>1. PICK t \in {r.token, Mint(r)} : runs' = [runs EXCEPT ![k] = [r EXCEPT !.token = t]]
  BY DEF Refreshed
<1>2. CapabilitiesFor(r.event.task) \subseteq Cap
  BY DEF CapabilitiesFor, Cap
<1>3. Mint(r) \in Token
  BY <1>2 DEF Mint, Token, Run
<1>4. t \in Token /\ t # None
  BY <1>1, <1>3, NoneAssumption DEF Run
<1> DEFINE q == [r EXCEPT !.token = t]
<1>5. /\ q \in Run /\ q.event = r.event /\ q.number = r.number /\ q.pr = r.pr
      /\ q.fills = r.fills /\ q.plan = r.plan /\ q.branch = r.branch /\ q.token = t
  BY <1>4 DEF Run
<1>6. /\ Mint(r).issue = r.number /\ Mint(r).pr = r.pr /\ Mint(r).branch = r.branch
      /\ Mint(r).caps = CapabilitiesFor(r.event.task)
  BY DEF Mint
<1>7. q # None
  BY <1>5, NoneAssumption
<1>8. runs \in [Number -> Run \cup {None}]
  BY DEF TypeOK
<1>9. runs'[k] = q /\ runs' \in [Number -> Run \cup {None}]
      /\ \A j \in Number : j # k => runs'[j] = runs[j]
  <2> HIDE DEF q
  <2> QED BY <1>1, <1>5, <1>8 DEF q
<1> QED BY <1>1, <1>4, <1>5, <1>6, <1>7, <1>9

-----------------------------------------------------------------------------
(* Types and checkouts *)

Refs == [Branch -> {"none", "clean", "work"}]
Trees == [Number -> Branch \cup {Review, None}]
CheckedOut == \A n \in Number : tree[n] \in Branch => refs[tree[n]] # "none"
Keyed == \A k \in Number : runs[k] # None => runs[k].event.key = k

\* The inductive invariant holds before the first webhook.
LEMMA TypeInit == Init => IInv
<1> SUFFICES ASSUME Init PROVE IInv
  OBVIOUS
<1>1. None \notin Branch
  BY NoneAssumption
<1>2. TypeOK
  BY <1>1, AuthorityAssumption DEF Init, TypeOK
<1>3. \A n \in Number : RowOK(n) /\ TreeOK(n) /\ RunOK(n)
  BY DEF Init, RowOK, HasRow, TreeOK, RunOK
<1>4. \A q \in BotPr : PrOK(q)
  BY DEF Init, PrOK
<1> QED BY <1>2, <1>3, <1>4 DEF Init, IInv

\* The table and the runs keep their types when an event begins.
LEMMA BeginType ==
    ASSUME IInv, NEW k \in Number, Begin(k)
    PROVE  TypeOK'
<1>1. TypeOK
  BY DEF IInv
<1>2. PICK e \in queue : e.key = k /\ queue' = queue \ {e} /\ RowsFit /\ StartsSound(e)
  BY BeginSound
<1>3. e \in Event
  BY <1>1 DEF TypeOK
<1>4. rows' \in [Number -> Row \cup {None}]
  <2>1. ASSUME NEW n, NEW b, NEW p, Fits(n, b, p), rows' = Upsert(n, b, p)
        PROVE  rows' \in [Number -> Row \cup {None}]
    <3>1. n \in Number /\ b \in Branch \cup {Review, None} /\ p \in Number \cup {None}
      BY <2>1, NumberFacts DEF Fits, Live, Opened
    <3> QED BY <1>1, <2>1, <3>1, UpsertFunction
  <2> QED BY <1>1, <1>2, <2>1 DEF RowsFit, TypeOK
<1>5. runs' \in [Number -> Run \cup {None}] /\ Keyed'
  <2>1. ASSUME NEW n, NEW plan, NEW fills, Sound(e, n, plan, fills), Starts(e, n, plan, fills)
        PROVE  runs' \in [Number -> Run \cup {None}] /\ Keyed'
    <3>1. /\ runs' \in [Number -> Run \cup {None}]
          /\ \A j \in Number \ {k} : runs'[j] = runs[j]
          /\ runs'[k] = [event |-> e, number |-> n, fills |-> fills, plan |-> plan,
                         branch |-> None, pr |-> TriggerPr(e), token |-> None]
      BY <1>1, <1>2, <1>3, <2>1, StartsType DEF Sound
    <3>2. runs'[k].event = e
      BY <3>1
    <3> QED BY <1>1, <1>2, <3>1, <3>2 DEF Keyed, TypeOK
  <2>2. CASE runs' = runs
    BY <1>1, <2>2 DEF TypeOK, Keyed
  <2> QED BY <1>2, <2>1, <2>2 DEF StartsSound
<1>6. queue' \subseteq Event
  BY <1>1, <1>2 DEF TypeOK
<1> QED BY <1>1, <1>4, <1>5, <1>6 DEF Begin, TypeOK, Keyed, hub, git

\* The checkout is there, made if need be.
LEMMA PrepareType ==
    ASSUME IInv, NEW k \in Number, Prepare(k)
    PROVE  TypeOK'
<1> DEFINE r == runs[k]
<1>1. TypeOK /\ r # None /\ r \in Run /\ r.number \in Number /\ r.event \in Event
  BY RunType DEF IInv, Prepare, Preparing
<1>2. PICK c \in Branch \cup {Review}, b \in Branch \cup {Review} :
         PreparedAs(k, c, b)
  BY PrepareSound
<1>3. runs' \in [Number -> Run \cup {None}] /\ Keyed'
  BY <1>1, <1>2, PreparedRun DEF TypeOK, Keyed
<1>4. rows' \in [Number -> Row \cup {None}]
  <2>1. TriggerPr(r.event) \in Number \cup {None}
    BY <1>1 DEF TriggerPr, Event
  <2>2. Upsert(r.number, b, IF r.fills THEN TriggerPr(r.event) ELSE None) \in [Number -> Row \cup {None}]
    BY <1>1, <2>1, UpsertFunction
  <2> QED BY <1>1, <1>2, <2>2 DEF PreparedAs, TypeOK
<1>5. tree' \in Trees /\ refs' \in Refs
  BY <1>1, <1>2 DEF PreparedAs, TypeOK, Trees, Refs
<1>6. CheckedOut'
  <2> SUFFICES ASSUME NEW n \in Number, tree'[n] \in Branch PROVE refs'[tree'[n]] # "none"
    BY DEF CheckedOut
  <2>1. \A a \in Branch : refs[a] # "none" \/ (a = c /\ c \in Branch) => refs'[a] # "none"
    BY <1>1, <1>2 DEF PreparedAs, TypeOK
  <2>2. tree'[n] = IF n = r.number THEN c ELSE tree[n]
    BY <1>1, <1>2 DEF PreparedAs, TypeOK
  <2>3. n # r.number => refs[tree[n]] # "none"
    BY <1>1, <2>2 DEF TypeOK
  <2> QED BY <2>1, <2>2, <2>3
<1> QED BY <1>1, <1>3, <1>4, <1>5, <1>6
        DEF Prepare, TypeOK, Trees, Refs, CheckedOut, Keyed, hub

\* What a run that works has.
LEMMA WorkingRun ==
    ASSUME IInv, NEW k \in Number, Working(k)
    PROVE  LET r == runs[k] IN
           /\ TypeOK /\ r # None /\ r \in Run /\ r.event \in Event /\ r.event.key = k
           /\ r.number \in Number /\ r.number \in Live
           /\ r.branch \in Branch \cup {Review} /\ r.pr \in Number \cup {None}
           /\ r.token \in Token /\ r.token # None
           /\ HasRow(r.number) /\ Of(r.number, r.branch)
           /\ PlanOK(r) /\ TokenOK(r) /\ NotReviewed(k, r)
           /\ RowOK(r.number)
<1> DEFINE r == runs[k]
<1>1. /\ TypeOK /\ r # None /\ r \in Run /\ r.event.key = k /\ r.number \in Number /\ r.event \in Event
      /\ r.pr \in Number \cup {None} /\ r.token \in Token \cup {None} /\ r.token # None
  BY RunType DEF Working, IInv
<1>2. PlanOK(r) /\ TokenOK(r) /\ NotReviewed(k, r) /\ RowOK(r.number)
  BY <1>1 DEF IInv, RunOK
<1>3. r.number \in Live
  BY <1>2 DEF PlanOK, Kin
<1>4. r.branch \in Branch \cup {Review} /\ HasRow(r.number) /\ Of(r.number, r.branch)
  BY <1>1, <1>2 DEF TokenOK
<1> QED BY <1>1, <1>2, <1>3, <1>4

\* A pull request is opened from a branch of the bot's, under a new number.
OpenedAs(k, p) ==
    LET r == runs[k] IN
    /\ prs' = [prs EXCEPT ![p] = r.branch]
    /\ \/ rows' = Upsert(r.number, None, p) /\ Refreshed(k, [r EXCEPT !.pr = p])
       \/ rows' = rows /\ runs' = runs

\* gh_open_pr goes through only for a branch of the bot, with a new pull request for it.
LEMMA OpenPrFacts ==
    ASSUME IInv, NEW k \in Number, OpenPr(k)
    PROVE  /\ Working(k) /\ ~ReviewMode(runs[k]) /\ runs[k].branch \in Owned
           /\ \A q \in PersonPr \cup Opened : Head(q) # runs[k].branch
           /\ \E p \in BotPr \ Opened : OpenedAs(k, p)
<1> DEFINE r == runs[k]
<1>1. Working(k) /\ ~ReviewMode(r) /\ \A q \in PersonPr \cup Opened : Head(q) # r.branch
  BY DEF OpenPr
<1>2. r.branch \in Branch
  BY <1>1, WorkingRun DEF ReviewMode
<1>3. r.branch \in Owned
  <2> SUFFICES ASSUME r.branch \notin Owned PROVE FALSE
    OBVIOUS
  <2>1. PICK p \in PersonPr : r.branch = <<0, p>>
    BY <1>2 DEF Branch
  <2>2. Head(p) = <<0, p>>
    BY DEF Head
  <2> QED BY <1>1, <2>1, <2>2
<1>4. \E p \in BotPr \ Opened : OpenedAs(k, p)
  BY DEF OpenPr, OpenedAs
<1> QED BY <1>1, <1>3, <1>4

\* Opening a pull request keeps the types, and only opens one on GitHub.
LEMMA OpenPrType ==
    ASSUME IInv, NEW k \in Number, OpenPr(k)
    PROVE  TypeOK' /\ HubStep
<1> DEFINE r == runs[k]
<1>1. Working(k) /\ r.branch \in Owned
  BY OpenPrFacts
<1>2. PICK p \in BotPr \ Opened : OpenedAs(k, p)
  BY OpenPrFacts
<1>3. /\ TypeOK /\ r \in Run /\ r.number \in Number /\ r.event.key = k /\ r.token # None
      /\ r.branch \in Branch \cup {Review} /\ p \in Number
  BY <1>1, WorkingRun, NumberFacts
<1>4. prs' \in [BotPr -> Owned \cup {None}] /\ HubStep
  BY <1>1, <1>2, <1>3 DEF OpenedAs, HubStep, TypeOK
<1>5. rows' \in [Number -> Row \cup {None}] /\ runs' \in [Number -> Run \cup {None}] /\ Keyed'
  <2>1. CASE rows' = rows /\ runs' = runs
    BY <1>3, <2>1 DEF TypeOK, Keyed
  <2>2. CASE rows' = Upsert(r.number, None, p) /\ Refreshed(k, [r EXCEPT !.pr = p])
    <3> DEFINE s == [r EXCEPT !.pr = p]
    <3>1. s \in Run /\ s.event = r.event /\ s.token = r.token /\ s.branch = r.branch
      BY <1>3 DEF Run
    <3>4. Refreshed(k, s)
      BY <2>2
    <3>2. /\ runs' \in [Number -> Run \cup {None}]
          /\ \A j \in Number : j # k => runs'[j] = runs[j]
          /\ runs'[k].event = r.event
      <4> HIDE DEF s
      <4> QED BY <1>3, <3>1, <3>4, RefreshedRun
    <3>3. Upsert(r.number, None, p) \in [Number -> Row \cup {None}]
      BY <1>3, UpsertFunction
    <3> QED BY <1>3, <2>2, <3>2, <3>3 DEF Keyed, TypeOK
  <2> QED BY <1>2, <2>1, <2>2 DEF OpenedAs
<1> QED BY <1>3, <1>4, <1>5 DEF OpenPr, TypeOK, Keyed, git

\* A rename is an issue's: the new branch is of the same number.
LEMMA RenameFacts ==
    ASSUME IInv, NEW k \in Number, Rename(k)
    PROVE  LET r == runs[k]
               b == r.branch
               new == <<b[1], 2>> IN
           /\ Working(k) /\ b \in Owned /\ new \in Owned /\ new # b
           /\ r.number \in Issue /\ b[1] = r.number
           /\ refs[b] # "none" /\ refs[new] = "none"
           /\ refs' = [refs EXCEPT ![new] = refs[b], ![b] = "none"]
           /\ tree' = [n \in Number |-> IF tree[n] = b THEN new ELSE tree[n]]
           /\ rows' = Upsert(r.number, new, None)
           /\ Refreshed(k, [r EXCEPT !.branch = new])
           /\ prs' = prs
<1> DEFINE r == runs[k]
           b == r.branch
           new == <<b[1], 2>>
<1>1. /\ Working(k) /\ b \in Owned /\ new # b /\ rows[r.number].pr = None
      /\ refs[b] # "none" /\ refs[new] = "none"
      /\ refs' = [refs EXCEPT ![new] = refs[b], ![b] = "none"]
      /\ tree' = [n \in Number |-> IF tree[n] = b THEN new ELSE tree[n]]
      /\ rows' = Upsert(r.number, new, None)
      /\ Refreshed(k, [r EXCEPT !.branch = new])
      /\ prs' = prs
  BY DEF Rename, hub
<1>2. r.number \in Number /\ HasRow(r.number) /\ Of(r.number, b) /\ RowOK(r.number)
  BY <1>1, WorkingRun
<1>3. r.number \in Issue
  BY <1>1, <1>2 DEF RowOK, PrAt
<1>4. WorkOf(r.number) = r.number
  BY <1>3, NumberFacts DEF WorkOf, Opened
<1>5. b[1] = r.number
  BY <1>1, <1>2, <1>4, BranchFacts DEF Of, WorkOnBranch
<1>6. new \in Owned
  BY <1>3, <1>5, BranchFacts
<1> QED BY <1>1, <1>3, <1>5, <1>6

\* Renaming the branch keeps the types.
LEMMA RenameType ==
    ASSUME IInv, NEW k \in Number, Rename(k)
    PROVE  TypeOK'
<1> DEFINE r == runs[k]
           b == r.branch
           new == <<b[1], 2>>
           s == [r EXCEPT !.branch = new]
<1>1. /\ Working(k) /\ b \in Owned /\ new \in Owned /\ new # b
      /\ refs[b] # "none" /\ refs[new] = "none"
      /\ refs' = [refs EXCEPT ![new] = refs[b], ![b] = "none"]
      /\ tree' = [n \in Number |-> IF tree[n] = b THEN new ELSE tree[n]]
      /\ rows' = Upsert(r.number, new, None)
      /\ Refreshed(k, s)
  BY RenameFacts
<1>2. /\ TypeOK /\ r \in Run /\ r.number \in Number /\ r.event.key = k /\ r.token # None
  BY <1>1, WorkingRun
<1>3. b \in Branch /\ new \in Branch
  BY <1>1, BranchFacts
<1>4. rows' \in [Number -> Row \cup {None}]
  BY <1>1, <1>2, <1>3, UpsertFunction
<1>5. runs' \in [Number -> Run \cup {None}] /\ Keyed'
  <2> HIDE DEF new
  <2>1. s \in Run /\ s.event = r.event /\ s.token = r.token /\ s.branch = new
    BY <1>2, <1>3 DEF Run
  <2>2. /\ runs' \in [Number -> Run \cup {None}]
        /\ \A j \in Number : j # k => runs'[j] = runs[j]
        /\ runs'[k].event = r.event
    <3> HIDE DEF s
    <3> QED BY <1>1, <1>2, <1>3, <2>1, RefreshedRun
  <2> QED BY <1>2, <2>2 DEF Keyed, TypeOK
<1>6. tree' \in Trees /\ refs' \in Refs /\ CheckedOut'
  <2> HIDE DEF new, b
  <2>1. /\ tree \in Trees /\ refs \in Refs /\ CheckedOut
    BY <1>2 DEF TypeOK, Trees, Refs, CheckedOut
  <2>2. tree' \in Trees /\ refs' \in Refs
    BY <1>1, <1>3, <2>1 DEF Trees, Refs
  <2>3. ASSUME NEW n \in Number, tree'[n] \in Branch PROVE refs'[tree'[n]] # "none"
    BY <1>1, <1>3, <2>1, <2>3 DEF Trees, Refs, CheckedOut
  <2> QED BY <2>2, <2>3 DEF CheckedOut
<1> QED BY <1>2, <1>4, <1>5, <1>6 DEF Rename, TypeOK, Trees, Refs, CheckedOut, Keyed, hub

\* Every step keeps the types, and every checkout has its branch.
LEMMA TypeStep == IInv /\ [Next]_vars => TypeOK'
<1> SUFFICES ASSUME IInv, [Next]_vars PROVE TypeOK'
  OBVIOUS
<1>0. TypeOK
  BY DEF IInv
<1>1. ASSUME NEW w \in Webhook, Route(w) PROVE TypeOK'
  <2>1. PICK key \in Keys(w) :
           queue' = queue \cup {[task |-> TaskOf(w), key |-> key, thread |-> w.on,
                                 label |-> w.kind = "label", words |-> w.words]}
    BY <1>1 DEF Route
  <2>2. key \in Number /\ w.on \in Number /\ w.words \in BOOLEAN
    BY <2>1 DEF Keys, ByPr, Webhook
  <2>3. TaskOf(w) \in Task
    BY DEF TaskOf, Task
  <2>4. queue' \subseteq Event
    <3>1. \A l \in BOOLEAN : [task |-> TaskOf(w), key |-> key, thread |-> w.on,
                             label |-> l, words |-> w.words] \in Event
      BY <2>2, <2>3 DEF Event
    <3>2. (w.kind = "label") \in BOOLEAN
      OBVIOUS
    <3>3. [task |-> TaskOf(w), key |-> key, thread |-> w.on,
           label |-> w.kind = "label", words |-> w.words] \in Event
      BY <3>1, <3>2, Zenon
    <3> QED BY <1>0, <2>1, <3>3, Zenon DEF TypeOK
  <2>5. admitted' \in 0 .. MaxEvents
    BY <1>0, <1>1, AuthorityAssumption DEF Route, TypeOK
  <2> QED BY <1>0, <1>1, <2>4, <2>5 DEF Route, TypeOK, hub, git
<1>2. ASSUME NEW k \in Number, Exit(k) \/ Retry(k) PROVE TypeOK'
  <2>1. runs[k] # None /\ runs[k].event \in Event /\ runs \in [Number -> Run \cup {None}]
    BY <1>0, <1>2, RunType DEF Exit, Retry, TypeOK
  <2>2. runs' = [runs EXCEPT ![k] = None]
    BY <1>2 DEF Exit, Retry
  <2>3. runs' \in [Number -> Run \cup {None}] /\ Keyed'
    BY <1>0, <2>1, <2>2 DEF TypeOK, Keyed
  <2>4. queue' \subseteq Event
    BY <1>0, <1>2, <2>1 DEF Exit, Retry, TypeOK
  <2> QED BY <1>0, <1>2, <2>3, <2>4 DEF Exit, Retry, TypeOK, Keyed, hub, git
<1>3. ASSUME NEW k \in Number, Commit(k) PROVE TypeOK'
  BY <1>0, <1>3 DEF Commit, TypeOK, hub
<1>4. ASSUME NEW k \in Number, SubmitReview(k) PROVE TypeOK'
  <2>1. runs[k].event.thread \in PersonPr
    BY <1>4, WorkingRun DEF SubmitReview, PlanOK, EventOK
  <2> QED BY <1>0, <1>4, <2>1 DEF SubmitReview, TypeOK, git
<1>5. CASE UNCHANGED vars
  BY <1>0, <1>5 DEF vars, TypeOK
<1> QED BY <1>1, <1>2, <1>3, <1>4, <1>5, BeginType, PrepareType, OpenPrType, RenameType
        DEF Next, Step

-----------------------------------------------------------------------------
(* Pieces of work stay apart *)

\* A new event goes to the work of its thread.
LEMMA RouteSound ==
    ASSUME IInv, NEW w \in Webhook, Route(w)
    PROVE  \A e \in queue' : EventOK(e)
<1>1. TypeOK /\ \A n \in Number : RowOK(n)
  BY DEF IInv
<1>2. PICK key \in Keys(w) :
         queue' = queue \cup {[task |-> TaskOf(w), key |-> key, thread |-> w.on,
                               label |-> w.kind = "label", words |-> w.words]}
  BY DEF Route
<1> DEFINE t == w.on
           e == [task |-> TaskOf(w), key |-> key, thread |-> t,
                 label |-> w.kind = "label", words |-> w.words]
<1>3. t \in Live /\ t \in Number /\ (t \in Issue \/ t \in PersonPr \/ t \in Opened)
  BY NumberFacts DEF Route, AuthorizeEvent, Live, Opened
<1>4. Kin(t, t)
  BY <1>3 DEF Kin
<1>5. \A n \in ByPr(t) : Kin(t, n) /\ (t \in PersonPr => n = t)
  <2> SUFFICES ASSUME NEW n \in ByPr(t) PROVE Kin(t, n) /\ (t \in PersonPr => n = t)
    OBVIOUS
  <2>1. n \in Number /\ HasRow(n) /\ PrAt(n) = t /\ RowOK(n)
    BY <1>1 DEF ByPr, HasRow, PrAt
  <2> QED BY <1>3, <2>1, NumberFacts DEF RowOK, Kin
<1>6. Kin(t, key) /\ (t \in PersonPr => key = t)
  BY <1>2, <1>4, <1>5 DEF Keys
<1>7. /\ TaskOf(w) \in {"triage_issue", "handle_comment"} => t \in Issue
      /\ TaskOf(w) = "handle_review" => t \in BotPr
      /\ TaskOf(w) = "handle_pr_conversation" => t \notin Issue
      /\ TaskOf(w) = "review_pr" => t \in PersonPr
  BY <1>3, NumberFacts DEF TaskOf, Opened
<1>8. e.thread = t /\ e.key = key /\ e.task = TaskOf(w)
  OBVIOUS
<1>9. EventOK(e)
  <2> HIDE DEF e, t
  <2> QED BY <1>3, <1>6, <1>7, <1>8 DEF EventOK
<1> QED BY <1>2, <1>9 DEF IInv

\* A run that a handler starts is sound.
LEMMA StartedRun ==
    ASSUME IInv, HubStep, prs' = prs, NEW e \in queue, e.key \in Number,
           NEW n, NEW plan, NEW fills, Sound(e, n, plan, fills), Starts(e, n, plan, fills)
    PROVE  RunOK(e.key)'
<1>1. TypeOK /\ e \in Event /\ EventOK(e)
  BY DEF IInv, TypeOK
<1> DEFINE r == [event |-> e, number |-> n, fills |-> fills, plan |-> plan,
                 branch |-> None, pr |-> TriggerPr(e), token |-> None]
<1>2. runs'[e.key] = r /\ r # None
  BY <1>1, StartsType DEF Sound
<1>3. /\ r.event = e /\ r.number = n /\ r.fills = fills /\ r.plan = plan
      /\ r.pr = TriggerPr(e) /\ r.token = None
  OBVIOUS
<1> HIDE DEF r
<1>4. n \in Live /\ e.thread \in Live
  BY <1>1 DEF Sound, Kin, EventOK
<1>5. EventOK(e)' /\ Kin(e.thread, n)' /\ Of(n, plan)'
  BY <1>1, <1>4, EventStable, KinStable, OfStable DEF Sound
<1>6. e.thread \notin Issue => TriggerPr(e) = e.thread /\ e.thread # None
  BY <1>1, NumberFacts DEF TriggerPr, Event
<1>7. e.thread \in Issue => TriggerPr(e) = None
  BY DEF TriggerPr
<1>8. Kin(n, e.thread)'
  BY <1>1, <1>4, <1>5, WorkStable DEF Kin
<1>9. PlanOK(r)'
  BY <1>3, <1>5, <1>6, <1>7, <1>8 DEF PlanOK, Sound
<1>10. TokenOK(r)' /\ NotReviewed(e.key, r)'
  BY <1>3 DEF TokenOK, NotReviewed, Sound
<1> QED BY <1>2, <1>9, <1>10 DEF RunOK

OneWork ==
    /\ \A n \in Number : RowOK(n) /\ TreeOK(n) /\ RunOK(n)
    /\ \A e \in queue : EventOK(e)
    /\ \A q \in BotPr : PrOK(q)

\* Rows, checkouts and pull requests that a step leaves alone.
LEMMA UntouchedStable ==
    ASSUME IInv, HubStep
    PROVE  /\ rows' = rows => \A n \in Number : RowOK(n)' /\ SameRow(n)
           /\ tree' = tree => \A n \in Number : TreeOK(n)'
           /\ prs' = prs => \A q \in BotPr : PrOK(q)'
           /\ queue' \subseteq queue => \A e \in queue' : EventOK(e)'
<1>1. TypeOK
  BY DEF IInv
<1>2. rows' = rows => \A n \in Number : SameRow(n)
  BY DEF SameRow, HasRow, BranchAt, PrAt
<1>3. rows' = rows => \A n \in Number : RowOK(n)'
  BY <1>1, <1>2, RowStable DEF IInv
<1>4. tree' = tree => \A n \in Number : TreeOK(n)'
  BY <1>1, TreeStable DEF IInv
<1>5. prs' = prs => \A q \in BotPr : PrOK(q)'
  BY DEF IInv, PrOK
<1>6. queue' \subseteq queue => \A e \in queue' : EventOK(e)'
  BY <1>1, EventStable DEF IInv
<1> QED BY <1>2, <1>3, <1>4, <1>5, <1>6

\* Routing, and the end of a run.
LEMMA RouteStep ==
    ASSUME IInv, NEW w \in Webhook, Route(w)
    PROVE  OneWork'
<1>1. prs' = prs /\ rows' = rows /\ tree' = tree /\ runs' = runs /\ HubStep /\ TypeOK
  BY DEF Route, hub, git, HubStep, IInv
<1>2. \A n \in Number : RunOK(n)'
  BY <1>1, UntouchedStable, RunStable DEF SameRow, IInv
<1>3. \A e \in queue' : EventOK(e)'
  BY <1>1, RouteSound, EventStable
<1> QED BY <1>1, <1>2, <1>3, UntouchedStable DEF OneWork

\* The end of a run leaves every other run as it was.
LEMMA EndStep ==
    ASSUME IInv, NEW k \in Number, Exit(k) \/ Retry(k)
    PROVE  OneWork'
<1>1. /\ prs' = prs /\ rows' = rows /\ tree' = tree /\ HubStep /\ TypeOK
      /\ runs' = [runs EXCEPT ![k] = None] /\ runs \in [Number -> Run \cup {None}]
      /\ runs[k] # None
  BY DEF Exit, Retry, hub, git, HubStep, IInv, TypeOK
<1>2. \A n \in Number : n # k => RunOK(n)'
  BY <1>1, UntouchedStable, RunStable DEF SameRow, IInv
<1>3. RunOK(k)'
  BY <1>1 DEF RunOK
<1>4. EventOK(runs[k].event)
  BY <1>1 DEF IInv, RunOK, PlanOK
<1>5. \A e \in queue' : EventOK(e)'
  BY <1>1, <1>4, EventStable DEF Exit, Retry, IInv
<1> QED BY <1>1, <1>2, <1>3, <1>5, UntouchedStable DEF OneWork

\* Commits and reviews are no matter of whose work it is.
LEMMA OtherStep ==
    ASSUME IInv, UNCHANGED vars \/ \E k \in Number : Commit(k) \/ SubmitReview(k)
    PROVE  OneWork'
<1>1. /\ prs' = prs /\ rows' = rows /\ tree' = tree /\ runs' = runs /\ queue' = queue
      /\ HubStep /\ TypeOK
  BY DEF Commit, SubmitReview, vars, hub, git, HubStep, IInv
<1>2. \A n \in Number : RunOK(n)'
  BY <1>1, UntouchedStable, RunStable DEF SameRow, IInv
<1> QED BY <1>1, <1>2, UntouchedStable DEF OneWork

\* The beginning of a run.
LEMMA BeginStep ==
    ASSUME IInv, NEW k \in Number, Begin(k)
    PROVE  OneWork'
<1>1. /\ prs' = prs /\ tree' = tree /\ HubStep /\ TypeOK
  BY DEF Begin, hub, git, HubStep, IInv
<1>2. PICK e \in queue : e.key = k /\ queue' = queue \ {e} /\ RowsFit /\ StartsSound(e)
  BY BeginSound
<1>3. /\ \A m \in Number : RowOK(m)' /\ (HasRow(m) => HasRow(m)')
      /\ \A m \in Number : HasRow(m)' /\ BranchAt(m)' = Review
                             => HasRow(m) /\ BranchAt(m) = Review
  BY <1>1, <1>2, RowsFitStable
<1>4. \A n \in Number : RunOK(n)'
  <2>1. \A n \in Number : runs'[n] = runs[n] => RunOK(n)'
    BY <1>1, <1>3, RunStable DEF IInv
  <2>2. CASE runs' = runs
    BY <2>1, <2>2
  <2>3. ASSUME NEW n, NEW plan, NEW fills, Sound(e, n, plan, fills), Starts(e, n, plan, fills)
        PROVE  \A j \in Number : RunOK(j)'
    <3>1. e \in Event
      BY <1>1 DEF TypeOK
    <3>2. \A j \in Number \ {k} : runs'[j] = runs[j]
      BY <1>1, <1>2, <2>3 DEF Starts, TypeOK
    <3>3. RunOK(k)'
      BY <1>1, <1>2, <2>3, StartedRun
    <3> QED BY <2>1, <3>2, <3>3
  <2> QED BY <1>2, <2>2, <2>3 DEF StartsSound
<1> QED BY <1>1, <1>2, <1>3, <1>4, UntouchedStable DEF OneWork

\* What preparing a run does to the rows: none is lost or leaves its work, and
\* none becomes a review's but the one a review runs on.
LEMMA PrepareRows ==
    ASSUME IInv, NEW k \in Number, runs[k] # None, prs' = prs, NEW r, r = runs[k], NEW n, n = r.number,
           r.token = None, NEW c, NEW b \in Branch \cup {Review}, PreparedAs(k, c, b), Of(n, b),
           b = Review => r.plan = Review /\ r.event.task = "review_pr"
    PROVE  /\ \A m \in Number : RowOK(m)' /\ (HasRow(m) => HasRow(m)')
           /\ \A m \in Number : m # k /\ HasRow(m)' /\ BranchAt(m)' = Review
                                  => HasRow(m) /\ BranchAt(m) = Review
           /\ HasRow(n)'
           /\ n = k /\ k \in PersonPr /\ r.event.task # "review_pr" => BranchAt(k)' # Review
<1>1. /\ HubStep /\ TypeOK
      /\ r # None /\ n \in Number /\ r.event \in Event /\ r.event.key = k
      /\ PlanOK(r) /\ NotReviewed(k, r)
      /\ \A m \in Number : RowOK(m)
  BY RunType DEF HubStep, IInv, RunOK
<1>2. b # None /\ None # Review /\ n \in Live
  BY <1>1, BranchFacts DEF PlanOK, Kin
<1>3. CASE Saves(r, b)
  <2>1. PICK p : p = IF r.fills THEN TriggerPr(r.event) ELSE None
    OBVIOUS
  <2>2. rows' = Upsert(n, b, p)
    BY <1>3, <2>1 DEF PreparedAs
  <2>3. r.fills => n = r.event.thread /\ (n \in Issue => p = None) /\ (n \notin Issue => p = n)
    BY <1>1, <2>1 DEF PlanOK, TriggerPr
  <2>4. ~r.fills => p = None /\ HasRow(n) /\ b # Review
    BY <1>1, <2>1 DEF PlanOK
  <2>5. /\ p \in Number \cup {None} /\ p \in {None, n} /\ (n \notin Issue => p # None \/ HasRow(n))
        /\ p \in PersonPr => p = n
        /\ b = Review => n \in PersonPr /\ p = n
    BY <1>1, <2>3, <2>4, NumberFacts DEF PlanOK
  <2>6. Fits(n, b, p)
    BY <1>2, <2>5 DEF Fits
  <2>7. p # None => Kin(n, p)'
    <3>1. Kin(n, n)
      BY <1>2 DEF Kin
    <3> QED BY <1>1, <1>2, <2>5, <3>1, KinStable
  <2>8. b = Review => n = k
    BY <1>1, <2>3, <2>4 DEF PlanOK, EventOK
  <2>9. /\ \A m \in Number : RowOK(m)' /\ (HasRow(m) => HasRow(m)')
        /\ \A m \in Number : HasRow(m)' /\ BranchAt(m)' = Review /\ b # Review
                               => HasRow(m) /\ BranchAt(m) = Review
        /\ \A m \in Number : m # n => SameRow(m)
        /\ HasRow(n)' /\ BranchAt(n)' = b
    BY <1>1, <1>2, <2>2, <2>6, <2>7, RowUpserted
  <2>10. \A m \in Number : m # k /\ HasRow(m)' /\ BranchAt(m)' = Review
                             => HasRow(m) /\ BranchAt(m) = Review
    BY <2>8, <2>9 DEF SameRow
  <2>11. n = k /\ r.event.task # "review_pr" => BranchAt(k)' # Review
    BY <2>9
  <2> QED BY <2>9, <2>10, <2>11
<1>4. CASE ~Saves(r, b)
  <2>1. rows' = rows
    BY <1>4 DEF PreparedAs
  <2>2. \A m \in Number : RowOK(m)' /\ SameRow(m)
    BY <1>1, <2>1, UntouchedStable
  <2>3. HasRow(n)
    BY <1>1, <1>4 DEF Saves, PlanOK
  <2>4. r.event.task # "review_pr" => r.plan # Review
    BY <1>1, <1>4 DEF Saves, PlanOK
  <2>5. n = k /\ k \in PersonPr /\ r.event.task # "review_pr" => BranchAt(k) # Review
    BY <1>1, <2>3, <2>4 DEF NotReviewed
  <2> QED BY <1>1, <2>2, <2>3, <2>5 DEF SameRow
<1> QED BY <1>3, <1>4

\* The workspace, the branch and the token of a run.
LEMMA PrepareStep ==
    ASSUME IInv, NEW k \in Number, Prepare(k)
    PROVE  OneWork'
<1>1. PICK r, n, q : r = runs[k] /\ n = r.number /\ q = runs'[k]
  OBVIOUS
<1>2. /\ prs' = prs /\ queue' = queue /\ HubStep /\ TypeOK
      /\ runs[k] # None /\ n \in Number /\ r.token = None /\ PlanOK(r)
      /\ \A m \in Number : TreeOK(m) /\ RunOK(m)
  BY <1>1, RunType DEF Prepare, Preparing, hub, HubStep, IInv, RunOK
<1>3. PICK c \in Branch \cup {Review}, b \in Branch \cup {Review} :
         /\ PreparedAs(k, c, b) /\ Of(n, c) /\ Of(n, b)
         /\ c = Review => n \in PersonPr
         /\ b = Review => r.plan = Review /\ r.event.task = "review_pr"
  BY <1>1, PrepareSound
<1>4. n \in Live
  BY <1>2, <1>1 DEF PlanOK, Kin
<1>5. /\ \A m \in Number : RowOK(m)' /\ (HasRow(m) => HasRow(m)')
      /\ \A m \in Number : m # k /\ HasRow(m)' /\ BranchAt(m)' = Review
                             => HasRow(m) /\ BranchAt(m) = Review
      /\ HasRow(n)'
      /\ n = k /\ k \in PersonPr /\ r.event.task # "review_pr" => BranchAt(k)' # Review
  BY <1>1, <1>2, <1>3, PrepareRows
<1>6. ASSUME NEW m \in Number PROVE TreeOK(m)'
  <2>1. CASE m # n
    <3>1. tree'[m] = tree[m]
      BY <1>1, <1>2, <1>3, <2>1 DEF PreparedAs, TypeOK
    <3> QED BY <1>2, <3>1, TreeStable
  <2>2. CASE m = n
    <3>1. tree'[n] = c
      BY <1>1, <1>2, <1>3 DEF PreparedAs, TypeOK
    <3>2. n \in Live' /\ Of(n, c)'
      BY <1>2, <1>3, <1>4, WorkStable, OfStable
    <3> QED BY <1>3, <2>2, <3>1, <3>2 DEF TreeOK
  <2> QED BY <2>1, <2>2
<1>7. /\ q # None
      /\ \A j \in Number : j # k => runs'[j] = runs[j]
      /\ q.event = r.event /\ q.number = n /\ q.fills = r.fills /\ q.plan = r.plan
      /\ q.pr = r.pr /\ q.branch = b /\ q.token # None
      /\ q.token.issue = n /\ q.token.pr = r.pr /\ q.token.branch = b
      /\ q.token.caps = CapabilitiesFor(r.event.task)
  BY <1>1, <1>2, <1>3, PreparedRun
<1>8. \A j \in Number : j # k => RunOK(j)'
  BY <1>2, <1>5, <1>7, RunStable
<1>9. PlanOK(r)' /\ Of(n, b)' /\ (r.pr # None => Kin(n, r.pr)')
  <2>1. r \in Run /\ PlanOK(r)
    BY <1>1, <1>2, RunType
  <2>2. PlanOK(r)'
    BY <1>1, <1>2, <1>5, <2>1, PlanStable
  <2> QED BY <1>1, <1>2, <1>3, <1>4, <2>2, OfStable DEF PlanOK
<1>10. PlanOK(q)'
  BY <1>1, <1>7, <1>9 DEF PlanOK
<1>11. TokenOK(q)'
  <2>1. r.event.thread \notin Issue => r.pr # None
    BY <1>2 DEF PlanOK
  <2>2. r.event.task # "review_pr" => b # Review
    BY <1>3
  <2> QED BY <1>3, <1>5, <1>7, <1>9, <2>1, <2>2 DEF TokenOK
<1>12. NotReviewed(k, q)'
  BY <1>5, <1>7 DEF NotReviewed
<1>13. RunOK(k)'
  BY <1>1, <1>10, <1>11, <1>12 DEF RunOK
<1>14. \A m \in Number : RowOK(m)' /\ TreeOK(m)' /\ RunOK(m)'
  BY <1>5, <1>6, <1>8, <1>13
<1> QED BY <1>2, <1>14, UntouchedStable DEF OneWork

\* A run that opens a pull request from its branch does not find a review's row
\* where it notes the number: had it come from a pull request the bot made on a
\* person's, its branch would be that pull request's.
LEMMA OpenPrRow ==
    ASSUME IInv, NEW k \in Number, OpenPr(k), NEW r, r = runs[k]
    PROVE  BranchAt(r.number) # Review
<1> SUFFICES ASSUME BranchAt(r.number) = Review PROVE FALSE
  OBVIOUS
<1>1. PICK n : n = r.number
  OBVIOUS
<1>2. /\ r.branch \in Owned /\ Working(k) /\ ~ReviewMode(r)
      /\ \A q \in PersonPr \cup Opened : Head(q) # r.branch
  BY OpenPrFacts
<1>3. /\ HasRow(n) /\ RowOK(n) /\ Of(n, r.branch) /\ PlanOK(r) /\ NotReviewed(k, r)
      /\ r.token # None /\ r.event.key = k
  BY <1>1, <1>2, WorkingRun
<1>4. n \in PersonPr /\ r.event.task # "review_pr" /\ r.branch \in Branch
  BY <1>1, <1>2, <1>3, BranchFacts DEF RowOK, ReviewMode
<1>5. n # k
  BY <1>1, <1>3, <1>4 DEF NotReviewed
<1>6. WorkOf(n) = n
  BY <1>4, NumberFacts DEF WorkOf, Opened
<1>7. WorkOf(k) = n
  BY <1>1, <1>3, <1>6 DEF PlanOK, EventOK, Kin
<1>8. k \in Opened /\ prs[k][1] = n
  BY <1>5, <1>7 DEF WorkOf
<1>9. prs[k] \in Owned /\ prs[k][2] = 1
  BY <1>4, <1>8 DEF IInv, TypeOK, PrOK, Opened
<1>10. r.branch[1] = n /\ r.branch[2] = 1
  BY <1>2, <1>3, <1>4, <1>6 DEF Of, WorkOnBranch
<1>11. prs[k] = r.branch
  BY <1>2, <1>4, <1>8, <1>9, <1>10, BranchFacts
<1>12. Head(k) = prs[k]
  BY <1>8, NumberFacts DEF Head, Opened
<1> QED BY <1>2, <1>8, <1>11, <1>12

\* A pull request of the bot's is new, and belongs to the work of its branch.
LEMMA OpenPrStep ==
    ASSUME IInv, NEW k \in Number, OpenPr(k)
    PROVE  OneWork'
<1>1. PICK r, n, b, q : r = runs[k] /\ n = r.number /\ b = r.branch /\ q = runs'[k]
  OBVIOUS
<1>2. PICK p \in BotPr \ Opened : OpenedAs(k, p)
  BY OpenPrFacts
<1>3. b \in Owned /\ Working(k) /\ ~ReviewMode(r)
  BY <1>1, OpenPrFacts
<1>4. /\ TypeOK /\ HubStep /\ tree' = tree /\ queue' = queue
      /\ prs' = [prs EXCEPT ![p] = b]
  BY <1>1, <1>2, OpenPrType DEF OpenPr, git, IInv, OpenedAs
<1>5. /\ r # None /\ r \in Run /\ r.event.key = k /\ n \in Number /\ n \in Live
      /\ b \in Branch \cup {Review} /\ r.token # None
      /\ HasRow(n) /\ Of(n, b) /\ PlanOK(r) /\ TokenOK(r) /\ NotReviewed(k, r) /\ RowOK(n)
  BY <1>1, <1>3, WorkingRun
<1>6. p \in BotPr /\ p \in Number /\ p \notin Live /\ p \notin PersonPr /\ p # None /\ p # n
      /\ b # None /\ None # Review
  BY <1>3, <1>5, NumberFacts, BranchFacts DEF Live
<1>7. b[1] = WorkOf(n) /\ (b[1] \in PersonPr => b[2] = 1)
  BY <1>3, <1>5, BranchFacts DEF Of, WorkOnBranch
<1>8. prs'[p] = b /\ \A o \in BotPr : o # p => prs'[o] = prs[o]
  BY <1>4, <1>6 DEF TypeOK
<1>9. \A o \in BotPr : PrOK(o)'
  BY <1>7, <1>8 DEF IInv, PrOK
<1>10. p \in Opened' /\ p \in Live' /\ WorkOf(p)' = b[1]
  BY <1>6, <1>8 DEF Opened, Live, WorkOf
<1>11. Kin(n, p)'
  BY <1>4, <1>5, <1>7, <1>10, WorkStable DEF Kin
<1>12. CASE rows' = rows /\ runs' = runs
  <2>1. \A m \in Number : RunOK(m)'
    BY <1>4, <1>12, UntouchedStable, RunStable DEF SameRow, IInv
  <2> QED BY <1>4, <1>9, <1>12, <2>1, UntouchedStable DEF OneWork
<1>13. CASE rows' = Upsert(n, None, p) /\ Refreshed(k, [r EXCEPT !.pr = p])
  <2>1. Of(n, None)
    BY BranchFacts DEF Of
  <2>2. Fits(n, None, p)
    BY <1>1, <1>5, <1>6, <2>1, OpenPrRow DEF Fits
  <2>3. /\ \A m \in Number : RowOK(m)' /\ (HasRow(m) => HasRow(m)')
        /\ \A m \in Number : HasRow(m)' /\ BranchAt(m)' = Review
                               => HasRow(m) /\ BranchAt(m) = Review
    BY <1>4, <1>5, <1>6, <1>11, <1>13, <2>2, RowUpserted
  <2>4. PICK s : s = [r EXCEPT !.pr = p]
    OBVIOUS
  <2>5. /\ s \in Run /\ s.event = r.event /\ s.number = n /\ s.fills = r.fills
        /\ s.plan = r.plan /\ s.branch = b /\ s.pr = p /\ s.token = r.token
    BY <1>1, <1>5, <1>6, <2>4 DEF Run
  <2>6. /\ q # None
        /\ \A j \in Number : j # k => runs'[j] = runs[j]
        /\ q.event = r.event /\ q.number = n /\ q.fills = r.fills /\ q.plan = r.plan
        /\ q.pr = p /\ q.branch = b /\ q.token # None
        /\ \/ q.token = r.token
           \/ /\ q.token.issue = n /\ q.token.pr = p /\ q.token.branch = b
              /\ q.token.caps = CapabilitiesFor(r.event.task)
    <3>1. Refreshed(k, s)
      BY <1>13, <2>4
    <3> QED BY <1>1, <1>4, <1>5, <2>5, <3>1, RefreshedRun
  <2>7. \A j \in Number : j # k => RunOK(j)'
    BY <1>4, <2>3, <2>6, RunStable DEF IInv
  <2>8. PlanOK(r)' /\ TokenOK(r)'
    BY <1>1, <1>4, <1>5, <2>3, PlanStable, TokenStable
  <2>9. PlanOK(q)'
    BY <1>1, <1>6, <1>11, <2>6, <2>8 DEF PlanOK
  <2>10. r.branch \in Branch \cup {Review} /\ Of(n, b)' /\ HasRow(n)'
         /\ (r.event.task # "review_pr" => b # Review)
    BY <1>1, <1>5, <2>8 DEF TokenOK
  <2>11. TokenOK(q)'
    BY <1>1, <1>5, <1>6, <1>11, <2>6, <2>8, <2>10 DEF TokenOK
  <2>12. NotReviewed(k, q)'
    <3>1. r.number = k /\ k \in PersonPr /\ r.event.task # "review_pr" => BranchAt(k) # Review
      BY <1>1, <1>5 DEF NotReviewed
    <3> QED BY <1>1, <2>3, <2>6, <3>1 DEF NotReviewed
  <2>13. RunOK(k)'
    BY <1>1, <2>9, <2>11, <2>12 DEF RunOK
  <2> QED BY <1>4, <1>9, <2>3, <2>7, <2>13, UntouchedStable DEF OneWork
<1> QED BY <1>1, <1>2, <1>12, <1>13 DEF OpenedAs

\* A rename stays on the number of the branch, and takes every checkout along.
LEMMA RenameStep ==
    ASSUME IInv, NEW k \in Number, Rename(k)
    PROVE  OneWork'
<1>1. PICK r, n, b, q, new :
         r = runs[k] /\ n = r.number /\ b = r.branch /\ q = runs'[k] /\ new = <<b[1], 2>>
  OBVIOUS
<1>2. /\ Working(k) /\ b \in Owned /\ new \in Owned /\ n \in Issue /\ b[1] = n
      /\ tree' = [m \in Number |-> IF tree[m] = b THEN new ELSE tree[m]]
      /\ rows' = Upsert(n, new, None)
      /\ Refreshed(k, [r EXCEPT !.branch = new])
      /\ prs' = prs
  BY <1>1, RenameFacts
<1>3. /\ HubStep /\ queue' = queue /\ \A m \in Number : TreeOK(m) /\ RunOK(m)
  BY <1>2 DEF Rename, HubStep, IInv
<1>4. /\ TypeOK /\ r # None /\ r \in Run /\ r.event.key = k /\ n \in Number /\ n \in Live
      /\ r.token # None /\ HasRow(n) /\ PlanOK(r) /\ TokenOK(r)
  BY <1>1, <1>2, WorkingRun
<1>5. /\ new \in Branch /\ b \in Branch /\ b # Review /\ new # Review /\ b # None /\ None # Review
      /\ new # None
  BY <1>2, BranchFacts
<1>6. n \notin PersonPr /\ None \notin PersonPr /\ b[1] \notin PersonPr
  BY <1>2, NumberFacts
<1>7. new[1] = b[1]
  BY <1>1
<1>8. \A m : Of(m, b) => Of(m, new)
  BY <1>2, <1>5, <1>6, <1>7 DEF Of, WorkOnBranch
<1>9. Of(n, new)
  BY <1>1, <1>4, <1>8 DEF TokenOK
<1>10. Fits(n, new, None)
  BY <1>2, <1>4, <1>5, <1>6, <1>9 DEF Fits
<1>11. /\ \A m \in Number : RowOK(m)' /\ (HasRow(m) => HasRow(m)')
       /\ \A m \in Number : HasRow(m)' /\ BranchAt(m)' = Review
                              => HasRow(m) /\ BranchAt(m) = Review
  BY <1>2, <1>3, <1>4, <1>5, <1>10, RowUpserted
<1>12. ASSUME NEW m \in Number PROVE TreeOK(m)'
  <2>1. CASE tree[m] # b
    BY <1>2, <1>3, <1>4, <2>1, TreeStable
  <2>2. CASE tree[m] = b
    <3>1. tree'[m] = new
      BY <1>2, <2>2
    <3>2. m \in Live /\ Of(m, new)
      BY <1>3, <1>5, <1>8, <2>2 DEF TreeOK
    <3>3. m \in Live' /\ Of(m, new)'
      BY <1>3, <1>4, <3>2, WorkStable, OfStable
    <3> QED BY <1>5, <3>1, <3>3 DEF TreeOK
  <2> QED BY <2>1, <2>2
<1>13. PICK s : s = [r EXCEPT !.branch = new]
  OBVIOUS
<1>14. /\ s \in Run /\ s.event = r.event /\ s.number = n /\ s.fills = r.fills
       /\ s.plan = r.plan /\ s.branch = new /\ s.pr = r.pr /\ s.token = r.token
  BY <1>1, <1>4, <1>5, <1>13 DEF Run
<1>15. /\ q # None
       /\ \A j \in Number : j # k => runs'[j] = runs[j]
       /\ q.event = r.event /\ q.number = n /\ q.fills = r.fills /\ q.plan = r.plan
       /\ q.pr = r.pr /\ q.branch = new /\ q.token # None
       /\ \/ q.token = r.token
          \/ /\ q.token.issue = n /\ q.token.pr = r.pr /\ q.token.branch = new
             /\ q.token.caps = CapabilitiesFor(r.event.task)
  <2>1. Refreshed(k, s)
    BY <1>2, <1>13
  <2> QED BY <1>1, <1>4, <1>5, <1>14, <2>1, RefreshedRun
<1>16. \A j \in Number : j # k => RunOK(j)'
  BY <1>3, <1>4, <1>11, <1>15, RunStable
<1>17. PlanOK(r)' /\ TokenOK(r)' /\ Of(n, new)'
  BY <1>1, <1>3, <1>4, <1>9, <1>11, PlanStable, TokenStable, OfStable
<1>18. PlanOK(q)'
  BY <1>1, <1>15, <1>17 DEF PlanOK
<1>19. TokenOK(q)'
  <2>1. {r.token.branch, new} \subseteq Owned
    BY <1>1, <1>2, <1>4 DEF TokenOK
  <2>2. HasRow(n)'
    BY <1>4, <1>11
  <2>3. r.event.thread \notin Issue => r.pr # None
    BY <1>4 DEF PlanOK
  <2>4. r.pr # None => Kin(n, r.pr)'
    BY <1>1, <1>17 DEF PlanOK
  <2>5. CASE q.token = r.token
    BY <1>1, <1>4, <1>5, <1>15, <1>17, <2>1, <2>2, <2>5 DEF TokenOK
  <2>6. CASE /\ q.token.issue = n /\ q.token.pr = r.pr /\ q.token.branch = new
             /\ q.token.caps = CapabilitiesFor(r.event.task)
    BY <1>1, <1>5, <1>15, <1>17, <2>1, <2>2, <2>3, <2>4, <2>6 DEF TokenOK
  <2> QED BY <1>15, <2>5, <2>6
<1>20. NotReviewed(k, q)'
  BY <1>6, <1>15 DEF NotReviewed
<1>21. RunOK(k)'
  BY <1>1, <1>18, <1>19, <1>20 DEF RunOK
<1> QED BY <1>2, <1>3, <1>11, <1>12, <1>16, <1>21, UntouchedStable DEF OneWork

\* The invariant is inductive.
LEMMA IInvStep == IInv /\ [Next]_vars => IInv'
<1> SUFFICES ASSUME IInv, [Next]_vars PROVE IInv'
  OBVIOUS
<1>1. TypeOK'
  BY TypeStep
<1>2. OneWork'
  BY RouteStep, BeginStep, PrepareStep, EndStep, OpenPrStep, RenameStep, OtherStep
     DEF Next, Step
<1> QED BY <1>1, <1>2 DEF IInv, OneWork

-----------------------------------------------------------------------------
(* What the proxy grants *)

\* A token names threads and a branch of its run's work, and with the right to
\* push or to open a pull request it is not a review's.
LEMMA TokenFacts ==
    ASSUME IInv, NEW k \in Number, Working(k), NEW r, r = runs[k], NEW t, t = r.token
    PROVE  /\ t.issue = r.number /\ WorkOf(r.number) = WorkOf(r.event.thread)
           /\ t.pr # None => WorkOf(t.pr) = WorkOf(r.event.thread)
           /\ t.caps = CapabilitiesFor(r.event.task)
           /\ t.branch \in Branch => WorkOnBranch(t.branch) = WorkOf(r.event.thread)
           /\ r.event.task # "review_pr" => t.branch \in Branch
<1>1. PlanOK(r) /\ TokenOK(r) /\ t # None
  BY WorkingRun
<1>2. /\ t.issue = r.number /\ t.caps = CapabilitiesFor(r.event.task)
      /\ r.branch \in Branch \cup {Review} /\ Of(r.number, t.branch)
      /\ t.pr # None => Kin(r.number, t.pr)
      /\ r.event.task # "review_pr" => r.branch # Review
      /\ t.branch = r.branch \/ {t.branch, r.branch} \subseteq Owned
  BY <1>1 DEF TokenOK
<1>3. WorkOf(r.number) = WorkOf(r.event.thread)
  BY <1>1 DEF PlanOK, Kin
<1> QED BY <1>2, <1>3, BranchFacts DEF Kin, Of

\* The invariant has every token confined to the work of its thread.
LEMMA ConfinedByInv == IInv => Confined
<1> SUFFICES ASSUME IInv, NEW k \in Number, Working(k), NEW t, t = runs[k].token,
                    NEW home, home = WorkOf(runs[k].event.thread)
             PROVE  /\ \A n \in Number, c \in Cap : MayWrite(t, c, n) => WorkOf(n) = home
                    /\ \A b \in Branch : MayOpen(t, b) => WorkOnBranch(b) = home
                    /\ \A n \in Number, b \in Branch \cup {Review} : MayPush(t, n, b) =>
                          WorkOf(n) = home /\ WorkOnBranch(b) = home
  BY DEF Confined
<1>1. PICK r : r = runs[k]
  OBVIOUS
<1>2. /\ WorkOf(t.issue) = home /\ (t.pr # None => WorkOf(t.pr) = home)
      /\ t.caps = CapabilitiesFor(r.event.task)
      /\ t.branch \in Branch => WorkOnBranch(t.branch) = home
      /\ r.event.task # "review_pr" => t.branch \in Branch
  BY <1>1, TokenFacts
<1>3. \A n \in Number : RunThread(t, n) => WorkOf(n) = home
  BY <1>2, NumberFacts DEF RunThread
<1>4. RunCap(t, "push") \/ RunCap(t, "open_pr") => t.branch \in Branch
  BY <1>2 DEF RunCap, CapabilitiesFor
<1>5. ASSUME NEW b \in Branch \cup {Review}, RunBranch(t, b), t.branch \in Branch
      PROVE  WorkOnBranch(b) = home
  BY <1>2, <1>5 DEF RunBranch, WorkOnBranch
<1> QED BY <1>3, <1>4, <1>5 DEF MayWrite, MayOpen, MayPush

\* The invariant has the proxy let a run push the branch it works on.
LEMMA OwnPushByInv == IInv => OwnPushGranted
<1> SUFFICES ASSUME IInv, NEW k \in Number, Working(k), ~ReviewMode(runs[k]),
                    NEW r, r = runs[k], NEW t, t = r.token
             PROVE  MayPush(t, r.number, r.branch)
  BY DEF OwnPushGranted
<1>1. /\ r.number \in Number /\ PlanOK(r) /\ TokenOK(r) /\ t # None
      /\ r.event.task # "review_pr" /\ r.branch \in Branch /\ Of(r.number, r.branch)
  BY WorkingRun DEF ReviewMode
<1>2. /\ t.issue = r.number /\ t.caps = CapabilitiesFor(r.event.task) /\ Of(r.number, t.branch)
      /\ t.branch = r.branch \/ {t.branch, r.branch} \subseteq Owned
      /\ r.event.thread \notin Issue => t.pr # None
  BY <1>1 DEF TokenOK
<1>3. RunCap(t, "push") /\ RunThread(t, r.number)
  BY <1>1, <1>2 DEF RunCap, RunThread, CapabilitiesFor, Cap
<1>4. RunBranch(t, r.branch)
  BY <1>1, <1>2, BranchFacts DEF RunBranch, Of, WorkOnBranch
<1>5. r.branch \notin Owned => r.event.thread \notin Issue
  <2> SUFFICES ASSUME r.branch \notin Owned, r.event.thread \in Issue PROVE FALSE
    OBVIOUS
  <2>1. r.number \in PersonPr
    BY <1>1, BranchFacts DEF Of
  <2>2. WorkOf(r.number) = r.number /\ WorkOf(r.event.thread) = r.event.thread
    BY <2>1, NumberFacts DEF WorkOf, Opened
  <2>3. WorkOf(r.number) = WorkOf(r.event.thread)
    BY <1>1 DEF PlanOK, Kin
  <2> QED BY <2>1, <2>2, <2>3, NumberFacts
<1>6. PushNamespace(t, r.branch)
  BY <1>2, <1>5 DEF PushNamespace
<1> QED BY <1>3, <1>4, <1>6 DEF MayPush

-----------------------------------------------------------------------------
(* The theorems *)

\* The program's tables, checkouts, events, runs and tokens keep their types,
\* and each belongs to the piece of work of the number it is stored under.
THEOREM Invariance == Spec => []IInv
BY TypeInit, IInvStep, PTL DEF Spec

\* Whatever is asked of the proxy with it, a run's token grants writes on the
\* piece of work its trigger belongs to, and on no other.
THEOREM ConfinedAlways == Spec => []Confined
BY Invariance, ConfinedByInv, PTL

\* The proxy never refuses a run that may push the push of its own checkout.
THEOREM OwnPushGrantedAlways == Spec => []OwnPushGranted
BY Invariance, OwnPushByInv, PTL

\* Type correctness, and no checkout of a branch that is gone.
THEOREM TypeCorrect == Spec => []TypeOK
<1>1. IInv => TypeOK
  BY DEF IInv
<1> QED BY <1>1, Invariance, PTL
=============================================================================

--------------------------- MODULE PollingProofs ---------------------------
(***************************************************************************)
(* What the two loops that poll GitHub guarantee, for any issues and any   *)
(* bounds.                                                                 *)
(*                                                                         *)
(* IndexSync: what the watermark leaves behind is in the index as it is on *)
(* GitHub, and work is settled as deleted only if its issue is gone; but   *)
(* for what is on record as passed over, set back or unseen.               *)
(*                                                                         *)
(* Autoclose: a batch holds claimed rows, a schedule is resolved once, and *)
(* a reply delivered in time keeps the issue open; each unless a newer     *)
(* answer was scheduled while the tick held the row.                       *)
(*                                                                         *)
(* The loops share no state, and the modules no names.                     *)
(***************************************************************************)
EXTENDS Autoclose, IndexSync, FiniteSetTheorems, WellFoundedInduction, TLAPS


-----------------------------------------------------------------------------
(* IndexSync: the inductive invariant *)

\* Nothing in the tables or the walk is from the future; no two issues were
\* updated at once.
ClockInv ==
    /\ watermark <= clock + Skew /\ startedAt <= clock + Skew /\ lastSeen <= clock
    /\ \A i \in Number : updated[i] <= clock /\ (life[i] = "live" => updated[i] > 0)
    /\ \A i, j \in Number :
          life[i] = "live" /\ life[j] = "live" /\ updated[i] = updated[j] => i = j

\* A webhook tells of a version GitHub had, or that the issue is gone.
HookInv ==
    \A m \in hooks : m.at <= updated[m.issue] /\ (m.at = 0 => life[m.issue] = "gone")

\* The ledger tracks what there is, or was.
LedgerInv == \A i \in Number : ledger[i] = "active" => life[i] # "absent"

\* Between walks its variables are reset.
RestInv ==
    /\ phase \notin {"sync", "prune"} => page = 0 /\ answer = Nothing /\ unseen = {} /\ keep = {}
    /\ phase # "sync" => lastSeen = 0

\* A walk has a page left unless it has an answer, which has an issue once, in a
\* version that GitHub had.
WalkInv ==
    /\ phase = "sync" => since = Since(watermark)
    /\ phase = "prune" => since = 0
    /\ answer.some => page > 0
    /\ ~answer.some => answer = Nothing /\ page < MaxPages
    /\ \A r \in answer.rows : since <= r.at /\ r.at <= updated[r.issue]
    /\ \A r, s \in answer.rows : r.issue = s.issue => r = s

\* Newer than all the walk has seen.
Ahead(i) == \A t \in Latest : t < updated[i]

AheadInv ==
    phase = "sync" => \A i \in Listed : Rank(i) > page * PageSize => Ahead(i)

Fresh(i) == \E r \in answer.rows : r.issue = i /\ r.at = updated[i]

\* What the walk has behind it, it has dealt with: ...
Covered(i) ==
    \/ i \in unseen
    \/ Fresh(i)
    \/ /\ i \notin Read
       /\ IF phase = "sync" THEN index[i] = updated[i] \/ i \in late ELSE i \in keep
    \/ /\ answer.full /\ page = MaxPages
       /\ phase = "sync" => Ahead(i)

CoveredInv == \A i \in Behind : Covered(i)

SyncInv ==
    /\ SyncTypeOK /\ ClockInv /\ HookInv /\ LedgerInv /\ RestInv /\ WalkInv
    /\ AheadInv /\ CoveredInv /\ WatermarkCovers

-----------------------------------------------------------------------------
(* The listing *)

\* The pages' bounds.
LEMMA Bounds ==
    /\ \A n \in Nat : n * PageSize \in Nat
    /\ \A n \in Nat : (n + 1) * PageSize = n * PageSize + PageSize
    /\ 0 * PageSize = 0
BY SizesAssumption

\* Where a page begins and ends.
LEMMA PageIs ==
    ASSUME NEW n \in Nat
    PROVE  Page(n + 1) = {i \in Listed : n * PageSize < Rank(i)
                                      /\ Rank(i) <= n * PageSize + PageSize}
<1>1. (n + 1) - 1 = n
  OBVIOUS
<1> QED BY <1>1, Bounds DEF Page

\* Those listed up to an issue.
UpTo(i) == {j \in Listed : updated[j] <= updated[i]}

\* The listing is finite, as no two issues were updated at once.
LEMMA ListingFinite ==
    ASSUME SyncTypeOK, ClockInv
    PROVE  /\ IsFiniteSet(Listed) /\ Cardinality(Listed) \in Nat
           /\ \A i \in Listed : /\ UpTo(i) \subseteq Listed /\ i \in UpTo(i)
                               /\ IsFiniteSet(UpTo(i))
                               /\ Rank(i) = Cardinality(UpTo(i))
                               /\ Rank(i) \in 1 .. Cardinality(Listed)
<1> DEFINE f == [i \in Listed |-> updated[i]]
<1>1. f \in Injection(Listed, Time)
  <2>1. \A i \in Listed : i \in Number /\ life[i] = "live" /\ updated[i] \in Time
    BY DEF Listed, SyncTypeOK
  <2>2. \A i, j \in Listed : f[i] = f[j] => i = j
    BY <2>1 DEF ClockInv
  <2> QED BY <2>1, <2>2 DEF Injection, IsInjective
<1>2. IsFiniteSet(Time)
  BY SizesAssumption, FS_Interval DEF Time
<1>3. IsFiniteSet(Listed)
  BY <1>1, <1>2, FS_Injection
<1>4. Cardinality(Listed) \in Nat
  BY <1>3, FS_CardinalityType
<1>5. ASSUME NEW i \in Listed
      PROVE  /\ UpTo(i) \subseteq Listed /\ i \in UpTo(i) /\ IsFiniteSet(UpTo(i))
             /\ Rank(i) = Cardinality(UpTo(i)) /\ Rank(i) \in 1 .. Cardinality(Listed)
  <2>1. updated[i] \in Nat
    BY SizesAssumption DEF Listed, SyncTypeOK, Time
  <2>2. UpTo(i) \subseteq Listed /\ i \in UpTo(i)
    BY <2>1 DEF UpTo
  <2>3. IsFiniteSet(UpTo(i)) /\ Cardinality(UpTo(i)) <= Cardinality(Listed)
    BY <1>3, <2>2, FS_Subset
  <2>4. Cardinality(UpTo(i)) \in Nat /\ Cardinality(UpTo(i)) # 0
    BY <2>2, <2>3, FS_CardinalityType, FS_EmptySet
  <2> QED BY <1>4, <2>2, <2>3, <2>4 DEF Rank, UpTo
<1> QED BY <1>3, <1>4, <1>5

\* Ranks are in the order of the updates, and no two issues have one.
LEMMA RankOrder ==
    ASSUME SyncTypeOK, ClockInv, NEW i \in Listed, NEW j \in Listed
    PROVE  /\ Rank(i) < Rank(j) => updated[i] < updated[j]
           /\ Rank(i) = Rank(j) => i = j
<1>1. updated[i] \in Nat /\ updated[j] \in Nat /\ life[i] = "live" /\ life[j] = "live"
      /\ i \in Number /\ j \in Number
  BY SizesAssumption DEF Listed, SyncTypeOK, Time
<1>2. \A k \in Listed : updated[k] \in Nat
  BY SizesAssumption DEF Listed, SyncTypeOK, Time
<1>3. ASSUME NEW x \in Listed, NEW y \in Listed, updated[x] <= updated[y]
      PROVE  UpTo(x) \subseteq UpTo(y) /\ Rank(x) <= Rank(y)
  <2>1. UpTo(x) \subseteq UpTo(y)
    BY <1>2, <1>3 DEF UpTo
  <2> QED BY <2>1, ListingFinite, FS_Subset
<1>4. ASSUME NEW x \in Listed, NEW y \in Listed, updated[x] < updated[y]
      PROVE  Rank(x) # Rank(y)
  <2>1. UpTo(x) \subseteq UpTo(y)
    BY <1>2, <1>3, <1>4
  <2>2. y \in UpTo(y) /\ y \notin UpTo(x)
    BY <1>2, <1>4 DEF UpTo
  <2> QED BY <2>1, <2>2, ListingFinite, FS_Subset
<1>5. Rank(i) \in Nat /\ Rank(j) \in Nat
  BY ListingFinite
<1>6. Rank(i) < Rank(j) => updated[i] < updated[j]
  BY <1>1, <1>3, <1>5
<1>7. Rank(i) = Rank(j) => updated[i] = updated[j]
  BY <1>1, <1>4
<1> QED BY <1>1, <1>6, <1>7 DEF ClockInv

\* A page that is not the last has an issue in each of its places.
LEMMA FullPage ==
    ASSUME SyncTypeOK, ClockInv, NEW n \in Nat, NEW j \in Listed,
           Rank(j) > n * PageSize + PageSize
    PROVE  Cardinality(Page(n + 1)) = PageSize
<1> DEFINE N == Cardinality(Listed)
           f == [i \in Listed |-> Rank(i)]
           low == n * PageSize + 1
           high == n * PageSize + PageSize
           P == Page(n + 1)
           g == [i \in P |-> Rank(i)]
<1>1. N \in Nat /\ low \in Nat /\ high \in Nat /\ 1 <= low /\ high - low + 1 = PageSize
  BY ListingFinite, Bounds, SizesAssumption
<1>2. f \in Injection(Listed, 1 .. N)
  <2>1. \A i \in Listed : Rank(i) \in 1 .. N
    BY ListingFinite
  <2>2. \A i, k \in Listed : f[i] = f[k] => i = k
    BY RankOrder
  <2> QED BY <2>1, <2>2 DEF Injection, IsInjective
<1>3. IsFiniteSet(1 .. N) /\ Cardinality(1 .. N) = N
  BY <1>1, FS_Interval
<1>4. f \in Surjection(Listed, 1 .. N)
  BY <1>2, <1>3, FS_Injection
<1>5. high < N
  BY <1>1, ListingFinite
<1>6. P \subseteq Listed /\ \A i \in Listed : i \in P <=> Rank(i) \in low .. high
  BY <1>1, PageIs, ListingFinite
<1>7. g \in Injection(P, low .. high)
  <2>1. \A i \in P : Rank(i) \in low .. high
    BY <1>6
  <2>2. \A i, k \in P : g[i] = g[k] => i = k
    BY <1>6, RankOrder
  <2> HIDE DEF P
  <2> QED BY <2>1, <2>2 DEF Injection, IsInjective
<1>8. g \in Surjection(P, low .. high)
  <2>1. ASSUME NEW r \in low .. high
        PROVE  \E i \in P : g[i] = r
    <3>1. r \in 1 .. N
      BY <1>1, <1>5
    <3>2. PICK i \in Listed : f[i] = r
      BY <1>4, <3>1 DEF Surjection
    <3> QED BY <1>6, <3>2
  <2> HIDE DEF P
  <2> QED BY <1>7, <2>1 DEF Injection, Surjection
<1>9. IsFiniteSet(low .. high) /\ Cardinality(low .. high) = PageSize
  BY <1>1, FS_Interval, SizesAssumption
<1> HIDE DEF g, P, low, high
<1> QED BY <1>7, <1>8, <1>9, FS_Injection DEF P

-----------------------------------------------------------------------------
(* An answer *)

\* What the walk has seen has a latest time.
LEMMA LatestIs ==
    ASSUME SyncTypeOK
    PROVE  /\ Latest \subseteq Time
           /\ NewLastSeen \in Latest /\ \A t \in Latest : t <= NewLastSeen
<1> DEFINE R == {ss \in Nat \X Nat : ss[1] < ss[2]}
           T == {MaxClock - t : t \in Latest}
<1>1. Latest \subseteq Time /\ lastSeen \in Latest
  BY DEF SyncTypeOK, Latest
<1>2. IsWellFoundedOn(R, Nat)
  <2>1. R = OpToRel(<, Nat)
    BY DEF OpToRel
  <2> QED BY <2>1, NatLessThanWellFounded
<1>3. \A t \in Latest : t \in Nat /\ MaxClock - t \in Nat /\ MaxClock - t \in T
  BY <1>1, SizesAssumption DEF Time
<1>4. T \subseteq Nat /\ T # {}
  BY <1>1, <1>3
<1>5. PICK x \in T : \A y \in T : <<y, x>> \notin R
  <2> HIDE DEF R, T
  <2> QED BY <1>2, <1>4, WFMin
<1>6. PICK t \in Latest : x = MaxClock - t
  BY <1>5
<1>7. \A u \in Latest : u <= t
  <2> SUFFICES ASSUME NEW u \in Latest PROVE u <= t
    OBVIOUS
  <2>1. ~(MaxClock - u < x)
    BY <1>3, <1>4, <1>5
  <2> QED BY <1>3, <1>6, <2>1, SizesAssumption
<1> QED BY <1>1, <1>6, <1>7 DEF NewLastSeen

\* The row of an issue that was read.
RowOf(i) == CHOOSE r \in answer.rows : r.issue = i

\* Who was read has a row, and one only.
LEMMA RowOfRead ==
    ASSUME SyncTypeOK, WalkInv, NEW i \in Read
    PROVE  /\ RowOf(i) \in answer.rows /\ RowOf(i).issue = i
           /\ RowOf(i).at \in Time /\ i \in Number
           /\ \A r \in answer.rows : r.issue = i => r = RowOf(i)
           /\ RowOf(i).at \in Latest
           /\ since <= RowOf(i).at /\ RowOf(i).at <= updated[i]
           /\ Fresh(i) <=> RowOf(i).at = updated[i]
<1>1. \E r \in answer.rows : r.issue = i
  BY DEF Read
<1>2. RowOf(i) \in answer.rows /\ RowOf(i).issue = i
  BY <1>1 DEF RowOf
<1>3. \A r \in answer.rows : r.issue = i => r = RowOf(i)
  BY <1>2 DEF WalkInv
<1>4. answer.rows \subseteq [issue : Number, at : Time]
  BY DEF SyncTypeOK
<1>5. RowOf(i).at \in Time /\ i \in Number
  BY <1>2, <1>4
<1>6. RowOf(i).at \in Latest
  BY <1>2 DEF Latest
<1>7. since <= RowOf(i).at /\ RowOf(i).at <= updated[i]
  BY <1>2 DEF WalkInv
<1>8. Fresh(i) <=> RowOf(i).at = updated[i]
  BY <1>2, <1>3 DEF Fresh
<1> QED BY <1>2, <1>3, <1>5, <1>6, <1>7, <1>8

-----------------------------------------------------------------------------
(* Types *)

\* The initial state.
LEMMA SyncInitInv == SyncInit => SyncInv
<1> SUFFICES ASSUME SyncInit PROVE SyncInv
  OBVIOUS
<1> USE SizesAssumption DEF SyncInit, Nothing
<1>1. SyncTypeOK
  BY DEF SyncTypeOK, Time, HostTime
<1>2. ClockInv
  BY DEF ClockInv
<1>3. HookInv /\ LedgerInv /\ RestInv /\ WalkInv
  BY DEF HookInv, LedgerInv, RestInv, WalkInv
<1>4. AheadInv /\ CoveredInv
  BY DEF AheadInv, CoveredInv, Behind, Walking
<1>5. WatermarkCovers
  BY DEF WatermarkCovers
<1> QED BY <1>1, <1>2, <1>3, <1>4, <1>5 DEF SyncInv

\* A time less the overlap is a time.
LEMMA SinceType ==
    ASSUME NEW w \in HostTime
    PROVE  Since(w) \in HostTime /\ Since(w) <= w /\ (Since(w) > 0 => Since(w) = w - Overlap)
BY SizesAssumption DEF Since, HostTime

\* Every variable keeps its type.
LEMMA SyncTypeStep == SyncTypeOK /\ WalkInv /\ [SyncNext]_syncVars => SyncTypeOK'
<1> SUFFICES ASSUME SyncTypeOK, WalkInv, [SyncNext]_syncVars PROVE SyncTypeOK'
  OBVIOUS
<1>1. /\ 0 \in Time /\ 0 \in HostTime /\ Time \subseteq HostTime
      /\ clock + Skew \in HostTime /\ (clock < MaxClock => clock + 1 \in Time)
      /\ 0 \in 0 .. MaxPages
  BY SizesAssumption DEF Time, HostTime, SyncTypeOK
<1>2. ASSUME NEW i \in Number, NEW at \in Time, Send(i, at)
      PROVE  hooks' \subseteq [issue : Number, at : Time]
  BY <1>2 DEF Send, SyncTypeOK
<1>3. ASSUME NEW i \in Number, Shift(i) PROVE unseen' \subseteq unseen \cup Behind' \cup {i}
  BY <1>3 DEF Shift
<1>4. Behind' \subseteq Number
  BY DEF Behind, Listed
<1>5. ASSUME NEW i \in Number, Create(i) \/ Edit(i) \/ Delete(i) PROVE SyncTypeOK'
  <2>1. unseen' \subseteq Number
    BY <1>3, <1>4, <1>5 DEF Create, Edit, Delete, SyncTypeOK
  <2>2. hooks' \subseteq [issue : Number, at : Time]
    BY <1>1, <1>2, <1>5 DEF Create, Edit, Delete
  <2>3. clock' \in Time /\ life' \in [Number -> {"absent", "live", "gone"}]
        /\ updated' \in [Number -> Time]
    BY <1>1, <1>5 DEF Create, Edit, Delete, SyncTypeOK
  <2> QED BY <1>5, <2>1, <2>2, <2>3 DEF Create, Edit, Delete, SyncTypeOK, tables, walk
<1>6. ASSUME NEW i \in Number, Track(i) PROVE SyncTypeOK'
  BY <1>6 DEF Track, SyncTypeOK, remote, walk, history
<1>7. ASSUME NEW m \in hooks, IngestWebhook(m) PROVE SyncTypeOK'
  <2>1. m.issue \in Number /\ m.at \in Time
    BY DEF SyncTypeOK
  <2>2. late' \subseteq Number
    BY <1>7, <2>1 DEF IngestWebhook, SyncTypeOK
  <2>3. index' \in [Number -> Time] /\ ledger' \in [Number -> {"none", "active", "abandoned"}]
    BY <1>7, <2>1 DEF IngestWebhook, SyncTypeOK
  <2> QED BY <1>7, <2>2, <2>3 DEF IngestWebhook, SyncTypeOK, walk
<1>8. CASE BeginSync
  BY <1>1, <1>8, SinceType DEF BeginSync, StartWalk, SyncTypeOK, remote, tables
<1>9. CASE FetchPage
  <2>1. page + 1 \in 0 .. MaxPages
    BY <1>9, SizesAssumption DEF FetchPage, WalkInv, SyncTypeOK
  <2>2. \A i \in Page(page + 1) : i \in Number /\ updated[i] \in Time
    BY DEF Page, Listed, SyncTypeOK
  <2>3. answer'.full \in BOOLEAN /\ answer'.some \in BOOLEAN
        /\ answer'.rows \subseteq [issue : Number, at : Time]
    BY <1>9, <2>2 DEF FetchPage
  <2> QED BY <1>9, <2>1, <2>3 DEF FetchPage, SyncTypeOK, remote, tables, history
<1>10. NewLastSeen \in Time
  BY LatestIs
<1>11. Ingest => index' \in [Number -> Time] /\ late' \subseteq Number
  <2> SUFFICES ASSUME Ingest PROVE index' \in [Number -> Time] /\ late' \subseteq Number
    OBVIOUS
  <2>1. \A i \in Number : (IF i \in Read THEN RowOf(i).at ELSE index[i]) \in Time
    BY RowOfRead DEF SyncTypeOK
  <2>2. index' = [i \in Number |-> IF i \in Read THEN RowOf(i).at ELSE index[i]]
    BY DEF Ingest, RowOf
  <2> QED BY <2>1, <2>2 DEF Ingest, SyncTypeOK
<1>12. Nothing.full \in BOOLEAN /\ Nothing.some \in BOOLEAN /\ Nothing.rows = {}
  BY DEF Nothing
<1>13. CASE NextPage
  BY <1>10, <1>11, <1>12, <1>13 DEF NextPage, SyncTypeOK, remote
<1>14. LeaveWalk => /\ startedAt' \in HostTime /\ since' \in HostTime /\ lastSeen' \in Time
                    /\ page' \in 0 .. MaxPages
                    /\ keep' \subseteq Number /\ unseen' \subseteq Number
                    /\ answer'.full \in BOOLEAN /\ answer'.some \in BOOLEAN
                    /\ answer'.rows \subseteq [issue : Number, at : Time]
  BY <1>1, <1>12 DEF LeaveWalk
<1>15. CASE EndSync
  <2>1. watermark' \in HostTime
    BY <1>1, <1>10, <1>15 DEF EndSync, SyncTypeOK
  <2>2. skipped' \subseteq Number
    BY <1>15 DEF EndSync, PassOver, SyncTypeOK
  <2> QED BY <1>11, <1>14, <1>15, <2>1, <2>2 DEF EndSync, SyncTypeOK, remote
<1>16. CASE SkipPrune
  BY <1>16 DEF SkipPrune, SyncTypeOK, remote, tables, history
<1>17. CASE BeginPrune
  BY <1>1, <1>17 DEF BeginPrune, StartWalk, SyncTypeOK, remote, tables
<1>18. Read \subseteq Number
  BY DEF Read, SyncTypeOK
<1>19. CASE PruneNextPage
  BY <1>12, <1>18, <1>19 DEF PruneNextPage, SyncTypeOK, remote, tables, history
<1>20. CASE EndPrune
  <2>1. /\ index' \in [Number -> Time] /\ ledger' \in [Number -> {"none", "active", "abandoned"}]
        /\ late' \subseteq Number /\ skipped' \subseteq Number
    BY <1>1, <1>20 DEF EndPrune, Settle, SyncTypeOK
  <2> QED BY <1>14, <1>20, <2>1 DEF EndPrune, SyncTypeOK, remote
<1>21. CASE TickFails
  BY <1>14, <1>21 DEF TickFails, SyncTypeOK, remote, tables
<1>22. CASE UNCHANGED syncVars
  BY <1>22 DEF syncVars, remote, tables, walk, history, SyncTypeOK
<1> QED BY <1>5, <1>6, <1>7, <1>8, <1>9, <1>13, <1>15, <1>16, <1>17, <1>19, <1>20, <1>21, <1>22
    DEF SyncNext, Activity, SyncStep, PruneStep

-----------------------------------------------------------------------------
(* The parts that one action at a time keeps *)

\* Times are numbers.
LEMMA Numbers ==
    ASSUME SyncTypeOK
    PROVE  /\ clock \in Nat /\ watermark \in Nat /\ startedAt \in Nat /\ since \in Nat
           /\ lastSeen \in Nat /\ page \in Nat /\ MaxPages \in Nat /\ page <= MaxPages
           /\ \A i \in Number : updated[i] \in Nat /\ index[i] \in Nat
           /\ \A r \in answer.rows : r.issue \in Number /\ r.at \in Nat
           /\ \A m \in hooks : m.issue \in Number /\ m.at \in Nat
           /\ Time \subseteq Nat /\ Overlap \in Nat /\ Skew \in Nat /\ Skew <= Overlap
<1> USE SizesAssumption
<1>1. Time \subseteq Nat /\ HostTime \subseteq Nat
  BY DEF Time, HostTime
<1>2. /\ clock \in Nat /\ watermark \in Nat /\ startedAt \in Nat /\ since \in Nat
      /\ lastSeen \in Nat /\ page \in Nat /\ page <= MaxPages
  BY <1>1 DEF SyncTypeOK
<1>3. \A i \in Number : updated[i] \in Nat /\ index[i] \in Nat
  BY <1>1 DEF SyncTypeOK
<1>4. answer.rows \subseteq [issue : Number, at : Time] /\ hooks \subseteq [issue : Number,
    at : Time]
  BY DEF SyncTypeOK
<1>5. /\ \A r \in answer.rows : r.issue \in Number /\ r.at \in Nat
      /\ \A m \in hooks : m.issue \in Number /\ m.at \in Nat
  BY <1>1, <1>4
<1> QED BY <1>1, <1>2, <1>3, <1>5

\* What a change on GitHub does: one issue gets a new time, or is gone.
Changed(i) ==
    /\ clock' \in {clock, clock + 1}
    /\ \A j \in Number \ {i} : life'[j] = life[j] /\ updated'[j] = updated[j]
    /\ updated[i] <= updated'[i]
    /\ \/ life'[i] = "gone" /\ updated'[i] = updated[i]
       \/ life[i] # "gone" /\ life'[i] = "live" /\ updated'[i] = clock + 1 /\ clock' = clock + 1
    /\ \/ UNCHANGED hooks
       \/ hooks' = hooks \cup {[issue |-> i, at |-> IF life'[i] = "gone" THEN 0 ELSE clock + 1]}
    /\ UNCHANGED <<tables, walk, skipped, late>>
    /\ Shift(i)

\* That is what the actions of people are.
LEMMA PeopleChange ==
    ASSUME SyncTypeOK, ClockInv, NEW i \in Number, Create(i) \/ Edit(i) \/ Delete(i)
    PROVE  Changed(i)
<1>1. clock \in Nat /\ updated[i] \in Nat /\ updated[i] <= clock
  BY Numbers DEF ClockInv
<1>2. CASE Create(i)
  BY <1>1, <1>2 DEF Create, Send, Changed, SyncTypeOK
<1>3. CASE Edit(i)
  BY <1>1, <1>3 DEF Edit, Send, Changed, SyncTypeOK
<1>4. CASE Delete(i)
  BY <1>1, <1>4 DEF Delete, Send, Changed, SyncTypeOK
<1> QED BY <1>2, <1>3, <1>4

\* The walk has seen nothing from the future.
LEMMA LatestIsPast ==
    ASSUME SyncTypeOK, ClockInv, WalkInv
    PROVE  \A t \in Latest : t <= clock
<1>1. ASSUME NEW r \in answer.rows PROVE r.at <= clock
  <2>1. r.issue \in Number /\ r.at \in Nat /\ updated[r.issue] \in Nat /\ clock \in Nat
    BY Numbers
  <2>2. r.at <= updated[r.issue] /\ updated[r.issue] <= clock
    BY <2>1 DEF WalkInv, ClockInv
  <2> QED BY <2>1, <2>2
<1> QED BY <1>1 DEF Latest, ClockInv

\* The clock and the times that are taken from it.
LEMMA ClockStep == SyncTypeOK /\ ClockInv /\ WalkInv /\ [SyncNext]_syncVars => ClockInv'
<1> SUFFICES ASSUME SyncTypeOK, ClockInv, WalkInv, [SyncNext]_syncVars PROVE ClockInv'
  OBVIOUS
<1>1. /\ clock \in Nat /\ Skew \in Nat /\ lastSeen \in Nat /\ watermark \in Nat
      /\ startedAt \in Nat /\ \A i \in Number : updated[i] \in Nat
  BY Numbers
<1>0. watermark <= clock + Skew /\ startedAt <= clock + Skew /\ lastSeen <= clock
  BY DEF ClockInv
<1>2. ASSUME NEW i \in Number, Changed(i) PROVE ClockInv'
  <2>1. UNCHANGED <<watermark, startedAt, lastSeen>> /\ clock <= clock' /\ clock' \in Nat
    BY <1>1, <1>2 DEF Changed, tables, walk
  <2>2. \A j \in Number : updated'[j] <= clock' /\ (life'[j] = "live" => updated'[j] > 0)
    BY <1>1, <1>2, <2>1 DEF Changed, ClockInv
  <2>3. ASSUME NEW j \in Number, NEW k \in Number, life'[j] = "live", life'[k] = "live",
               updated'[j] = updated'[k]
        PROVE  j = k
    BY <1>1, <1>2, <2>3 DEF Changed, ClockInv
  <2>4. watermark' <= clock' + Skew /\ startedAt' <= clock' + Skew /\ lastSeen' <= clock'
    <3>1. /\ watermark \in Nat /\ startedAt \in Nat /\ lastSeen \in Nat
          /\ clock \in Nat /\ Skew \in Nat
      BY <1>1
    <3>2. \A x \in Nat : x <= clock + Skew => x <= clock' + Skew
      <4>1. \A x, c, d, k \in Nat : c <= d /\ x <= c + k => x <= d + k
        OBVIOUS
      <4>2. clock' \in Nat /\ clock <= clock'
        BY <2>1
      <4> QED BY <3>1, <4>1, <4>2
    <3>3. watermark' = watermark /\ startedAt' = startedAt /\ lastSeen' = lastSeen
      BY <2>1
    <3>4. lastSeen <= clock'
      BY <1>0, <2>1, <3>1
    <3> QED BY <1>0, <3>1, <3>2, <3>3, <3>4
  <2> QED BY <2>2, <2>3, <2>4 DEF ClockInv
<1>3. ASSUME NEW i \in Number, Track(i) PROVE ClockInv'
  BY <1>3 DEF Track, ClockInv, remote, walk
<1>4. ASSUME NEW m \in hooks, IngestWebhook(m) PROVE ClockInv'
  BY <1>4 DEF IngestWebhook, ClockInv, walk
<1>5. CASE BeginSync
  BY <1>1, <1>5 DEF BeginSync, ClockInv, remote, tables
<1>6. CASE FetchPage
  BY <1>6 DEF FetchPage, ClockInv, remote, tables
<1>7. NewLastSeen \in Nat /\ NewLastSeen <= clock
  BY LatestIs, LatestIsPast, Numbers
<1>8. CASE NextPage
  BY <1>7, <1>8 DEF NextPage, ClockInv, remote
<1>9. CASE EndSync
  <2>1. watermark' <= clock + Skew
    <3>1. watermark' \in {startedAt, NewLastSeen}
      BY <1>9 DEF EndSync
    <3>2. NewLastSeen <= clock + Skew
      BY <1>1, <1>7
    <3> QED BY <1>0, <3>1, <3>2
  <2> QED BY <1>1, <1>9, <2>1 DEF EndSync, LeaveWalk, ClockInv, remote
<1>10. CASE SkipPrune \/ BeginPrune \/ PruneNextPage
  BY <1>10 DEF SkipPrune, BeginPrune, PruneNextPage, ClockInv, remote, tables
<1>11. CASE EndPrune
  BY <1>1, <1>11 DEF EndPrune, LeaveWalk, ClockInv, remote
<1>12. CASE TickFails
  BY <1>1, <1>12 DEF TickFails, LeaveWalk, ClockInv, remote, tables
<1>13. CASE UNCHANGED syncVars
  BY <1>13 DEF syncVars, remote, tables, walk, ClockInv
<1> QED BY <1>2, <1>3, <1>4, <1>5, <1>6, <1>8, <1>9, <1>10, <1>11, <1>12, <1>13, PeopleChange
    DEF SyncNext, Activity, SyncStep, PruneStep

\* What webhooks say, and what the ledger tracks.
LEMMA HookStep ==
    ASSUME SyncTypeOK, ClockInv, HookInv, LedgerInv, [SyncNext]_syncVars
    PROVE  HookInv' /\ LedgerInv'
<1>1. ASSUME NEW i \in Number, Changed(i) PROVE HookInv' /\ LedgerInv'
  <2>1. UNCHANGED ledger /\ clock \in Nat /\ \A j \in Number : updated[j] \in Nat
    BY <1>1, Numbers DEF Changed, tables
  <2>2. \A j \in Number : /\ updated[j] <= updated'[j] /\ updated'[j] \in Nat
                          /\ life[j] = "gone" => life'[j] = "gone"
                          /\ life[j] # "absent" => life'[j] # "absent"
    BY <1>1, <2>1 DEF Changed
  <2>3. ASSUME NEW m \in hooks'
        PROVE  m.at <= updated'[m.issue] /\ (m.at = 0 => life'[m.issue] = "gone")
    <3>1. CASE m \in hooks
      <4>1. m.issue \in Number /\ m.at \in Nat /\ m.at <= updated[m.issue]
        BY <3>1, Numbers DEF HookInv
      <4> QED BY <2>1, <2>2, <3>1, <4>1 DEF HookInv
    <3>2. CASE m = [issue |-> i, at |-> IF life'[i] = "gone" THEN 0 ELSE clock + 1]
      BY <1>1, <2>1, <2>2, <3>2 DEF Changed
    <3> QED BY <1>1, <3>1, <3>2 DEF Changed
  <2> QED BY <2>1, <2>2, <2>3 DEF HookInv, LedgerInv
<1>2. ASSUME NEW i \in Number, Track(i) PROVE HookInv' /\ LedgerInv'
  BY <1>2 DEF Track, HookInv, LedgerInv, remote, SyncTypeOK
<1>3. ASSUME NEW m \in hooks, IngestWebhook(m) PROVE HookInv' /\ LedgerInv'
  <2>1. hooks' \subseteq hooks /\ UNCHANGED <<life, updated>>
    BY <1>3 DEF IngestWebhook
  <2>2. \A j \in Number : ledger'[j] = "active" => ledger[j] = "active"
    BY <1>3, Numbers DEF IngestWebhook, SyncTypeOK
  <2> QED BY <2>1, <2>2 DEF HookInv, LedgerInv
<1>4. CASE BeginSync \/ FetchPage \/ NextPage \/ EndSync \/ SkipPrune \/ BeginPrune
           \/ PruneNextPage \/ TickFails
  BY <1>4 DEF BeginSync, FetchPage, NextPage, EndSync, SkipPrune, BeginPrune, PruneNextPage,
              TickFails, HookInv, LedgerInv, remote, tables
<1>5. CASE EndPrune
  <2>1. \A j \in Number : ledger'[j] = "active" => ledger[j] = "active"
    BY <1>5 DEF EndPrune, Settle, SyncTypeOK
  <2> QED BY <1>5, <2>1 DEF EndPrune, HookInv, LedgerInv, remote
<1>6. CASE UNCHANGED syncVars
  BY <1>6 DEF syncVars, remote, tables, HookInv, LedgerInv
<1> QED BY <1>1, <1>2, <1>3, <1>4, <1>5, <1>6, PeopleChange DEF SyncNext, Activity, SyncStep,
    PruneStep

\* The walk's variables between walks.
LEMMA RestStep == SyncTypeOK /\ RestInv /\ [SyncNext]_syncVars => RestInv'
<1> SUFFICES ASSUME SyncTypeOK, RestInv, [SyncNext]_syncVars PROVE RestInv'
  OBVIOUS
<1>1. ASSUME NEW i \in Number, Create(i) \/ Edit(i) \/ Delete(i) PROVE RestInv'
  <2>1. UNCHANGED walk /\ Shift(i)
    BY <1>1 DEF Create, Edit, Delete
  <2>2. phase \notin {"sync", "prune"} => unseen' = {}
    BY <2>1 DEF Shift, Behind, Walking, walk
  <2> QED BY <2>1, <2>2 DEF RestInv, walk
<1>2. ASSUME NEW i \in Number, Track(i) PROVE RestInv'
  BY <1>2 DEF Track, RestInv, walk, history
<1>3. ASSUME NEW m \in hooks, IngestWebhook(m) PROVE RestInv'
  BY <1>3 DEF IngestWebhook, RestInv, walk
<1>4. CASE BeginSync \/ FetchPage \/ NextPage \/ SkipPrune \/ BeginPrune \/ PruneNextPage
  BY <1>4 DEF BeginSync, FetchPage, NextPage, Ingest, SkipPrune, BeginPrune, PruneNextPage,
              StartWalk, RestInv, history
<1>5. CASE EndSync \/ EndPrune \/ TickFails
  BY <1>5 DEF EndSync, EndPrune, TickFails, LeaveWalk, RestInv
<1>6. CASE UNCHANGED syncVars
  BY <1>6 DEF syncVars, walk, history, RestInv
<1> QED BY <1>1, <1>2, <1>3, <1>4, <1>5, <1>6 DEF SyncNext, Activity, SyncStep, PruneStep

\* What the walk goes by.
LEMMA WalkStep == SyncTypeOK /\ ClockInv /\ RestInv /\ WalkInv /\ [SyncNext]_syncVars => WalkInv'
<1> SUFFICES ASSUME SyncTypeOK, RestInv, WalkInv, [SyncNext]_syncVars, ClockInv PROVE WalkInv'
  OBVIOUS
<1>1. ASSUME NEW i \in Number, Changed(i) PROVE WalkInv'
  <2>1. UNCHANGED <<walk, watermark>>
    BY <1>1 DEF Changed, tables
  <2>2. \A j \in Number : updated[j] <= updated'[j] /\ updated'[j] \in Nat /\ updated[j] \in Nat
    BY <1>1, Numbers DEF Changed
  <2>3. \A r \in answer.rows : since <= r.at /\ r.at <= updated'[r.issue]
    BY <2>2, Numbers DEF WalkInv
  <2> QED BY <2>1, <2>3 DEF WalkInv, walk, Since
<1>2. ASSUME NEW i \in Number, Track(i) PROVE WalkInv'
  BY <1>2 DEF Track, WalkInv, walk, remote, Since
<1>3. ASSUME NEW m \in hooks, IngestWebhook(m) PROVE WalkInv'
  BY <1>3 DEF IngestWebhook, WalkInv, walk, Since
<1>4. Nothing.rows = {} /\ ~Nothing.some /\ 0 < MaxPages
  BY SizesAssumption DEF Nothing
<1>5. CASE BeginSync
  BY <1>4, <1>5 DEF BeginSync, StartWalk, RestInv, WalkInv, tables, remote, Since
<1>6. CASE FetchPage
  <2>1. /\ page' > 0 /\ answer'.some /\ UNCHANGED <<phase, since, watermark, updated>>
        /\ answer'.rows = {[issue |-> i, at |-> updated[i]] : i \in Page(page + 1)}
    BY <1>6, Numbers DEF FetchPage, tables, remote
  <2>2. \A i \in Page(page + 1) : i \in Number /\ since <= updated[i] /\ updated[i] \in Nat
    BY Numbers DEF Page, Listed
  <2> QED BY <2>1, <2>2 DEF WalkInv, Since
<1>7. CASE NextPage
  BY <1>4, <1>7, Numbers DEF NextPage, Ingest, Over, WalkInv, Since
<1>8. CASE EndSync \/ EndPrune \/ TickFails
  BY <1>4, <1>8 DEF EndSync, EndPrune, TickFails, LeaveWalk, WalkInv
<1>9. CASE SkipPrune
  BY <1>9 DEF SkipPrune, RestInv, WalkInv, remote, tables
<1>10. CASE BeginPrune
  BY <1>4, <1>10 DEF BeginPrune, StartWalk, RestInv, WalkInv
<1>11. CASE PruneNextPage
  BY <1>4, <1>11, Numbers DEF PruneNextPage, Over, WalkInv, remote, tables
<1>12. CASE UNCHANGED syncVars
  BY <1>12 DEF syncVars, walk, remote, tables, WalkInv, Since
<1> QED BY <1>1, <1>2, <1>3, <1>5, <1>6, <1>7, <1>8, <1>9, <1>10, <1>11, <1>12, PeopleChange
    DEF SyncNext, Activity, SyncStep, PruneStep

-----------------------------------------------------------------------------
(* What a change does to the listing *)

\* The others keep their order, and none of them moves back.
LEMMA RanksFall ==
    ASSUME SyncTypeOK, ClockInv, NEW i \in Number, Changed(i), NEW j \in Listed', j # i
    PROVE  /\ j \in Listed /\ updated'[j] = updated[j]
           /\ Rank(j)' \in Nat /\ Rank(j)' <= Rank(j)
<1> DEFINE U == {k \in Listed' : updated'[k] <= updated'[j]}
<1>1. /\ \A k \in Number : updated[k] \in Nat /\ updated[k] <= clock
      /\ clock \in Nat /\ j \in Number /\ since' = since
  BY Numbers DEF ClockInv, Changed, walk, Listed
<1>2. \A k \in Listed' : k # i => k \in Listed /\ updated'[k] = updated[k]
  BY <1>1 DEF Listed, Changed
<1>3. i \notin U
  <2>1. i \in Listed' => updated'[i] = clock + 1
    BY DEF Listed, Changed
  <2>2. updated'[j] <= clock /\ updated'[j] \in Nat
    BY <1>1, <1>2
  <2> QED BY <1>1, <2>1, <2>2
<1>4. U \subseteq UpTo(j)
  BY <1>2, <1>3 DEF UpTo
<1>5. Rank(j)' = Cardinality(U)
  BY DEF Rank
<1>6. Cardinality(U) \in Nat /\ Cardinality(U) <= Cardinality(UpTo(j))
  <2>1. j \in Listed /\ IsFiniteSet(UpTo(j))
    BY <1>2, ListingFinite
  <2> HIDE DEF U
  <2> QED BY <1>4, <2>1, FS_Subset, FS_CardinalityType
<1> QED BY <1>2, <1>5, <1>6, ListingFinite

\* Where the walk stands and what it has seen: all that is not behind it is newer.
LEMMA AheadStep ==
    ASSUME SyncTypeOK, ClockInv, RestInv, WalkInv, AheadInv, [SyncNext]_syncVars
    PROVE  AheadInv'
<1>1. ASSUME NEW i \in Number, Changed(i) PROVE AheadInv'
  <2>1. UNCHANGED <<phase, page, answer, lastSeen>>
    BY <1>1 DEF Changed, walk
  <2> SUFFICES ASSUME phase = "sync", NEW j \in Listed', Rank(j)' > page * PageSize,
                      NEW t \in Latest
               PROVE  t < updated'[j]
    BY <2>1 DEF AheadInv, Ahead, Latest
  <2>2. t \in Nat /\ t <= clock /\ clock \in Nat
    BY LatestIs, LatestIsPast, Numbers
  <2>3. CASE j = i
    BY <1>1, <2>2, <2>3 DEF Listed, Changed
  <2>4. CASE j # i
    <3>1. j \in Listed /\ updated'[j] = updated[j] /\ Rank(j)' \in Nat /\ Rank(j)' <= Rank(j)
      BY <1>1, <2>4, RanksFall
    <3>2. Rank(j) \in Nat /\ page * PageSize \in Nat
      BY <3>1, ListingFinite, Bounds, Numbers
    <3>3. Rank(j) > page * PageSize
      BY <3>1, <3>2
    <3> QED BY <3>1, <3>3 DEF AheadInv, Ahead
  <2> QED BY <2>3, <2>4
<1>2. UNCHANGED <<life, updated, since, phase, page, answer, lastSeen>> => AheadInv'
  BY DEF AheadInv, Ahead, Latest, Listed, Rank
<1>3. ASSUME NEW i \in Number, Track(i) PROVE AheadInv'
  BY <1>2, <1>3 DEF Track, remote, walk
<1>4. ASSUME NEW m \in hooks, IngestWebhook(m) PROVE AheadInv'
  BY <1>2, <1>4 DEF IngestWebhook, walk
<1>5. CASE BeginSync
  <2>1. answer' = Nothing /\ lastSeen' = 0 /\ UNCHANGED <<life, updated>>
    BY <1>5 DEF BeginSync, StartWalk, RestInv, remote
  <2>2. Latest' = {0}
    BY <2>1 DEF Latest, Nothing
  <2>3. \A j \in Listed' : updated'[j] > 0
    BY <2>1 DEF Listed, ClockInv
  <2> QED BY <2>2, <2>3 DEF AheadInv, Ahead
<1>6. CASE FetchPage
  <2>1. /\ page' = page + 1 /\ UNCHANGED <<life, updated, since, phase, lastSeen>>
        /\ \A t \in Latest' : t = lastSeen \/ \E i \in Page(page + 1) : t = updated[i]
    <3>1. answer'.rows = {[issue |-> i, at |-> updated[i]] : i \in Page(page + 1)}
      BY <1>6 DEF FetchPage
    <3>2. ASSUME NEW t \in Latest', t # lastSeen PROVE \E i \in Page(page + 1) : t = updated[i]
      <4>1. PICK r \in answer'.rows : t = r.at
        BY <1>6, <3>2 DEF FetchPage, Latest
      <4> QED BY <3>1, <4>1
    <3> QED BY <1>6, <3>2 DEF FetchPage, remote
  <2>2. Listed' = Listed /\ \A j : Rank(j)' = Rank(j)
    BY <2>1 DEF Listed, Rank
  <2>3. page \in Nat /\ page * PageSize \in Nat
        /\ (page + 1) * PageSize = page * PageSize + PageSize
    BY Bounds, Numbers
  <2> SUFFICES ASSUME phase = "sync", NEW j \in Listed,
                      Rank(j) > page * PageSize + PageSize, NEW t \in Latest'
               PROVE  t < updated[j]
    BY <2>1, <2>2, <2>3 DEF AheadInv, Ahead
  <2>4. Rank(j) \in Nat
    BY ListingFinite
  <2>5. ASSUME NEW i \in Page(page + 1) PROVE updated[i] < updated[j]
    <3>1. i \in Listed /\ Rank(i) <= page * PageSize + PageSize
      BY <2>3, PageIs
    <3>2. Rank(i) \in Nat
      BY <3>1, ListingFinite
    <3>3. Rank(i) < Rank(j)
      BY <2>3, <2>4, <3>1, <3>2, SizesAssumption
    <3> QED BY <3>1, <3>3, RankOrder
  <2>6. lastSeen < updated[j]
    <3>1. Rank(j) > page * PageSize
      BY <2>3, <2>4, SizesAssumption
    <3> QED BY <3>1 DEF AheadInv, Ahead, Latest
  <2> QED BY <2>1, <2>5, <2>6
<1>7. CASE NextPage
  <2>1. /\ UNCHANGED <<life, updated, since, phase, page>>
        /\ answer' = Nothing /\ lastSeen' = NewLastSeen
    BY <1>7 DEF NextPage, remote
  <2>2. Latest' \subseteq Latest
    BY <2>1, LatestIs DEF Latest, Nothing
  <2> QED BY <2>1, <2>2 DEF AheadInv, Ahead, Listed, Rank
<1>8. CASE EndSync \/ SkipPrune \/ BeginPrune \/ PruneNextPage \/ EndPrune \/ TickFails
  BY <1>8 DEF EndSync, SkipPrune, BeginPrune, PruneNextPage, EndPrune, TickFails, AheadInv
<1>9. CASE UNCHANGED syncVars
  BY <1>2, <1>9 DEF syncVars, remote, walk
<1> QED BY <1>1, <1>3, <1>4, <1>5, <1>6, <1>7, <1>8, <1>9, PeopleChange
    DEF SyncNext, Activity, SyncStep, PruneStep

-----------------------------------------------------------------------------
(* What the walk has behind it *)

\* A webhook keeps the row of an issue right, or puts it on record as late.
LEMMA WebhookKeeps ==
    ASSUME SyncTypeOK, HookInv, NEW m \in hooks, IngestWebhook(m),
           NEW j \in Number, life[j] = "live",
           index[j] = updated[j] \/ j \in late
    PROVE  index'[j] = updated[j] \/ j \in late'
<1>1. /\ m.issue \in Number /\ m.at \in Nat /\ m.at <= updated[m.issue]
      /\ updated[j] \in Nat /\ index[j] \in Nat
  BY Numbers DEF HookInv
<1>2. index' = [index EXCEPT ![m.issue] = m.at]
  BY DEF IngestWebhook
<1>3. CASE j # m.issue
  BY <1>1, <1>2, <1>3 DEF IngestWebhook, SyncTypeOK
<1>4. CASE j = m.issue
  <2>1. m.at # 0
    BY <1>4 DEF HookInv
  <2>2. CASE m.at = updated[j]
    BY <1>1, <1>2, <1>4, <2>2 DEF SyncTypeOK
  <2>3. CASE m.at # updated[j] /\ m.at \in 1 .. index[j] - 1
    BY <1>4, <2>3 DEF IngestWebhook
  <2>4. CASE m.at # updated[j] /\ m.at \notin 1 .. index[j] - 1
    <3>1. j \in late
      BY <1>1, <1>4, <2>1, <2>4
    <3>2. late' = late
      BY <1>4, <2>1, <2>4 DEF IngestWebhook
    <3> QED BY <3>1, <3>2
  <2> QED BY <2>2, <2>3, <2>4
<1> QED BY <1>3, <1>4

\* After a page was worked on, the row of whom it had fresh is right, and
\* those it did not have are as they were.
LEMMA Ingested ==
    ASSUME SyncTypeOK, WalkInv, Ingest, NEW j \in Number
    PROVE  /\ j \in Read /\ Fresh(j) => index'[j] = updated[j]
           /\ j \notin Read => index'[j] = index[j] /\ (j \in late => j \in late')
<1>1. index' = [i \in Number |-> IF i \in Read THEN RowOf(i).at ELSE index[i]]
  BY DEF Ingest, RowOf
<1> QED BY <1>1, RowOfRead DEF Ingest

\* Whom the walk has behind it, it will have read, noted, or cannot see.
LEMMA CoveredStep ==
    ASSUME SyncTypeOK, ClockInv, HookInv, RestInv, WalkInv, AheadInv, CoveredInv,
           [SyncNext]_syncVars
    PROVE  CoveredInv'
<1>1. ASSUME NEW i \in Number, Changed(i) PROVE CoveredInv'
  <2>1. UNCHANGED <<phase, page, answer, lastSeen, since, keep, index, late>>
    BY <1>1 DEF Changed, walk, tables
  <2> SUFFICES ASSUME NEW j \in Behind' PROVE Covered(j)'
    BY DEF CoveredInv
  <2>2. unseen' = (unseen \cup (Behind' \ Behind) \cup {i}) \cap Behind'
    BY <1>1 DEF Changed, Shift
  <2>3. CASE j = i \/ j \notin Behind \/ j \in unseen
    BY <2>2, <2>3 DEF Covered
  <2>4. CASE j # i /\ j \in Behind /\ j \notin unseen
    <3>1. updated'[j] = updated[j]
      BY <1>1, <2>4 DEF Changed, Behind, Listed
    <3>2. Covered(j)
      BY <2>4 DEF CoveredInv
    <3> QED BY <2>1, <2>4, <3>1, <3>2 DEF Covered, Fresh, Read, Ahead, Latest
  <2> QED BY <2>3, <2>4
<1>2. UNCHANGED <<life, updated, since, phase, page, answer>> => Behind' = Behind
  BY DEF Behind, Walking, GoesOn, Listed, Rank
<1>3. ASSUME NEW i \in Number, Track(i) PROVE CoveredInv'
  <2>1. Behind' = Behind
    BY <1>2, <1>3 DEF Track, remote, walk
  <2> QED BY <1>3, <2>1 DEF Track, remote, walk, history, CoveredInv, Covered, Fresh, Read,
                            Ahead, Latest
<1>4. ASSUME NEW m \in hooks, IngestWebhook(m) PROVE CoveredInv'
  <2>1. Behind' = Behind /\ UNCHANGED <<updated, walk, unseen>>
    BY <1>2, <1>4 DEF IngestWebhook, walk
  <2> SUFFICES ASSUME NEW j \in Behind PROVE Covered(j)'
    BY <2>1 DEF CoveredInv
  <2>2. j \in Number /\ life[j] = "live"
    BY DEF Behind, Listed
  <2>3. index[j] = updated[j] \/ j \in late => index'[j] = updated[j] \/ j \in late'
    BY <1>4, <2>2, WebhookKeeps
  <2>4. Covered(j)
    BY DEF CoveredInv
  <2> QED BY <2>1, <2>3, <2>4 DEF Covered, Fresh, Read, Ahead, Latest, walk
<1>5. CASE BeginSync \/ BeginPrune
  <2>1. page' = 0
    BY <1>5 DEF BeginSync, BeginPrune, StartWalk, RestInv
  <2>2. Behind' = {}
    BY <2>1 DEF Behind, Walking
  <2> QED BY <2>2 DEF CoveredInv
<1>6. CASE FetchPage
  <2>1. /\ page' = page + 1
        /\ UNCHANGED <<life, updated, since, phase, index, late, keep, unseen>>
        /\ answer'.some /\ answer'.full = (Cardinality(Page(page + 1)) = PageSize)
        /\ answer'.rows = {[issue |-> i, at |-> updated[i]] : i \in Page(page + 1)}
        /\ phase \in {"sync", "prune"} /\ ~answer.some
    BY <1>6 DEF FetchPage, remote, tables, history
  <2>2. Listed' = Listed /\ \A j : Rank(j)' = Rank(j)
    BY <2>1 DEF Listed, Rank
  <2>3. /\ page \in Nat /\ page < MaxPages /\ page * PageSize \in Nat
        /\ (page + 1) * PageSize = page * PageSize + PageSize /\ 0 * PageSize = 0
        /\ PageSize \in Nat /\ answer.rows = {}
    BY <2>1, Bounds, Numbers, SizesAssumption DEF WalkInv, Nothing
  <2> SUFFICES ASSUME NEW j \in Behind' PROVE Covered(j)'
    BY DEF CoveredInv
  <2>4. j \in Listed /\ Rank(j) \in Nat /\ Rank(j) > 0
    BY <2>2, ListingFinite DEF Behind
  <2>5. j \in Read' => j \in Page(page + 1)
    <3>1. ASSUME NEW r \in answer'.rows, r.issue = j PROVE j \in Page(page + 1)
      <4>1. PICK i \in Page(page + 1) : r = [issue |-> i, at |-> updated[i]]
        BY <2>1, <3>1
      <4> QED BY <3>1, <4>1
    <3> QED BY <3>1 DEF Read
  <2>6. ASSUME j \in Page(page + 1) PROVE Fresh(j)'
    <3>1. [issue |-> j, at |-> updated[j]] \in answer'.rows
      BY <2>1, <2>6
    <3> QED BY <2>1, <3>1 DEF Fresh
  <2>7. CASE j \in Page(page + 1)
    BY <2>6, <2>7 DEF Covered
  <2>8. CASE j \notin Page(page + 1) /\ Rank(j) <= page * PageSize
    <3>1. page > 0
      BY <2>3, <2>4, <2>8
    <3>2. j \in Behind
      BY <2>1, <2>3, <2>4, <2>8, <3>1 DEF Behind, Walking, GoesOn
    <3>3. Covered(j) /\ ~Fresh(j) /\ page # MaxPages
      BY <2>3, <3>2 DEF CoveredInv, Fresh
    <3> QED BY <2>1, <2>5, <2>8, <3>3 DEF Covered
  <2>9. CASE j \notin Page(page + 1) /\ ~(Rank(j) <= page * PageSize)
    <3>1. Rank(j) > page * PageSize + PageSize
      BY <2>3, <2>4, <2>9, PageIs
    <3>2. answer'.full
      BY <2>1, <2>3, <2>4, <3>1, FullPage
    <3>3. ~GoesOn'
      BY <2>1, <2>2, <2>3, <2>4, <3>1 DEF Behind
    <3>4. page' = MaxPages
      <4>1. page' > 0 /\ page' <= MaxPages /\ page' \in Nat /\ MaxPages \in Nat
        BY <2>1, <2>3, Numbers
      <4>2. Walking' /\ (answer.some => answer.full)'
        BY <2>1, <3>2, <4>1 DEF Walking
      <4> QED BY <3>3, <4>1, <4>2 DEF GoesOn
    <3>5. AheadInv'
      BY AheadStep
    <3>6. phase = "sync" => Ahead(j)'
      BY <2>1, <2>2, <2>3, <2>4, <3>1, <3>5 DEF AheadInv
    <3> QED BY <2>1, <3>2, <3>4, <3>6 DEF Covered
  <2> QED BY <2>7, <2>8, <2>9
<1>7. ASSUME NEW j \in Behind, Covered(j), ~Over, answer.some
      PROVE  j \in unseen \/ (j \in Read /\ Fresh(j)) \/ (j \notin Read /\ Covered(j))
  <2>1. Fresh(j) => j \in Read
    BY DEF Fresh, Read
  <2> QED BY <1>7, <2>1 DEF Covered, Over
<1>8. ASSUME ~Over, answer.some, phase \in {"sync", "prune"}, answer' = Nothing,
             UNCHANGED <<life, updated, since, phase, page>>
      PROVE  Behind' = Behind /\ Read' = {}
  <2>1. page > 0 /\ page < MaxPages
    BY <1>8, Numbers DEF WalkInv, Over
  <2>2. GoesOn /\ GoesOn' /\ Walking /\ Walking'
    BY <1>8, <2>1 DEF GoesOn, Walking, Over, Exhausted, Nothing
  <2> QED BY <1>8, <2>2 DEF Behind, Listed, Rank, Read, Nothing
<1>9. CASE NextPage
  <2>1. /\ UNCHANGED <<life, updated, since, phase, page, unseen>> /\ Ingest /\ ~Over
        /\ answer' = Nothing /\ phase = "sync" /\ answer.some
    BY <1>9 DEF NextPage, Ingest, remote
  <2>2. Behind' = Behind /\ Read' = {}
    BY <1>8, <2>1
  <2> SUFFICES ASSUME NEW j \in Behind PROVE Covered(j)'
    BY <2>2 DEF CoveredInv
  <2>3. j \in Number /\ Covered(j) /\ page # MaxPages
    BY <2>1 DEF CoveredInv, Behind, Listed, Over
  <2>4. CASE j \in unseen
    BY <2>1, <2>4 DEF Covered
  <2>5. CASE j \in Read /\ Fresh(j)
    BY <2>1, <2>2, <2>3, <2>5, Ingested DEF Covered
  <2>6. CASE j \notin Read /\ j \notin unseen
    <3>1. index[j] = updated[j] \/ j \in late
      BY <2>1, <2>3, <2>6 DEF Covered, Fresh, Read
    <3> QED BY <2>1, <2>2, <2>3, <2>6, <3>1, Ingested DEF Covered
  <2> QED BY <1>7, <2>1, <2>3, <2>4, <2>5, <2>6
<1>10. CASE PruneNextPage
  <2>1. /\ UNCHANGED <<life, updated, since, phase, page, unseen>> /\ ~Over
        /\ answer' = Nothing /\ phase = "prune" /\ answer.some /\ keep' = keep \cup Read
    BY <1>10 DEF PruneNextPage, remote, history
  <2>2. Behind' = Behind /\ Read' = {}
    BY <1>8, <2>1
  <2> SUFFICES ASSUME NEW j \in Behind PROVE Covered(j)'
    BY <2>2 DEF CoveredInv
  <2>3. Covered(j) /\ page # MaxPages
    BY <2>1 DEF CoveredInv, Over
  <2>4. j \in unseen \/ j \in keep \cup Read
    BY <2>1, <2>3 DEF Covered, Fresh, Read
  <2> QED BY <2>1, <2>2, <2>4 DEF Covered
<1>11. CASE EndSync \/ SkipPrune \/ EndPrune \/ TickFails
  BY <1>11 DEF EndSync, SkipPrune, EndPrune, TickFails, CoveredInv, Behind, Walking
<1>12. CASE UNCHANGED syncVars
  <2>1. Behind' = Behind
    BY <1>2, <1>12 DEF syncVars, remote, walk
  <2> QED BY <1>12, <2>1 DEF syncVars, remote, tables, walk, history, CoveredInv, Covered, Fresh,
                             Read,
                             Ahead, Latest
<1> QED BY <1>1, <1>3, <1>4, <1>5, <1>6, <1>9, <1>10, <1>11, <1>12, PeopleChange
    DEF SyncNext, Activity, SyncStep, PruneStep

-----------------------------------------------------------------------------
(* The watermark and the ledger *)

\* A walk that is over has the whole listing behind it.
LEMMA OverIsBehind ==
    ASSUME SyncTypeOK, WalkInv, answer.some, Over, phase \in {"sync", "prune"}
    PROVE  Behind = Listed
<1>1. page > 0 /\ Walking
  BY Numbers DEF WalkInv, Walking
<1>2. ~GoesOn
  BY Numbers DEF GoesOn, Over, Exhausted
<1> QED BY <1>1, <1>2 DEF Behind

\* A complete enumeration has returned every live issue, or it is on record
\* that the listing moved it past the walk.
LEMMA Enumerated ==
    ASSUME SyncTypeOK, WalkInv, CoveredInv, EndPrune, Exhausted,
           NEW j \in Number, life[j] = "live"
    PROVE  j \in unseen \/ j \in keep \cup Read
<1>1. phase = "prune" /\ answer.some /\ Over /\ since = 0
  BY DEF EndPrune, WalkInv
<1>2. j \in Behind
  <2>1. j \in Listed
    BY <1>1, Numbers DEF Listed
  <2> QED BY <1>1, <2>1, OverIsBehind
<1>3. Fresh(j) => j \in Read
  BY DEF Fresh, Read
<1> QED BY <1>1, <1>2, <1>3 DEF CoveredInv, Covered, Exhausted

\* The next sync does not ask for the future.
LEMMA SinceIsPast ==
    ASSUME SyncTypeOK, ClockInv
    PROVE  Since(watermark) \in Nat /\ Since(watermark) <= clock
<1>1. watermark \in Nat /\ clock \in Nat /\ Overlap \in Nat /\ Skew \in Nat /\ Skew <= Overlap
      /\ watermark <= clock + Skew
  BY Numbers DEF ClockInv
<1> QED BY <1>1 DEF Since

\* What the walk did not ask for, an answer does not return, and its row stays
\* as it is.
LEMMA NotAskedFor ==
    ASSUME SyncTypeOK, WalkInv, WatermarkCovers, Ingest,
           NEW j \in Number, life[j] = "live", updated[j] < Since(watermark)
    PROVE  index'[j] = updated[j] \/ j \in (skipped \ Read) \cup late'
<1>1. since = Since(watermark) /\ since \in Nat /\ updated[j] \in Nat
  BY Numbers DEF Ingest, WalkInv
<1>2. j \notin Read
  <2> SUFFICES ASSUME j \in Read PROVE FALSE
    OBVIOUS
  <2>1. since <= RowOf(j).at /\ RowOf(j).at <= updated[j] /\ RowOf(j).at \in Nat
    BY RowOfRead, Numbers
  <2> QED BY <1>1, <2>1
<1>3. index[j] = updated[j] \/ j \in skipped \cup late
  BY DEF WatermarkCovers
<1> QED BY <1>2, <1>3, Ingested

\* A sync that ends leaves the index right up to the new watermark's overlap.
LEMMA EndSyncCovers ==
    ASSUME SyncTypeOK, ClockInv, WalkInv, CoveredInv, WatermarkCovers, EndSync
    PROVE  WatermarkCovers'
<1> DEFINE w == IF Exhausted THEN startedAt ELSE NewLastSeen
<1>1. /\ watermark' = w /\ Ingest /\ Over /\ UNCHANGED <<life, updated>>
      /\ skipped' = (skipped \ Read) \cup {i \in unseen : updated[i] < Since(w)}
      /\ phase = "sync" /\ answer.some
  BY DEF EndSync, Ingest, PassOver, remote
<1>2. Behind = Listed
  BY <1>1, OverIsBehind
<1> SUFFICES ASSUME NEW j \in Number, life[j] = "live", updated[j] < Since(w)
             PROVE  index'[j] = updated[j] \/ j \in skipped' \cup late'
  BY <1>1 DEF WatermarkCovers, Since
<1>3. CASE updated[j] < Since(watermark)
  BY <1>1, <1>3, NotAskedFor
<1>4. CASE ~(updated[j] < Since(watermark))
  <2>1. j \in Listed
    <3>1. since = Since(watermark) /\ since \in Nat /\ updated[j] \in Nat
      BY <1>1, Numbers DEF WalkInv
    <3> QED BY <1>4, <3>1 DEF Listed
  <2>2. Covered(j)
    BY <1>2, <2>1 DEF CoveredInv
  <2>3. CASE j \in unseen
    BY <1>1, <2>3
  <2>4. CASE Fresh(j)
    <3>1. j \in Read
      BY <2>4 DEF Fresh, Read
    <3> QED BY <1>1, <2>4, <3>1, Ingested
  <2>5. CASE j \notin Read /\ (index[j] = updated[j] \/ j \in late)
    BY <1>1, <2>5, Ingested
  <2>6. CASE answer.full /\ Ahead(j)
    <3>1. w = NewLastSeen /\ NewLastSeen \in Latest /\ NewLastSeen \in Nat
      BY <2>6, LatestIs, Numbers DEF Exhausted
    <3>2. NewLastSeen < updated[j]
      BY <2>6, <3>1 DEF Ahead
    <3>3. Since(w) <= NewLastSeen /\ Since(w) \in Nat
      BY <3>1, Numbers DEF Since
    <3>4. updated[j] \in Nat
      BY Numbers
    <3> HIDE DEF w
    <3> QED BY <3>1, <3>2, <3>3, <3>4
  <2> QED BY <1>1, <2>2, <2>3, <2>4, <2>5, <2>6 DEF Covered
<1> QED BY <1>3, <1>4

\* So does a prune, and everything else.
LEMMA WatermarkStep ==
    ASSUME SyncTypeOK, ClockInv, HookInv, WalkInv, CoveredInv, WatermarkCovers,
           [SyncNext]_syncVars
    PROVE  WatermarkCovers'
<1>1. ASSUME NEW i \in Number, Changed(i) PROVE WatermarkCovers'
  <2>1. UNCHANGED <<watermark, index, skipped, late>>
    BY <1>1 DEF Changed, tables
  <2> SUFFICES ASSUME NEW j \in Number, life'[j] = "live", updated'[j] < Since(watermark)
               PROVE  index[j] = updated'[j] \/ j \in skipped \cup late
    BY <2>1 DEF WatermarkCovers, Since
  <2>2. CASE j # i
    BY <1>1, <2>2 DEF Changed, WatermarkCovers
  <2>3. CASE j = i
    <3>1. updated'[j] = clock + 1
      BY <1>1, <2>3 DEF Changed
    <3>2. clock \in Nat /\ Since(watermark) \in Nat /\ Since(watermark) <= clock
      BY SinceIsPast, Numbers
    <3> QED BY <3>1, <3>2
  <2> QED BY <2>2, <2>3
<1>2. UNCHANGED <<life, updated, index, watermark, skipped, late>> => WatermarkCovers'
  BY DEF WatermarkCovers, Since
<1>3. ASSUME NEW i \in Number, Track(i) PROVE WatermarkCovers'
  BY <1>2, <1>3 DEF Track, remote, history
<1>4. ASSUME NEW m \in hooks, IngestWebhook(m) PROVE WatermarkCovers'
  <2>1. UNCHANGED <<life, updated, watermark, skipped>>
    BY <1>4 DEF IngestWebhook
  <2> SUFFICES ASSUME NEW j \in Number, life[j] = "live", updated[j] < Since(watermark)
               PROVE  index'[j] = updated[j] \/ j \in skipped \cup late'
    BY <2>1 DEF WatermarkCovers, Since
  <2>2. index[j] = updated[j] \/ j \in late \/ j \in skipped
    BY DEF WatermarkCovers
  <2> QED BY <1>4, <2>2, WebhookKeeps
<1>5. CASE BeginSync \/ FetchPage \/ SkipPrune \/ BeginPrune \/ PruneNextPage \/ TickFails
  BY <1>2, <1>5 DEF BeginSync, FetchPage, SkipPrune, BeginPrune, PruneNextPage, TickFails,
                    remote, tables, history
<1>6. CASE NextPage
  <2>1. Ingest /\ skipped' = skipped \ Read /\ UNCHANGED <<life, updated, watermark>>
    BY <1>6 DEF NextPage, remote
  <2> QED BY <2>1, NotAskedFor DEF WatermarkCovers, Since
<1>7. CASE EndSync
  BY <1>7, EndSyncCovers
<1>8. CASE EndPrune
  <2>1. CASE ~Exhausted
    BY <1>2, <1>8, <2>1 DEF EndPrune, remote
  <2>2. CASE Exhausted
    <3>1. /\ index' = [i \in Number |-> IF i \in keep \cup Read THEN index[i] ELSE 0]
          /\ late' = late \cap (keep \cup Read) /\ skipped' = skipped \cup unseen
          /\ UNCHANGED <<life, updated, watermark>>
      BY <1>8, <2>2 DEF EndPrune, Settle, remote
    <3> SUFFICES ASSUME NEW j \in Number, life[j] = "live", updated[j] < Since(watermark)
                 PROVE  index'[j] = updated[j] \/ j \in skipped' \cup late'
      BY <3>1 DEF WatermarkCovers, Since
    <3>2. j \in unseen \/ j \in keep \cup Read
      BY <1>8, <2>2, Enumerated
    <3>3. index[j] = updated[j] \/ j \in skipped \cup late
      BY DEF WatermarkCovers
    <3> QED BY <3>1, <3>2, <3>3
  <2> QED BY <2>1, <2>2
<1>9. CASE UNCHANGED syncVars
  BY <1>2, <1>9 DEF syncVars, remote, tables, history
<1> QED BY <1>1, <1>3, <1>4, <1>5, <1>6, <1>7, <1>8, <1>9, PeopleChange
    DEF SyncNext, Activity, SyncStep, PruneStep

\* Only a `deleted` webhook and a complete enumeration settle work as deleted,
\* and each knows that its issue is gone.
LEMMA AbandonedStep ==
    ASSUME SyncTypeOK, HookInv, LedgerInv, WalkInv, CoveredInv, SyncNext,
           NEW j \in Number, ledger[j] = "active", ledger'[j] = "abandoned"
    PROVE  life[j] = "gone" \/ j \in unseen
<1>1. ledger' # ledger
  OBVIOUS
<1>2. CASE \E i \in Number : Create(i) \/ Edit(i) \/ Delete(i) \/ Track(i)
  BY <1>2 DEF Create, Edit, Delete, Track, tables, SyncTypeOK
<1>3. ASSUME NEW m \in hooks, IngestWebhook(m) PROVE life[j] = "gone"
  <2>1. m.at = 0 /\ m.issue = j
    BY <1>3 DEF IngestWebhook, SyncTypeOK
  <2> QED BY <2>1 DEF HookInv
<1>4. CASE SyncStep \/ SkipPrune \/ BeginPrune \/ PruneNextPage \/ TickFails
  BY <1>1, <1>4 DEF SyncStep, BeginSync, FetchPage, NextPage, EndSync, SkipPrune, BeginPrune,
                    PruneNextPage, TickFails, tables
<1>5. CASE EndPrune
  <2>1. Exhausted
    BY <1>1, <1>5 DEF EndPrune
  <2>2. j \notin keep \cup Read
    BY <1>5, <2>1 DEF EndPrune, Settle
  <2>3. life[j] \in {"live", "gone"}
    BY DEF LedgerInv, SyncTypeOK
  <2> QED BY <1>5, <2>1, <2>2, <2>3, Enumerated
<1> QED BY <1>2, <1>3, <1>4, <1>5 DEF SyncNext, Activity, PruneStep

-----------------------------------------------------------------------------
(* The theorems about IndexSync *)

\* The parts are kept together.
LEMMA SyncInvariance == SyncSpec => []SyncInv
<1>1. SyncInv /\ [SyncNext]_syncVars => SyncInv'
  BY SyncTypeStep, ClockStep, HookStep, RestStep, WalkStep, AheadStep, CoveredStep, WatermarkStep
  DEF SyncInv
<1> QED BY <1>1, SyncInitInv, PTL DEF SyncSpec

\* The database, the tick and GitHub keep their types.
THEOREM SyncTypeCorrect == SyncSpec => []SyncTypeOK
<1>1. SyncInv => SyncTypeOK
  BY DEF SyncInv
<1> QED BY <1>1, SyncInvariance, PTL

\* The watermark never passes an issue whose row is not as on GitHub, but for
\* those on record as passed over or set back (EndSync, EndPrune, IngestWebhook).
THEOREM WatermarkAlways == SyncSpec => []WatermarkCovers
<1>1. SyncInv => WatermarkCovers
  BY DEF SyncInv
<1> QED BY <1>1, SyncInvariance, PTL

\* A step that settles work as deleted is about an issue that is gone, or that
\* the enumeration could not see (Settle, and the `deleted` webhook).
THEOREM AbandonedAlways == SyncSpec => AbandonedIsGone
<1>1. SyncInv /\ [SyncNext]_syncVars =>
        [\A i \in Number : ledger[i] = "active" /\ ledger'[i] = "abandoned"
                              => life[i] = "gone" \/ i \in unseen]_syncVars
  BY AbandonedStep DEF SyncInv
<1> QED BY <1>1, SyncInvariance, PTL DEF SyncSpec, AbandonedIsGone

-----------------------------------------------------------------------------
(* Autoclose *)

\* The tick works on a row of its batch, and reads schedules in their order.
TickInv ==
    /\ step = "idle" <=> current = None
    /\ current # None => current \in batch
    /\ \A i \in batch : seen[i].closeAt <= closeAt[i]
    /\ \A i \in Issue : unscheduled[i] => closeAt[i] < MaxAnswers

\* A schedule that was superseded in the hands of a tick is not claimed.
FreshInv == \A i \in batch : Superseded(i) => row[i] # "claimed"

\* A row with a reply that no tick kept from it is not pending, and claimed
\* only where a tick was broken off.
HeardInv ==
    \A i \in Issue :
        "open" \in heard[i] => row[i] # "pending" /\ (row[i] = "claimed" => i \notin batch)

IInv == TypeOK /\ TickInv /\ HeldRowsClaimed /\ FreshInv /\ HeardInv

\* The initial state.
LEMMA InitInv == Init => IInv
BY NoneAssumption, BoundsAssumption
DEF Init, IInv, TypeOK, TickInv, HeldRowsClaimed, FreshInv, HeardInv, RowState, Reason

\* Every variable keeps its type.
LEMMA TypeStep == TypeOK /\ TickInv /\ [Next]_vars => TypeOK'
<1> SUFFICES ASSUME TypeOK, TickInv, [Next]_vars PROVE TypeOK'
    OBVIOUS
<1> USE NoneAssumption, BoundsAssumption DEF TypeOK, RowState, Reason, Final, Window
<1>1. ASSUME NEW i \in Issue, PostAnswer(i) PROVE TypeOK'
  <2>1. posted' \in [Issue -> 0 .. MaxAnswers] BY <1>1 DEF PostAnswer
  <2>2. inbox' \in [Issue -> SUBSET {"answer", "reply", "closed"}]
        BY <1>1 DEF PostAnswer
  <2>3. unscheduled' \in [Issue -> BOOLEAN] BY <1>1 DEF PostAnswer
  <2>4. heard' \in [Issue -> SUBSET Window] BY <1>1 DEF PostAnswer
  <2> QED BY <1>1, <2>1, <2>2, <2>3, <2>4 DEF PostAnswer, table, scheduler, env
<1>2. ASSUME NEW i \in Issue, Schedule(i) PROVE TypeOK'
  <2>1. closeAt' \in [Issue -> 0 .. MaxAnswers] BY <1>2 DEF Schedule, TickInv
  <2>2. comment' \in [Issue -> 0 .. MaxAnswers] BY <1>2 DEF Schedule
  <2>3. heard' \in [Issue -> SUBSET Window] BY <1>2 DEF Schedule
  <2> QED BY <1>2, <2>1, <2>2, <2>3 DEF Schedule, hub, scheduler, env
<1>3. ASSUME NEW i \in Issue, CloseAtPasses(i) PROVE TypeOK'
      BY <1>3 DEF CloseAtPasses, table, hub, worker, scheduler, env
<1>4. ASSUME NEW i \in Issue, Reply(i) PROVE TypeOK'
      BY <1>4 DEF Reply, table, hub, worker, scheduler, env
<1>5. ASSUME NEW i \in Issue, Downvote(i) PROVE TypeOK'
      BY <1>5 DEF Downvote, table, hub, worker, scheduler, env
<1>6. ASSUME NEW i \in Issue, CloseByHand(i) PROVE TypeOK'
      BY <1>6 DEF CloseByHand, table, hub, worker, scheduler, env
<1>7. ASSUME NEW i \in Issue, Vanish(i) PROVE TypeOK'
      BY <1>7 DEF Vanish, table, hub, worker, scheduler, env
<1>8. ASSUME NEW i \in Issue, Webhook(i) PROVE TypeOK'
  <2>1. heard' \in [Issue -> SUBSET Window] BY <1>8 DEF Webhook, WindowsNow
  <2>2. inbox' \in [Issue -> SUBSET {"answer", "reply", "closed"}] BY <1>8 DEF Webhook
  <2>3. row' \in [Issue -> RowState] BY <1>8 DEF Webhook, CancelPending
  <2>4. reason' \in [Issue -> Reason] BY <1>8 DEF Webhook, CancelPending
  <2> QED BY <1>8, <2>1, <2>2, <2>3, <2>4 DEF Webhook, worker, scheduler, env
<1>9. ASSUME NEW i \in Issue, AskReactions(i) PROVE TypeOK'
      BY <1>9 DEF AskReactions, table, hub, worker, scheduler, env
<1>10. ASSUME NEW i \in Issue, ReactionsArrive(i) PROVE TypeOK'
      BY <1>10 DEF ReactionsArrive, Finalize, RowSettled, table, hub, worker, scheduler, env
<1>11. ASSUME NEW i \in Issue, CloseTakesEffect(i) PROVE TypeOK'
      BY <1>11 DEF CloseTakesEffect, table, hub, worker, scheduler, env
<1>12. ASSUME NEW i \in Issue, CloseAnswered(i) PROVE TypeOK'
      BY <1>12 DEF CloseAnswered, Finalize, RowSettled, table, hub, worker, scheduler, env
<1>13. ASSUME NEW i \in Issue, GitHubErrors(i) PROVE TypeOK'
      BY <1>13 DEF GitHubErrors, RowSettled, table, hub, worker, scheduler, env
<1>14. CASE Tick
  <2>1. seen' \in [Issue -> [comment : 0 .. MaxAnswers, closeAt : 0 .. MaxAnswers]]
        BY <1>14 DEF Tick, DueRows, table
  <2>2. row' \in [Issue -> RowState] /\ batch' \subseteq Issue
        BY <1>14 DEF Tick, DueRows
  <2>3. heard' \in [Issue -> SUBSET Window] BY <1>14 DEF Tick
  <2> QED BY <1>14, <2>1, <2>2, <2>3 DEF Tick, hub, worker, env
<1>15. CASE ConnectionFails
      BY <1>15 DEF ConnectionFails, TickOver, table, hub, worker, scheduler, env
<1>16. CASE Exit
  <2>1. exits' \in 0 .. MaxExits BY <1>16 DEF Exit
  <2>2. unscheduled' \in [Issue -> BOOLEAN] BY <1>16 DEF Exit
  <2> QED BY <1>16, <2>1, <2>2 DEF Exit, TickOver, table, hub
<1>17. CASE Start
      BY <1>17 DEF Start, table, hub, worker, scheduler, env
<1>18. CASE UNCHANGED vars
      BY <1>18 DEF vars, table, hub, worker, scheduler, env
<1> QED
    BY <1>1, <1>2, <1>3, <1>4, <1>5, <1>6, <1>7, <1>8, <1>9, <1>10, <1>11, <1>12,
       <1>13, <1>14, <1>15, <1>16, <1>17, <1>18 DEF Next, People, Settling

\* The scheduler's bookkeeping.
LEMMA TickStep == TypeOK /\ TickInv /\ [Next]_vars => TickInv'
<1> SUFFICES ASSUME TypeOK, TickInv, [Next]_vars PROVE TickInv'
    OBVIOUS
<1> USE NoneAssumption, BoundsAssumption
    DEF TypeOK, TickInv, table, hub, worker, scheduler, env
<1>1. ASSUME NEW i \in Issue, PostAnswer(i) PROVE TickInv'
      BY <1>1 DEF PostAnswer
<1>2. ASSUME NEW i \in Issue, Schedule(i) PROVE TickInv'
      BY <1>2 DEF Schedule
<1>3. ASSUME NEW i \in Issue, CloseAtPasses(i) \/ People(i) \/ Webhook(i) PROVE TickInv'
      BY <1>3 DEF CloseAtPasses, People, Reply, Downvote, CloseByHand, Vanish, Webhook
<1>4. ASSUME NEW i \in Issue, AskReactions(i) PROVE TickInv'
      BY <1>4 DEF AskReactions
<1>5. ASSUME NEW i \in Issue, Settling(i) PROVE TickInv'
      BY <1>5 DEF Settling, ReactionsArrive, CloseTakesEffect, CloseAnswered, Finalize, RowSettled
<1>6. ASSUME NEW i \in Issue, GitHubErrors(i) PROVE TickInv'
      BY <1>6 DEF GitHubErrors, RowSettled
<1>7. CASE Tick
      BY <1>7 DEF Tick, DueRows
<1>8. CASE ConnectionFails \/ Exit \/ Start
      BY <1>8 DEF ConnectionFails, Exit, Start, TickOver
<1>9. CASE UNCHANGED vars
      BY <1>9 DEF vars
<1> QED
    BY <1>1, <1>2, <1>3, <1>4, <1>5, <1>6, <1>7, <1>8, <1>9 DEF Next

\* Only a new schedule makes a held row anything but claimed; it supersedes
\* the schedule the tick holds.
LEMMA HeldStep == IInv /\ [Next]_vars => HeldRowsClaimed'
<1> SUFFICES ASSUME IInv, [Next]_vars PROVE HeldRowsClaimed'
    OBVIOUS
<1> USE NoneAssumption, BoundsAssumption
    DEF IInv, TypeOK, TickInv, HeldRowsClaimed, Superseded, table, hub, worker, scheduler, env
<1>1. ASSUME NEW i \in Issue, PostAnswer(i) PROVE HeldRowsClaimed'
      BY <1>1 DEF PostAnswer
<1>2. ASSUME NEW i \in Issue, Schedule(i) PROVE HeldRowsClaimed'
      BY <1>2 DEF Schedule
<1>3. ASSUME NEW i \in Issue, CloseAtPasses(i) \/ People(i) PROVE HeldRowsClaimed'
      BY <1>3 DEF CloseAtPasses, People, Reply, Downvote, CloseByHand, Vanish
<1>4. ASSUME NEW i \in Issue, Webhook(i) PROVE HeldRowsClaimed'
      BY <1>4 DEF Webhook, CancelPending
<1>5. ASSUME NEW i \in Issue, AskReactions(i) PROVE HeldRowsClaimed'
      BY <1>5 DEF AskReactions
<1>6. ASSUME NEW i \in Issue, Settling(i) PROVE HeldRowsClaimed'
      BY <1>6 DEF Settling, ReactionsArrive, CloseTakesEffect, CloseAnswered, Finalize, RowSettled
<1>7. ASSUME NEW i \in Issue, GitHubErrors(i) PROVE HeldRowsClaimed'
      BY <1>7 DEF GitHubErrors, RowSettled
<1>8. CASE Tick
      BY <1>8 DEF Tick, DueRows
<1>9. CASE ConnectionFails \/ Exit \/ Start
      BY <1>9 DEF ConnectionFails, Exit, Start, TickOver
<1>10. CASE UNCHANGED vars
      BY <1>10 DEF vars
<1> QED
    BY <1>1, <1>2, <1>3, <1>4, <1>5, <1>6, <1>7, <1>8, <1>9, <1>10 DEF Next

\* A tick claims the schedules it reads, and claims again only when it is over.
LEMMA FreshStep == IInv /\ [Next]_vars => FreshInv'
<1> SUFFICES ASSUME IInv, [Next]_vars PROVE FreshInv'
    OBVIOUS
<1> USE NoneAssumption, BoundsAssumption
    DEF IInv, TypeOK, TickInv, FreshInv, Superseded, table, hub, worker, scheduler, env
<1>1. ASSUME NEW i \in Issue, PostAnswer(i) PROVE FreshInv'
      BY <1>1 DEF PostAnswer
<1>2. ASSUME NEW i \in Issue, Schedule(i) PROVE FreshInv'
      BY <1>2 DEF Schedule
<1>3. ASSUME NEW i \in Issue, CloseAtPasses(i) \/ People(i) PROVE FreshInv'
      BY <1>3 DEF CloseAtPasses, People, Reply, Downvote, CloseByHand, Vanish
<1>4. ASSUME NEW i \in Issue, Webhook(i) PROVE FreshInv'
      BY <1>4 DEF Webhook, CancelPending
<1>5. ASSUME NEW i \in Issue, AskReactions(i) PROVE FreshInv'
      BY <1>5 DEF AskReactions
<1>6. ASSUME NEW i \in Issue, Settling(i) PROVE FreshInv'
      BY <1>6 DEF Settling, ReactionsArrive, CloseTakesEffect, CloseAnswered, Finalize, RowSettled
<1>7. ASSUME NEW i \in Issue, GitHubErrors(i) PROVE FreshInv'
      BY <1>7 DEF GitHubErrors, RowSettled
<1>8. CASE Tick
      BY <1>8 DEF Tick, DueRows
<1>9. CASE ConnectionFails \/ Exit \/ Start
      BY <1>9 DEF ConnectionFails, Exit, Start, TickOver
<1>10. CASE UNCHANGED vars
      BY <1>10 DEF vars
<1> QED
    BY <1>1, <1>2, <1>3, <1>4, <1>5, <1>6, <1>7, <1>8, <1>9, <1>10 DEF Next

\* A reply that no tick keeps from its row cancels it, and only a new schedule
\* revives the row.
LEMMA HeardStep == IInv /\ [Next]_vars => HeardInv'
<1> SUFFICES ASSUME IInv, [Next]_vars PROVE HeardInv'
    OBVIOUS
<1> USE NoneAssumption, BoundsAssumption
    DEF IInv, TypeOK, TickInv, HeardInv, table, hub, worker, scheduler, env
<1>1. ASSUME NEW i \in Issue, PostAnswer(i) PROVE HeardInv'
      BY <1>1 DEF PostAnswer
<1>2. ASSUME NEW i \in Issue, Schedule(i) PROVE HeardInv'
      BY <1>2 DEF Schedule
<1>3. ASSUME NEW i \in Issue, CloseAtPasses(i) \/ People(i) PROVE HeardInv'
      BY <1>3 DEF CloseAtPasses, People, Reply, Downvote, CloseByHand, Vanish
<1>4. ASSUME NEW i \in Issue, Webhook(i) PROVE HeardInv'
  <2>1. ASSUME NEW j \in Issue, "open" \in heard'[j], j # i
        PROVE  row'[j] # "pending" /\ (row'[j] = "claimed" => j \notin batch')
    <3>1. heard'[j] = heard[j] /\ row'[j] = row[j] /\ batch' = batch
          BY <1>4, <2>1 DEF Webhook, CancelPending
    <3> QED BY <2>1, <3>1
  <2>2. row'[i] # "pending" /\ batch' = batch
        BY <1>4 DEF Webhook, CancelPending
  <2>3. ASSUME row'[i] = "claimed" PROVE row[i] = "claimed"
        BY <1>4, <2>3 DEF Webhook, CancelPending
  <2>4. ASSUME "open" \in heard'[i], "open" \notin heard[i] PROVE ~Held(i)
        BY <1>4, <2>4 DEF Webhook, WindowsNow
  <2>5. ASSUME "open" \in heard'[i], row'[i] = "claimed" PROVE i \notin batch
        BY <2>3, <2>4, <2>5 DEF Held, FreshInv
  <2> QED BY <2>1, <2>2, <2>5
<1>5. ASSUME NEW i \in Issue, AskReactions(i) PROVE HeardInv'
      BY <1>5 DEF AskReactions
<1>6. ASSUME NEW i \in Issue, Settling(i) PROVE HeardInv'
      BY <1>6 DEF Settling, ReactionsArrive, CloseTakesEffect, CloseAnswered, Finalize, RowSettled
<1>7. ASSUME NEW i \in Issue, GitHubErrors(i) PROVE HeardInv'
      BY <1>7 DEF GitHubErrors, RowSettled
<1>8. CASE Tick
      BY <1>8 DEF Tick, DueRows
<1>9. CASE ConnectionFails \/ Exit \/ Start
      BY <1>9 DEF ConnectionFails, Exit, Start, TickOver
<1>10. CASE UNCHANGED vars
      BY <1>10 DEF vars
<1> QED
    BY <1>1, <1>2, <1>3, <1>4, <1>5, <1>6, <1>7, <1>8, <1>9, <1>10 DEF Next

\* Together they are inductive.
LEMMA Invariance == Spec => []IInv
<1>1. IInv /\ [Next]_vars => IInv'
      BY TypeStep, TickStep, HeldStep, FreshStep, HeardStep DEF IInv
<1> QED BY InitInv, <1>1, PTL DEF Spec

\* The rows the scheduler works on are claimed: nobody else settles them
\* unless a newer answer was scheduled meanwhile.
THEOREM HeldRows == Spec => []HeldRowsClaimed
<1>1. IInv => HeldRowsClaimed BY DEF IInv
<1> QED BY Invariance, <1>1, PTL

\* A schedule is resolved once.
THEOREM ResolvesOnce == Spec => ResolvedOnce
<1> DEFINE Settled(i) == row[i] \in Final /\ <<row', reason'>> # <<row, reason>>
           Kept(i) == row'[i] = row[i] /\ reason'[i] = reason[i]
           Excused(i) == Kept(i) \/ closeAt'[i] # closeAt[i] \/ (i \in batch /\ Superseded(i))
<1>1. ASSUME IInv, [Next]_vars, NEW i \in Issue, Settled(i) PROVE Excused(i)
  <2> USE <1>1 DEF IInv, TypeOK, TickInv, HeldRowsClaimed, Final,
                   table, hub, worker, scheduler, env
  <2>1. ASSUME NEW j \in Issue, PostAnswer(j) PROVE Kept(i)
        BY <2>1 DEF PostAnswer
  <2>2. ASSUME NEW j \in Issue, Schedule(j) PROVE Excused(i)
        BY <2>2 DEF Schedule
  <2>3. ASSUME NEW j \in Issue, CloseAtPasses(j) \/ People(j) \/ AskReactions(j) PROVE Kept(i)
        BY <2>3 DEF CloseAtPasses, People, Reply, Downvote, CloseByHand, Vanish, AskReactions
  <2>4. ASSUME NEW j \in Issue, Webhook(j) PROVE Kept(i)
        BY <2>4 DEF Webhook, CancelPending
  <2>5. ASSUME NEW j \in Issue, Settling(j) PROVE Excused(i)
        BY <2>5 DEF Settling, ReactionsArrive, CloseTakesEffect, CloseAnswered, Finalize
  <2>6. ASSUME NEW j \in Issue, GitHubErrors(j) PROVE Kept(i)
        BY <2>6 DEF GitHubErrors
  <2>7. CASE Tick
        BY <2>7 DEF Tick, DueRows
  <2>8. CASE ConnectionFails \/ Exit \/ Start
        BY <2>8 DEF ConnectionFails, Exit, Start
  <2>9. CASE UNCHANGED vars
        BY <2>9 DEF vars
  <2> QED
      BY <2>1, <2>2, <2>3, <2>4, <2>5, <2>6, <2>7, <2>8, <2>9 DEF Next
<1>2. IInv /\ [Next]_vars =>
          [\A i \in Issue :
              row[i] \in Final /\ <<row', reason'>> # <<row, reason>>
                  => \/ row'[i] = row[i] /\ reason'[i] = reason[i]
                     \/ closeAt'[i] # closeAt[i]
                     \/ i \in batch /\ Superseded(i)]_vars
      BY <1>1
<1> QED BY Invariance, <1>2, PTL DEF ResolvedOnce, Spec

\* A reply that was delivered while the schedule was stored and no tick held
\* it keeps every later tick from closing the issue on that schedule.
THEOREM EngagedOpen == Spec => EngagedStaysOpen
<1>1. ASSUME IInv, NEW i \in Issue, step = "close", current = i, ~Superseded(i)
      PROVE  "open" \notin heard[i]
  <2>1. i \in batch /\ row[i] = "claimed"
        BY <1>1 DEF IInv, TickInv, HeldRowsClaimed
  <2> QED BY <1>1, <2>1 DEF IInv, HeardInv
<1>2. IInv /\ [Next]_vars =>
          [\A i \in Issue :
              step = "close" /\ step' = "closed" /\ current = i
                  => "open" \notin heard[i] \/ Superseded(i)]_vars
      BY <1>1
<1> QED BY Invariance, <1>2, PTL DEF EngagedStaysOpen, Spec

\* The table and the scheduler keep their types.
THEOREM TypeCorrect == Spec => []TypeOK
<1>1. IInv => TypeOK BY DEF IInv
<1> QED BY Invariance, <1>1, PTL
=============================================================================

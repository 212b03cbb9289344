----------------------------- MODULE IndexSync -----------------------------
(***************************************************************************)
(* The local index of a repository's issues and pull requests              *)
(* (issue_index.py): webhooks refresh single rows, IssueIndexSync walks    *)
(* GitHub's listing page by page, oldest update first, while people go on  *)
(* editing, and now and then walks it all to find what was deleted.        *)
(*                                                                         *)
(* One repository.  Time is a clock that advances with every change on     *)
(* GitHub, so an update time also names a version; 0 is "no row" or "no    *)
(* watermark".  GitHub evaluates a page in one step, the loop works on the *)
(* answer in a later one.                                                  *)
(***************************************************************************)
EXTENDS Integers, FiniteSets

CONSTANTS
    Number,         \* issue and PR numbers, which GitHub hands out in order
    Worked,         \* the issues the bot gets to work on
    PageSize,       \* _PAGE_SIZE
    MaxPages,       \* _MAX_PAGES_PER_TICK
    Overlap,        \* _SYNC_OVERLAP
    Skew,           \* how far the host's clock is ahead of GitHub's
    MaxClock,       \* bound on changes of the repository
    MaxHooks        \* bound on webhooks on their way at once

ASSUME NumberAssumption == Number \subseteq Nat /\ Worked \subseteq Number
ASSUME SizesAssumption ==
    /\ PageSize \in Nat \ {0} /\ MaxPages \in Nat \ {0}
    /\ MaxClock \in Nat /\ MaxHooks \in Nat
    /\ Overlap \in Nat /\ Skew \in 0 .. Overlap
\* More fits into a tick than can fall into the overlap, or a backfill that
\* stops there would start at the same place every time.
ASSUME BudgetAssumption == PageSize * MaxPages > Overlap + 1

VARIABLES
    \* GitHub
    clock, life, updated,
    hooks,          \* webhooks on their way: [issue, at], at = 0 for `deleted`
    \* the database
    index,          \* issue_index: the version of the row
    ledger,         \* issues: whether the issue is tracked, and still active
    watermark,      \* issue_index_sync.last_synced
    \* the tick
    phase, startedAt, since, lastSeen,
    page,           \* pages GitHub has evaluated in this walk
    answer,         \* the answer the loop has not worked on yet
    keep,
    \* history: issues this walk cannot return any more, rows that a walk
    \* passed over, rows a late webhook has set back
    unseen, skipped, late

remote == <<clock, life, updated, hooks>>
tables == <<index, ledger, watermark>>
walk == <<phase, startedAt, since, lastSeen, page, answer, keep>>
history == <<unseen, skipped, late>>
syncVars == <<remote, tables, walk, history>>

Time == 0 .. MaxClock
HostTime == 0 .. MaxClock + Skew
Nothing == [full |-> FALSE, rows |-> {}, some |-> FALSE]

SyncTypeOK ==
    /\ clock \in Time
    /\ life \in [Number -> {"absent", "live", "gone"}]
    /\ updated \in [Number -> Time]
    /\ hooks \subseteq [issue : Number, at : Time]
    /\ index \in [Number -> Time]
    /\ ledger \in [Number -> {"none", "active", "abandoned"}]
    /\ watermark \in HostTime
    /\ phase \in {"idle", "failed", "sync", "synced", "prune"}
    /\ startedAt \in HostTime /\ since \in HostTime /\ lastSeen \in Time
    /\ page \in 0 .. MaxPages
    /\ answer.full \in BOOLEAN /\ answer.some \in BOOLEAN
    /\ answer.rows \subseteq [issue : Number, at : Time]
    /\ keep \subseteq Number
    /\ unseen \subseteq Number /\ skipped \subseteq Number /\ late \subseteq Number

SyncInit ==
    /\ clock = 0
    /\ life = [i \in Number |-> "absent"]
    /\ updated = [i \in Number |-> 0]
    /\ hooks = {}
    /\ index = [i \in Number |-> 0]
    /\ ledger = [i \in Number |-> "none"]
    /\ watermark = 0
    /\ phase = "idle"
    /\ startedAt = 0 /\ since = 0 /\ lastSeen = 0
    /\ page = 0
    /\ answer = Nothing
    /\ keep = {}
    /\ unseen = {} /\ skipped = {} /\ late = {}

-----------------------------------------------------------------------------
(* GitHub's listing: state=all, sort=updated, direction=asc.                *)

Listed == {i \in Number : life[i] = "live" /\ updated[i] >= since}
Rank(i) == Cardinality({j \in Listed : updated[j] <= updated[i]})
\* Mutant: the walk starts at the second page.
PageOffByOne(n) == {i \in Listed : n * PageSize < Rank(i) /\ Rank(i) <= (n + 1) * PageSize}

Page(n) == {i \in Listed : (n - 1) * PageSize < Rank(i) /\ Rank(i) <= n * PageSize}

Walking == phase \in {"sync", "prune"} /\ page > 0
\* Every page GitHub has evaluated was full, so the walk goes on.
GoesOn == Walking /\ (answer.some => answer.full) /\ page < MaxPages

\* The part of the listing that the walk has behind it, by position.
Behind ==
    IF ~Walking THEN {}
    ELSE IF GoesOn THEN {i \in Listed : Rank(i) <= page * PageSize}
    ELSE Listed

\* A change of i moves issues from before the walk to behind it: they were not
\* returned and will not be, unless they change once more.
Shift(i) == unseen' = (unseen \cup (Behind' \ Behind) \cup {i}) \cap Behind'

Send(i, at) ==
    \/ UNCHANGED hooks
    \/ Cardinality(hooks) < MaxHooks /\ hooks' = hooks \cup {[issue |-> i, at |-> at]}

\* A new issue is listed last.
Create(i) ==
    /\ life[i] = "absent" /\ clock < MaxClock
    /\ \A j \in Number : j < i => life[j] # "absent"
    /\ clock' = clock + 1
    /\ life' = [life EXCEPT ![i] = "live"]
    /\ updated' = [updated EXCEPT ![i] = clock + 1]
    /\ Send(i, clock + 1)
    /\ UNCHANGED <<tables, walk, skipped, late>>
    /\ Shift(i)

\* Any change, a comment included, moves the issue to the end of the listing.
Edit(i) ==
    /\ life[i] = "live" /\ clock < MaxClock
    /\ clock' = clock + 1
    /\ updated' = [updated EXCEPT ![i] = clock + 1]
    /\ Send(i, clock + 1)
    /\ UNCHANGED <<life, tables, walk, skipped, late>>
    /\ Shift(i)

\* Deleted, or transferred to another repository.
Delete(i) ==
    /\ life[i] = "live"
    /\ life' = [life EXCEPT ![i] = "gone"]
    /\ Send(i, 0)
    /\ UNCHANGED <<clock, updated, tables, walk, skipped, late>>
    /\ Shift(i)

-----------------------------------------------------------------------------
(* Webhooks arrive late, out of order, or not at all; a redelivery is one   *)
(* that arrives late.                                                       *)

\* ingest_webhook_payload and the ledger's settlement of a deleted issue,
\* before anything asks whether the delivery is a new one.
IngestWebhook(m) ==
    /\ m \in hooks
    /\ hooks' = hooks \ {m}
    /\ index' = [index EXCEPT ![m.issue] = m.at]
    /\ IF m.at = 0
         THEN ledger' = [ledger EXCEPT ![m.issue] = IF @ = "none" THEN @ ELSE "abandoned"]
         ELSE UNCHANGED ledger
    /\ late' = CASE m.at \in 1 .. index[m.issue] - 1 -> late \cup {m.issue}
                 [] m.at \in {0, updated[m.issue]} -> late \ {m.issue}
                 [] OTHER -> late
    /\ UNCHANGED <<clock, life, updated, watermark, walk, unseen, skipped>>

\* A run is started for the issue and tracks it.
Track(i) ==
    /\ i \in Worked
    /\ life[i] # "absent" /\ ledger[i] = "none"
    /\ ledger' = [ledger EXCEPT ![i] = "active"]
    /\ UNCHANGED <<remote, index, watermark, walk, history>>

-----------------------------------------------------------------------------
(* IssueIndexSync.tick. *)

\* Mutant: the overlap is subtracted from the absent watermark, too.
SinceUnguarded(w) == w - Overlap

\* _overlapped(watermark) if watermark else None.
Since(w) == IF w > Overlap THEN w - Overlap ELSE 0

StartWalk(from) ==
    /\ since' = from
    /\ UNCHANGED <<page, answer, keep, unseen>>

\* The walk's local variables go out of scope.
LeaveWalk ==
    /\ startedAt' = 0 /\ since' = 0 /\ lastSeen' = 0
    /\ page' = 0 /\ answer' = Nothing /\ keep' = {} /\ unseen' = {}

BeginSync ==
    /\ phase \in {"idle", "failed"}
    /\ phase' = "sync"
    /\ startedAt' = clock + Skew
    /\ StartWalk(Since(watermark))
    /\ UNCHANGED <<remote, tables, lastSeen, skipped, late>>

\* GitHub evaluates list_issue_index_entries.
FetchPage ==
    /\ phase \in {"sync", "prune"} /\ ~answer.some
    /\ page' = page + 1
    /\ answer' = [full |-> Cardinality(Page(page + 1)) = PageSize, some |-> TRUE,
                  rows |-> {[issue |-> i, at |-> updated[i]] : i \in Page(page + 1)}]
    /\ UNCHANGED <<remote, tables, phase, startedAt, since, lastSeen, keep, history>>

Read == {r.issue : r \in answer.rows}
Latest == {r.at : r \in answer.rows} \cup {lastSeen}
NewLastSeen == CHOOSE t \in Latest : \A u \in Latest : u <= t

\* The for loop is over: a short page, or no page is left.
Exhausted == ~answer.full
Over == Exhausted \/ page = MaxPages

\* upsert_issue_index, which asks nothing about the row it replaces.
Ingest ==
    /\ phase = "sync" /\ answer.some
    /\ index' = [i \in Number |-> IF i \in Read
                                    THEN (CHOOSE r \in answer.rows : r.issue = i).at
                                    ELSE index[i]]
    /\ late' = late \ Read

NextPage ==
    /\ Ingest /\ ~Over
    /\ lastSeen' = NewLastSeen
    /\ answer' = Nothing
    /\ skipped' = skipped \ Read
    /\ UNCHANGED <<remote, ledger, watermark, phase, startedAt, since, page, keep, unseen>>

\* History: what the walk could not return and the next will not ask for.
PassOver(w) == skipped' = (skipped \ Read) \cup {i \in unseen : updated[i] < Since(w)}

\* Mutant: the watermark is the time at which the walk ends.
EndSyncAtEndTime ==
    /\ Ingest /\ Over
    /\ watermark' = IF Exhausted THEN clock + Skew ELSE NewLastSeen
    /\ PassOver(IF Exhausted THEN startedAt ELSE NewLastSeen)
    /\ phase' = "synced"
    /\ LeaveWalk
    /\ UNCHANGED <<remote, ledger>>

\* The new watermark: the start of the tick, or where the page budget ended.
EndSync ==
    /\ Ingest /\ Over
    /\ watermark' = IF Exhausted THEN startedAt ELSE NewLastSeen
    /\ PassOver(IF Exhausted THEN startedAt ELSE NewLastSeen)
    /\ phase' = "synced"
    /\ LeaveWalk
    /\ UNCHANGED <<remote, ledger>>

\* issue_index_prune_seconds have not passed.
SkipPrune ==
    /\ phase = "synced"
    /\ phase' = "idle"
    /\ UNCHANGED <<remote, tables, startedAt, since, lastSeen, page, answer, keep, history>>

BeginPrune ==
    /\ phase = "synced"
    /\ phase' = "prune"
    /\ StartWalk(0)
    /\ UNCHANGED <<remote, tables, startedAt, lastSeen, skipped, late>>

\* Mutant: a page's numbers replace those of the pages before it.
PruneLastPageOnly ==
    /\ phase = "prune" /\ answer.some /\ ~Over
    /\ keep' = Read
    /\ answer' = Nothing
    /\ UNCHANGED <<remote, tables, phase, startedAt, since, lastSeen, page, history>>

PruneNextPage ==
    /\ phase = "prune" /\ answer.some /\ ~Over
    /\ keep' = keep \cup Read
    /\ answer' = Nothing
    /\ UNCHANGED <<remote, tables, phase, startedAt, since, lastSeen, page, history>>

\* prune_issue_index and abandon_missing_issues.
Settle(kept) ==
    /\ index' = [i \in Number |-> IF i \in kept THEN index[i] ELSE 0]
    /\ ledger' = [i \in Number |-> IF i \in kept \/ ledger[i] = "none" THEN ledger[i]
                                                                     ELSE "abandoned"]
    /\ late' = late \cap kept
    /\ skipped' = skipped \cup unseen

\* Mutant: deleted issues leave the index and stay active in the ledger.
EndPruneIndexOnly ==
    /\ phase = "prune" /\ answer.some /\ Over
    /\ IF Exhausted
         THEN /\ index' = [i \in Number |-> IF i \in keep \cup Read THEN index[i] ELSE 0]
              /\ late' = late \cap (keep \cup Read)
              /\ skipped' = skipped \cup unseen
         ELSE UNCHANGED <<index, late, skipped>>
    /\ phase' = "idle"
    /\ LeaveWalk
    /\ UNCHANGED <<remote, ledger, watermark>>

EndPrune ==
    /\ phase = "prune" /\ answer.some /\ Over
    /\ IF Exhausted THEN Settle(keep \cup Read) ELSE UNCHANGED <<index, ledger, late, skipped>>
    /\ phase' = "idle"
    /\ LeaveWalk
    /\ UNCHANGED <<remote, watermark>>

\* A GitHub error, any other exception, or a process exit: the tick is over,
\* what it has written stays.
TickFails ==
    /\ phase \notin {"idle", "failed"}
    /\ phase' = "failed"
    /\ LeaveWalk
    /\ UNCHANGED <<remote, tables, skipped, late>>

-----------------------------------------------------------------------------
Activity == \E i \in Number : Create(i) \/ Edit(i) \/ Delete(i) \/ Track(i)
SyncStep == BeginSync \/ FetchPage \/ NextPage \/ EndSync
PruneStep == BeginPrune \/ PruneNextPage \/ EndPrune

SyncNext ==
    \/ Activity
    \/ \E m \in hooks : IngestWebhook(m)
    \/ SyncStep \/ SkipPrune \/ PruneStep \/ TickFails

SyncSpec == SyncInit /\ [][SyncNext]_syncVars

\* The loop ticks every issue_index_sync_seconds, a prune comes due again and
\* again, and GitHub does not fail for ever.
SyncFairness ==
    /\ WF_syncVars(SyncStep)
    /\ WF_syncVars(PruneNextPage \/ EndPrune)
    /\ SF_syncVars(BeginPrune)
    /\ <>[](phase # "failed")

SyncFairSpec == SyncSpec /\ SyncFairness

-----------------------------------------------------------------------------
(* Properties. *)

\* What the next sync will not ask for, because it is older than the watermark
\* less the overlap, is in the index as it is on GitHub; but for rows a walk
\* passed over because the listing moved under it, and rows that a webhook
\* overtaken by a newer one has set back.
WatermarkCovers ==
    \A i \in Number :
        life[i] = "live" /\ updated[i] < Since(watermark)
            => index[i] = updated[i] \/ i \in skipped \cup late

\* Work is settled as deleted only if its issue is gone, or the listing moved
\* it past the walk, or it was created after the last page.
AbandonedIsGone ==
    [][\A i \in Number :
          ledger[i] = "active" /\ ledger'[i] = "abandoned"
              => life[i] = "gone" \/ i \in unseen]_syncVars

\* However many webhooks are lost, work on a deleted issue is settled; unless
\* the repository outgrows the page budget.
Enumerable == Cardinality({i \in Number : life[i] = "live"}) < PageSize * MaxPages
DeletedIsSettled ==
    \A i \in Worked :
        life[i] = "gone" /\ ledger[i] = "active" ~> ledger[i] = "abandoned" \/ ~Enumerable

\* Every change reaches the index, webhook or not.
ChangesAreIndexed ==
    \A i \in Number :
        life[i] = "live" ~>
            index[i] = updated[i] \/ life[i] = "gone" \/ i \in skipped \cup late
=============================================================================

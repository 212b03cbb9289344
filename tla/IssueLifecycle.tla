--------------------------- MODULE IssueLifecycle ---------------------------
(***************************************************************************)
(* An issue from trigger to settlement: what the task handlers (tasks.py)  *)
(* and the agent's tools (host_tools.py) do to the `issues` table and to   *)
(* the issue's worktree, and the two sweeps of the queue that work from    *)
(* the same tables while runs go on: _redispatch_stranded, which re-queues *)
(* what died and abandons what died too often, and                         *)
(* _reap_settled_workspaces, which deletes the worktrees of abandoned      *)
(* issues.                                                                 *)
(*                                                                         *)
(* Claiming, slots, cancel hooks and backoff are the business of module    *)
(* EventQueue; here a claim only turns a row `running` and an attempt ends *)
(* in one of the ways that module allows.  Rows keep their rowid order; of *)
(* `attempts` there is only whether it has reached event_max_retries, of   *)
(* `last_error` only what the sweeps look for in it.                       *)
(***************************************************************************)
EXTENDS Integers, Sequences, FiniteSets, SequencesExt

CONSTANTS
    Issue,          \* issue keys
    Task,           \* the kinds of triggers that arrive
    Cap,            \* redispatch_max_per_issue; 0 disables the sweep
    SweepLimit,     \* stranded_issues(limit)
    ReapLimit,      \* abandoned_issues(limit)
    MaxRows,        \* bound on webhooks stored per issue
    MaxExits        \* bound on exits of the process

ASSUME TaskAssumption ==
    Task \subseteq {"triage", "comment", "directive", "review", "cleanup"}
ASSUME LimitsAssumption ==
    /\ Cap \in Nat \ {0} /\ SweepLimit \in Nat \ {0} /\ ReapLimit \in Nat \ {0}
    /\ MaxRows \in Nat /\ MaxExits \in Nat
ASSUME IssueAssumption == IsFiniteSet(Issue)

VARIABLES
    \* the database
    rows,           \* events of an issue, by rowid
    state,          \* issues.state, "none" while there is no row
    older,          \* the order of updated_at: j before k
    \* the file system
    worktree,
    \* the process
    run,            \* where the handler of the issue's running row is
    sweep,          \* the redispatch sweep: the rest of its candidates, and
                    \* the one whose latest event it has looked at
    reaper,         \* the reaper: the rest of its list, filtered or not yet
    exits,
    \* history: issues something happened to since the sweep's query
    moved

database == <<rows, state, older>>
vars == <<database, worktree, run, sweep, reaper, exits, moved>>

InFlight == {"new", "reproducing", "fixing", "reviewing"}
Finalized == {"merged", "closed", "abandoned"}
IssueState == InFlight \cup Finalized \cup {"none", "opened", "needs_info"}
Phase == {"idle", "claimed", "torn down", "registered", "resuming", "agent",
          "aborted", "cleaned"}
Row == [task : Task, state : {"queued", "running", "done", "failed", "skipped"},
        error : {"none", "transient", "permanent", "cancelled"},
        spent : BOOLEAN,        \* attempts >= event_max_retries
        recent : BOOLEAN,       \* received_at within redispatch_window_hours
        id : Nat]               \* the n of redispatch-<issue>-n, 0: a webhook
Candidate == [key : Issue, spent : Nat]

Resting == [todo |-> {}, found |-> {}]
Asleep == [todo |-> {}, filtered |-> FALSE]

\* Issues nobody knows yet, and issues with a pull request from earlier work,
\* whose finished deliveries are left out.
Init ==
    /\ rows = [k \in Issue |-> <<>>]
    /\ state \in [Issue -> {"none", "opened"}]
    /\ older \in {o \in SUBSET (Issue \X Issue) :
                    \A j, k \in Issue : /\ <<j, k>> \in o <=> j # k /\ <<k, j>> \notin o
                                       /\ \A l \in Issue : <<j, k>> \in o /\ <<k, l>> \in o
                                                              => <<j, l>> \in o}
    /\ worktree = [k \in Issue |-> state[k] # "none"]
    /\ run = [k \in Issue |-> "idle"]
    /\ sweep = Resting
    /\ reaper = Asleep
    /\ exits = 0
    /\ moved = {}

-----------------------------------------------------------------------------
(* The tables.                                                             *)

Live(k) == \E i \in DOMAIN rows[k] : rows[k][i].state \in {"queued", "running"}

Spent(k) == Cardinality({i \in DOMAIN rows[k] : rows[k][i].id > 0})

\* MAX(rowid) among the rows that are not skipped, 0 if there is none.
Latest(k) ==
    LET real == {i \in DOMAIN rows[k] : rows[k][i].state # "skipped"}
    IN  IF real = {} THEN 0 ELSE CHOOSE i \in real : \A j \in real : j <= i

\* Mutant: a run that an operator stopped counts as one that died.
DiedForWhatever(k) ==
    /\ ~Live(k) /\ Latest(k) \in DOMAIN rows[k]
    /\ rows[k][Latest(k)].state = "failed"
    /\ rows[k][Latest(k)].spent

\* What stranded_issues asks of the latest event, ...
DiedFor(k) ==
    /\ ~Live(k) /\ Latest(k) \in DOMAIN rows[k]
    /\ rows[k][Latest(k)].state = "failed"
    /\ rows[k][Latest(k)].spent
    /\ rows[k][Latest(k)].error # "cancelled"

\* ... of an issue in flight and of one that has no row yet.
StrandedInFlight(k) == state[k] \in InFlight /\ DiedFor(k)
Orphan(k) ==
    /\ state[k] = "none" /\ DiedFor(k)
    /\ rows[k][Latest(k)].recent
    /\ rows[k][Latest(k)].error = "transient"
Stranded(k) == StrandedInFlight(k) \/ Orphan(k)

\* upsert_issue and set_issue_state: the second changes nothing without a row.
Put(k, s) ==
    /\ state' = [state EXCEPT ![k] = s]
    /\ older' = {p \in older : p[1] # k /\ p[2] # k} \cup ((Issue \ {k}) \X {k})
SetState(k, s) ==
    IF state[k] = "none" THEN UNCHANGED <<state, older>> ELSE Put(k, s)
KeepState == UNCHANGED <<state, older>>

Store(k, t, s, n) ==
    rows' = [rows EXCEPT ![k] = Append(@,
        [task |-> t, state |-> s, error |-> "none", spent |-> FALSE,
         recent |-> TRUE, id |-> n])]

RunningRow(k) == {i \in DOMAIN rows[k] : rows[k][i].state = "running"}
TaskOf(k) == rows[k][CHOOSE i \in RunningRow(k) : TRUE].task

\* The running row of an issue gets state s, error e and is spent if x.
MarkRow(k, s, e, x) ==
    rows' = [rows EXCEPT ![k] = [i \in DOMAIN rows[k] |->
        IF i \in RunningRow(k)
          THEN [rows[k][i] EXCEPT !.state = s, !.error = e, !.spent = rows[k][i].spent \/ x]
          ELSE rows[k][i]]]

Moves(k) == moved' = moved \cup {k}
Sweeps == UNCHANGED <<sweep, reaper, exits>>

-----------------------------------------------------------------------------
(* What arrives from outside.                                              *)

Webhooks(k) == Cardinality({i \in DOMAIN rows[k] : rows[k][i].id = 0})

\* A webhook, stored as the router decided: `skipped` is noise.
Deliver(k, t, s) ==
    /\ Webhooks(k) < MaxRows
    /\ Store(k, t, s, 0)
    /\ Moves(k)
    /\ KeepState /\ Sweeps /\ UNCHANGED <<worktree, run>>

\* /api/trigger mode=retry; `attempts` stays what it is.
Retry(k) ==
    /\ \E i \in DOMAIN rows[k] :
          /\ rows[k][i].state \in {"done", "failed", "skipped"}
          /\ rows' = [rows EXCEPT ![k][i].state = "queued", ![k][i].error = "none"]
    /\ Moves(k)
    /\ KeepState /\ Sweeps /\ UNCHANGED <<worktree, run>>

\* The webhook of a deleted or transferred issue, and the index's prune.
Disappear(k) ==
    /\ state[k] # "none"
    /\ Put(k, "abandoned")
    /\ Moves(k)
    /\ Sweeps /\ UNCHANGED <<rows, worktree, run>>

\* `carter-omp cleanup`, which asks for nothing but the row.
CliCleanup(k) ==
    /\ state[k] # "none"
    /\ worktree' = [worktree EXCEPT ![k] = FALSE]
    /\ Put(k, "abandoned")
    /\ Moves(k)
    /\ Sweeps /\ UNCHANGED <<rows, run>>

\* The redispatch window closes over an orphan.
Age(k) ==
    /\ Orphan(k)
    /\ rows' = [rows EXCEPT ![k][Latest(k)].recent = FALSE]
    /\ KeepState /\ Sweeps /\ UNCHANGED <<worktree, run, moved>>

\* prune_skipped_events: skipped rows age out one after the other.
Prune(k) ==
    /\ \E i \in DOMAIN rows[k] :
          /\ rows[k][i].state = "skipped"
          /\ \A j \in 1 .. i - 1 : rows[k][j].state # "skipped"
          /\ rows' = [rows EXCEPT ![k] = RemoveAt(@, i)]
    /\ KeepState /\ Sweeps /\ UNCHANGED <<worktree, run, moved>>

-----------------------------------------------------------------------------
(* A run: the handler of the row's task up to the agent, and the agent.    *)

\* claim_next_event takes the oldest queued row of an issue that has no
\* running one.
Claim(k) ==
    /\ run[k] = "idle" /\ RunningRow(k) = {}
    /\ \E i \in DOMAIN rows[k] :
          /\ rows[k][i].state = "queued"
          /\ \A j \in 1 .. i - 1 : rows[k][j].state # "queued"
          /\ rows' = [rows EXCEPT ![k][i].state = "running"]
    /\ run' = [run EXCEPT ![k] = "claimed"]
    /\ Moves(k)
    /\ KeepState /\ Sweeps /\ UNCHANGED worktree

\* The handler goes from one phase to the next.
Goes(k, from, to) ==
    /\ run[k] = from
    /\ run' = [run EXCEPT ![k] = to]
    /\ UNCHANGED rows
    /\ Moves(k) /\ Sweeps

\* A new trigger on a finalized issue branches afresh.
TearDown(k) ==
    /\ Goes(k, "claimed", "torn down")
    /\ TaskOf(k) \in {"triage", "directive"} /\ state[k] \in Finalized
    /\ worktree' = [worktree EXCEPT ![k] = FALSE]
    /\ KeepState

Entry(k) == IF TaskOf(k) = "review" THEN "reviewing" ELSE "reproducing"

\* Whether the handler puts the issue in flight, or goes on with it as it is.
Registers(k) ==
    \/ TaskOf(k) = "triage" /\ state[k] \notin Finalized
    \/ TaskOf(k) = "directive" /\ state[k] = "none"
    \/ TaskOf(k) = "review"

Register(k) ==
    /\ \/ Goes(k, "claimed", "registered") /\ Registers(k)
       \/ Goes(k, "torn down", "registered")
    /\ Put(k, Entry(k))
    /\ UNCHANGED worktree

Resume(k) ==
    /\ Goes(k, "claimed", "resuming")
    /\ TaskOf(k) \in {"comment", "directive"} /\ state[k] \notin Finalized \cup {"none"}
    /\ KeepState /\ UNCHANGED worktree

\* ensure_workspace, and the second upsert with the branch it returned.
CheckOut(k) ==
    /\ \/ Goes(k, "registered", "agent") /\ Put(k, Entry(k))
       \/ Goes(k, "resuming", "agent") /\ KeepState
    /\ worktree' = [worktree EXCEPT ![k] = TRUE]

\* gh_open_pr, mark_unable_to_reproduce, and a tool that answers the request
\* for information.
Advance(k) ==
    /\ Goes(k, "agent", "agent")
    /\ \/ TaskOf(k) # "review" /\ SetState(k, "opened")
       \/ SetState(k, "needs_info")
       \/ state[k] = "needs_info" /\ SetState(k, "reproducing")
    /\ UNCHANGED worktree

\* abort_task; _record_agent_abort fails the row.
Abort(k) ==
    /\ Goes(k, "agent", "aborted")
    /\ SetState(k, "abandoned")
    /\ UNCHANGED worktree

\* cleanup_workspace.
CleanUp(k) ==
    /\ Goes(k, "claimed", "cleaned")
    /\ TaskOf(k) = "cleanup" /\ state[k] # "none"
    /\ worktree' = [worktree EXCEPT ![k] = FALSE]
    /\ KeepState

\* The attempt ends with the row in state s.
Ends(k, s, e, x) ==
    /\ MarkRow(k, s, e, x)
    /\ run' = [run EXCEPT ![k] = "idle"]
    /\ Moves(k) /\ Sweeps /\ UNCHANGED worktree

\* Nothing to do: a comment on a finalized issue is only acknowledged, an
\* unknown issue has nothing to clean up, a triage finds a closing PR or that
\* the issue is a PR, a review finds its work done or cannot fetch the PR.
ReturnsEarly(k) ==
    \/ TaskOf(k) \in {"triage", "review"}
    \/ TaskOf(k) = "comment" /\ state[k] \in Finalized
    \/ TaskOf(k) = "cleanup" /\ state[k] = "none"

Finish(k) ==
    /\ \/ run[k] = "claimed" /\ ReturnsEarly(k) /\ KeepState
       \/ run[k] = "agent" /\ IF TaskOf(k) = "review" THEN SetState(k, "opened") ELSE KeepState
       \/ run[k] = "cleaned" /\ SetState(k, "closed")
    /\ Ends(k, "done", "none", FALSE)

\* Mutant: a state the table has no room for.
SkipAsIgnored(k) ==
    /\ run[k] = "claimed" /\ TaskOf(k) = "comment" /\ state[k] = "none"
    /\ KeepState
    /\ Ends(k, "ignored", "none", FALSE)

\* comment_on_unknown_issue.
Skip(k) ==
    /\ run[k] = "claimed" /\ TaskOf(k) = "comment" /\ state[k] = "none"
    /\ KeepState
    /\ Ends(k, "skipped", "none", FALSE)

Errors(k) == IF run[k] = "aborted" THEN {"permanent", "cancelled"}
             ELSE {"transient", "permanent", "cancelled"}

\* The attempt fails: its budget is spent, or a diagnosis or a cancel ends it
\* earlier.
Fail(k, e, x) ==
    /\ run[k] # "idle" /\ e \in Errors(k)
    /\ e = "transient" => x
    /\ KeepState
    /\ Ends(k, "failed", e, x)

\* schedule_retry, as long as the budget lasts.
RetryLater(k) ==
    /\ run[k] \notin {"idle", "aborted"}
    /\ \A i \in RunningRow(k) : ~rows[k][i].spent
    /\ KeepState
    /\ Ends(k, "queued", "none", FALSE)

-----------------------------------------------------------------------------
(* _redispatch_stranded.                                                   *)

\* ORDER BY updated_at LIMIT n.
Oldest(S, n) == {k \in S : Cardinality({j \in S : <<j, k>> \in older}) < n}

\* stranded_issues: issues in flight, then orphans as long as there is room, in
\* the order of received_at, which is left open.
Candidates ==
    LET inFlight == Oldest({k \in Issue : StrandedInFlight(k)}, SweepLimit)
        orphans == {k \in Issue : Orphan(k)}
    IN  {inFlight \cup o : o \in {p \in SUBSET orphans :
            \/ p = orphans /\ Cardinality(inFlight \cup p) <= SweepLimit
            \/ Cardinality(inFlight \cup p) = SweepLimit}}

Runs == UNCHANGED <<worktree, run, exits>>

ListStranded ==
    /\ sweep = Resting
    /\ \E keys \in Candidates \ {{}} :
          sweep' = [Resting EXCEPT !.todo = {[key |-> k, spent |-> Spent(k)] : k \in keys}]
    /\ moved' = {}
    /\ UNCHANGED <<database, reaper>> /\ Runs

\* The next candidate.
Takes(c) ==
    /\ sweep.found = {} /\ c \in sweep.todo
    /\ UNCHANGED reaper /\ Runs
Proceed(c) == sweep' = [todo |-> sweep.todo \ {c}, found |-> {}]

\* Mutant: one more redispatch than configured.
CappedOffByOne(n) == n > Cap

Capped(n) == n >= Cap

\* Mutant: the issue keeps its state.
SweepAbandonsSilently(c) ==
    /\ Takes(c) /\ Capped(c.spent)
    /\ Proceed(c)
    /\ UNCHANGED <<database, moved>>

\* Past the cap the issue is abandoned; nothing is asked about it again.
SweepAbandons(c) ==
    /\ Takes(c) /\ Capped(c.spent)
    /\ SetState(c.key, "abandoned")
    /\ Proceed(c)
    /\ UNCHANGED <<rows, moved>>

\* latest_event_for_issue.
SweepLooks(c) ==
    /\ Takes(c) /\ ~Capped(c.spent)
    /\ IF Latest(c.key) \in DOMAIN rows[c.key] /\ rows[c.key][Latest(c.key)].state = "failed"
         THEN sweep' = [sweep EXCEPT !.found = {[of |-> c, task |-> rows[c.key][Latest(c.key)].task]}]
         ELSE Proceed(c)
    /\ UNCHANGED <<database, moved>>

\* record_event, which ignores a delivery id it has.
Requeue(f) ==
    /\ f \in sweep.found
    /\ IF \E i \in DOMAIN rows[f.of.key] : rows[f.of.key][i].id = f.of.spent + 1
         THEN UNCHANGED rows
         ELSE Store(f.of.key, f.task, "queued", f.of.spent + 1)
    /\ Proceed(f.of)
    /\ KeepState /\ UNCHANGED <<reaper, moved>> /\ Runs

-----------------------------------------------------------------------------
(* _reap_settled_workspaces.                                               *)

\* abandoned_issues.
ListAbandoned ==
    /\ reaper = Asleep
    /\ \E k \in Issue : state[k] = "abandoned"
    /\ reaper' = [Asleep EXCEPT !.todo = Oldest({k \in Issue : state[k] = "abandoned"}, ReapLimit)]
    /\ UNCHANGED <<database, sweep, moved>> /\ Runs

\* Mutant: any event keeps the worktree.
AnyEvent(k) == rows[k] # <<>>

\* active_issue_keys.
Active(k) == Live(k)

FilterActive ==
    /\ reaper.todo # {} /\ ~reaper.filtered
    /\ LET idle == {k \in reaper.todo : ~Active(k)}
       IN  reaper' = [todo |-> idle, filtered |-> idle # {}]
    /\ UNCHANGED <<database, sweep, moved>> /\ Runs

\* One by one, in any order.
NextIdle(k) ==
    /\ reaper.filtered /\ k \in reaper.todo
    /\ reaper' = [todo |-> reaper.todo \ {k}, filtered |-> reaper.todo # {k}]
    /\ UNCHANGED <<database, run, sweep, exits, moved>>

Reap(k) ==
    /\ NextIdle(k)
    /\ worktree' = [worktree EXCEPT ![k] = FALSE]

\* git fails; the next sweep tries again.
ReapFails(k) == NextIdle(k) /\ UNCHANGED worktree

-----------------------------------------------------------------------------
\* The process exits and starts again: reset_stuck_running.
Restart ==
    /\ exits < MaxExits
    /\ exits' = exits + 1
    /\ rows' = [k \in Issue |-> [i \in DOMAIN rows[k] |->
                  IF i \in RunningRow(k) THEN [rows[k][i] EXCEPT !.state = "queued"]
                                         ELSE rows[k][i]]]
    /\ run' = [k \in Issue |-> "idle"]
    /\ sweep' = Resting /\ reaper' = Asleep
    /\ moved' = moved \cup {k \in Issue : RunningRow(k) # {}}
    /\ KeepState /\ UNCHANGED worktree

Outside(k) ==
    \/ \E t \in Task, s \in {"queued", "skipped"} : Deliver(k, t, s)
    \/ Retry(k) \/ Disappear(k) \/ CliCleanup(k) \/ Prune(k)
RunStep(k) ==
    \/ Claim(k) \/ TearDown(k) \/ Register(k) \/ Resume(k) \/ CheckOut(k)
    \/ Advance(k) \/ Abort(k) \/ CleanUp(k) \/ Finish(k) \/ Skip(k) \/ RetryLater(k)
    \/ \E e \in {"transient", "permanent", "cancelled"}, x \in BOOLEAN : Fail(k, e, x)
SweepStep ==
    \/ ListStranded
    \/ \E c \in sweep.todo : SweepAbandons(c) \/ SweepLooks(c)
    \/ \E f \in sweep.found : Requeue(f)
ReaperStep == ListAbandoned \/ FilterActive \/ \E k \in reaper.todo : Reap(k) \/ ReapFails(k)

Next ==
    \/ \E k \in Issue : Outside(k) \/ Age(k) \/ RunStep(k)
    \/ SweepStep \/ ReaperStep
    \/ Restart

Spec == Init /\ [][Next]_vars

\* The sweeps' timers go off again and again, time passes, and the removal of
\* a worktree does not fail for ever.
Fairness ==
    /\ WF_vars(SweepStep) /\ WF_vars(ReaperStep)
    /\ \A k \in Issue : WF_vars(Age(k)) /\ SF_vars(Reap(k))

FairSpec == Spec /\ Fairness

-----------------------------------------------------------------------------
(* Properties. *)

TypeOK ==
    /\ rows \in [Issue -> Seq(Row)]
    /\ state \in [Issue -> IssueState]
    /\ older \subseteq Issue \X Issue
    /\ worktree \in [Issue -> BOOLEAN]
    /\ run \in [Issue -> Phase]
    /\ sweep \in [todo : SUBSET Candidate, found : SUBSET [of : Candidate, task : Task]]
    /\ reaper \in [todo : SUBSET Issue, filtered : BOOLEAN]
    /\ exits \in 0 .. MaxExits
    /\ moved \subseteq Issue

\* Whatever sweeps, restarts, retries and prunes do between a sweep's query and
\* its writes, an issue never has more redispatches than configured, and no two
\* of them under one delivery id.
RedispatchBounded ==
    \A k \in Issue :
        /\ Spent(k) <= Cap
        /\ \A i, j \in DOMAIN rows[k] :
              rows[k][i].id = rows[k][j].id /\ rows[k][i].id > 0 => i = j

\* The sweep abandons or re-queues an issue only when it has nothing queued or
\* running and its last run was not stopped by an operator, or when something
\* has happened to it since the sweep's query.
SweepActsOnStranded ==
    [][\A k \in Issue :
          (\/ Spent(k)' > Spent(k)
           \/ state'[k] # state[k] /\ \E c \in sweep.todo : SweepAbandons(c))
              => \/ k \in moved
                 \/ /\ ~Live(k)
                    /\ rows[k][Latest(k)].state = "failed"
                    /\ rows[k][Latest(k)].error # "cancelled"]_vars

\* What the sweeper exists to prevent: an issue whose run died does not stay
\* where it is.
StrandedMoves == \A k \in Issue : Stranded(k) ~> ~Stranded(k)

\* The worktree of an abandoned issue goes, unless somebody goes on with it.
Idle(k) == state[k] = "abandoned" /\ ~Live(k)
AbandonedReaped == \A k \in Issue : Idle(k) /\ worktree[k] ~> ~Idle(k) \/ ~worktree[k]
=============================================================================

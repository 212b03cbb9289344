------------------------------ MODULE AgentRun ------------------------------
(* One delivery's run of the agent: the turn and its reminders, the three    *)
(* things that kill it from other threads (an operator's cancel, the watch   *)
(* on silence, the hard timer), what its end makes of the delivery's row,    *)
(* and the natives cache a run fills its worktree from and is captured into  *)
(* (carter_omp/worker.py, queue.py, natives_cache.py, sandbox.py).           *)
EXTENDS Naturals, Sequences

CONSTANTS
    Kind,           \* task kinds the delivery may be of
    Version,        \* contents the natives' inputs (crates, Cargo.lock, ...) may have
    MaxReminders,   \* bound on settings.task_completion_max_reminders
    MaxRetries,     \* settings.event_max_retries
    MaxEntries,     \* settings.natives_cache_max_entries_per_repo
    MaxRestarts,    \* bound on process exits
    None

ASSUME RunAssumption ==
    /\ Kind \subseteq {"triage_issue", "handle_comment", "handle_review", "review_pr",
                       "handle_release_ci"}
    /\ MaxEntries \in Nat \ {0} /\ {MaxReminders, MaxRetries, MaxRestarts} \subseteq Nat
    /\ Version # {} /\ {None, "torn"} \cap Version = {}

\* The natives built in a worktree: those of a version, of none, or of a build
\* that is under way.
Artifact == Version \cup {None, "torn"}
Entry == [key : Version, of : Artifact]

VARIABLES
    kind,       \* task kind of the delivery
    readonly,   \* bindings.review_mode: the worktree is a review's
    maxReminders, \* settings.task_completion_max_reminders; 0 disables the loop and its checks
    row,        \* the delivery's row of `events`, and of `outcomes`
    pc,         \* where the attempt is
    run,        \* the attempt's locals: tools_called, AbortController, watch, timer
    agent,      \* the omp process
    cancelled,  \* the delivery is in WorkerPool._cancelled
    work,       \* the worktree: unpublished work, and the issue's classification
    natives,    \* the natives' inputs at HEAD and in the files, and what is built
    cache,      \* the repository's entries, oldest first
    restarts
vars == <<kind, readonly, maxReminders, row, pc, run, agent, cancelled, work, natives, cache, restarts>>
task == <<kind, readonly, maxReminders>>
disk == <<work, natives, cache>>

NewRun == [called |-> FALSE, abort |-> "no", stalled |-> FALSE, overdue |-> FALSE,
           reminders |-> 0, stop |-> None, blind |-> FALSE]

TypeOK ==
    /\ kind \in Kind /\ readonly \in BOOLEAN /\ maxReminders \in 0 .. MaxReminders
    /\ row \in [state : {"queued", "running", "done", "failed"},
                attempts : 0 .. MaxRetries + 1 + MaxRestarts,
                error : {None, "incomplete", "agent aborted", "cancelled", "exception"},
                outcome : {None, "resolved", "incomplete", "cancelled", "infra_failed"}]
    /\ pc \in {"idle", "prepare", "start", "turn", "look", "ended", "capture", "record", "settle",
               "raised"}
    /\ run \in [called : BOOLEAN, abort : {"no", "heard", "late"}, stalled : BOOLEAN,
                overdue : BOOLEAN, reminders : 0 .. MaxReminders, stop : {None, "end", "error"},
                blind : BOOLEAN]
    /\ agent \in {"off", "working", "waiting", "killed"}
    /\ cancelled \in BOOLEAN
    /\ work \in [dirty : BOOLEAN, prRequired : BOOLEAN]
    /\ natives \in [head : Version, files : Version, built : Artifact]
    /\ cache \in Seq(Entry) /\ Len(cache) <= MaxEntries
    /\ \A i, j \in DOMAIN cache : cache[i].key = cache[j].key => i = j
    /\ restarts \in 0 .. MaxRestarts

Init ==
    /\ kind \in Kind
    /\ readonly \in {r \in BOOLEAN : IF r THEN kind \in {"review_pr", "handle_comment"}
                                          ELSE kind # "review_pr"}
    /\ maxReminders \in 0 .. MaxReminders
    /\ row = [state |-> "queued", attempts |-> 0, error |-> None, outcome |-> None]
    /\ pc = "idle" /\ run = NewRun /\ agent = "off" /\ cancelled = FALSE
    /\ work = [dirty |-> FALSE, prRequired |-> FALSE]
    /\ \E v \in Version : natives = [head |-> v, files |-> v, built |-> None]
    /\ cache = <<>> /\ restarts = 0

-----------------------------------------------------------------------------
(* The natives cache.                                                        *)

Keys == {cache[i].key : i \in DOMAIN cache}

\* The oldest entries go until the caps hold: the count's, and the bytes', which
\* spares one.
Kept(s, n) == SubSeq(s, Len(s) - n + 1, Len(s))

\* Mutant: the count may pass its cap by one.
CollectedLate(s) ==
    LET count == IF Len(s) > MaxEntries + 1 THEN Kept(s, MaxEntries) ELSE s
    IN  {count} \cup {Kept(count, n) : n \in 1 .. Len(count)}

\* What _gc_locked may leave.  Every capture ends with it, so that the gc loop, with
\* the same caps, finds nothing to do.
Collected(s) ==
    LET count == IF Len(s) > MaxEntries THEN Kept(s, MaxEntries) ELSE s
    IN  {count} \cup {Kept(count, n) : n \in 1 .. Len(count)}

\* Another capture under a key that is there, or an incomplete build, stores
\* nothing; so does any error.
Captured(key, built) ==
    {cache} \cup IF key \in Keys \/ built = None THEN {}
                 ELSE Collected(Append(cache, [key |-> key, of |-> built]))

\* What the worktree has after the cache was asked for its HEAD's natives.
Populated ==
    {natives} \cup {[natives EXCEPT !.built = cache[i].of] :
                        i \in {j \in DOMAIN cache : cache[j].key = natives.head}}

\* Another worktree, whose natives are those of its HEAD, is captured.
OtherCaptures(v) ==
    /\ v \notin Keys
    /\ cache' \in Captured(v, v) \ {cache}
    /\ UNCHANGED <<task, row, pc, run, agent, cancelled, work, natives, restarts>>

-----------------------------------------------------------------------------
(* The agent.                                                                *)

\* _needs_completion_reminder: the turn has not reached its terminal tool.
NeedsCompletion ==
    /\ run.abort = "no"
    /\ \/ kind \in {"review_pr", "handle_release_ci", "handle_comment"}
       \/ kind = "triage_issue" /\ work.prRequired
    /\ ~run.called

\* The agent at work.
Working == pc = "turn" /\ agent = "working"
Acts == /\ Working
        /\ UNCHANGED <<task, row, pc, agent, cancelled, cache, restarts>>

\* It edits files, among them the natives' inputs, commits and builds.
Edit(v) == /\ Acts /\ work' = [work EXCEPT !.dirty = TRUE]
           /\ natives' = [natives EXCEPT !.files = v]
           /\ UNCHANGED run
CommitFiles == /\ Acts /\ work.dirty /\ natives' = [natives EXCEPT !.head = natives.files]
               /\ UNCHANGED <<run, work>>
BeginBuild == /\ Acts /\ natives' = [natives EXCEPT !.built = "torn"] /\ UNCHANGED <<run, work>>
EndBuild == /\ Acts /\ natives.built = "torn" /\ natives' = [natives EXCEPT !.built = natives.files]
            /\ UNCHANGED <<run, work>>

\* A push, or a discard.
Clean == /\ Acts /\ work' = [work EXCEPT !.dirty = FALSE]
         /\ natives' = [natives EXCEPT !.files = natives.head]
         /\ UNCHANGED run

\* classify_issue and revise_issue_assessment.
Classify == /\ Acts /\ kind = "triage_issue"
            /\ \E b \in BOOLEAN : work' = [work EXCEPT !.prRequired = b]
            /\ UNCHANGED <<run, natives>>

\* A terminal tool succeeds.
CompleteTerminal == /\ Acts /\ run' = [run EXCEPT !.called = TRUE] /\ UNCHANGED <<work, natives>>

\* abort_task signals its controller, which stops the process.
AbortTask ==
    /\ Working
    /\ run' = [run EXCEPT !.abort = "heard"] /\ agent' = "killed"
    /\ UNCHANGED <<task, row, pc, cancelled, disk, restarts>>

\* A tool runs on a thread of its own: abort_task may signal after the turn
\* was given up.
AbortLate ==
    /\ pc = "raised" /\ run.abort = "no"
    /\ run' = [run EXCEPT !.abort = "late"]
    /\ UNCHANGED <<task, row, pc, agent, cancelled, disk, restarts>>

EndTurn ==
    /\ Working
    /\ \E s \in {"end", "error"} : run' = [run EXCEPT !.stop = s]
    /\ agent' = "waiting" /\ pc' = "look"
    /\ UNCHANGED <<task, row, cancelled, disk, restarts>>

-----------------------------------------------------------------------------
(* Those who kill it, each on its thread.                                    *)

\* From the start of the client to the reading of what fired.
Armed == pc \in {"turn", "look", "ended"}

\* The watch: no event for the silence budget, be it a hung stream, a tool that
\* takes long or the probe between turns.
Stall ==
    /\ Armed /\ ~run.stalled
    /\ run' = [run EXCEPT !.stalled = TRUE] /\ agent' = "killed"
    /\ UNCHANGED <<task, row, pc, cancelled, disk, restarts>>

\* The hard timer, which the reminders do not re-arm.
HardStop ==
    /\ Armed /\ ~run.overdue
    /\ run' = [run EXCEPT !.overdue = TRUE] /\ agent' = "killed"
    /\ UNCHANGED <<task, row, pc, cancelled, disk, restarts>>

\* An operator; the hook is stored while the client is up.
Cancel ==
    /\ pc # "idle" /\ row.state = "running" /\ ~cancelled
    /\ cancelled' = TRUE
    /\ agent' = IF Armed THEN "killed" ELSE agent
    /\ UNCHANGED <<task, row, pc, run, disk, restarts>>

-----------------------------------------------------------------------------
(* The driver.                                                               *)

Claim ==
    /\ row.state = "queued" /\ pc = "idle"
    /\ row' = [row EXCEPT !.state = "running", !.attempts = @ + 1]
    /\ pc' = "prepare" /\ run' = NewRun
    /\ UNCHANGED <<task, agent, cancelled, disk, restarts>>

\* ensure_workspace; anything may raise.
Prepare ==
    /\ pc = "prepare"
    /\ pc' \in {"start", "raised"}
    /\ natives' \in IF pc' = "start" THEN Populated ELSE {natives}
    /\ UNCHANGED <<task, row, run, agent, cancelled, work, cache, restarts>>

\* The client and its hook; a cancel that came first fires it at once.
StartClient ==
    /\ pc = "start"
    /\ \/ pc' = "turn" /\ agent' = IF cancelled THEN "killed" ELSE "working"
       \/ pc' = "raised" /\ UNCHANGED agent
    /\ UNCHANGED <<task, row, run, cancelled, disk, restarts>>

\* Mutant: the RpcError of an aborted turn propagates.
GiveUpRaises ==
    /\ pc = "turn" /\ pc' = "raised" /\ agent' = "off"
    /\ UNCHANGED <<task, row, run, cancelled, disk, restarts>>

\* prompt_and_wait gives up: its timeout, the process gone or killed.  If the
\* agent pulled the plug itself, that is a clean end.
GiveUp ==
    /\ pc = "turn"
    /\ pc' = IF run.abort = "heard" THEN "capture" ELSE "raised"
    /\ agent' = "off"
    /\ UNCHANGED <<task, row, run, cancelled, disk, restarts>>

\* _probe_workspace_dirty: git may fail, which inspect_dirty_state takes for
\* clean, or raise, which is taken for dirty.
Probes == {<<work.dirty, FALSE>>, <<FALSE, TRUE>>, <<TRUE, FALSE>>}
Probed == kind # "review_pr" /\ ~readonly

\* Mutant: reminders are not counted.
RemindUncounted ==
    /\ pc = "look" /\ run.reminders < maxReminders
    /\ NeedsCompletion \/ Probed
    /\ NeedsCompletion \/ \E p \in Probes : p[1]
    /\ run' = [run EXCEPT !.stop = None]
    /\ pc' = "turn"
    /\ agent' = IF agent = "killed" THEN agent ELSE "working"
    /\ UNCHANGED <<task, row, cancelled, disk, restarts>>

\* The loop goes on: a reminder, for the terminal tool or for unpublished work.
Remind ==
    /\ pc = "look" /\ run.reminders < maxReminders
    /\ NeedsCompletion \/ Probed
    /\ NeedsCompletion \/ \E p \in Probes : p[1]
    /\ run' = [run EXCEPT !.reminders = @ + 1, !.stop = None]
    /\ pc' = "turn"
    /\ agent' = IF agent = "killed" THEN agent ELSE "working"
    /\ UNCHANGED <<task, row, cancelled, disk, restarts>>

\* The loop ends; what reminders could not finish is marked.  Without reminders
\* nothing is probed and nothing marked.
EndDrive ==
    /\ pc = "look"
    /\ \E p \in Probes :
          /\ run.reminders < maxReminders => ~NeedsCompletion /\ (Probed => ~p[1])
          /\ \E q \in IF run.reminders > 0 THEN Probes ELSE {p} :
                /\ run' = [run EXCEPT !.blind = q[2] /\ Probed /\ maxReminders > 0]
                /\ row' = IF run.reminders > 0
                             /\ (NeedsCompletion \/ (kind # "review_pr" /\ q[1]))
                          THEN [row EXCEPT !.state = "failed", !.error = "incomplete"]
                          ELSE row
    /\ pc' = "ended"
    /\ UNCHANGED <<task, agent, cancelled, disk, restarts>>

\* What fired, and how the last turn stopped.
Examine ==
    /\ pc = "ended"
    /\ pc' = IF run.stalled \/ run.overdue \/ run.stop = "error" THEN "raised" ELSE "capture"
    /\ agent' = "off"
    /\ UNCHANGED <<task, row, run, cancelled, disk, restarts>>

\* _capture_natives_cache, under the key of what HEAD is now.
Capture ==
    /\ pc = "capture"
    /\ cache' \in Captured(natives.head, natives.built)
    /\ pc' = "record"
    /\ UNCHANGED <<task, row, run, agent, cancelled, work, natives, restarts>>

\* _record_agent_abort, after the label was consumed.
RecordAbort ==
    /\ pc = "record"
    /\ row' = IF run.abort = "no" THEN row
              ELSE [row EXCEPT !.state = "failed", !.error = "agent aborted"]
    /\ pc' = "settle"
    /\ UNCHANGED <<task, run, agent, cancelled, disk, restarts>>

\* Mutant: the queue marks `done` whatever the worker recorded.
ReturnedAnyway ==
    IF cancelled THEN [row EXCEPT !.state = "failed", !.error = "cancelled",
                                  !.outcome = "cancelled"]
    ELSE [row EXCEPT !.state = "done", !.error = None, !.outcome = "resolved"]

\* The queue, after the handler returned: the worker's diagnosis stands.
Returned ==
    IF cancelled THEN [row EXCEPT !.state = "failed", !.error = "cancelled",
                                  !.outcome = "cancelled"]
    ELSE IF row.state = "failed"
         THEN [row EXCEPT !.outcome = IF row.error = "incomplete" THEN "incomplete"
                                      ELSE "infra_failed"]
         ELSE [row EXCEPT !.state = "done", !.error = None, !.outcome = "resolved"]

\* And after it raised.
Raised ==
    IF cancelled THEN [row EXCEPT !.state = "failed", !.error = "cancelled"]
    ELSE [row EXCEPT !.state = IF row.attempts <= MaxRetries THEN "queued" ELSE "failed",
                     !.error = "exception"]

Settle ==
    /\ pc \in {"settle", "raised"}
    /\ row' = IF pc = "settle" THEN Returned ELSE Raised
    /\ pc' = "idle" /\ run' = NewRun /\ cancelled' = FALSE
    /\ UNCHANGED <<task, agent, disk, restarts>>

\* The process exits, or stop() interrupts the run, and starts again.
Restart ==
    /\ restarts < MaxRestarts /\ pc # "idle"
    /\ restarts' = restarts + 1
    /\ row' = IF row.state = "running" THEN [row EXCEPT !.state = "queued"] ELSE row
    /\ pc' = "idle" /\ run' = NewRun /\ agent' = "off" /\ cancelled' = FALSE
    /\ UNCHANGED <<task, disk>>

-----------------------------------------------------------------------------
Agent ==
    \/ \E v \in Version : Edit(v)
    \/ CommitFiles \/ BeginBuild \/ EndBuild \/ Clean \/ Classify \/ CompleteTerminal
    \/ AbortTask \/ AbortLate \/ EndTurn
Killers == Stall \/ HardStop \/ Cancel
Driver ==
    \/ Claim \/ Prepare \/ StartClient \/ GiveUp \/ Remind \/ EndDrive \/ Examine \/ Capture
    \/ RecordAbort \/ Settle
Others == Restart \/ \E v \in Version : OtherCaptures(v)

Next == Agent \/ Killers \/ Driver \/ Others

\* The driver's own steps and prompt_and_wait's timeout come without anyone's
\* help; the agent may fall silent for good.
FairSpec == Init /\ [][Next]_vars /\ WF_vars(Driver)

-----------------------------------------------------------------------------
\* A delivery ends `done` only after a turn that ended by itself: nobody killed
\* or aborted it and, when reminders are enabled, its terminal tool was reached
\* (where the task has one) and no unpublished work was left in a worktree it
\* may push from, unless git could not say.  The diagnosis is written by the
\* worker's thread before its run returns, is that of the last attempt, and must
\* pass the queue's `done`.
DoneIsFinished ==
    [][row.state # "done" /\ row'.state = "done" =>
          /\ run.abort = "no" /\ ~cancelled
          /\ run.stop = "end" /\ ~run.stalled /\ ~run.overdue
          /\ maxReminders > 0 => ~NeedsCompletion /\ (Probed => ~work.dirty \/ run.blind)]_vars

\* An abort the driver heard is terminal: whatever else fires in that attempt,
\* its delivery is neither retried nor shown as done.  Exempt are the exit of
\* the process before the abort is recorded, and an abort_task that signals
\* when its turn was given up already.
AbortStands ==
    [][run.abort = "heard" /\ row' # row /\ restarts' = restarts => row'.state = "failed"]_vars

\* Whatever the agent does or does not do, a delivery settles: every turn has a
\* timeout, reminders and retries are counted.
RunSettles == row.state \in {"queued", "running"} ~> row.state \in {"done", "failed"}

\* An entry holds the natives its key stands for: those built from the inputs
\* it hashes.
EntriesMatchTheirKey == \A i \in DOMAIN cache : cache[i].of = cache[i].key
=============================================================================

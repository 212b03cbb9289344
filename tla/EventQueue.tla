----------------------------- MODULE EventQueue -----------------------------
(***************************************************************************)
(* The durable `events` table (db.py) and the WorkerPool that drains it    *)
(* (queue.py): webhook ingress, the single dispatch loop, one `_run_event` *)
(* task per claimed row, the worker thread that owns the agent process,    *)
(* operator cancel / retry / manual triage, graceful stop, crash, restart. *)
(*                                                                         *)
(* One step is one stretch of code with no other actor in between: a       *)
(* sqlite transaction, or the event loop's code between two awaits.  The   *)
(* worker thread runs beside the loop, so its steps are separate ones.     *)
(*                                                                         *)
(* Abstractions.  A row without an issue key (`issue_key IS NULL`) is one  *)
(* whose KeyOf is its own: the code uses the delivery id as its key.  Time *)
(* is left out: `delayed` is "available_at lies in the future".  A counter *)
(* of attempts saturates one past MaxRetries, the only bound the code      *)
(* compares it with.  The dispatcher may look at the table at any moment:  *)
(* its wakeup event is bounded by a ten second poll.                       *)
(***************************************************************************)
EXTENDS Naturals, FiniteSets

CONSTANTS
    Delivery,       \* X-GitHub-Delivery ids and manual-triage ids
    Key,            \* issue keys, "owner/repo#n"
    KeyOf,          \* the key each delivery is stored under
    Manual,         \* ids enqueued by manual triage and the CLI, the rest are webhooks
    StopCommand,    \* deliveries whose body is the `stop` control command
    MaxRetries,     \* settings.event_max_retries
    Slots,          \* settings.max_concurrency
    EnvBudget,      \* bound on operator commands and process exits
    ClaimMayFail,   \* whether a sqlite call of the dispatcher may raise
    None

ASSUME KeyOfAssumption == KeyOf \in [Delivery -> Key]
ASSUME KindsAssumption == Manual \subseteq Delivery /\ StopCommand \subseteq Delivery
ASSUME NoneAssumption == None \notin Delivery
ASSUME BoundsAssumption ==
    MaxRetries \in Nat /\ Slots \in Nat \ {0} /\ EnvBudget \in Nat
ASSUME ClaimMayFailAssumption == ClaimMayFail \in BOOLEAN

VARIABLES
    \* the events table, which survives the process
    state, attempts, delayed, lastError, older,
    \* the WorkerPool, which does not
    mode,           \* up, draining and killing (inside stop()), down
    dispatcher,     \* waiting, checking (holds _inflight_lock), dead, gone
    claimed,        \* the row the dispatcher has just claimed
    inflight,       \* _inflight: the keys with a live task
    task,           \* the `_run_event` task of a delivery
    tries,          \* row.attempts as that task captured it
    agent,          \* the worker thread of `run_task`
    hooks,          \* _cancel_hooks
    cancelled,      \* _cancelled
    shutCancelled,  \* _shutdown_cancelled
    toRead,         \* stop commands that have yet to read the running rows
    toCancel,       \* deliveries a stop command read as running, not yet cancelled
    toInterrupt,    \* stop()'s `still_running`
    env             \* what is left of EnvBudget

db == <<state, attempts, delayed, lastError, older>>
signals == <<hooks, cancelled, shutCancelled>>
runs == <<task, tries, agent>>
loop == <<mode, dispatcher, claimed, inflight>>
stops == <<toRead, toCancel>>
vars == <<db, loop, runs, signals, stops, toInterrupt, env>>

Inactive == {"done", "failed", "skipped"}
RowState == {"absent", "queued", "running"} \cup Inactive
LastError == {"none", "error", "cancelled", "diagnosis"}
TaskPhase == {"idle", "slot", "running", "closing"}
LiveAgent == {"spawning", "arming", "armed", "killed"}
AgentPhase == LiveAgent \cup {"none", "returned", "raised"}

TypeOK ==
    /\ state \in [Delivery -> RowState]
    /\ attempts \in [Delivery -> 0 .. MaxRetries + 1]
    /\ delayed \in [Delivery -> BOOLEAN]
    /\ lastError \in [Delivery -> LastError]
    /\ older \in [Delivery -> SUBSET Delivery]
    /\ mode \in {"up", "draining", "killing", "down"}
    /\ dispatcher \in {"waiting", "checking", "dead", "gone"}
    /\ claimed \in Delivery \cup {None}
    /\ inflight \subseteq Key
    /\ task \in [Delivery -> TaskPhase]
    /\ tries \in [Delivery -> 0 .. MaxRetries + 1]
    /\ agent \in [Delivery -> AgentPhase]
    /\ hooks \subseteq Delivery
    /\ cancelled \subseteq Delivery
    /\ shutCancelled \subseteq Delivery
    /\ toRead \subseteq StopCommand
    /\ toCancel \subseteq Delivery
    /\ toInterrupt \subseteq Delivery
    /\ env \in 0 .. EnvBudget

Init ==
    /\ state = [d \in Delivery |-> "absent"]
    /\ attempts = [d \in Delivery |-> 0]
    /\ delayed = [d \in Delivery |-> FALSE]
    /\ lastError = [d \in Delivery |-> "none"]
    /\ older = [d \in Delivery |-> {}]
    /\ mode = "up"
    /\ dispatcher = "waiting"
    /\ claimed = None
    /\ inflight = {}
    /\ task = [d \in Delivery |-> "idle"]
    /\ tries = [d \in Delivery |-> 0]
    /\ agent = [d \in Delivery |-> "none"]
    /\ hooks = {}
    /\ cancelled = {}
    /\ shutCancelled = {}
    /\ toRead = {}
    /\ toCancel = {}
    /\ toInterrupt = {}
    /\ env = EnvBudget

-----------------------------------------------------------------------------
(* The events table. *)

SameKey(d, e) == KeyOf[d] = KeyOf[e]

\* Mutant: claim_next_event without its NOT EXISTS clause.
EligibleIgnoringRunning(d) == state[d] = "queued" /\ ~delayed[d]

\* Rows the WHERE clause of claim_next_event selects.
Eligible(d) ==
    /\ state[d] = "queued"
    /\ ~delayed[d]
    /\ \A e \in Delivery : SameKey(d, e) => state[e] # "running"

\* ORDER BY received_at LIMIT 1.
Claimable(d) == Eligible(d) /\ \A e \in older[d] : ~Eligible(e)

Bump(n) == IF n <= MaxRetries THEN n + 1 ELSE n

\* INSERT of a fresh row: attempts 0, no error, received last.
Insert(d, st, err) ==
    /\ state' = [state EXCEPT ![d] = st]
    /\ attempts' = [attempts EXCEPT ![d] = 0]
    /\ delayed' = [delayed EXCEPT ![d] = FALSE]
    /\ lastError' = [lastError EXCEPT ![d] = err]
    /\ older' = [e \in Delivery |->
                    IF e = d THEN {o \in Delivery \ {d} : state[o] # "absent"}
                             ELSE older[e] \ {d}]

\* mark_event is unconditional: it never looks at the row's current state.
Mark(d, st, err) ==
    /\ state' = [state EXCEPT ![d] = st]
    /\ lastError' = [lastError EXCEPT ![d] = err]
    /\ UNCHANGED <<attempts, delayed, older>>

Requeue(d) ==
    /\ state' = [state EXCEPT ![d] = "queued"]
    /\ delayed' = [delayed EXCEPT ![d] = FALSE]
    /\ UNCHANGED <<attempts, lastError, older>>

ScheduleRetry(d) ==
    /\ state' = [state EXCEPT ![d] = "queued"]
    /\ delayed' = [delayed EXCEPT ![d] = TRUE]
    /\ lastError' = [lastError EXCEPT ![d] = "error"]
    /\ UNCHANGED <<attempts, older>>

\* Mutant: a bounced row is not put back.
RequeueForgotten(d) == UNCHANGED db

\* running -> queued in the database; requeue_event(from_states=("running",)).
RequeueRunning(d) == IF state[d] = "running" THEN Requeue(d) ELSE UNCHANGED db

Spend == env > 0 /\ env' = env - 1

-----------------------------------------------------------------------------
(* Ingress: the webhook, the CLI and the dashboard. *)

\* record_event for a new delivery id; a known id is ignored.
Deliver(d) ==
    /\ mode = "up"
    /\ d \notin Manual \cup StopCommand
    /\ state[d] = "absent"
    /\ \/ Insert(d, "queued", "none")
       \/ Insert(d, "skipped", "diagnosis")
    /\ UNCHANGED <<loop, runs, signals, stops, toInterrupt, env>>

\* `@bot stop`, acted on at ingress: the delivery is stored as done, then
\* cancel_running_for_issue reads the running rows in a thread.
StopWebhook(d) ==
    /\ mode = "up"
    /\ d \in StopCommand \ Manual
    /\ state[d] = "absent"
    /\ Insert(d, "done", "none")
    /\ toRead' = toRead \cup {d}
    /\ UNCHANGED <<loop, runs, signals, toCancel, toInterrupt, env>>

\* replace_event_if_state_in: manual triage and the CLI's `stop`, which write
\* to the database from a process of their own.
EnqueueManual(d) ==
    /\ d \in Manual
    /\ state[d] \in Inactive \cup {"absent"}
    /\ Spend
    /\ Insert(d, "queued", "none")
    /\ UNCHANGED <<loop, runs, signals, stops, toInterrupt>>

\* /replay and /api/trigger mode=retry: requeue_event from an inactive state.
Retry(d) ==
    /\ mode = "up"
    /\ state[d] \in Inactive
    /\ Spend
    /\ Requeue(d)
    /\ UNCHANGED <<loop, runs, signals, stops, toInterrupt>>

\* `available_at` passes.
BackoffElapses(d) ==
    /\ delayed[d]
    /\ delayed' = [delayed EXCEPT ![d] = FALSE]
    /\ UNCHANGED <<state, attempts, lastError, older,
                   loop, runs, signals, stops, toInterrupt, env>>

\* prune_skipped_events, days after the row was stored.
PruneSkipped(d) ==
    /\ mode = "up"
    /\ state[d] = "skipped"
    /\ task[d] = "idle" /\ claimed # d
    /\ state' = [state EXCEPT ![d] = "absent"]
    /\ attempts' = [attempts EXCEPT ![d] = 0]
    /\ lastError' = [lastError EXCEPT ![d] = "none"]
    /\ older' = [e \in Delivery |-> IF e = d THEN {} ELSE older[e] \ {d}]
    /\ UNCHANGED <<delayed, loop, runs, signals, stops, toInterrupt, env>>

-----------------------------------------------------------------------------
(* The dispatch loop.  From the claim to the spawn or the bounce it holds   *)
(* _inflight_lock, so no task releases its key in between.                  *)

Claim(d) ==
    /\ dispatcher = "waiting"
    /\ Claimable(d)
    /\ state' = [state EXCEPT ![d] = "running"]
    /\ attempts' = [attempts EXCEPT ![d] = Bump(@)]
    /\ claimed' = d
    /\ dispatcher' = "checking"
    /\ UNCHANGED <<delayed, lastError, older, mode, inflight,
                   runs, signals, stops, toInterrupt, env>>

\* Mutant: the spawn does not look at _inflight.
AdmitUnchecked ==
    /\ dispatcher = "checking"
    /\ inflight' = inflight \cup {KeyOf[claimed]}
    /\ task' = [task EXCEPT ![claimed] = "slot"]
    /\ tries' = [tries EXCEPT ![claimed] = attempts[claimed]]
    /\ dispatcher' = "waiting"
    /\ claimed' = None
    /\ UNCHANGED <<db, mode, agent, signals, stops, toInterrupt, env>>

\* The key is free: spawn `_run_event`.
Admit ==
    /\ dispatcher = "checking"
    /\ KeyOf[claimed] \notin inflight
    /\ inflight' = inflight \cup {KeyOf[claimed]}
    /\ task' = [task EXCEPT ![claimed] = "slot"]
    /\ tries' = [tries EXCEPT ![claimed] = attempts[claimed]]
    /\ dispatcher' = "waiting"
    /\ claimed' = None
    /\ UNCHANGED <<db, mode, agent, signals, stops, toInterrupt, env>>

\* The key is busy: put the row back (its attempt stays counted) and pause.
Bounce ==
    /\ dispatcher = "checking"
    /\ KeyOf[claimed] \in inflight
    /\ RequeueRunning(claimed)
    /\ dispatcher' = "waiting"
    /\ claimed' = None
    /\ UNCHANGED <<mode, inflight, runs, signals, stops, toInterrupt, env>>

\* "dispatch loop crashed": any exception ends the loop for good.
DispatcherDies ==
    /\ ClaimMayFail
    /\ dispatcher \in {"waiting", "checking"}
    /\ dispatcher' = "dead"
    /\ claimed' = None
    /\ UNCHANGED <<db, mode, inflight, runs, signals, stops, toInterrupt, env>>

-----------------------------------------------------------------------------
(* `_run_event`.                                                           *)

Holding == {d \in Delivery : task[d] = "running"}

\* Mutant: one slot too many is handed out.
TakeSlotOffByOne(d) ==
    /\ task[d] = "slot"
    /\ Cardinality(Holding) <= Slots
    /\ task' = [task EXCEPT ![d] = "running"]
    /\ UNCHANGED <<db, loop, tries, agent, signals, stops, toInterrupt, env>>

\* SlotPool.acquire, or the semaphore when not root.
TakeSlot(d) ==
    /\ task[d] = "slot"
    /\ Cardinality(Holding) < Slots
    /\ task' = [task EXCEPT ![d] = "running"]
    /\ UNCHANGED <<db, loop, tries, agent, signals, stops, toInterrupt, env>>

\* The `finally` block up to its first await: forget the delivery's signals,
\* give the slot back.  A worker thread that outlives its task goes on.
Finish(d) ==
    /\ task' = [task EXCEPT ![d] = "closing"]
    /\ tries' = [tries EXCEPT ![d] = 0]
    /\ agent' = [agent EXCEPT ![d] = IF @ \in LiveAgent THEN @ ELSE "none"]
    /\ hooks' = hooks \ {d}
    /\ cancelled' = cancelled \ {d}
    /\ shutCancelled' = shutCancelled \ {d}

\* The handler of d (never a control command) is at work.
Handling(d, agentIn) ==
    /\ task[d] = "running"
    /\ d \notin StopCommand
    /\ agent[d] \in agentIn

\* The handler's own verdict, written with no await before the check that
\* follows it (tasks._record_skip before a run, _record_agent_abort after one);
\* else a verdict the worker thread left, which stands; else success.
Outcome(d) ==
    \/ agent[d] = "none" /\ Mark(d, "skipped", "diagnosis")
    \/ agent[d] = "returned" /\ Mark(d, "failed", "diagnosis")
    \/ state[d] \in Inactive /\ UNCHANGED db
    \/ state[d] \notin Inactive /\ Mark(d, "done", "none")

\* Mutant: the outcome check forgets the operator's cancel.
DispatchReturnsUncancelled(d) ==
    /\ Handling(d, {"none", "returned"})
    /\ Outcome(d)
    /\ Finish(d)
    /\ UNCHANGED <<loop, stops, toInterrupt, env>>

\* Mutant: a state the table does not know is written.
DispatchReturnsUnknownState(d) ==
    /\ Handling(d, {"none", "returned"})
    /\ Mark(d, IF d \in cancelled THEN "cancelled" ELSE "done", "none")
    /\ Finish(d)
    /\ UNCHANGED <<loop, stops, toInterrupt, env>>

\* _dispatch_and_mark after the handler returned.
DispatchReturns(d) ==
    /\ Handling(d, {"none", "returned"})
    /\ IF d \in cancelled THEN Mark(d, "failed", "cancelled") ELSE Outcome(d)
    /\ Finish(d)
    /\ UNCHANGED <<loop, stops, toInterrupt, env>>

\* _handle_control_command for a queued `stop` leaves a task of its own that
\* reads and cancels; mark_event(done) follows at once.
HandleStop(d) ==
    /\ d \in StopCommand
    /\ task[d] = "running"
    /\ toRead' = toRead \cup {d}
    /\ Mark(d, "done", "none")
    /\ Finish(d)
    /\ UNCHANGED <<loop, toCancel, toInterrupt, env>>

\* Mutant: the retry budget is not compared.
RetryableForever(d) == 0 < tries[d]

Retryable(d) == 0 < tries[d] /\ tries[d] <= MaxRetries

\* The `except Exception` arm.
DispatchRaises(d) ==
    /\ Handling(d, {"none", "returned", "raised"})
    /\ \/ d \in shutCancelled /\ UNCHANGED db
       \/ d \in cancelled \ shutCancelled /\ Mark(d, "failed", "cancelled")
       \/ /\ d \notin cancelled \cup shutCancelled
          /\ IF Retryable(d) /\ state[d] \in {"running", "failed"}
                THEN ScheduleRetry(d)
                ELSE Mark(d, "failed", "error")
    /\ Finish(d)
    /\ UNCHANGED <<loop, stops, toInterrupt, env>>

\* Caches reclaimed, `_release`: needs _inflight_lock.
ReleaseKey(d) ==
    /\ task[d] = "closing"
    /\ dispatcher # "checking"
    /\ task' = [task EXCEPT ![d] = "idle"]
    /\ inflight' = inflight \ {KeyOf[d]}
    /\ UNCHANGED <<db, mode, dispatcher, claimed, tries, agent,
                   signals, stops, toInterrupt, env>>

-----------------------------------------------------------------------------
(* The worker thread of `run_task`, which owns the agent process.           *)

SetAgent(d, phase) == agent' = [agent EXCEPT ![d] = phase]

\* asyncio.to_thread(_run_rpc_blocking): RpcClient.__enter__ starts omp.
SpawnAgent(d) ==
    /\ Handling(d, {"none"})
    /\ SetAgent(d, "spawning")
    /\ UNCHANGED <<db, loop, task, tries, signals, stops, toInterrupt, env>>

\* _arm_cancel, first half: was the delivery cancelled already?
ReadCancelled(d) ==
    /\ agent[d] = "spawning"
    /\ SetAgent(d, IF d \in cancelled THEN "killed" ELSE "arming")
    /\ UNCHANGED <<db, loop, task, tries, signals, stops, toInterrupt, env>>

\* _arm_cancel, second half: store the hook.
StoreHook(d) ==
    /\ agent[d] = "arming"
    /\ SetAgent(d, "armed")
    /\ hooks' = hooks \cup {d}
    /\ UNCHANGED <<db, loop, task, tries, cancelled, shutCancelled,
                   stops, toInterrupt, env>>

\* The thread's result; nobody takes it when the task is gone.
Result(d, phase) == IF task[d] = "running" THEN phase ELSE "none"

\* The thread leaves _run_rpc_blocking and disarms: a finished turn, an error,
\* a kill; or omp never started.  A kill that lands after the turn returns.
AgentEnds(d) ==
    /\ \/ /\ agent[d] \in {"armed", "killed"}
          /\ \E phase \in {"returned", "raised"} : SetAgent(d, Result(d, phase))
       \/ /\ agent[d] = "spawning"
          /\ SetAgent(d, Result(d, "raised"))
    /\ hooks' = hooks \ {d}
    /\ UNCHANGED <<db, loop, task, tries, cancelled, shutCancelled,
                   stops, toInterrupt, env>>

\* The run ended incomplete, or left the workspace dirty: the thread marks its
\* own delivery failed and goes on to disarm, then the loop captures caches.
RecordDiagnosis(d) ==
    /\ agent[d] \in {"armed", "killed"}
    /\ Mark(d, "failed", "diagnosis")
    /\ UNCHANGED <<loop, runs, signals, stops, toInterrupt, env>>

-----------------------------------------------------------------------------
(* Cancellation.                                                            *)

\* Mutant: the hook that is fired stays stored.
CancelKeepsHook(d) ==
    /\ cancelled' = cancelled \cup {d}
    /\ hooks' = hooks
    /\ agent' = [agent EXCEPT ![d] = IF d \in hooks THEN "killed" ELSE @]

\* cancel_event: remember the request, fire the hook if one is armed.
Cancel(d) ==
    /\ cancelled' = cancelled \cup {d}
    /\ hooks' = hooks \ {d}
    /\ agent' = [agent EXCEPT ![d] = IF d \in hooks THEN "killed" ELSE @]

\* /api/cancel: the row is read and cancelled with no await in between.
ApiCancel(d) ==
    /\ mode = "up"
    /\ state[d] = "running"
    /\ Spend
    /\ Cancel(d)
    /\ UNCHANGED <<db, loop, task, tries, shutCancelled, stops, toInterrupt>>

\* cancel_running_for_issue: the running rows of the issue as the thread reads
\* them; the loop acts on them later.
ReadRunning(d) ==
    /\ d \in toRead
    /\ toRead' = toRead \ {d}
    /\ toCancel' = toCancel \cup
          {e \in Delivery \ {d} : SameKey(d, e) /\ state[e] = "running"}
    /\ UNCHANGED <<db, loop, runs, signals, toInterrupt, env>>

\* One delivery of that list.
StopCancels(d) ==
    /\ d \in toCancel
    /\ toCancel' = toCancel \ {d}
    /\ Cancel(d)
    /\ UNCHANGED <<db, loop, task, tries, shutCancelled, toRead, toInterrupt, env>>

-----------------------------------------------------------------------------
(* WorkerPool.stop, process exit, WorkerPool.start.                         *)

\* The dispatcher is cancelled; a row its claim thread took stays running.
BeginStop ==
    /\ mode = "up"
    /\ Spend
    /\ mode' = "draining"
    /\ dispatcher' = "gone"
    /\ claimed' = None
    /\ UNCHANGED <<db, inflight, runs, signals, stops, toInterrupt>>

LiveTasks == {d \in Delivery : task[d] # "idle"}

\* drain_timeout is over.
DrainTimeout ==
    /\ mode = "draining"
    /\ LiveTasks # {}
    /\ mode' = "killing"
    /\ toInterrupt' = LiveTasks
    /\ UNCHANGED <<db, dispatcher, claimed, inflight, runs, signals, stops, env>>

\* A task that finished meanwhile: nothing is left to interrupt.
SkipFinished(d) ==
    /\ d \in toInterrupt
    /\ task[d] = "idle"
    /\ toInterrupt' = toInterrupt \ {d}
    /\ UNCHANGED <<db, loop, runs, signals, stops, env>>

\* A hook is armed: fire it, the thread's error ends the task.
InterruptByHook(d) ==
    /\ d \in toInterrupt \cap hooks
    /\ task[d] # "idle"
    /\ toInterrupt' = toInterrupt \ {d}
    /\ shutCancelled' = shutCancelled \cup {d}
    /\ hooks' = hooks \ {d}
    /\ SetAgent(d, "killed")
    /\ UNCHANGED <<db, loop, task, tries, cancelled, stops, env>>

\* No hook: task.cancel().  CancelledError passes `except Exception`, the row
\* stays running; in the closing phase it also skips `_release`.
InterruptTask(d) ==
    /\ d \in toInterrupt \ hooks
    /\ toInterrupt' = toInterrupt \ {d}
    /\ \/ /\ task[d] \in {"slot", "running"}
          /\ Finish(d)
       \/ /\ task[d] = "closing"
          /\ task' = [task EXCEPT ![d] = "idle"]
          /\ shutCancelled' = shutCancelled \cup {d}
          /\ UNCHANGED <<tries, agent, hooks, cancelled>>
    /\ UNCHANGED <<db, loop, stops, env>>

\* The process is gone: a crash at any moment, or the end of stop().
Exit ==
    /\ mode # "down"
    /\ IF mode = "up" THEN Spend ELSE UNCHANGED env
    /\ mode' = "down"
    /\ dispatcher' = "gone"
    /\ claimed' = None
    /\ inflight' = {}
    /\ task' = [d \in Delivery |-> "idle"]
    /\ tries' = [d \in Delivery |-> 0]
    /\ agent' = [d \in Delivery |-> "none"]
    /\ hooks' = {}
    /\ cancelled' = {}
    /\ shutCancelled' = {}
    /\ toRead' = {}
    /\ toCancel' = {}
    /\ toInterrupt' = {}
    /\ UNCHANGED db

\* Mutant: start() without reset_stuck_running.
StartWithoutReset ==
    /\ mode = "down"
    /\ mode' = "up"
    /\ dispatcher' = "waiting"
    /\ UNCHANGED <<db, claimed, inflight, runs, signals, stops, toInterrupt, env>>

\* Mutant: rows found running at start are written off.
StartFailsRunning ==
    /\ mode = "down"
    /\ mode' = "up"
    /\ dispatcher' = "waiting"
    /\ state' = [d \in Delivery |-> IF state[d] = "running" THEN "failed" ELSE state[d]]
    /\ UNCHANGED <<attempts, delayed, lastError, older, claimed, inflight,
                   runs, signals, stops, toInterrupt, env>>

\* start(): slots reaped, reset_stuck_running, then the dispatch loop.
Start ==
    /\ mode = "down"
    /\ mode' = "up"
    /\ dispatcher' = "waiting"
    /\ state' = [d \in Delivery |-> IF state[d] = "running" THEN "queued" ELSE state[d]]
    /\ delayed' = [d \in Delivery |-> delayed[d] /\ state[d] # "running"]
    /\ UNCHANGED <<attempts, lastError, older, claimed, inflight,
                   runs, signals, stops, toInterrupt, env>>

-----------------------------------------------------------------------------
Ingress(d) ==
    \/ Deliver(d) \/ StopWebhook(d) \/ EnqueueManual(d) \/ Retry(d)
    \/ BackoffElapses(d) \/ PruneSkipped(d)

Dispatch == (\E d \in Delivery : Claim(d)) \/ Admit \/ Bounce

EndRun(d) == DispatchReturns(d) \/ DispatchRaises(d) \/ HandleStop(d)

Run(d) == TakeSlot(d) \/ EndRun(d) \/ ReleaseKey(d)

Thread(d) ==
    \/ SpawnAgent(d) \/ ReadCancelled(d) \/ StoreHook(d)
    \/ AgentEnds(d) \/ RecordDiagnosis(d)

Cancellation(d) == ApiCancel(d) \/ ReadRunning(d) \/ StopCancels(d)

Interruption(d) == SkipFinished(d) \/ InterruptByHook(d) \/ InterruptTask(d)

Next ==
    \/ \E d \in Delivery :
          Ingress(d) \/ Run(d) \/ Thread(d) \/ Cancellation(d) \/ Interruption(d)
    \/ Dispatch \/ DispatcherDies
    \/ BeginStop \/ DrainTimeout \/ Exit \/ Start

Spec == Init /\ [][Next]_vars

(***************************************************************************)
(* The event loop runs every ready task; handlers end (the hard timeout    *)
(* kills a turn that does not); a backoff elapses; asyncio.Lock and        *)
(* asyncio.Queue wake their waiters in order, so a task that waits for the *)
(* lock or a slot again and again gets it; stop() is bounded by its two    *)
(* timeouts; compose restarts the container.                               *)
(***************************************************************************)
Fairness ==
    /\ WF_vars(Dispatch)
    /\ WF_vars(Start)
    /\ WF_vars(mode # "up" /\ Exit)
    /\ \A d \in Delivery :
          /\ WF_vars(BackoffElapses(d))
          /\ SF_vars(TakeSlot(d))
          /\ WF_vars(EndRun(d))
          /\ SF_vars(ReleaseKey(d))
          /\ WF_vars(ReadCancelled(d) \/ StoreHook(d) \/ AgentEnds(d))
          /\ WF_vars(ReadRunning(d))
          /\ WF_vars(StopCancels(d))

FairSpec == Spec /\ Fairness

-----------------------------------------------------------------------------
(* Properties. *)

Busy(d) == task[d] # "idle" \/ agent[d] \in LiveAgent

\* Per-issue serialization: no two deliveries of a key have a task (its cache
\* reclaim included) or an agent process at once, not even while one row is
\* already terminal, is being retried, or its task was cut short by stop().
OneRunPerKey ==
    \A d, e \in Delivery : Busy(d) /\ Busy(e) /\ SameKey(d, e) => d = e

\* claim_next_event's guard: the database never shows two running rows of a key.
OneRunningRowPerKey ==
    \A d, e \in Delivery :
        state[d] = "running" /\ state[e] = "running" /\ SameKey(d, e) => d = e

\* While the pool is up, a running row has somebody who will move it on: the
\* dispatcher that just claimed it or a task that has not finished.  A row
\* without an owner would block its issue until the next restart.
RunningRowIsOwned ==
    mode = "up" /\ dispatcher # "dead" =>
        \A d \in Delivery :
            state[d] = "running" => claimed = d \/ task[d] \in {"slot", "running"}

\* The slot pool bounds the agent processes, whatever is cancelled or retried,
\* until stop() starts cutting tasks short.
AgentsWithinSlots ==
    mode \in {"up", "draining"} =>
        Cardinality({d \in Delivery : agent[d] \in LiveAgent}) <= Slots

\* What keeps two runs of an issue apart, as one inductive statement: while
\* there is a dispatcher, whoever is busy holds its key in _inflight and no
\* agent process lacks its task; a stored hook belongs to an armed agent and
\* fires once; only stop() interrupts; nothing outlives the process.
ClaimHeld ==
    /\ dispatcher = "gone" <=> mode # "up"
    /\ dispatcher = "checking" <=> claimed # None
KeysHeld ==
    dispatcher # "gone" => \A d \in Delivery : Busy(d) => KeyOf[d] \in inflight
AgentsOwned ==
    mode \in {"up", "draining"} =>
        \A d \in Delivery : agent[d] \in LiveAgent => task[d] = "running"
HooksArmed == \A d \in hooks : agent[d] = "armed"
OnlyStopInterrupts ==
    /\ toInterrupt # {} => mode = "killing"
    /\ mode \in {"up", "down"} => shutCancelled = {}
NothingOutlives ==
    mode = "down" => \A d \in Delivery : ~Busy(d) /\ agent[d] = "none"
Ownership ==
    /\ ClaimHeld /\ KeysHeld /\ AgentsOwned /\ HooksArmed /\ OnlyStopInterrupts /\ NothingOutlives
    /\ \A d \in StopCommand : agent[d] = "none"

\* Every delivery the table accepted ends, across retries, stops and crashes.
EveryDeliverySettles ==
    \A d \in Delivery : state[d] \in {"queued", "running"} ~> state[d] \in Inactive

\* A cancel that meets a run ends it as `failed`, "cancelled by operator",
\* wherever the worker thread is, unless the pool stops first.
CancelLands ==
    \A d \in Delivery \ StopCommand :
        d \in cancelled /\ task[d] = "running"
            ~> mode # "up" \/ (state[d] = "failed" /\ lastError[d] = "cancelled")

-----------------------------------------------------------------------------
(* The refinement. *)

status ==
    [d \in Delivery |->
        IF state[d] = "absent" THEN "absent"
        ELSE IF task[d] \in {"slot", "running"} \/ agent[d] \in LiveAgent THEN "handling"
        ELSE IF state[d] \in Inactive THEN "settled"
        ELSE "pending"]

\* A pending delivery is eventually handled: no issue starves behind another,
\* no row is lost between a claim, a bounce, a crash and a restart.
EveryPendingRuns ==
    \A d \in Delivery : status[d] = "pending" ~> status[d] = "handling"

Abstract ==
    INSTANCE KeyedWork
        WITH Delivery <- Delivery, Key <- Key, KeyOf <- KeyOf, status <- status

\* The queue and its pool implement KeyedWork.
Implements == Abstract!Spec
=============================================================================

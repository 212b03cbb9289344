-------------------------- MODULE EventQueueProofs --------------------------
(***************************************************************************)
(* What holds of EventQueue for every set of deliveries, keys, budgets and *)
(* slots: its types, the inductive invariant Ownership, and from it the    *)
(* serialization of an issue's runs, the uniqueness and the ownership of   *)
(* running rows.                                                           *)
(***************************************************************************)
EXTENDS EventQueue, FiniteSetTheorems, TLAPS

\* The counters stay in range: a claim or a retry never leaves 0 .. MaxRetries + 1.
LEMMA BumpType ==
    ASSUME NEW n \in 0 .. MaxRetries + 1
    PROVE  Bump(n) \in 0 .. MaxRetries + 1
BY BoundsAssumption DEF Bump

DbType ==
    /\ state \in [Delivery -> RowState]
    /\ attempts \in [Delivery -> 0 .. MaxRetries + 1]
    /\ delayed \in [Delivery -> BOOLEAN]
    /\ lastError \in [Delivery -> LastError]
    /\ older \in [Delivery -> SUBSET Delivery]

\* An insert keeps the events table well typed.
LEMMA InsertType ==
    ASSUME NEW d \in Delivery, NEW st \in RowState, NEW err \in LastError,
           DbType, Insert(d, st, err)
    PROVE  DbType'
BY BoundsAssumption DEF DbType, Insert

\* So does a mark.
LEMMA MarkType ==
    ASSUME NEW d \in Delivery, NEW st \in RowState, NEW err \in LastError,
           DbType, Mark(d, st, err)
    PROVE  DbType'
BY DEF DbType, Mark

RunsType ==
    /\ task \in [Delivery -> TaskPhase]
    /\ tries \in [Delivery -> 0 .. MaxRetries + 1]
    /\ agent \in [Delivery -> AgentPhase]
    /\ hooks \subseteq Delivery
    /\ cancelled \subseteq Delivery
    /\ shutCancelled \subseteq Delivery

\* The end of a run keeps the pool's bookkeeping well typed.
LEMMA FinishType ==
    ASSUME NEW d \in Delivery, RunsType, Finish(d)
    PROVE  RunsType'
BY BoundsAssumption DEF RunsType, Finish, TaskPhase, AgentPhase

\* Init types every variable.
LEMMA TypeInit == Init => TypeOK /\ ClaimHeld
BY BoundsAssumption
   DEF Init, TypeOK, ClaimHeld, RowState, LastError, TaskPhase, AgentPhase, Inactive

\* Every step of the queue, its pool and its environment keeps the types.  The
\* dispatcher's own steps need to know that it holds a row when it checks one.
LEMMA TypeStep == TypeOK /\ ClaimHeld /\ [Next]_vars => TypeOK'
<1> SUFFICES ASSUME TypeOK, ClaimHeld, [Next]_vars PROVE TypeOK'
    OBVIOUS
<1> USE BoundsAssumption, BumpType
    DEF TypeOK, RowState, LastError, TaskPhase, AgentPhase, LiveAgent, Inactive,
        db, loop, runs, signals, stops, Spend
<1>1. ASSUME NEW d \in Delivery, Ingress(d) PROVE TypeOK'
  <2>1. CASE Deliver(d)
    <3>1. DbType' BY <2>1, InsertType DEF Deliver, DbType
    <3> QED BY <2>1, <3>1 DEF Deliver, DbType
  <2>2. CASE StopWebhook(d) BY <2>2 DEF StopWebhook, Insert
  <2>3. CASE EnqueueManual(d) BY <2>3 DEF EnqueueManual, Insert
  <2>4. CASE Retry(d) BY <2>4 DEF Retry, Requeue
  <2>5. CASE BackoffElapses(d) BY <2>5 DEF BackoffElapses
  <2>6. CASE PruneSkipped(d) BY <2>6 DEF PruneSkipped
  <2> QED BY <1>1, <2>1, <2>2, <2>3, <2>4, <2>5, <2>6 DEF Ingress
<1>2. ASSUME NEW d \in Delivery, Run(d) PROVE TypeOK'
  <2>1. CASE TakeSlot(d) BY <2>1 DEF TakeSlot
  <2>2. CASE DispatchReturns(d)
    <3>1. DbType'
      <4>1. CASE UNCHANGED db BY <4>1 DEF DbType
      <4>2. CASE ~UNCHANGED db
            BY <2>2, <4>2, MarkType DEF DispatchReturns, Outcome, DbType
      <4> QED BY <4>1, <4>2
    <3>2. RunsType' BY <2>2, FinishType DEF DispatchReturns, RunsType
    <3> QED BY <2>2, <3>1, <3>2 DEF DispatchReturns, DbType, RunsType
  <2>3. CASE DispatchRaises(d)
    <3>1. DbType'
      <4>1. CASE ScheduleRetry(d) BY <4>1 DEF ScheduleRetry, DbType
      <4>2. CASE UNCHANGED db BY <4>2 DEF DbType
      <4>3. CASE Mark(d, "failed", "cancelled") \/ Mark(d, "failed", "error")
            BY <4>3, MarkType DEF DbType
      <4> QED BY <2>3, <4>1, <4>2, <4>3 DEF DispatchRaises
    <3>2. RunsType' BY <2>3, FinishType DEF DispatchRaises, RunsType
    <3> QED BY <2>3, <3>1, <3>2 DEF DispatchRaises, DbType, RunsType
  <2>4. CASE HandleStop(d) BY <2>4 DEF HandleStop, Mark, Finish
  <2>5. CASE ReleaseKey(d) BY <2>5 DEF ReleaseKey
  <2> QED BY <1>2, <2>1, <2>2, <2>3, <2>4, <2>5 DEF Run, EndRun
<1>3. ASSUME NEW d \in Delivery, Thread(d) PROVE TypeOK'
  <2>1. CASE SpawnAgent(d) BY <2>1 DEF SpawnAgent, SetAgent
  <2>2. CASE ReadCancelled(d) BY <2>2 DEF ReadCancelled, SetAgent
  <2>3. CASE StoreHook(d) BY <2>3 DEF StoreHook, SetAgent
  <2>4. CASE AgentEnds(d) BY <2>4 DEF AgentEnds, SetAgent, Result
  <2>5. CASE RecordDiagnosis(d) BY <2>5 DEF RecordDiagnosis, Mark
  <2> QED BY <1>3, <2>1, <2>2, <2>3, <2>4, <2>5 DEF Thread
<1>4. ASSUME NEW d \in Delivery, Cancellation(d) \/ Interruption(d) PROVE TypeOK'
  <2>1. CASE ApiCancel(d) BY <2>1 DEF ApiCancel, Cancel
  <2>2. CASE StopCancels(d) BY <2>2 DEF StopCancels, Cancel
  <2>7. CASE ReadRunning(d) BY <2>7 DEF ReadRunning
  <2>3. CASE SkipFinished(d) BY <2>3 DEF SkipFinished
  <2>4. CASE InterruptByHook(d) BY <2>4 DEF InterruptByHook, SetAgent
  <2>5. CASE InterruptTask(d) BY <2>5 DEF InterruptTask, Finish
  <2> QED BY <1>4, <2>1, <2>2, <2>3, <2>4, <2>5, <2>7 DEF Cancellation, Interruption
<1>5. ASSUME NEW d \in Delivery, Claim(d) PROVE TypeOK'
    BY <1>5 DEF Claim
<1>6. CASE Admit \/ Bounce
  <2>0. claimed \in Delivery BY <1>6 DEF Admit, Bounce, ClaimHeld
  <2>1. CASE Admit
    <3>0. KeyOf[claimed] \in Key BY <2>0, KeyOfAssumption
    <3>1. inflight' \subseteq Key BY <3>0, <2>1 DEF Admit
    <3>2. tries' \in [Delivery -> 0 .. MaxRetries + 1] BY <2>0, <2>1 DEF Admit
    <3> QED BY <2>1, <3>1, <3>2 DEF Admit
  <2>2. CASE Bounce BY <2>0, <2>2 DEF Bounce, RequeueRunning, Requeue
  <2> QED BY <1>6, <2>1, <2>2
<1>7. CASE DispatcherDies \/ BeginStop \/ DrainTimeout
    BY <1>7 DEF DispatcherDies, BeginStop, DrainTimeout, LiveTasks
<1>8. CASE Exit BY <1>8 DEF Exit
<1>9. CASE Start BY <1>9 DEF Start
<1>10. CASE UNCHANGED vars BY <1>10 DEF vars
<1> QED
    BY <1>1, <1>2, <1>3, <1>4, <1>5, <1>6, <1>7, <1>8, <1>9, <1>10
    DEF Next, Dispatch

\* The dispatcher holds a row exactly between its claim and its verdict on it.
LEMMA ClaimHeldStep == TypeOK /\ ClaimHeld /\ [Next]_vars => ClaimHeld'
<1> SUFFICES ASSUME TypeOK, ClaimHeld, [Next]_vars PROVE ClaimHeld'
    OBVIOUS
<1> USE DEF ClaimHeld
<1>1. CASE UNCHANGED <<mode, dispatcher, claimed>> BY <1>1
<1>2. ASSUME NEW d \in Delivery, Claim(d) PROVE ClaimHeld'
    BY <1>2, NoneAssumption DEF Claim
<1>3. CASE Admit \/ Bounce \/ DispatcherDies \/ BeginStop \/ Exit \/ Start
    BY <1>3 DEF Admit, Bounce, DispatcherDies, BeginStop, Exit, Start, TypeOK
<1>4. CASE DrainTimeout BY <1>4 DEF DrainTimeout
<1>5. ASSUME NEW d \in Delivery,
             Ingress(d) \/ Run(d) \/ Thread(d) \/ Cancellation(d) \/ Interruption(d)
      PROVE  UNCHANGED <<mode, dispatcher, claimed>>
    BY <1>5
    DEF Ingress, Deliver, StopWebhook, EnqueueManual, Retry, BackoffElapses,
        PruneSkipped, Run, EndRun, TakeSlot, DispatchReturns, DispatchRaises,
        HandleStop, ReleaseKey, Thread, SpawnAgent, ReadCancelled, StoreHook,
        AgentEnds, RecordDiagnosis, Cancellation, ApiCancel, StopCancels, ReadRunning,
        Interruption, SkipFinished, InterruptByHook, InterruptTask, Cancel, loop
<1> QED BY <1>1, <1>2, <1>3, <1>4, <1>5 DEF Next, Dispatch, vars, loop

\* Type correctness: the table, the pool's bookkeeping and the worker threads
\* only ever hold the values their declarations name.
THEOREM TypeCorrect == Spec => []TypeOK
<1>1. Spec => [](TypeOK /\ ClaimHeld)
    BY TypeInit, TypeStep, ClaimHeldStep, PTL DEF Spec
<1> QED BY <1>1, PTL

-----------------------------------------------------------------------------
(***************************************************************************)
(* Serialization.  Only Admit makes a delivery busy, and it requires the   *)
(* key to be free; a key leaves _inflight only when its delivery is idle   *)
(* and its agent gone.  The invariant says who may be busy without a key:  *)
(* nobody, as long as there is a dispatcher to admit somebody else.        *)
(***************************************************************************)
IInv == TypeOK /\ Ownership /\ OneRunPerKey

NobodyStarts == \A d \in Delivery : Busy(d)' => Busy(d)

\* Serialization survives any step that makes nobody busy.
LEMMA QuietStep ==
    OneRunPerKey /\ NobodyStarts => OneRunPerKey'
BY DEF OneRunPerKey, NobodyStarts, SameKey

\* The inductive invariant holds when the service starts.
LEMMA InvInit == Init => IInv
BY TypeInit, KindsAssumption
   DEF Init, IInv, Ownership, ClaimHeld, KeysHeld, AgentsOwned, HooksArmed,
       OnlyStopInterrupts, NothingOutlives, OneRunPerKey, Busy, LiveAgent, TypeOK

\* Ingress, marks and claims touch neither tasks nor agents nor keys.
LEMMA TableStep ==
    ASSUME IInv, ClaimHeld',
           UNCHANGED <<mode, inflight, runs, signals, toInterrupt>>,
           dispatcher' # "gone" => dispatcher # "gone"
    PROVE  Ownership' /\ OneRunPerKey'
BY QuietStep
   DEF IInv, Ownership, KeysHeld, AgentsOwned, HooksArmed, OnlyStopInterrupts,
       NothingOutlives, NobodyStarts, Busy, runs, signals

\* The spawn: the key was free, so nobody of the issue is busy.
LEMMA AdmitStep == IInv /\ ClaimHeld' /\ Admit => Ownership' /\ OneRunPerKey'
<1> SUFFICES ASSUME IInv, ClaimHeld', Admit PROVE Ownership' /\ OneRunPerKey'
    OBVIOUS
<1>1. /\ claimed \in Delivery
      /\ \A e \in Delivery : SameKey(claimed, e) => ~Busy(e)
    BY DEF Admit, IInv, TypeOK, Ownership, ClaimHeld, KeysHeld, SameKey
<1>2. \A e \in Delivery : Busy(e)' => Busy(e) \/ e = claimed
    BY <1>1 DEF Admit, Busy, IInv, TypeOK
<1>3. OneRunPerKey'
    BY <1>1, <1>2 DEF OneRunPerKey, SameKey, IInv
<1>4. KeysHeld' BY <1>1, <1>2 DEF KeysHeld, Admit, IInv, Ownership
<1>5. AgentsOwned' BY <1>1 DEF AgentsOwned, Admit, IInv, Ownership, TypeOK, Busy,
                               SameKey
<1>6. UNCHANGED <<mode, agent, signals, toInterrupt>> /\ mode # "down"
    BY DEF Admit, IInv, Ownership, ClaimHeld
<1> QED
    BY <1>3, <1>4, <1>5, <1>6
    DEF IInv, Ownership, HooksArmed, OnlyStopInterrupts, NothingOutlives, signals

\* A run ends: its agent is gone, its key is kept until ReleaseKey.
LEMMA EndRunStep ==
    ASSUME IInv, ClaimHeld', NEW d \in Delivery, EndRun(d)
    PROVE  Ownership' /\ OneRunPerKey'
<1>1. /\ task[d] = "running" /\ agent[d] \notin LiveAgent
      /\ Finish(d) /\ UNCHANGED <<loop, toInterrupt>>
    BY DEF EndRun, DispatchReturns, DispatchRaises, HandleStop, Handling,
           IInv, Ownership, LiveAgent
<1>2. NobodyStarts BY <1>1 DEF NobodyStarts, Busy, Finish, IInv, TypeOK
<1>3. KeysHeld' BY <1>1, <1>2 DEF KeysHeld, NobodyStarts, IInv, Ownership, loop
<1>4. AgentsOwned'
    BY <1>1 DEF AgentsOwned, Finish, IInv, Ownership, TypeOK, loop, LiveAgent
<1>5. HooksArmed' BY <1>1 DEF HooksArmed, Finish, IInv, Ownership, TypeOK
<1>6. OnlyStopInterrupts' BY <1>1 DEF OnlyStopInterrupts, Finish, IInv, Ownership, loop
<1>7. NothingOutlives'
    BY <1>1, <1>2 DEF NothingOutlives, NobodyStarts, Finish, IInv, Ownership, TypeOK,
                      loop, Busy
<1>8. \A e \in StopCommand : agent'[e] = "none"
    BY <1>1, KindsAssumption DEF Finish, IInv, Ownership, TypeOK
<1>9. OneRunPerKey' BY <1>2, QuietStep DEF IInv
<1> QED
    BY <1>3, <1>4, <1>5, <1>6, <1>7, <1>8, <1>9 DEF Ownership

\* The rest of `_run_event`: waiting for a slot, giving the key back.
LEMMA RunStep ==
    ASSUME IInv, ClaimHeld', NEW d \in Delivery, TakeSlot(d) \/ ReleaseKey(d)
    PROVE  Ownership' /\ OneRunPerKey'
<1>1. NobodyStarts
    BY DEF NobodyStarts, Busy, TakeSlot, ReleaseKey, IInv, TypeOK
<1>2. KeysHeld'
  <2>1. CASE TakeSlot(d)
        BY <1>1, <2>1 DEF TakeSlot, KeysHeld, NobodyStarts, IInv, Ownership, loop
  <2>2. CASE ReleaseKey(d)
    <3> SUFFICES ASSUME dispatcher' # "gone", NEW e \in Delivery, Busy(e)'
                 PROVE  KeyOf[e] \in inflight'
        BY DEF KeysHeld
    <3>1. mode = "up" /\ Busy(e) /\ Busy(d) /\ KeyOf[e] \in inflight
        BY <1>1, <2>2 DEF ReleaseKey, NobodyStarts, IInv, Ownership, ClaimHeld,
                          KeysHeld, Busy
    <3>2. ~Busy(d)'
        BY <2>2, <3>1 DEF ReleaseKey, Busy, IInv, Ownership, AgentsOwned, TypeOK
    <3>3. ~SameKey(d, e) BY <3>1, <3>2 DEF OneRunPerKey, IInv
    <3> QED BY <2>2, <3>1, <3>3 DEF ReleaseKey, SameKey
  <2> QED BY <2>1, <2>2
<1>3. AgentsOwned'
    BY DEF AgentsOwned, TakeSlot, ReleaseKey, IInv, Ownership, TypeOK, loop
<1>4. NothingOutlives'
    BY <1>1 DEF NothingOutlives, NobodyStarts, TakeSlot, ReleaseKey, IInv, Ownership,
                loop
<1>5. UNCHANGED <<mode, agent, signals, toInterrupt>>
    BY DEF TakeSlot, ReleaseKey, loop
<1>6. OneRunPerKey' BY <1>1, QuietStep DEF IInv
<1> QED
    BY <1>2, <1>3, <1>4, <1>5, <1>6
    DEF IInv, Ownership, HooksArmed, OnlyStopInterrupts, signals

\* The worker thread and the two cancels change the phase of an agent that is
\* there; only SpawnAgent starts one, under a running task.
LEMMA AgentStep ==
    ASSUME IInv, ClaimHeld', NEW d \in Delivery,
           \/ SpawnAgent(d) \/ ReadCancelled(d) \/ StoreHook(d) \/ AgentEnds(d)
           \/ ApiCancel(d) \/ StopCancels(d) \/ ReadRunning(d)
    PROVE  Ownership' /\ OneRunPerKey'
<1> USE DEF SetAgent, Result, Cancel, Handling, runs, signals
<1>1. UNCHANGED <<loop, task, shutCancelled, toInterrupt>>
    BY DEF SpawnAgent, ReadCancelled, StoreHook, AgentEnds, ApiCancel, StopCancels,
           ReadRunning,
           signals
<1>2. \A e \in Delivery :
          /\ agent'[e] \in LiveAgent => agent[e] \in LiveAgent \/ task[e] = "running"
          /\ e # d => agent'[e] = agent[e]
    BY DEF SpawnAgent, ReadCancelled, StoreHook, AgentEnds, ApiCancel, StopCancels,
           ReadRunning,
           IInv, TypeOK, Ownership, HooksArmed, LiveAgent
<1>3. NobodyStarts BY <1>1, <1>2 DEF NobodyStarts, Busy
<1>4. KeysHeld' BY <1>1, <1>3 DEF KeysHeld, NobodyStarts, IInv, Ownership, loop
<1>5. AgentsOwned' BY <1>1, <1>2 DEF AgentsOwned, IInv, Ownership, loop
<1>6. HooksArmed'
  <2>1. hooks' \subseteq hooks \cup {d} BY DEF SpawnAgent, ReadCancelled, StoreHook,
        AgentEnds, ApiCancel, StopCancels, ReadRunning, signals
  <2>2. d \in hooks' => agent'[d] = "armed"
        BY DEF SpawnAgent, ReadCancelled, StoreHook, AgentEnds, ApiCancel,
               StopCancels, ReadRunning,
               IInv, TypeOK, Ownership, HooksArmed, signals
  <2> QED BY <1>2, <2>1, <2>2 DEF HooksArmed, IInv, Ownership, TypeOK
<1>7. OnlyStopInterrupts' BY <1>1 DEF OnlyStopInterrupts, IInv, Ownership, loop
<1>8. NothingOutlives'
  <2> SUFFICES ASSUME mode = "down", NEW e \in Delivery
               PROVE  ~Busy(e)' /\ agent'[e] = "none"
      BY <1>1 DEF NothingOutlives, loop
  <2>1. \A c \in Delivery : ~Busy(c) /\ agent[c] = "none" /\ c \notin hooks
      BY DEF IInv, Ownership, NothingOutlives, HooksArmed
  <2>2. agent'[d] = "none"
      BY <2>1 DEF Busy, SpawnAgent, ReadCancelled, StoreHook, AgentEnds, ApiCancel,
                  StopCancels, ReadRunning, IInv, TypeOK, LiveAgent
  <2> QED BY <1>2, <1>3, <2>1, <2>2 DEF NobodyStarts
<1>9. \A e \in StopCommand : agent'[e] = "none"
    BY <1>2, KindsAssumption
    DEF SpawnAgent, ReadCancelled, StoreHook, AgentEnds, ApiCancel, StopCancels,
        ReadRunning,
        IInv, Ownership, HooksArmed, TypeOK
<1>10. OneRunPerKey' BY <1>3, QuietStep DEF IInv
<1> QED BY <1>4, <1>5, <1>6, <1>7, <1>8, <1>9, <1>10 DEF Ownership

\* stop() cuts runs short when nobody is left to admit another.
LEMMA InterruptStep ==
    ASSUME IInv, ClaimHeld', NEW d \in Delivery, Interruption(d)
    PROVE  Ownership' /\ OneRunPerKey'
<1> USE DEF SetAgent
<1>1. mode = "killing" /\ UNCHANGED loop /\ dispatcher = "gone"
    BY DEF Interruption, SkipFinished, InterruptByHook, InterruptTask,
           IInv, Ownership, OnlyStopInterrupts, ClaimHeld, loop
<1>2. NobodyStarts
    BY DEF NobodyStarts, Busy, Interruption, SkipFinished, InterruptByHook,
           InterruptTask, Finish, IInv, TypeOK, runs
<1>3. HooksArmed'
    BY DEF HooksArmed, Interruption, SkipFinished, InterruptByHook, InterruptTask,
           Finish, IInv, Ownership, TypeOK, runs, signals, LiveAgent
<1>4. \A e \in StopCommand : agent'[e] = "none"
    BY KindsAssumption
    DEF Interruption, SkipFinished, InterruptByHook, InterruptTask,
        Finish, HooksArmed, IInv, Ownership, TypeOK, runs, LiveAgent
<1>5. OneRunPerKey' BY <1>2, QuietStep DEF IInv
<1> QED
    BY <1>1, <1>3, <1>4, <1>5
    DEF Ownership, KeysHeld, AgentsOwned, OnlyStopInterrupts, NothingOutlives, loop

\* stop() begins and its drain times out; the process exits and comes back.
LEMMA LifecycleStep ==
    ASSUME IInv, ClaimHeld', BeginStop \/ DrainTimeout \/ Exit \/ Start
    PROVE  Ownership' /\ OneRunPerKey'
<1>1. NobodyStarts
    BY DEF NobodyStarts, Busy, BeginStop, DrainTimeout, Exit, Start, runs, LiveAgent
<1>2. OneRunPerKey' BY <1>1, QuietStep DEF IInv
<1>3. CASE Exit
  <2>1. /\ mode' = "down" /\ hooks' = {} /\ toInterrupt' = {} /\ shutCancelled' = {}
        /\ \A d \in Delivery : ~Busy(d)' /\ agent'[d] = "none"
      BY <1>3 DEF Exit, Busy, LiveAgent
  <2> QED BY <1>2, <2>1, KindsAssumption
          DEF Ownership, KeysHeld, AgentsOwned, HooksArmed, OnlyStopInterrupts,
              NothingOutlives
<1>4. CASE BeginStop \/ DrainTimeout
    BY <1>2, <1>4
    DEF BeginStop, DrainTimeout, IInv, Ownership, KeysHeld, AgentsOwned, HooksArmed,
        OnlyStopInterrupts, NothingOutlives, ClaimHeld, runs, signals
<1>5. CASE Start
  <2>1. \A d \in Delivery : ~Busy(d)' /\ agent'[d] = "none"
      BY <1>5 DEF Start, IInv, Ownership, NothingOutlives, Busy, runs
  <2>2. shutCancelled' = {} /\ toInterrupt' = {} /\ hooks' = hooks /\ mode' = "up"
      BY <1>5 DEF Start, IInv, Ownership, OnlyStopInterrupts, signals
  <2> QED
      BY <1>2, <1>5, <2>1, <2>2, KindsAssumption
      DEF Start, IInv, Ownership, KeysHeld, AgentsOwned, HooksArmed,
          OnlyStopInterrupts, NothingOutlives, Busy, runs
<1> QED BY <1>3, <1>4, <1>5

\* Every step of the pool preserves it.
LEMMA InvStep == IInv /\ [Next]_vars => IInv'
<1> SUFFICES ASSUME IInv, [Next]_vars PROVE IInv'
    OBVIOUS
<1>1. TypeOK' /\ ClaimHeld'
    BY TypeStep, ClaimHeldStep DEF IInv, Ownership
<1> SUFFICES Ownership' /\ OneRunPerKey'
    BY <1>1 DEF IInv
<1>2. ASSUME NEW d \in Delivery, Ingress(d) \/ RecordDiagnosis(d) \/ Claim(d)
      PROVE  Ownership' /\ OneRunPerKey'
  <2>1. /\ UNCHANGED <<mode, inflight, runs, signals, toInterrupt>>
        /\ dispatcher' # "gone" => dispatcher # "gone"
      BY <1>2
      DEF Ingress, Deliver, StopWebhook, EnqueueManual, Retry, BackoffElapses,
          PruneSkipped, RecordDiagnosis, Claim, loop
  <2> QED BY <1>1, <2>1, TableStep
<1>3. CASE Bounce \/ DispatcherDies
  <2>1. /\ UNCHANGED <<mode, inflight, runs, signals, toInterrupt>>
        /\ dispatcher' # "gone" => dispatcher # "gone"
      BY <1>3 DEF Bounce, DispatcherDies
  <2> QED BY <1>1, <2>1, TableStep
<1>4. CASE UNCHANGED vars BY <1>1, <1>4, TableStep DEF vars, loop
<1>5. CASE Admit BY <1>1, <1>5, AdmitStep
<1>6. ASSUME NEW d \in Delivery, Run(d) PROVE Ownership' /\ OneRunPerKey'
    BY <1>1, <1>6, EndRunStep, RunStep DEF Run
<1>7. ASSUME NEW d \in Delivery, Thread(d) \/ Cancellation(d)
      PROVE  Ownership' /\ OneRunPerKey'
    BY <1>1, <1>2, <1>7, AgentStep DEF Thread, Cancellation
<1>8. ASSUME NEW d \in Delivery, Interruption(d) PROVE Ownership' /\ OneRunPerKey'
    BY <1>1, <1>8, InterruptStep
<1>9. CASE BeginStop \/ DrainTimeout \/ Exit \/ Start
    BY <1>1, <1>9, LifecycleStep
<1> QED
    BY <1>2, <1>3, <1>4, <1>5, <1>6, <1>7, <1>8, <1>9 DEF Next, Dispatch

\* So it holds in every reachable state.
LEMMA Invariant == Spec => []IInv
BY InvInit, InvStep, PTL DEF Spec

\* Per-issue serialization: `_inflight` keeps a second delivery of an issue out
\* until the first has left `_run_event`, whatever is retried, bounced,
\* cancelled, interrupted or restarted meanwhile.
THEOREM Serialization == Spec => []OneRunPerKey
BY Invariant, PTL DEF IInv

\* The bookkeeping invariant itself holds: keys, agents, hooks, interrupts.
THEOREM OwnershipHolds == Spec => []Ownership
BY Invariant, PTL DEF IInv

-----------------------------------------------------------------------------
(* Running rows. *)

\* A row becomes running by a claim and by nothing else.
LEMMA OnlyClaimRuns ==
    ASSUME TypeOK, [Next]_vars, NEW d \in Delivery,
           state[d] # "running", state'[d] = "running"
    PROVE  Claim(d)
<1> USE DEF TypeOK, db, Mark, Requeue, Insert
<1>1. ASSUME NEW e \in Delivery, Ingress(e) PROVE FALSE
    BY <1>1 DEF Ingress, Deliver, StopWebhook, EnqueueManual, Retry, BackoffElapses,
                PruneSkipped
<1>2. ASSUME NEW e \in Delivery, Run(e) PROVE FALSE
    BY <1>2 DEF Run, EndRun, TakeSlot, DispatchReturns, Outcome, DispatchRaises,
                ScheduleRetry, HandleStop, ReleaseKey
<1>3. ASSUME NEW e \in Delivery, Thread(e) \/ Cancellation(e) \/ Interruption(e)
      PROVE  FALSE
    BY <1>3 DEF Thread, SpawnAgent, ReadCancelled, StoreHook, AgentEnds,
                RecordDiagnosis, Cancellation, ApiCancel, StopCancels, ReadRunning,
                Interruption,
                SkipFinished, InterruptByHook, InterruptTask
<1>4. CASE Admit \/ Bounce \/ DispatcherDies \/ BeginStop \/ DrainTimeout \/ Exit \/ Start
    BY <1>4 DEF Admit, Bounce, RequeueRunning, DispatcherDies, BeginStop, DrainTimeout,
                Exit, Start
<1>5. CASE UNCHANGED vars BY <1>5 DEF vars
<1>6. ASSUME NEW e \in Delivery, Claim(e) PROVE Claim(d)
    BY <1>6 DEF Claim
<1> QED BY <1>1, <1>2, <1>3, <1>4, <1>5, <1>6 DEF Next, Dispatch

\* A stopped pool or a dead dispatch loop is revived by a restart alone.
LEMMA OnlyStartRevives ==
    ASSUME [Next]_vars, mode' = "up", dispatcher' # "dead", ~Start
    PROVE  mode = "up" /\ dispatcher # "dead"
BY DEF Next, Dispatch, Claim, Admit, Bounce, DispatcherDies, BeginStop, DrainTimeout,
       Exit, Ingress, Deliver, StopWebhook, EnqueueManual, Retry, BackoffElapses,
       PruneSkipped, Run, EndRun, TakeSlot, DispatchReturns, DispatchRaises,
       HandleStop, ReleaseKey, Thread, SpawnAgent, ReadCancelled, StoreHook,
       AgentEnds, RecordDiagnosis, Cancellation, ApiCancel, StopCancels, ReadRunning,
       Interruption,
       SkipFinished, InterruptByHook, InterruptTask, loop, vars

\* claim_next_event's NOT EXISTS clause is enough: no other statement of the
\* code makes a row running.
THEOREM OneRunningRow == Spec => []OneRunningRowPerKey
<1>1. Init => OneRunningRowPerKey
    BY DEF Init, OneRunningRowPerKey
<1>2. TypeOK /\ OneRunningRowPerKey /\ [Next]_vars => OneRunningRowPerKey'
  <2> SUFFICES ASSUME TypeOK, OneRunningRowPerKey, [Next]_vars,
                      NEW d \in Delivery, NEW e \in Delivery, SameKey(d, e),
                      state'[d] = "running", state'[e] = "running"
               PROVE  d = e
      BY DEF OneRunningRowPerKey, SameKey
  <2>1. ASSUME NEW c \in Delivery, Claim(c) PROVE d = e
      BY <2>1 DEF Claim, Claimable, Eligible, OneRunningRowPerKey, SameKey, TypeOK
  <2>2. CASE state[d] = "running" /\ state[e] = "running"
      BY <2>2 DEF OneRunningRowPerKey
  <2> QED BY <2>1, <2>2, OnlyClaimRuns
<1>3. Spec => []TypeOK BY TypeCorrect
<1> QED BY <1>1, <1>2, <1>3, PTL DEF Spec

\* The owner of a running row gives it up only with a verdict, a requeue, or
\* the process: rows do not get stuck while the pool is up.
THEOREM RunningRowsOwned == Spec => []RunningRowIsOwned
<1>1. Init => RunningRowIsOwned
    BY DEF Init, RunningRowIsOwned
<1>2. IInv /\ RunningRowIsOwned /\ [Next]_vars => RunningRowIsOwned'
  <2> SUFFICES ASSUME IInv, RunningRowIsOwned, [Next]_vars,
                      mode' = "up", dispatcher' # "dead",
                      NEW d \in Delivery, state'[d] = "running"
               PROVE  claimed' = d \/ task'[d] \in {"slot", "running"}
      BY DEF RunningRowIsOwned
  <2> DEFINE Owned == claimed' = d \/ task'[d] \in {"slot", "running"}
  <2> USE DEF IInv
  <2>1. CASE state[d] # "running"
    <3>1. Claim(d) BY <2>1, OnlyClaimRuns
    <3> QED BY <3>1 DEF Claim
  <2>2. CASE state[d] = "running" /\ mode # "up"
    <3>1. Start BY <2>2, OnlyStartRevives
    <3> QED BY <2>2, <3>1 DEF Start, TypeOK
  <2>3. CASE state[d] = "running" /\ mode = "up"
    <3>1. dispatcher # "dead" BY <2>3, OnlyStartRevives DEF Start
    <3>2. claimed = d \/ task[d] \in {"slot", "running"}
        BY <2>3, <3>1 DEF RunningRowIsOwned
    <3>3. CASE UNCHANGED <<claimed, task>> BY <3>2, <3>3
    <3>4. ASSUME NEW e \in Delivery, Claim(e) PROVE Owned
      <4>1. claimed = None BY <3>4 DEF Claim, Ownership, ClaimHeld
      <4>2. task[d] \in {"slot", "running"} BY <3>2, <4>1, NoneAssumption
      <4> QED BY <3>4, <4>2 DEF Claim, runs
    <3>5. CASE Admit BY <3>2, <3>5 DEF Admit, TypeOK
    <3>6. CASE Bounce
      <4>1. claimed # d
          BY <2>3, <3>6 DEF Bounce, RequeueRunning, Requeue, TypeOK
      <4> QED BY <3>2, <3>6, <4>1 DEF Bounce, runs
    <3>7. ASSUME NEW e \in Delivery, EndRun(e) PROVE Owned
      <4>1. state'[e] # "running"
        <5>1. CASE DispatchReturns(e)
            BY <5>1 DEF DispatchReturns, Outcome, Mark, Inactive, TypeOK, db
        <5>2. CASE HandleStop(e) BY <5>2 DEF HandleStop, Mark, TypeOK
        <5>3. CASE DispatchRaises(e)
          <6>1. e \notin shutCancelled BY <2>3 DEF Ownership, OnlyStopInterrupts
          <6> QED BY <5>3, <6>1 DEF DispatchRaises, ScheduleRetry, Mark, TypeOK
        <5> QED BY <3>7, <5>1, <5>2, <5>3 DEF EndRun
      <4>2. e # d /\ UNCHANGED claimed BY <3>7, <4>1
          DEF EndRun, DispatchReturns, DispatchRaises, HandleStop, loop
      <4> QED BY <3>2, <3>7, <4>2
          DEF EndRun, DispatchReturns, DispatchRaises, HandleStop, Finish, TypeOK
    <3>8. ASSUME NEW e \in Delivery, TakeSlot(e) \/ ReleaseKey(e) PROVE Owned
        BY <3>2, <3>8 DEF TakeSlot, ReleaseKey, loop, TypeOK
    <3>9. ASSUME NEW e \in Delivery, Ingress(e) \/ Thread(e) \/ Cancellation(e)
          PROVE  UNCHANGED <<claimed, task>>
        BY <3>9
        DEF Ingress, Deliver, StopWebhook, EnqueueManual, Retry,
            BackoffElapses, PruneSkipped, Thread, SpawnAgent, ReadCancelled,
            StoreHook, AgentEnds, RecordDiagnosis, Cancellation, ApiCancel,
            StopCancels, ReadRunning, loop, runs
    <3>10. ASSUME NEW e \in Delivery, Interruption(e) PROVE FALSE
        BY <2>3, <3>10
        DEF Interruption, SkipFinished, InterruptByHook, InterruptTask, Ownership,
            OnlyStopInterrupts
    <3>11. CASE DispatcherDies \/ BeginStop \/ DrainTimeout \/ Exit \/ Start
        BY <2>3, <3>11 DEF DispatcherDies, BeginStop, DrainTimeout, Exit, Start
    <3>12. CASE UNCHANGED vars BY <3>3, <3>12 DEF vars, loop, runs
    <3> QED
        BY <3>3, <3>4, <3>5, <3>6, <3>7, <3>8, <3>9, <3>10, <3>11, <3>12
        DEF Next, Dispatch, Run
  <2> QED BY <2>1, <2>2, <2>3
<1> QED BY <1>1, <1>2, Invariant, PTL DEF Spec

-----------------------------------------------------------------------------
(* The slot pool. *)

\* Only TakeSlot adds a holder.
LEMMA HoldersShrink ==
    ASSUME TypeOK, [Next]_vars, \A d \in Delivery : ~TakeSlot(d)
    PROVE  Holding' \subseteq Holding
<1> USE DEF TypeOK, Holding, runs
<1>1. ASSUME NEW d \in Delivery, Run(d) PROVE Holding' \subseteq Holding
    BY <1>1 DEF Run, EndRun, DispatchReturns, DispatchRaises, HandleStop, ReleaseKey,
                Finish
<1>2. ASSUME NEW d \in Delivery, Interruption(d) PROVE Holding' \subseteq Holding
    BY <1>2 DEF Interruption, SkipFinished, InterruptByHook, InterruptTask, Finish
<1>3. CASE Admit \/ Exit BY <1>3 DEF Admit, Exit
<1>4. CASE UNCHANGED task BY <1>4
<1>5. ASSUME NEW d \in Delivery,
             Ingress(d) \/ Thread(d) \/ Cancellation(d) \/ Claim(d)
      PROVE  UNCHANGED task
    BY <1>5
    DEF Ingress, Deliver, StopWebhook, EnqueueManual, Retry, BackoffElapses,
        PruneSkipped, Thread, SpawnAgent, ReadCancelled, StoreHook, AgentEnds,
        RecordDiagnosis, Cancellation, ApiCancel, StopCancels, ReadRunning, Claim
<1>6. CASE Bounce \/ DispatcherDies \/ BeginStop \/ DrainTimeout \/ Start \/ UNCHANGED vars
    BY <1>4, <1>6 DEF Bounce, DispatcherDies, BeginStop, DrainTimeout, Start, vars
<1> QED BY <1>1, <1>2, <1>3, <1>4, <1>5, <1>6 DEF Next, Dispatch

SlotsHeld == IsFiniteSet(Holding) /\ Cardinality(Holding) <= Slots

\* No step puts an agent to work without a slot.
LEMMA SlotsStep == TypeOK /\ SlotsHeld /\ [Next]_vars => SlotsHeld'
<1> SUFFICES ASSUME TypeOK, SlotsHeld, [Next]_vars PROVE SlotsHeld'
    OBVIOUS
<1>1. ASSUME NEW d \in Delivery, TakeSlot(d) PROVE SlotsHeld'
  <2>1. Holding' = Holding \cup {d}
      BY <1>1 DEF TakeSlot, Holding, TypeOK
  <2>2. Cardinality(Holding) \in Nat BY FS_CardinalityType DEF SlotsHeld
  <2>3. /\ IsFiniteSet(Holding \cup {d})
        /\ Cardinality(Holding \cup {d}) =
             IF d \in Holding THEN Cardinality(Holding) ELSE Cardinality(Holding) + 1
      BY FS_AddElement DEF SlotsHeld
  <2> QED BY <1>1, <2>1, <2>2, <2>3, BoundsAssumption DEF TakeSlot, SlotsHeld
<1>2. ASSUME \A d \in Delivery : ~TakeSlot(d) PROVE SlotsHeld'
  <2>1. Holding' \subseteq Holding BY <1>2, HoldersShrink
  <2>2. /\ IsFiniteSet(Holding') /\ Cardinality(Holding') <= Cardinality(Holding)
        /\ Cardinality(Holding') \in Nat /\ Cardinality(Holding) \in Nat
      BY <2>1, FS_Subset, FS_CardinalityType DEF SlotsHeld
  <2> QED BY <2>2, BoundsAssumption DEF SlotsHeld
<1> QED BY <1>1, <1>2

\* max_concurrency bounds the live agent processes until stop() cuts runs short:
\* every agent belongs to a task that holds a slot, and slots are counted.
THEOREM SlotBound == Spec => []AgentsWithinSlots
<1>1. Init => SlotsHeld
  <2> SUFFICES ASSUME Init PROVE SlotsHeld OBVIOUS
  <2>1. Holding = {} BY DEF Init, Holding
  <2> QED BY <2>1, FS_EmptySet, BoundsAssumption DEF SlotsHeld
<1>2. Spec => []SlotsHeld
    BY <1>1, SlotsStep, TypeCorrect, PTL DEF Spec
<1>3. IInv /\ SlotsHeld => AgentsWithinSlots
  <2> SUFFICES ASSUME IInv, SlotsHeld, mode \in {"up", "draining"}
               PROVE  Cardinality({d \in Delivery : agent[d] \in LiveAgent}) <= Slots
      BY DEF AgentsWithinSlots
  <2> DEFINE Live == {d \in Delivery : agent[d] \in LiveAgent}
  <2>1. Live \subseteq Holding BY DEF Holding, IInv, Ownership, AgentsOwned
  <2>2. /\ Cardinality(Live) <= Cardinality(Holding)
        /\ Cardinality(Live) \in Nat /\ Cardinality(Holding) \in Nat
      BY <2>1, FS_Subset, FS_CardinalityType DEF SlotsHeld
  <2> QED BY <2>2, BoundsAssumption DEF SlotsHeld
<1> QED BY <1>2, <1>3, Invariant, PTL

-----------------------------------------------------------------------------
(***************************************************************************)
(* The queue and its pool implement KeyedWork.  Most steps stutter; a      *)
(* delivery starts being handled at Admit and stops when its task and its  *)
(* agent are both over.                                                    *)
(***************************************************************************)
\* A row in somebody's hands exists; the row the dispatcher checks is still
\* running unless a run of its issue is about to finish.
RowsInHand ==
    /\ \A d \in Delivery : state[d] = "absent" => ~Busy(d) /\ claimed # d
    /\ dispatcher = "checking" /\ KeyOf[claimed] \notin inflight
          => state[claimed] = "running"

MapInv == IInv /\ RowsInHand

Handled(d) == task[d] \in {"slot", "running"} \/ agent[d] \in LiveAgent

\* A step that changes one delivery's status is a move of that delivery.
LEMMA MoveStep ==
    ASSUME NEW d \in Delivery, NEW from, NEW to, status[d] = from, status'[d] = to,
           \A e \in Delivery : e # d => status'[e] = status[e]
    PROVE  Abstract!Move(d, from, to)
BY DEF Abstract!Move, status

\* Statuses that agree everywhere agree as functions.
LEMMA StutterStep ==
    ASSUME \A e \in Delivery : status'[e] = status[e]
    PROVE  UNCHANGED status
BY DEF status

\* Deliveries whose row, task and agent a step leaves alone keep their status.
LEMMA SameStatus ==
    ASSUME NEW e \in Delivery,
           state'[e] = state[e],
           Handled(e)' <=> Handled(e)
    PROVE  status'[e] = status[e]
BY DEF status, Handled

\* A running row is moved on by its task or its agent, by the dispatcher that
\* bounces it, or by the next start.
LEMMA WhoMovesRunning ==
    ASSUME TypeOK, [Next]_vars, NEW d \in Delivery,
           state[d] = "running", state'[d] # "running"
    PROVE  Busy(d) \/ Start \/ Bounce
<1> USE DEF TypeOK, db, Mark, Requeue, Insert, Inactive
<1>1. ASSUME NEW e \in Delivery, Ingress(e) PROVE FALSE
    BY <1>1 DEF Ingress, Deliver, StopWebhook, EnqueueManual, Retry, BackoffElapses,
                PruneSkipped
<1>2. ASSUME NEW e \in Delivery, Run(e) PROVE Busy(d)
    BY <1>2 DEF Run, EndRun, TakeSlot, DispatchReturns, Outcome, DispatchRaises,
                ScheduleRetry, HandleStop, ReleaseKey, Busy, Handling
<1>3. ASSUME NEW e \in Delivery, Thread(e) \/ Cancellation(e) \/ Interruption(e)
      PROVE  Busy(d)
    BY <1>3 DEF Thread, SpawnAgent, ReadCancelled, StoreHook, AgentEnds,
                RecordDiagnosis, Cancellation, ApiCancel, StopCancels, ReadRunning,
                Interruption,
                SkipFinished, InterruptByHook, InterruptTask, Busy, LiveAgent
<1>4. CASE Admit \/ DispatcherDies \/ BeginStop \/ DrainTimeout \/ Exit \/ UNCHANGED vars
    BY <1>4 DEF Admit, DispatcherDies, BeginStop, DrainTimeout, Exit, vars
<1>5. ASSUME NEW e \in Delivery, Claim(e) PROVE FALSE
    BY <1>5 DEF Claim
<1> QED BY <1>1, <1>2, <1>3, <1>4, <1>5 DEF Next, Dispatch

\* A row disappears only when retention prunes it, in nobody's hands.
LEMMA WhoForgets ==
    ASSUME TypeOK, [Next]_vars, NEW d \in Delivery,
           state[d] # "absent", state'[d] = "absent"
    PROVE  PruneSkipped(d)
<1> USE DEF TypeOK, db, Mark, Requeue, Insert
<1>1. ASSUME NEW e \in Delivery, Ingress(e) PROVE PruneSkipped(d)
    BY <1>1 DEF Ingress, Deliver, StopWebhook, EnqueueManual, Retry, BackoffElapses,
                PruneSkipped
<1>2. ASSUME NEW e \in Delivery, Run(e) PROVE FALSE
    BY <1>2 DEF Run, EndRun, TakeSlot, DispatchReturns, Outcome, DispatchRaises,
                ScheduleRetry, HandleStop, ReleaseKey
<1>3. ASSUME NEW e \in Delivery, Thread(e) \/ Cancellation(e) \/ Interruption(e)
      PROVE  FALSE
    BY <1>3 DEF Thread, SpawnAgent, ReadCancelled, StoreHook, AgentEnds,
                RecordDiagnosis, Cancellation, ApiCancel, StopCancels, ReadRunning,
                Interruption,
                SkipFinished, InterruptByHook, InterruptTask
<1>4. CASE Admit \/ Bounce \/ DispatcherDies \/ BeginStop \/ DrainTimeout \/ Exit \/ Start
    BY <1>4 DEF Admit, Bounce, RequeueRunning, DispatcherDies, BeginStop, DrainTimeout,
                Exit, Start
<1>5. ASSUME NEW e \in Delivery, Claim(e) PROVE FALSE
    BY <1>5 DEF Claim
<1> QED BY <1>1, <1>2, <1>3, <1>4, <1>5 DEF Next, Dispatch, vars

\* Only the dispatcher's spawn makes an idle delivery busy.
LEMMA WhoStarts ==
    ASSUME IInv, [Next]_vars, NEW d \in Delivery, ~Busy(d), Busy(d)'
    PROVE  Admit /\ d = claimed
<1> USE DEF IInv, TypeOK, Busy, runs
<1>1. ASSUME NEW e \in Delivery, Run(e) PROVE FALSE
  <2>1. CASE TakeSlot(e) \/ ReleaseKey(e) BY <2>1 DEF TakeSlot, ReleaseKey
  <2>2. CASE EndRun(e)
    <3>1. Finish(e) /\ task[e] = "running"
        BY <2>2 DEF EndRun, DispatchReturns, DispatchRaises, HandleStop, Handling
    <3> QED BY <3>1 DEF Finish
  <2> QED BY <1>1, <2>1, <2>2 DEF Run
<1>2. ASSUME NEW e \in Delivery, Thread(e) PROVE FALSE
    BY <1>2 DEF Thread, SpawnAgent, ReadCancelled, StoreHook, AgentEnds, SetAgent,
                RecordDiagnosis, Result, Handling, LiveAgent
<1>3. ASSUME NEW e \in Delivery, Cancellation(e) PROVE FALSE
    BY <1>3 DEF Cancellation, ApiCancel, StopCancels, ReadRunning, Cancel, LiveAgent,
                Ownership,
                HooksArmed
<1>4. ASSUME NEW e \in Delivery, Interruption(e) PROVE FALSE
    BY <1>4 DEF Interruption, SkipFinished, InterruptByHook, InterruptTask, Finish,
                SetAgent, LiveAgent, Ownership, HooksArmed
<1>5. CASE Admit
  <2>1. claimed \in Delivery BY <1>5 DEF Admit, Ownership, ClaimHeld
  <2> QED BY <1>5, <2>1 DEF Admit
<1>6. CASE Exit BY <1>6 DEF Exit, LiveAgent
<1>7. CASE Bounce \/ DispatcherDies \/ BeginStop \/ DrainTimeout \/ Start \/ UNCHANGED vars
    BY <1>7 DEF Bounce, DispatcherDies, BeginStop, DrainTimeout, Start, vars
<1>8. ASSUME NEW e \in Delivery, Ingress(e) \/ Claim(e) PROVE FALSE
    BY <1>8 DEF Ingress, Deliver, StopWebhook, EnqueueManual, Retry, BackoffElapses,
                PruneSkipped, Claim
<1> QED BY <1>1, <1>2, <1>3, <1>4, <1>5, <1>6, <1>7, <1>8 DEF Next, Dispatch

\* While the dispatcher goes on checking, _inflight does not change.
LEMMA CheckingHolds ==
    ASSUME IInv, [Next]_vars, dispatcher' = "checking", ~(\E d \in Delivery : Claim(d))
    PROVE  UNCHANGED <<claimed, inflight, dispatcher>> /\ ~Start /\ ~Bounce
BY DEF Next, Dispatch, Admit, Bounce, DispatcherDies, BeginStop, DrainTimeout, Start,
       Exit, Ingress, Deliver, StopWebhook, EnqueueManual, Retry, BackoffElapses,
       PruneSkipped, Run, EndRun, TakeSlot, DispatchReturns, DispatchRaises,
       HandleStop, ReleaseKey, Thread, SpawnAgent, ReadCancelled, StoreHook,
       AgentEnds, RecordDiagnosis, Cancellation, ApiCancel, StopCancels, ReadRunning,
       Interruption,
       SkipFinished, InterruptByHook, InterruptTask, loop, vars, IInv, Ownership,
       ClaimHeld

\* The dispatcher picks up a row by claiming it.
LEMMA WhoClaims ==
    ASSUME IInv, [Next]_vars, claimed' # claimed, claimed' # None
    PROVE  \E d \in Delivery : Claim(d) /\ claimed' = d
BY DEF Next, Dispatch, Claim, Admit, Bounce, DispatcherDies, BeginStop, DrainTimeout,
       Start, Exit, Ingress, Deliver, StopWebhook, EnqueueManual, Retry,
       BackoffElapses, PruneSkipped, Run, EndRun, TakeSlot, DispatchReturns,
       DispatchRaises, HandleStop, ReleaseKey, Thread, SpawnAgent, ReadCancelled,
       StoreHook, AgentEnds, RecordDiagnosis, Cancellation, ApiCancel, StopCancels,
       ReadRunning,
       Interruption, SkipFinished, InterruptByHook, InterruptTask, loop, vars

\* Every step keeps each running row in the hands of a task or of the dispatcher.
LEMMA RowsInHandStep == MapInv /\ [Next]_vars => RowsInHand'
<1> SUFFICES ASSUME MapInv, [Next]_vars PROVE RowsInHand'
    OBVIOUS
<1>0. IInv /\ IInv' /\ TypeOK BY InvStep DEF MapInv, IInv
<1>1. ASSUME NEW d \in Delivery, state'[d] = "absent"
      PROVE  ~Busy(d)' /\ claimed' # d
  <2>1. ~Busy(d) /\ claimed # d
    <3>1. CASE state[d] = "absent" BY <3>1 DEF MapInv, RowsInHand
    <3>2. CASE state[d] # "absent"
      <4>1. PruneSkipped(d) BY <1>0, <1>1, <3>2, WhoForgets
      <4> QED BY <1>0, <4>1 DEF PruneSkipped, Busy, IInv, Ownership, AgentsOwned
    <3> QED BY <3>1, <3>2
  <2>2. ~Busy(d)' BY <1>0, <2>1, WhoStarts
  <2>3. claimed' # d
    <3> SUFFICES ASSUME claimed' = d PROVE FALSE OBVIOUS
    <3>1. Claim(d) BY <1>0, <2>1, WhoClaims, NoneAssumption
    <3> QED BY <1>0, <1>1, <3>1 DEF Claim, TypeOK
  <2> QED BY <2>2, <2>3
<1>2. ASSUME dispatcher' = "checking", KeyOf[claimed'] \notin inflight'
      PROVE  state'[claimed'] = "running"
  <2>1. ASSUME NEW d \in Delivery, Claim(d) PROVE state'[claimed'] = "running"
      BY <1>0, <2>1 DEF Claim, TypeOK
  <2>2. ASSUME ~(\E d \in Delivery : Claim(d)) PROVE state'[claimed'] = "running"
    <3>1. UNCHANGED <<claimed, inflight, dispatcher>> /\ ~Start /\ ~Bounce
        BY <1>0, <1>2, <2>2, CheckingHolds
    <3>2. claimed \in Delivery /\ ~Busy(claimed) /\ state[claimed] = "running"
        BY <1>0, <1>2, <3>1
        DEF MapInv, RowsInHand, IInv, Ownership, ClaimHeld, KeysHeld, TypeOK
    <3> QED BY <1>0, <3>1, <3>2, WhoMovesRunning
  <2> QED BY <2>1, <2>2
<1> QED BY <1>1, <1>2 DEF RowsInHand

\* What the refinement needs holds in every reachable state.
LEMMA MapInvariant == Spec => []MapInv
<1>1. Init => MapInv
    BY InvInit, NoneAssumption
    DEF MapInv, RowsInHand, Init, IInv, TypeOK, Ownership, NothingOutlives,
                   Busy, LiveAgent
<1>2. MapInv /\ [Next]_vars => MapInv'
    BY InvStep, RowsInHandStep DEF MapInv
<1> QED BY <1>1, <1>2, PTL DEF Spec

\* One delivery leaves the hands of its task and agent: settled or given back.
LEMMA LeavesHands ==
    ASSUME TypeOK', NEW d \in Delivery, status[d] = "handling",
           ~Handled(d)', state'[d] # "absent",
           \A e \in Delivery : e # d => status'[e] = status[e]
    PROVE  Abstract!Next
<1>1. status'[d] \in {"settled", "pending"}
    BY DEF status, Handled
<1>2. Abstract!Move(d, "handling", "settled") \/ Abstract!Move(d, "handling", "pending")
    BY <1>1, MoveStep
<1> QED BY <1>2 DEF Abstract!Next, Abstract!Settle, Abstract!GiveBack

\* Ingress submits, discards, reopens or forgets a delivery that is in nobody's
\* hands; a retry of one that still is changes nothing yet.
LEMMA IngressMaps ==
    ASSUME MapInv, NEW d \in Delivery, Ingress(d)
    PROVE  Abstract!Next \/ UNCHANGED status
<1> USE DEF MapInv, IInv, TypeOK
<1>1. /\ UNCHANGED <<task, agent>>
      /\ \A e \in Delivery : Handled(e)' <=> Handled(e)
    BY DEF Ingress, Deliver, StopWebhook, EnqueueManual, Retry, BackoffElapses,
           PruneSkipped, runs, Handled
<1>2. \A e \in Delivery : e # d => state'[e] = state[e]
    BY DEF Ingress, Deliver, StopWebhook, EnqueueManual, Retry, BackoffElapses,
           PruneSkipped, Insert, Requeue
<1>3. \A e \in Delivery : e # d => status'[e] = status[e]
    BY <1>1, <1>2, SameStatus
<1>4. state[d] = "absent" => ~Handled(d)
    BY DEF RowsInHand, Busy, Handled
<1>5. CASE Deliver(d) \/ StopWebhook(d)
  <2>1. status[d] = "absent" /\ status'[d] \in {"pending", "settled"}
      BY <1>1, <1>4, <1>5
      DEF Deliver, StopWebhook, Insert, status, Handled, Inactive
  <2>2. Abstract!Move(d, "absent", "pending") \/ Abstract!Move(d, "absent", "settled")
      BY <1>3, <2>1, MoveStep
  <2> QED BY <2>2 DEF Abstract!Next, Abstract!Submit, Abstract!Discard
<1>6. CASE EnqueueManual(d) \/ Retry(d)
  <2>0. state[d] \in Inactive \cup {"absent"} /\ state'[d] = "queued"
      BY <1>6 DEF EnqueueManual, Retry, Insert, Requeue
  <2>1. CASE Handled(d)
    <3>1. status'[d] = status[d]
        BY <1>1, <1>4, <2>0, <2>1 DEF status, Handled, Inactive
    <3> QED BY <1>3, <3>1, StutterStep
  <2>2. CASE ~Handled(d)
    <3>1. status[d] \in {"absent", "settled"} /\ status'[d] = "pending"
        BY <1>1, <2>0, <2>2 DEF status, Handled, Inactive
    <3>2. Abstract!Move(d, "absent", "pending") \/ Abstract!Move(d, "settled",
    "pending")
        BY <1>3, <3>1, MoveStep
    <3> QED BY <3>2 DEF Abstract!Next, Abstract!Submit, Abstract!Reopen
  <2> QED BY <2>1, <2>2
<1>7. CASE BackoffElapses(d)
  <2>1. status'[d] = status[d] BY <1>1, <1>7, SameStatus DEF BackoffElapses
  <2> QED BY <1>3, <2>1, StutterStep
<1>8. CASE PruneSkipped(d)
  <2>1. status[d] = "settled" /\ status'[d] = "absent"
      BY <1>8 DEF PruneSkipped, status, Inactive, Ownership, AgentsOwned
  <2>2. Abstract!Move(d, "settled", "absent") BY <1>3, <2>1, MoveStep
  <2> QED BY <2>2 DEF Abstract!Next, Abstract!Forget
<1> QED BY <1>5, <1>6, <1>7, <1>8 DEF Ingress

\* A spawn is the abstract Handle: nobody of the issue is being handled.
LEMMA AdmitMaps == MapInv /\ Admit => Abstract!Next
<1> SUFFICES ASSUME MapInv, Admit PROVE Abstract!Next
    OBVIOUS
<1> USE DEF MapInv, IInv
<1>1. /\ claimed \in Delivery /\ state[claimed] = "running"
      /\ \A e \in Delivery : SameKey(claimed, e) => ~Busy(e)
    BY DEF Admit, TypeOK, Ownership, ClaimHeld, KeysHeld, SameKey, RowsInHand
<1>2. status[claimed] = "pending"
    BY <1>1 DEF status, Busy, SameKey, Inactive
<1>3. status'[claimed] = "handling"
    BY <1>1 DEF Admit, status, TypeOK, db
<1>4. \A e \in Delivery : e # claimed => status'[e] = status[e]
    BY SameStatus DEF Admit, TypeOK, db, Handled
<1>5. \A e \in Delivery : KeyOf[e] = KeyOf[claimed] => status[e] # "handling"
    BY <1>1 DEF status, Busy, SameKey
<1>6. Abstract!Move(claimed, "pending", "handling") BY <1>1, <1>2, <1>3, <1>4, MoveStep
<1> QED BY <1>1, <1>5, <1>6 DEF Abstract!Next, Abstract!Handle

\* The end of a run settles the delivery or gives it back.
LEMMA EndRunMaps ==
    ASSUME MapInv, TypeOK', NEW d \in Delivery, EndRun(d)
    PROVE  Abstract!Next
<1> USE DEF MapInv, IInv, TypeOK
<1>1. task[d] = "running" /\ agent[d] \notin LiveAgent /\ Finish(d)
    BY DEF EndRun, DispatchReturns, DispatchRaises, HandleStop, Handling, Ownership,
           LiveAgent
<1>2. state[d] # "absent" BY <1>1 DEF RowsInHand, Busy
<1>3. \A e \in Delivery : /\ e # d => state'[e] = state[e]
                          /\ state'[d] # "absent"
    BY <1>2 DEF EndRun, DispatchReturns, Outcome, DispatchRaises, HandleStop, Mark,
                ScheduleRetry, db
<1>4. ~Handled(d)' /\ (\A e \in Delivery : e # d => (Handled(e)' <=> Handled(e)))
    BY <1>1 DEF Finish, Handled, LiveAgent
<1>5. \A e \in Delivery : e # d => status'[e] = status[e]
    BY <1>3, <1>4, SameStatus
<1>6. status[d] = "handling" BY <1>1, <1>2 DEF status
<1> QED BY <1>3, <1>4, <1>5, <1>6, LeavesHands

\* An agent that outlived its task ends its delivery's handling when it ends;
\* any other step of the worker thread is invisible.
LEMMA ThreadMaps ==
    ASSUME MapInv, TypeOK', NEW d \in Delivery, Thread(d) \/ Cancellation(d)
    PROVE  Abstract!Next \/ UNCHANGED status
<1> USE DEF MapInv, IInv, TypeOK, SetAgent, Result, Cancel, Handling
<1>1. CASE AgentEnds(d)
  <2>1. /\ state[d] # "absent" /\ status[d] = "handling"
        /\ \A e \in Delivery : state'[e] = state[e] /\ task'[e] = task[e]
      BY <1>1 DEF AgentEnds, RowsInHand, Busy, LiveAgent, status, db
  <2>2. \A e \in Delivery : e # d => (Handled(e)' <=> Handled(e))
      BY <1>1 DEF AgentEnds, Handled
  <2>3. \A e \in Delivery : e # d => status'[e] = status[e]
      BY <2>1, <2>2, SameStatus
  <2>4. CASE Handled(d)'
    <3>1. status'[d] = "handling" BY <2>1, <2>4 DEF status, Handled
    <3> QED BY <2>1, <2>3, <3>1, StutterStep
  <2>5. CASE ~Handled(d)' BY <2>1, <2>3, <2>5, LeavesHands
  <2> QED BY <2>4, <2>5
<1>2. CASE RecordDiagnosis(d)
  <2>1. Handled(d) /\ (\A e \in Delivery : Handled(e)' <=> Handled(e))
      BY <1>2 DEF RecordDiagnosis, Handled, LiveAgent, runs
  <2>2. \A e \in Delivery : e # d => status'[e] = status[e]
      BY <1>2, <2>1, SameStatus DEF RecordDiagnosis, Mark
  <2>3. state[d] # "absent" /\ state'[d] = "failed"
      BY <1>2, <2>1 DEF RecordDiagnosis, Mark, RowsInHand, Busy, Handled
  <2>4. status'[d] = status[d]
      BY <2>1, <2>3 DEF status, Handled
  <2> QED BY <2>2, <2>4, StutterStep
<1>3. CASE \/ SpawnAgent(d) \/ ReadCancelled(d) \/ StoreHook(d)
           \/ ApiCancel(d) \/ StopCancels(d) \/ ReadRunning(d)
  <2>1. UNCHANGED <<state, task>>
      BY <1>3 DEF SpawnAgent, ReadCancelled, StoreHook, ApiCancel,
             StopCancels, ReadRunning, db, runs
  <2>2. \A e \in Delivery : Handled(e)' <=> Handled(e)
      BY <1>3, <2>1
      DEF SpawnAgent, ReadCancelled, StoreHook, ApiCancel, StopCancels, ReadRunning,
          Handled, LiveAgent, Ownership, HooksArmed, Cancel, SetAgent, runs, signals
  <2> QED BY <2>1, <2>2, SameStatus, StutterStep
<1> QED BY <1>1, <1>2, <1>3 DEF Thread, Cancellation

\* A run that stop() cuts short is given back, unless its agent goes on.
LEMMA InterruptionMaps ==
    ASSUME MapInv, TypeOK', NEW d \in Delivery, Interruption(d)
    PROVE  Abstract!Next \/ UNCHANGED status
<1> USE DEF MapInv, IInv, TypeOK, SetAgent
<1>0. UNCHANGED state
    BY DEF Interruption, SkipFinished, InterruptByHook, InterruptTask, db
<1>1. CASE SkipFinished(d) \/ InterruptByHook(d) \/ (InterruptTask(d) /\ task[d] = "closing")
  <2>1. \A e \in Delivery : Handled(e)' <=> Handled(e)
      BY <1>1 DEF SkipFinished, InterruptByHook, InterruptTask, Handled, LiveAgent,
                  Ownership, HooksArmed, runs
  <2> QED BY <1>0, <2>1, SameStatus, StutterStep
<1>2. CASE InterruptTask(d) /\ task[d] # "closing"
  <2>1. task[d] \in {"slot", "running"} /\ Finish(d)
      BY <1>2 DEF InterruptTask
  <2>2. \A e \in Delivery : e # d => (Handled(e)' <=> Handled(e))
      BY <2>1 DEF Finish, Handled
  <2>3. \A e \in Delivery : e # d => status'[e] = status[e]
      BY <1>0, <2>2, SameStatus
  <2>4. state[d] # "absent" /\ status[d] = "handling"
      BY <2>1 DEF RowsInHand, Busy, status
  <2>5. CASE Handled(d)'
    <3>1. status'[d] = "handling" BY <1>0, <2>4, <2>5 DEF status, Handled
    <3> QED BY <2>3, <2>4, <3>1, StutterStep
  <2>6. CASE ~Handled(d)' BY <1>0, <2>3, <2>4, <2>6, LeavesHands
  <2> QED BY <2>5, <2>6
<1> QED BY <1>1, <1>2 DEF Interruption

\* The exit of the process interrupts every handling at once; a start, a claim,
\* a bounce, a slot, the key's release are invisible.
LEMMA ProcessMaps ==
    ASSUME MapInv, Exit
    PROVE  Abstract!Next
<1>1. /\ UNCHANGED state
      /\ \A d \in Delivery : task'[d] = "idle" /\ agent'[d] = "none"
    BY DEF Exit, db
<1>2. \A d \in Delivery : ~Handled(d)'
    BY <1>1 DEF Handled, LiveAgent
<1>3. \A d \in Delivery :
          IF status[d] = "handling" THEN status'[d] \in {"pending", "settled"}
                                    ELSE status'[d] = status[d]
    BY <1>1, <1>2 DEF status, Handled, MapInv, RowsInHand, Busy
<1>4. status' \in [Delivery -> Abstract!Status]
    BY DEF status, Abstract!Status
<1> QED BY <1>3, <1>4 DEF Abstract!Next, Abstract!Interrupt

\* A step that touches nobody the abstract queue sees maps to a stutter.
LEMMA QuietMaps ==
    ASSUME MapInv, NEW d \in Delivery,
           \/ Claim(d) \/ TakeSlot(d) \/ ReleaseKey(d) \/ Bounce
           \/ DispatcherDies \/ BeginStop \/ DrainTimeout \/ Start \/ UNCHANGED vars
    PROVE  UNCHANGED status
<1> USE DEF MapInv, IInv, TypeOK
<1>1. \A e \in Delivery : Handled(e)' <=> Handled(e)
    BY DEF Claim, TakeSlot, ReleaseKey, Bounce, DispatcherDies, BeginStop, DrainTimeout,
           Start, vars, runs, Handled
<1>2. ASSUME NEW e \in Delivery PROVE status'[e] = status[e]
  <2>1. CASE state'[e] = state[e] BY <1>1, <2>1, SameStatus
  <2>2. CASE state'[e] # state[e]
    <3>1. {state[e], state'[e]} \subseteq {"queued", "running"}
        BY <2>2
        DEF Claim, Claimable, Eligible, TakeSlot, ReleaseKey, Bounce, RequeueRunning,
            Requeue, DispatcherDies, BeginStop, DrainTimeout, Start, vars, db
    <3> QED BY <1>1, <3>1 DEF status, Handled, Inactive
  <2> QED BY <2>1, <2>2
<1> QED BY <1>2, StutterStep

\* The queue, its pool, its cancels, stops, crashes and restarts implement
\* KeyedWork: deliveries of a key are handled one at a time, a pending delivery
\* leaves the table only by being handled, no restart loses one.
THEOREM QueueImplementsKeyedWork == Spec => Implements
<1>1. Init => Abstract!Init
    BY DEF Init, status, Abstract!Init
<1>2. MapInv /\ [Next]_vars => [Abstract!Next]_status
  <2> SUFFICES ASSUME MapInv, [Next]_vars PROVE Abstract!Next \/ UNCHANGED status
      OBVIOUS
  <2>1. TypeOK' BY InvStep DEF MapInv, IInv
  <2>2. ASSUME NEW d \in Delivery, Ingress(d) PROVE Abstract!Next \/ UNCHANGED status
      BY <2>2, IngressMaps
  <2>3. ASSUME NEW d \in Delivery, Run(d) PROVE Abstract!Next \/ UNCHANGED status
      BY <2>1, <2>3, EndRunMaps, QuietMaps DEF Run
  <2>4. ASSUME NEW d \in Delivery, Thread(d) \/ Cancellation(d) \/ Interruption(d)
        PROVE  Abstract!Next \/ UNCHANGED status
      BY <2>1, <2>4, ThreadMaps, InterruptionMaps
  <2>5. ASSUME NEW d \in Delivery, Claim(d) PROVE Abstract!Next \/ UNCHANGED status
      BY <2>5, QuietMaps
  <2>6. CASE Admit BY <2>6, AdmitMaps
  <2>7. CASE Exit BY <2>7, ProcessMaps
  <2>8. CASE Bounce \/ DispatcherDies \/ BeginStop \/ DrainTimeout \/ Start \/ UNCHANGED vars
    <3>1. CASE Delivery = {} BY <3>1 DEF status
    <3>2. CASE Delivery # {} BY <2>8, <3>2, QuietMaps
    <3> QED BY <3>1, <3>2
  <2> QED BY <2>2, <2>3, <2>4, <2>5, <2>6, <2>7, <2>8 DEF Next, Dispatch
<1> QED BY <1>1, <1>2, MapInvariant, PTL DEF Spec, Implements, Abstract!Spec
=============================================================================

--------------------------- MODULE AgentRunProofs ---------------------------
(* That a delivery is done only after a turn that ended by itself, and that   *)
(* an abort the driver heard is terminal, for any reminders, retries, exits,  *)
(* versions and size of the natives cache.  The invariant says, of each place *)
(* the driver may be at, what the attempt has shown by then.                  *)
EXTENDS AgentRun, SequenceTheorems, TLAPS

-----------------------------------------------------------------------------
(* The invariant *)

\* A delivery is running between its claim and its end; its attempts are paid for
\* by a retry or an exit of the process.
RowOK ==
    /\ pc = "idle" => row.state # "running"
    /\ pc # "idle" => row.state \in {"running", "failed"}
    /\ row.attempts <= MaxRetries + 1 + restarts
    /\ row.state = "queued" => row.attempts <= MaxRetries + restarts

\* An abort is heard in a turn, which it kills, and is followed to the row.
AbortOK ==
    /\ pc \in {"idle", "prepare", "start", "look", "ended"} => run.abort = "no"
    /\ pc = "turn" => run.abort # "late" /\ (run.abort = "heard" => agent = "killed")
    /\ pc \in {"capture", "record", "settle"} => run.abort # "late"
    /\ pc = "settle" /\ run.abort = "heard" => row.state = "failed"
    /\ pc = "raised" => run.abort # "heard"

\* What the loop and then the driver has seen to of an attempt it has not failed.
Seen == maxReminders > 0 => ~NeedsCompletion /\ (Probed => ~work.dirty \/ run.blind)
FinishOK ==
    /\ pc \in {"look", "ended"} => run.stop \in {"end", "error"}
    /\ pc \in {"ended", "capture", "record", "settle"} /\ run.abort = "no"
       /\ row.state # "failed" =>
          /\ Seen
          /\ pc # "ended" => run.stop = "end" /\ ~run.stalled /\ ~run.overdue

IInv == TypeOK /\ RowOK /\ AbortOK /\ FinishOK

-----------------------------------------------------------------------------
(* The natives cache *)

\* The bounds are numbers, and a worktree's natives have inputs.
LEMMA Bounds ==
    /\ MaxReminders \in Nat /\ MaxEntries \in Nat \ {0}
    /\ MaxRetries \in Nat /\ MaxRestarts \in Nat
BY RunAssumption

\* The entries of a repository: one for a key.
Store(s) ==
    /\ s \in Seq(Entry)
    /\ \A i, j \in DOMAIN s : s[i].key = s[j].key => i = j

\* What is kept is the newest of the entries.
LEMMA KeptStore ==
    ASSUME NEW s, Store(s), NEW n \in 1 .. Len(s)
    PROVE  Store(Kept(s, n)) /\ Len(Kept(s, n)) = n
<1>1. s \in Seq(Entry) /\ Len(s) \in Nat /\ DOMAIN s = 1 .. Len(s)
  BY LenProperties DEF Store
<1>2. PICK m : m = Len(s) - n + 1
  OBVIOUS
<1>3. m \in 1 .. Len(s) /\ Len(s) - m + 1 = n
  BY <1>1, <1>2
<1>4. /\ SubSeq(s, m, Len(s)) \in Seq(Entry)
      /\ Len(SubSeq(s, m, Len(s))) = n
      /\ \A i \in 1 .. n : SubSeq(s, m, Len(s))[i] = s[m + i - 1]
  <2>1. \A i \in m .. Len(s) : s[i] \in Entry
    BY <1>1, <1>3, ElementOfSeq
  <2> QED BY <1>1, <1>3, <2>1, SubSeqProperties
<1>5. PICK t : t = Kept(s, n)
  OBVIOUS
<1>6. t \in Seq(Entry) /\ Len(t) = n /\ \A i \in 1 .. n : t[i] = s[m + i - 1]
  BY <1>2, <1>4, <1>5 DEF Kept
<1>7. DOMAIN t = 1 .. n
  BY <1>6, LenProperties
<1>8. ASSUME NEW i \in 1 .. n, NEW j \in 1 .. n, t[i].key = t[j].key PROVE i = j
  <2>1. s[m + i - 1].key = s[m + j - 1].key
    BY <1>6, <1>8
  <2>2. m + i - 1 \in DOMAIN s /\ m + j - 1 \in DOMAIN s
    BY <1>1, <1>3
  <2>3. m + i - 1 = m + j - 1
    BY <2>1, <2>2 DEF Store
  <2> QED BY <1>3, <2>3
<1> QED BY <1>5, <1>6, <1>7, <1>8 DEF Store

\* The gc leaves a store within the cap.
LEMMA CollectedStore ==
    ASSUME NEW s, Store(s), NEW t \in Collected(s)
    PROVE  Store(t) /\ Len(t) <= MaxEntries
<1>1. Len(s) \in Nat
  BY LenProperties DEF Store
<1>2. PICK k : k = IF Len(s) > MaxEntries THEN Kept(s, MaxEntries) ELSE s
  OBVIOUS
<1>3. Store(k) /\ Len(k) <= MaxEntries /\ Len(k) \in Nat
  <2>1. CASE Len(s) > MaxEntries
    <3>1. MaxEntries \in 1 .. Len(s)
      BY <1>1, <2>1, Bounds
    <3> QED BY <1>2, <2>1, <3>1, KeptStore, Bounds
  <2>2. CASE ~(Len(s) > MaxEntries)
    BY <1>1, <1>2, <2>2, Bounds
  <2> QED BY <2>1, <2>2
<1>4. t = k \/ \E n \in 1 .. Len(k) : t = Kept(k, n)
  BY <1>2 DEF Collected
<1>5. ASSUME NEW n \in 1 .. Len(k), t = Kept(k, n) PROVE Store(t) /\ Len(t) <= MaxEntries
  BY <1>3, <1>5, KeptStore, Bounds
<1> QED BY <1>3, <1>4, <1>5

CacheOK(s) == Store(s) /\ Len(s) <= MaxEntries

\* A capture keeps one entry for a key, and the cap.
LEMMA CapturedStore ==
    ASSUME CacheOK(cache), NEW key \in Version, NEW built \in Artifact,
           NEW t \in Captured(key, built)
    PROVE  CacheOK(t)
<1>1. CASE t = cache
  BY <1>1
<1>2. CASE key \notin Keys /\ built # None /\ t \in Collected(Append(cache, [key |-> key, of |-> built]))
  <2>1. PICK e, s : e = [key |-> key, of |-> built] /\ s = Append(cache, e)
    OBVIOUS
  <2>2. e \in Entry /\ cache \in Seq(Entry) /\ Len(cache) \in Nat /\ e.key = key
        /\ DOMAIN cache = 1 .. Len(cache)
    BY <2>1, LenProperties DEF Entry, CacheOK, Store
  <2>3. /\ s \in Seq(Entry) /\ Len(s) = Len(cache) + 1
        /\ \A i \in 1 .. Len(cache) : s[i] = cache[i]
        /\ s[Len(cache) + 1] = e
    BY <2>1, <2>2, AppendProperties
  <2>4. DOMAIN s = 1 .. Len(cache) + 1
    BY <2>3, LenProperties
  <2>5. \A i \in 1 .. Len(cache) : cache[i].key # key
    BY <1>2, <2>2 DEF Keys
  <2>6. ASSUME NEW i \in 1 .. Len(cache) + 1, NEW j \in 1 .. Len(cache) + 1, s[i].key = s[j].key
        PROVE  i = j
    <3>1. CASE i \in 1 .. Len(cache) /\ j \in 1 .. Len(cache)
      BY <2>2, <2>3, <2>6, <3>1 DEF CacheOK, Store
    <3>2. CASE i \notin 1 .. Len(cache) \/ j \notin 1 .. Len(cache)
      <4>1. \A k \in 1 .. Len(cache) + 1 : k \in 1 .. Len(cache) \/ k = Len(cache) + 1
        BY <2>2
      <4> QED BY <2>2, <2>3, <2>5, <2>6, <3>2, <4>1
    <3> QED BY <3>1, <3>2
  <2>7. Store(s)
    BY <2>3, <2>4, <2>6 DEF Store
  <2> QED BY <1>2, <2>1, <2>7, CollectedStore DEF CacheOK
<1> QED BY <1>1, <1>2 DEF Captured

-----------------------------------------------------------------------------
(* Types *)

\* The parts of TypeOK, by variable.
RunType ==
    run \in [called : BOOLEAN, abort : {"no", "heard", "late"}, stalled : BOOLEAN,
             overdue : BOOLEAN, reminders : 0 .. MaxReminders, stop : {None, "end", "error"},
             blind : BOOLEAN]
RowType ==
    /\ row \in [state : {"queued", "running", "done", "failed"},
                attempts : 0 .. MaxRetries + 1 + MaxRestarts,
                error : {None, "incomplete", "agent aborted", "cancelled", "exception"},
                outcome : {None, "resolved", "incomplete", "cancelled", "infra_failed"}]
    /\ restarts \in 0 .. MaxRestarts
PlaceType ==
    /\ kind \in Kind /\ readonly \in BOOLEAN /\ maxReminders \in 0 .. MaxReminders
    /\ pc \in {"idle", "prepare", "start", "turn", "look", "ended", "capture", "record", "settle",
               "raised"}
    /\ agent \in {"off", "working", "waiting", "killed"} /\ cancelled \in BOOLEAN
DiskType ==
    /\ work \in [dirty : BOOLEAN, prRequired : BOOLEAN]
    /\ natives \in [head : Version, files : Version, built : Artifact]
    /\ CacheOK(cache)

\* Together they are TypeOK.
LEMMA TypeParts == TypeOK <=> RunType /\ RowType /\ PlaceType /\ DiskType
BY DEF TypeOK, RunType, RowType, PlaceType, DiskType, CacheOK, Store

\* The locals of a new attempt.
LEMMA NewRunType ==
    /\ NewRun \in [called : BOOLEAN, abort : {"no", "heard", "late"}, stalled : BOOLEAN,
                   overdue : BOOLEAN, reminders : 0 .. MaxReminders,
                   stop : {None, "end", "error"}, blind : BOOLEAN]
    /\ NewRun.abort = "no"
BY Bounds DEF NewRun

\* The first states are of the types.
LEMMA TypeInit == Init => TypeOK
<1> SUFFICES ASSUME Init PROVE TypeOK
  OBVIOUS
<1>1. RunType
  BY NewRunType DEF Init, RunType
<1>2. RowType
  BY Bounds DEF Init, RowType
<1>3. PlaceType
  BY DEF Init, PlaceType
<1>4. DiskType
  <2>1. CacheOK(cache)
    <3>1. cache = << >> /\ cache \in Seq(Entry) /\ Len(cache) = 0 /\ DOMAIN cache = {}
      BY EmptySeq DEF Init
    <3> QED BY <3>1, Bounds DEF CacheOK, Store
  <2> QED BY <2>1 DEF Init, DiskType, Artifact
<1> QED BY <1>1, <1>2, <1>3, <1>4, TypeParts

\* A probe that finds nothing is right, or blind.
LEMMA ProbesType ==
    ASSUME NEW p \in Probes, ~p[1]
    PROVE  ~work.dirty \/ p[2]
<1>1. CASE p = <<work.dirty, FALSE>>
  <2>1. p[1] = work.dirty
    BY <1>1
  <2> QED BY <2>1
<1>2. CASE p = <<FALSE, TRUE>>
  <2>1. p[2] = TRUE
    BY <1>2
  <2> QED BY <2>1
<1>3. CASE p = <<TRUE, FALSE>>
  <2>1. p[1] = TRUE
    BY <1>3
  <2> QED BY <2>1
<1> QED BY <1>1, <1>2, <1>3 DEF Probes

\* The locals keep their type.
LEMMA RunStep == TypeOK /\ [Next]_vars => RunType'
<1> SUFFICES ASSUME RunType, PlaceType, DiskType, [Next]_vars PROVE RunType'
  BY TypeParts
<1>1. CASE run' = run
  BY <1>1 DEF RunType
<1>2. CASE run' = NewRun
  BY <1>2, NewRunType DEF RunType
<1>3. CASE CompleteTerminal \/ AbortTask \/ AbortLate \/ EndTurn \/ Stall \/ HardStop
  BY <1>3 DEF CompleteTerminal, AbortTask, AbortLate, EndTurn, Stall, HardStop, RunType
<1>4. CASE Remind
  <2>1. run.reminders + 1 \in 0 .. MaxReminders
    BY <1>4, Bounds DEF Remind, RunType, PlaceType
  <2> QED BY <1>4, <2>1 DEF Remind, RunType
<1>5. CASE EndDrive
  <2>1. PICK q \in Probes : run' = [run EXCEPT !.blind = q[2] /\ Probed /\ maxReminders > 0]
    BY <1>5 DEF EndDrive
  <2>2. (q[2] /\ Probed /\ maxReminders > 0) \in BOOLEAN
    OBVIOUS
  <2>3. PICK b \in BOOLEAN : b = (q[2] /\ Probed /\ maxReminders > 0)
    BY <2>2, Zenon
  <2> QED BY <2>1, <2>3 DEF RunType
<1>6. CASE Claim \/ Settle \/ Restart
  BY <1>2, <1>6 DEF Claim, Settle, Restart
<1> QED
  BY <1>1, <1>3, <1>4, <1>5, <1>6
     DEF Next, Agent, Killers, Driver, Others, Edit, CommitFiles, BeginBuild, EndBuild, Clean,
         Classify, Cancel, Prepare, StartClient, GiveUp, Examine, Capture, RecordAbort,
         OtherCaptures, vars

\* The counters of a delivery are numbers.
LEMMA Counters ==
    ASSUME RowType
    PROVE  /\ row.attempts \in Nat /\ row.attempts <= MaxRetries + 1 + MaxRestarts
           /\ restarts \in Nat /\ restarts <= MaxRestarts
<1>1. PICK m : m = MaxRetries + 1 + MaxRestarts
  OBVIOUS
<1>2. m \in Nat
  BY <1>1, Bounds
<1>3. row.attempts \in 0 .. m /\ restarts \in 0 .. MaxRestarts
  BY <1>1, Zenon DEF RowType
<1> QED BY <1>1, <1>2, <1>3, Bounds

\* The delivery's row keeps its type: the attempts are bounded.
LEMMA RowStep == IInv /\ [Next]_vars => RowType'
<1> SUFFICES ASSUME RowType, RowOK, [Next]_vars PROVE RowType'
  BY TypeParts DEF IInv
<1>1. CASE UNCHANGED <<row, restarts>>
  BY <1>1 DEF RowType
<1>2. CASE Claim
  <2>1. row.attempts + 1 \in 0 .. MaxRetries + 1 + MaxRestarts
    <3>1. row.attempts <= MaxRetries + restarts
      BY <1>2 DEF Claim, RowOK
    <3> QED BY <3>1, Counters, Bounds
  <2> QED BY <1>2, <2>1 DEF Claim, RowType
<1>3. CASE EndDrive \/ RecordAbort
  BY <1>3 DEF EndDrive, RecordAbort, RowType
<1>4. CASE Settle
  BY <1>4 DEF Settle, Returned, Raised, RowType
<1>5. CASE Restart
  <2>1. restarts' \in 0 .. MaxRestarts
    BY <1>5, Counters, Bounds DEF Restart
  <2>2. row' = row \/ row' = [row EXCEPT !.state = "queued"]
    BY <1>5 DEF Restart
  <2> QED BY <2>1, <2>2 DEF RowType
<1> QED
  BY <1>1, <1>2, <1>3, <1>4, <1>5
     DEF Next, Agent, Killers, Driver, Others, Acts, Edit, CommitFiles, BeginBuild, EndBuild, Clean,
         Classify, CompleteTerminal, AbortTask, AbortLate, EndTurn, Stall, HardStop, Cancel,
         Prepare, StartClient, GiveUp, Remind, Examine, Capture, OtherCaptures, vars

\* So do the places of the driver and of the agent.
LEMMA PlaceStep == TypeOK /\ [Next]_vars => PlaceType'
<1> SUFFICES ASSUME PlaceType, [Next]_vars PROVE PlaceType'
  BY TypeParts
<1>1. CASE UNCHANGED <<task, pc, agent, cancelled>>
  BY <1>1 DEF PlaceType, task
<1>2. CASE AbortTask \/ EndTurn \/ Stall \/ HardStop \/ Cancel
  BY <1>2 DEF AbortTask, EndTurn, Stall, HardStop, Cancel, PlaceType, task
<1>3. CASE Claim \/ Prepare \/ StartClient \/ GiveUp \/ Remind \/ EndDrive
  BY <1>3 DEF Claim, Prepare, StartClient, GiveUp, Remind, EndDrive, PlaceType, task
<1>4. CASE Examine \/ Capture \/ RecordAbort \/ Settle \/ Restart
  BY <1>4 DEF Examine, Capture, RecordAbort, Settle, Restart, PlaceType, task
<1> QED
  BY <1>1, <1>2, <1>3, <1>4
     DEF Next, Agent, Killers, Driver, Others, Acts, Edit, CommitFiles, BeginBuild, EndBuild, Clean,
         Classify, CompleteTerminal, AbortLate, OtherCaptures, vars, task

\* And what is on disk: the cache keeps its cap and one entry for a key.
LEMMA DiskStep == TypeOK /\ [Next]_vars => DiskType'
<1> SUFFICES ASSUME DiskType, [Next]_vars PROVE DiskType'
  BY TypeParts
<1>1. CASE UNCHANGED disk
  BY <1>1 DEF DiskType, disk
<1>2. ASSUME NEW v \in Version, Edit(v) PROVE DiskType'
  BY <1>2 DEF Edit, Acts, DiskType
<1>3. CASE CommitFiles \/ BeginBuild \/ EndBuild \/ Clean \/ Classify
  BY <1>3 DEF CommitFiles, BeginBuild, EndBuild, Clean, Classify, Acts, DiskType, Artifact
<1>4. CASE Prepare
  <2>1. \A i \in DOMAIN cache : cache[i].of \in Artifact
    <3>1. \A i \in DOMAIN cache : cache[i] \in Entry
      BY ElementOfSeq, LenProperties DEF DiskType, CacheOK, Store
    <3> QED BY <3>1 DEF Entry
  <2>2. natives' \in [head : Version, files : Version, built : Artifact]
    BY <1>4, <2>1 DEF Prepare, Populated, DiskType
  <2> QED BY <1>4, <2>2 DEF Prepare, DiskType
<1>5. CASE Capture
  <2>1. CacheOK(cache')
    BY <1>5, CapturedStore DEF Capture, DiskType
  <2> QED BY <1>5, <2>1 DEF Capture, DiskType
<1>6. ASSUME NEW v \in Version, OtherCaptures(v) PROVE DiskType'
  <2>1. CacheOK(cache')
    BY <1>6, CapturedStore DEF OtherCaptures, DiskType, Artifact
  <2> QED BY <1>6, <2>1 DEF OtherCaptures, DiskType
<1> QED
  BY <1>1, <1>2, <1>3, <1>4, <1>5, <1>6
     DEF Next, Agent, Killers, Driver, Others, Acts, CompleteTerminal, AbortTask, AbortLate,
         EndTurn, Stall, HardStop, Cancel, Claim, StartClient, GiveUp, Remind, EndDrive, Examine,
         RecordAbort, Settle, Restart, vars, disk

\* Every step keeps the types.
LEMMA TypeStep == IInv /\ [Next]_vars => TypeOK'
<1> SUFFICES ASSUME IInv, [Next]_vars PROVE TypeOK'
  OBVIOUS
<1>1. RunType' /\ RowType' /\ PlaceType' /\ DiskType'
  BY RunStep, RowStep, PlaceStep, DiskStep DEF IInv
<1> QED BY <1>1 DEF TypeOK, RunType, RowType, PlaceType, DiskType, CacheOK, Store

-----------------------------------------------------------------------------
(* The attempt *)

\* Every step keeps the row with the driver, and pays for the attempts.
LEMMA RowOKStep == IInv /\ [Next]_vars => RowOK'
<1> SUFFICES ASSUME RowType, RowOK, [Next]_vars PROVE RowOK'
  BY TypeParts DEF IInv
<1>0. /\ row.attempts \in Nat /\ restarts \in Nat
      /\ row.state \in {"queued", "running", "done", "failed"}
      /\ pc = "idle" => row.state # "running"
      /\ pc # "idle" => row.state \in {"running", "failed"}
      /\ row.attempts <= MaxRetries + 1 + restarts
      /\ row.state = "queued" => row.attempts <= MaxRetries + restarts
  <2>1. row.state \in {"queued", "running", "done", "failed"}
    BY DEF RowType
  <2> QED BY <2>1, Counters DEF RowOK
<1>1. CASE UNCHANGED <<row, restarts>> /\ (pc' = "idle" <=> pc = "idle")
  BY <1>1 DEF RowOK
<1>2. CASE Claim
  <2>1. row'.attempts = row.attempts + 1 /\ row'.state = "running"
    BY <1>2 DEF Claim, RowType
  <2> QED BY <1>0, <1>2, <2>1, Bounds DEF Claim, RowOK
<1>3. CASE EndDrive \/ RecordAbort
  <2>1. row'.attempts = row.attempts /\ row'.state \in {row.state, "failed"}
    BY <1>3 DEF EndDrive, RecordAbort, RowType
  <2> QED BY <1>0, <1>3, <2>1 DEF EndDrive, RecordAbort, RowOK
<1>4. CASE Settle
  <2>1. /\ row'.attempts = row.attempts /\ row'.state \in {"done", "failed", "queued"}
        /\ row'.state = "queued" => row.attempts <= MaxRetries
    BY <1>0, <1>4 DEF Settle, Returned, Raised, RowType
  <2> QED BY <1>0, <1>4, <2>1, Bounds DEF Settle, RowOK
<1>5. CASE Restart
  <2>1. /\ row'.attempts = row.attempts
        /\ row'.state \in {"queued", "failed"}
    BY <1>0, <1>5 DEF Restart, RowType
  <2> QED BY <1>0, <1>5, <2>1, Bounds DEF Restart, RowOK
<1>6. CASE Prepare \/ StartClient \/ GiveUp \/ Remind \/ Examine \/ Capture
  BY <1>1, <1>6 DEF Prepare, StartClient, GiveUp, Remind, Examine, Capture
<1>7. CASE Agent \/ Killers \/ (\E v \in Version : OtherCaptures(v)) \/ UNCHANGED vars
  BY <1>1, <1>7
     DEF Agent, Killers, Working, Acts, Edit, CommitFiles, BeginBuild, EndBuild, Clean, Classify,
         CompleteTerminal, AbortTask, AbortLate, EndTurn, Stall, HardStop, Cancel, OtherCaptures,
         vars
<1> QED BY <1>2, <1>3, <1>4, <1>5, <1>6, <1>7 DEF Next, Driver, Others

\* Every step keeps an abort that was heard on its way to the row.
LEMMA AbortStep == IInv /\ [Next]_vars => AbortOK'
<1> SUFFICES ASSUME RunType, RowType, PlaceType, AbortOK, [Next]_vars PROVE AbortOK'
  BY TypeParts DEF IInv
<1>0. run.abort \in {"no", "heard", "late"}
  BY DEF RunType
<1>1. CASE UNCHANGED <<row, pc, run, agent>>
  BY <1>1 DEF AbortOK
<1>2. CASE AbortTask
  BY <1>2 DEF AbortTask, Working, AbortOK, RunType
<1>3. CASE AbortLate
  BY <1>3 DEF AbortLate, AbortOK, RunType
<1>4. CASE CompleteTerminal \/ EndTurn
  <2>1. run'.abort = run.abort /\ run.abort = "no"
    BY <1>0, <1>4 DEF CompleteTerminal, EndTurn, Acts, Working, AbortOK, RunType
  <2> QED BY <1>4, <2>1 DEF CompleteTerminal, EndTurn, Acts, Working, AbortOK
<1>5. CASE Stall \/ HardStop
  <2>1. run'.abort = run.abort
    BY <1>5 DEF Stall, HardStop, RunType
  <2> QED BY <1>5, <2>1 DEF Stall, HardStop, Armed, AbortOK
<1>6. CASE Cancel
  BY <1>6 DEF Cancel, AbortOK
<1>7. CASE Claim \/ Settle \/ Restart
  BY <1>7, NewRunType DEF Claim, Settle, Restart, AbortOK
<1>8. CASE Prepare \/ StartClient \/ GiveUp \/ Examine \/ Capture
  BY <1>0, <1>8 DEF Prepare, StartClient, GiveUp, Examine, Capture, AbortOK
<1>9. CASE Remind \/ EndDrive
  <2>1. run'.abort = run.abort /\ run.abort = "no"
    BY <1>9 DEF Remind, EndDrive, AbortOK, RunType
  <2> QED BY <1>9, <2>1 DEF Remind, EndDrive, AbortOK
<1>10. CASE RecordAbort
  <2>1. run.abort = "heard" => row'.state = "failed"
    BY <1>10 DEF RecordAbort, RowType
  <2> QED BY <1>0, <1>10, <2>1 DEF RecordAbort, AbortOK
<1> QED
  BY <1>1, <1>2, <1>3, <1>4, <1>5, <1>6, <1>7, <1>8, <1>9, <1>10
     DEF Next, Agent, Killers, Driver, Others, Acts, Edit, CommitFiles, BeginBuild, EndBuild, Clean,
         Classify, OtherCaptures, vars

\* What is seen to of an attempt stands while nothing it depends on changes.
LEMMA SeenStands ==
    ASSUME Seen, UNCHANGED <<kind, readonly, maxReminders, work>>, run'.called = run.called,
           run'.abort = run.abort, run'.blind = run.blind
    PROVE  Seen'
BY DEF Seen, NeedsCompletion, Probed

\* The end of the loop has seen to what it does not mark.
LEMMA EndSeen ==
    ASSUME RunType, RowType, PlaceType, EndDrive, row'.state # "failed"
    PROVE  Seen'
<1>1. PICK p \in Probes :
         /\ run.reminders < maxReminders => ~NeedsCompletion /\ (Probed => ~p[1])
         /\ \E q \in IF run.reminders > 0 THEN Probes ELSE {p} :
               /\ run' = [run EXCEPT !.blind = q[2] /\ Probed /\ maxReminders > 0]
               /\ row' = IF run.reminders > 0
                            /\ (NeedsCompletion \/ (kind # "review_pr" /\ q[1]))
                         THEN [row EXCEPT !.state = "failed", !.error = "incomplete"]
                         ELSE row
  BY DEF EndDrive
<1>2. PICK q \in IF run.reminders > 0 THEN Probes ELSE {p} :
         /\ run' = [run EXCEPT !.blind = q[2] /\ Probed /\ maxReminders > 0]
         /\ row' = IF run.reminders > 0
                      /\ (NeedsCompletion \/ (kind # "review_pr" /\ q[1]))
                   THEN [row EXCEPT !.state = "failed", !.error = "incomplete"]
                   ELSE row
  BY <1>1
<1>3. /\ run'.called = run.called /\ run'.abort = run.abort
      /\ run'.blind = (q[2] /\ Probed /\ maxReminders > 0)
  BY <1>2 DEF RunType
<1>4. UNCHANGED <<kind, readonly, maxReminders, work>>
  BY DEF EndDrive, task, disk
<1> SUFFICES ASSUME maxReminders > 0
             PROVE  ~NeedsCompletion' /\ (Probed' => ~work'.dirty \/ run'.blind)
  BY <1>4 DEF Seen
<1>5. ~NeedsCompletion /\ (Probed => ~q[1]) /\ q \in Probes
  <2>1. CASE run.reminders > 0
    <3>1. ~(NeedsCompletion \/ (kind # "review_pr" /\ q[1]))
      BY <1>2, <2>1 DEF RowType
    <3> QED BY <1>2, <2>1, <3>1 DEF Probed
  <2>2. CASE ~(run.reminders > 0)
    <3>1. run.reminders < maxReminders /\ q = p
      BY <1>2, <2>2, Bounds DEF RunType, PlaceType
    <3> QED BY <1>1, <3>1
  <2> QED BY <2>1, <2>2
<1>6. Probed => ~work.dirty \/ run'.blind
  <2>1. Probed => ~work.dirty \/ q[2]
    BY <1>5, ProbesType
  <2> QED BY <1>3, <2>1, Zenon
<1>7. ~NeedsCompletion'
  BY <1>3, <1>4, <1>5 DEF NeedsCompletion
<1>8. Probed' <=> Probed
  BY <1>4 DEF Probed
<1> QED BY <1>4, <1>6, <1>7, <1>8, Zenon

\* Every step keeps what the driver has seen to.
LEMMA FinishStep == IInv /\ [Next]_vars => FinishOK'
<1> SUFFICES ASSUME RunType, RowType, PlaceType, RowOK, AbortOK, FinishOK, [Next]_vars PROVE FinishOK'
  BY TypeParts DEF IInv
<1>1. CASE UNCHANGED <<kind, readonly, maxReminders, row, pc, run, work>>
  BY <1>1, SeenStands DEF FinishOK
<1>2. CASE pc' \notin {"look", "ended", "capture", "record", "settle"}
  BY <1>2 DEF FinishOK
<1>3. CASE EndTurn
  BY <1>3 DEF EndTurn, FinishOK, RunType
<1>4. CASE Stall \/ HardStop
  <2>1. /\ run'.called = run.called /\ run'.abort = run.abort /\ run'.blind = run.blind
        /\ run'.stop = run.stop
    BY <1>4 DEF Stall, HardStop, RunType
  <2>2. UNCHANGED <<kind, readonly, maxReminders, work, row, pc>> /\ pc \in {"turn", "look", "ended"}
    BY <1>4 DEF Stall, HardStop, Armed, task, disk
  <2> QED BY <2>1, <2>2, SeenStands DEF FinishOK
<1>5. CASE GiveUp
  BY <1>2, <1>5 DEF GiveUp, FinishOK
<1>6. CASE EndDrive
  <2>1. run'.stop = run.stop /\ pc = "look" /\ pc' = "ended"
    BY <1>6 DEF EndDrive, RunType
  <2> QED BY <1>6, <2>1, EndSeen DEF FinishOK
<1>7. CASE Examine
  <2>1. CASE pc' = "capture"
    <3>1. UNCHANGED <<kind, readonly, maxReminders, work, row, run>> /\ pc = "ended"
      BY <1>7 DEF Examine, task, disk
    <3>2. ~run.stalled /\ ~run.overdue /\ run.stop = "end"
      BY <1>7, <2>1 DEF Examine, FinishOK
    <3> QED BY <2>1, <3>1, <3>2, SeenStands DEF FinishOK
  <2> QED BY <1>2, <1>7, <2>1 DEF Examine
<1>8. CASE Capture \/ RecordAbort
  <2>1. UNCHANGED <<kind, readonly, maxReminders, work, run>> /\ pc \in {"capture", "record"}
        /\ pc' \in {"record", "settle"}
    BY <1>8 DEF Capture, RecordAbort, task, disk
  <2>2. run.abort = "no" => row' = row
    BY <1>8 DEF Capture, RecordAbort
  <2> QED BY <2>1, <2>2, SeenStands DEF FinishOK
<1>9. CASE Claim \/ Prepare \/ StartClient \/ Remind \/ Settle \/ Restart
  BY <1>2, <1>9 DEF Claim, Prepare, StartClient, Remind, Settle, Restart
<1>10. CASE AbortLate \/ Cancel \/ (\E v \in Version : OtherCaptures(v)) \/ UNCHANGED vars
  <2>1. CASE AbortLate
    BY <1>2, <2>1 DEF AbortLate
  <2> QED BY <1>1, <1>10, <2>1 DEF Cancel, OtherCaptures, vars, task, disk
<1>11. CASE Acts \/ AbortTask
  BY <1>2, <1>11 DEF Acts, AbortTask, Working
<1> QED
  BY <1>3, <1>4, <1>5, <1>6, <1>7, <1>8, <1>9, <1>10, <1>11
     DEF Next, Agent, Killers, Driver, Others, Edit, CommitFiles, BeginBuild, EndBuild, Clean,
         Classify, CompleteTerminal

-----------------------------------------------------------------------------
(* The theorems *)

\* The first states satisfy the invariant.
LEMMA InvInit == Init => IInv
<1> SUFFICES ASSUME Init PROVE IInv
  OBVIOUS
<1>1. RowOK
  BY Bounds DEF Init, RowOK
<1>2. AbortOK
  BY NewRunType DEF Init, AbortOK
<1>3. FinishOK
  BY DEF Init, FinishOK
<1> QED BY <1>1, <1>2, <1>3, TypeInit DEF IInv

\* Every step keeps it.
LEMMA InvStep == IInv /\ [Next]_vars => IInv'
BY TypeStep, RowOKStep, AbortStep, FinishStep DEF IInv

\* The inductive invariant holds in every reachable state.
THEOREM Invariance == FairSpec => []IInv
BY InvInit, InvStep, PTL DEF FairSpec

\* Every variable keeps its type: attempts are bounded, and so is the cache, with
\* one entry for a key.
THEOREM TypeCorrect == FairSpec => []TypeOK
<1>1. IInv => TypeOK
  BY DEF IInv
<1> QED BY <1>1, Invariance, PTL

\* Only the queue makes a row `done`, and of an attempt that was seen to.
LEMMA DoneStep ==
    ASSUME IInv, [Next]_vars, row.state # "done", row'.state = "done"
    PROVE  /\ run.abort = "no" /\ ~cancelled
           /\ run.stop = "end" /\ ~run.stalled /\ ~run.overdue
           /\ maxReminders > 0 => ~NeedsCompletion /\ (Probed => ~work.dirty \/ run.blind)
<1>1. RowType /\ RunType /\ AbortOK /\ FinishOK
  BY TypeParts DEF IInv
<1>2. Settle
  BY <1>1 DEF RowType, Next, Agent, Killers, Driver, Others, Acts, Edit, CommitFiles, BeginBuild,
              EndBuild, Clean, Classify, CompleteTerminal, AbortTask, AbortLate, EndTurn, Stall,
              HardStop, Cancel, Claim, Prepare, StartClient, GiveUp, Remind, EndDrive, Examine,
              Capture, RecordAbort, Restart, OtherCaptures, vars
<1>3. pc = "settle" /\ ~cancelled /\ row.state # "failed"
  BY <1>1, <1>2 DEF Settle, Returned, Raised, RowType
<1>4. run.abort = "no"
  BY <1>1, <1>3 DEF AbortOK, RunType
<1> QED BY <1>1, <1>3, <1>4 DEF FinishOK, Seen

\* A delivery is done only after a turn that ended by itself and, when reminders
\* are enabled, left nothing to do that git could tell.
THEOREM DoneAlways == FairSpec => DoneIsFinished
<1>1. IInv /\ [Next]_vars =>
         [row.state # "done" /\ row'.state = "done" =>
             /\ run.abort = "no" /\ ~cancelled
             /\ run.stop = "end" /\ ~run.stalled /\ ~run.overdue
             /\ maxReminders > 0 => ~NeedsCompletion /\ (Probed => ~work.dirty \/ run.blind)]_vars
  BY DoneStep
<1> QED BY <1>1, Invariance, PTL DEF FairSpec, DoneIsFinished

\* What follows an abort that was heard makes the row `failed`.
LEMMA HeardStep ==
    ASSUME IInv, [Next]_vars, run.abort = "heard", row' # row, restarts' = restarts
    PROVE  row'.state = "failed"
<1>1. RowType /\ AbortOK /\ restarts \in Nat
  BY TypeParts, Counters DEF IInv
<1>2. pc \in {"turn", "capture", "record", "settle"}
  BY TypeParts DEF IInv, PlaceType, AbortOK
<1>3. RecordAbort \/ Settle
  BY <1>1, <1>2
     DEF Next, Agent, Killers, Driver, Others, Acts, Edit, CommitFiles, BeginBuild, EndBuild,
         Clean, Classify, CompleteTerminal, AbortTask, AbortLate, EndTurn, Stall, HardStop, Cancel,
         Claim, Prepare, StartClient, GiveUp, Remind, EndDrive, Examine, Capture, Restart,
         OtherCaptures, vars
<1>4. CASE RecordAbort
  BY <1>1, <1>4 DEF RecordAbort, RowType
<1>5. CASE Settle
  <2>1. pc = "settle" /\ row.state = "failed"
    BY <1>1, <1>2, <1>5 DEF Settle, AbortOK
  <2> QED BY <1>1, <1>5, <2>1 DEF Settle, Returned, RowType
<1> QED BY <1>3, <1>4, <1>5

\* An abort the driver heard is terminal.
THEOREM AbortAlways == FairSpec => AbortStands
<1>1. IInv /\ [Next]_vars =>
         [run.abort = "heard" /\ row' # row /\ restarts' = restarts => row'.state = "failed"]_vars
  BY HeardStep
<1> QED BY <1>1, Invariance, PTL DEF FairSpec, AbortStands
=============================================================================

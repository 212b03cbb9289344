------------------------- MODULE PublicationProofs -------------------------
(* That what reaches GitHub passed its gates, that no commit of a person's is *)
(* lost unseen and that an issue has one pull request, for any trees, gates,  *)
(* tool calls, runs and pushes.  The invariant says what each call carries    *)
(* from its gates to its push: a verdict on the files as they are, and an     *)
(* inspected commit and a lease of which every push was fetched.              *)
EXTENDS Publication, FiniteSetTheorems, TLAPS

-----------------------------------------------------------------------------
(* The invariant *)

\* Here a call's verdict is one on the files of the worktree.
OnFiles == {"gates", "require", "normalise", "inspect"}

\* The phases a call has run passed on tree t.
Verified(t, q) == {t} \X ((Gates(q.kind) \cap setup.runs) \ q.todo) \subseteq passed

FetchedCommit(x) == x # None => x.peers \subseteq known

\* The verdict a call carries while nobody overtakes it.
VerdictOK(q) ==
    q.intact /\ ~setup.skip =>
        /\ q.step \in OnFiles => Verified(work, q)
        /\ q.step = "probe" => Verified(q.snap.tree, q)
        /\ q.step = "send" => Verified(head.tree, q)

CallOK(q) ==
    /\ q.step \in {"inspect", "probe", "send"} => q.branch \in Branch
    /\ q.step = "opening" => q.pr \in Branch
    /\ q.step = "settle" => q.pr \in prs
    /\ FetchedCommit(q.snap) /\ FetchedCommit(q.lease)
    /\ q.step \in {"fix", "amend"} => q.todo = Todo(q.kind)
    /\ q.step \in {"require", "normalise", "inspect", "probe", "send"} => q.todo = {}
    /\ VerdictOK(q)

CallsOK == \A c \in Call : \A q \in {calls[c]} : CallOK(q)

\* All that the worktree and the pool hold was fetched.
Fetched == head.peers \subseteq known /\ \A b \in Branch : FetchedCommit(tracking[b])

\* A pull request has a branch on GitHub, and a recorded one is there.
PrsThere ==
    /\ \A b \in prs : remote[b] # None
    /\ row.pr # None => row.pr \in prs

\* What is open, and what is asked for, is on the worktree's branch.
OnePr ==
    blind \/ /\ prs \subseteq {wsBranch}
             /\ \A c \in Call : calls[c].step = "opening" => calls[c].pr = wsBranch

IInv == TypeOK /\ CallsOK /\ Fetched /\ PrsThere /\ OnePr

-----------------------------------------------------------------------------
(* Types *)

\* The gates of a push are phases.
LEMMA GatesType == \A k : Gates(k) \subseteq Phase
BY DEF Gates, Phase

\* So is what a call has to run.
LEMMA TodoType == \A k : Todo(k) \in SUBSET Phase
BY GatesType DEF Todo

\* The parts of a call.
LEMMA CallType ==
    ASSUME TypeOK, NEW c \in Call
    PROVE  /\ calls[c] \in CallState
           /\ calls[c].branch \in Branch \cup {None} /\ calls[c].pr \in Branch \cup {None}
           /\ calls[c].snap \in Commit \cup {None} /\ calls[c].lease \in Commit \cup {None}
           /\ calls[c].todo \subseteq Phase
BY DEF TypeOK, CallState

\* The record of a call that is over is a call.
LEMMA IdleType == Idle \in CallState
BY DEF Idle, CallState, Steps

\* The default branch is at a commit.
LEMMA BaseType == Base \in Commit /\ Base # None
BY PublicationAssumption, NoneAssumption DEF Base, Commit

\* The bounds are numbers, and the formatter makes trees.
LEMMA Bounds ==
    /\ MaxActs \in Nat /\ MaxPeer \in Nat /\ MaxRuns \in Nat
    /\ BaseTree \in Tree /\ \A t \in Tree : Fmt[t] \in Tree
BY PublicationAssumption

\* The parts of TypeOK, by variable.
CallsType == calls \in [Call -> CallState]
TreeType == head \in Commit /\ work \in Tree
HubType == remote \in [Branch -> Commit \cup {None}] /\ prs \subseteq Branch
PoolType == tracking \in [Branch -> Commit \cup {None}] /\ known \subseteq Peer
RowType ==
    /\ wsBranch \in Branch
    /\ row \in [branch : Branch, pr : Branch \cup {None}, class : {None, "bug", "question"}]
ReceiptsType == receipts \subseteq [head : Commit, phases : SUBSET Phase]
CountType == runs \in 0 .. MaxRuns /\ acts \in 0 .. MaxActs /\ peers \in 0 .. MaxPeer
FlagType ==
    /\ setup \in Setup /\ up \in BOOLEAN
    /\ passed \subseteq Tree \X Phase /\ blind \in BOOLEAN

\* TypeOK, one variable at a time.
LEMMA TypeParts ==
    TypeOK <=> /\ CallsType /\ TreeType /\ HubType /\ PoolType /\ RowType /\ ReceiptsType
               /\ CountType /\ FlagType
BY DEF TypeOK, CallsType, TreeType, HubType, PoolType, RowType, ReceiptsType, CountType,
       FlagType

\* The types hold in a fresh workspace.
LEMMA TypeInit == Init => TypeOK
<1> SUFFICES ASSUME Init PROVE TypeOK
  OBVIOUS
<1>1. CallsType
  BY IdleType DEF Init, CallsType
<1>2. TreeType
  BY BaseType, Bounds DEF Init, TreeType
<1>3. HubType /\ PoolType /\ RowType /\ ReceiptsType
  BY DEF Init, HubType, PoolType, RowType, ReceiptsType, Branch
<1>4. CountType
  BY Bounds DEF Init, CountType
<1>5. FlagType
  BY DEF Init, FlagType
<1> QED BY <1>1, <1>2, <1>3, <1>4, <1>5, TypeParts

\* A call that is set to one keeps the type of them all.
LEMMA CallSet ==
    ASSUME CallsType, NEW c \in Call, NEW q \in CallState
    PROVE  [calls EXCEPT ![c] = q] \in [Call -> CallState]
BY DEF CallsType

\* Disturbing the other calls keeps them calls.
LEMMA DisturbType ==
    ASSUME CallsType, NEW c
    PROVE  Disturb(c) \in [Call -> CallState]
<1>1. \A d \in Call : [calls[d] EXCEPT !.intact = FALSE] \in CallState
  BY DEF CallsType, CallState
<1> QED BY <1>1 DEF CallsType, Disturb

\* A call that is at its gates, and the others disturbed.
LEMMA GatedType ==
    ASSUME CallsType, NEW c \in Call, NEW step \in Steps
    PROVE  [Disturb(c) EXCEPT ![c].step = step, ![c].intact = TRUE] \in [Call -> CallState]
<1>1. Disturb(c) \in [Call -> CallState]
  BY DisturbType
<1>2. [[Disturb(c)[c] EXCEPT !.step = step] EXCEPT !.intact = TRUE] \in CallState
  BY <1>1 DEF CallState
<1> QED BY <1>1, <1>2

\* Moving a call to its next step keeps it a call.
LEMMA CallsAdvanced ==
    ASSUME CallsType, NEW c \in Call, NEW step \in Steps
    PROVE  [calls EXCEPT ![c].step = step] \in [Call -> CallState]
<1>1. [calls[c] EXCEPT !.step = step] \in CallState
  BY DEF CallsType, CallState
<1> QED BY <1>1 DEF CallsType

\* So does naming the branch, or the pull request, it is about.
LEMMA CallsNamed ==
    ASSUME CallsType, NEW c \in Call, NEW step \in Steps, NEW b \in Branch
    PROVE  /\ [calls EXCEPT ![c].step = step, ![c].branch = b] \in [Call -> CallState]
           /\ [calls EXCEPT ![c].step = step, ![c].pr = b] \in [Call -> CallState]
<1>1. /\ [[calls[c] EXCEPT !.step = step] EXCEPT !.branch = b] \in CallState
      /\ [[calls[c] EXCEPT !.step = step] EXCEPT !.pr = b] \in CallState
  BY DEF CallsType, CallState
<1> QED BY <1>1 DEF CallsType

\* Every step keeps the types.
LEMMA TypeStep == IInv /\ [Next]_vars => TypeOK'
<1> SUFFICES ASSUME TypeOK, PrsThere, CallsOK, [Next]_vars PROVE TypeOK'
  BY DEF IInv
<1>0. CallsType /\ TreeType /\ HubType /\ PoolType /\ RowType /\ ReceiptsType /\ CountType /\ FlagType
  BY TypeParts
<1>1. CallsType'
  <2>1. CASE UNCHANGED calls
    BY <1>0, <2>1 DEF CallsType
  <2>2. CASE Exit
    BY <2>2, IdleType DEF Exit, CallsType
  <2>3. CASE Agent
    BY <1>0, <2>3, DisturbType DEF Agent, CallsType
  <2>4. ASSUME NEW c \in Call, Step(c) PROVE CallsType'
    <3>1. CASE calls' = [calls EXCEPT ![c] = Idle]
      BY <1>0, <3>1, IdleType DEF CallsType
    <3>2. ASSUME NEW step \in Steps, calls' = [calls EXCEPT ![c].step = step] PROVE CallsType'
      BY <1>0, <3>2, CallsAdvanced DEF CallsType
    <3>3. CASE Publish(c) \/ Classify(c)
      <4>1. ASSUME NEW k \in {"push", "open"}, NEW step \in {"fix", "gates"}
            PROVE  [Idle EXCEPT !.kind = k, !.branch = wsBranch, !.todo = Todo(k), !.intact = TRUE,
                                !.step = step] \in CallState
        BY <1>0, TodoType DEF Idle, CallState, RowType, Steps
      <4>2. [Idle EXCEPT !.kind = "classify", !.pr = row.pr, !.step = "rename"] \in CallState
        BY <1>0 DEF Idle, CallState, RowType, Steps
      <4>3. CASE Publish(c)
        <5>1. PICK k \in {"push", "open"}, step \in {"fix", "gates"} :
                 calls' = [calls EXCEPT ![c] = [Idle EXCEPT !.kind = k, !.branch = wsBranch,
                                                           !.todo = Todo(k), !.intact = TRUE,
                                                           !.step = step]]
          BY <4>3 DEF Publish
        <5> QED BY <1>0, <4>1, <5>1, CallSet DEF CallsType
      <4> QED BY <1>0, <3>3, <4>2, <4>3, CallSet DEF Classify, CallsType
    <3>4. CASE Fix(c) \/ Amend(c)
      <4>1. \A step \in {"gates", "amend"} :
               [Disturb(c) EXCEPT ![c].step = step, ![c].intact = TRUE] \in [Call -> CallState]
        BY <1>0, GatedType DEF Steps
      <4> QED BY <3>1, <3>4, <4>1 DEF Fix, Amend, Refuse, End, CallsType
    <3>5. CASE RunPhase(c)
      <4>1. \A p : [calls[c] EXCEPT !.todo = @ \ {p}] \in CallState
        BY <1>0 DEF CallsType, CallState
      <4>2. CASE Refuse(c)
        BY <3>1, <4>2 DEF Refuse, End
      <4>3. CASE ~Refuse(c)
        <5>1. PICK p \in calls[c].todo : calls' = [calls EXCEPT ![c].todo = @ \ {p}]
          BY <3>5, <4>3 DEF RunPhase
        <5>2. [calls[c] EXCEPT !.todo = @ \ {p}] \in CallState
          BY <4>1
        <5>3. calls' = [calls EXCEPT ![c] = [calls[c] EXCEPT !.todo = @ \ {p}]]
          BY <5>1
        <5> QED BY <1>0, <5>2, <5>3, CallSet DEF CallsType
      <4> QED BY <4>2, <4>3
    <3>6. CASE RecordReceipt(c) \/ RequireReceipt(c) \/ Name(c) \/ Label(c) \/ Open(c)
      BY <3>1, <3>2, <3>6
         DEF RecordReceipt, RequireReceipt, Name, Label, Open, Refuse, End, Advance, Steps
    <3>7. CASE Inspect(c)
      <4>1. [[calls[c] EXCEPT !.step = "probe"] EXCEPT !.snap = head] \in CallState
        BY <1>0 DEF CallsType, CallState, TreeType, Steps
      <4> QED BY <1>0, <3>1, <3>7, <4>1, CallSet DEF Inspect, Refuse, End, CallsType
    <3>8. CASE Probe(c)
      <4>1. CASE Refuse(c)
        BY <3>1, <4>1 DEF Refuse, End
      <4>2. CASE ~Refuse(c)
        <5>1. calls[c].step = "probe" /\
              calls' = [calls EXCEPT ![c].step = "send", ![c].lease = tracking[calls[c].branch]]
          BY <3>8, <4>2 DEF Probe
        <5>2. calls[c].branch \in Branch
          BY <5>1 DEF CallsOK, CallOK
        <5>3. tracking[calls[c].branch] \in Commit \cup {None}
          BY <1>0, <5>2 DEF PoolType
        <5>4. [[calls[c] EXCEPT !.step = "send"] EXCEPT !.lease = tracking[calls[c].branch]] \in CallState
          BY <1>0, <5>3 DEF CallsType, CallState, Steps
        <5> QED BY <1>0, <5>1, <5>4, CallSet DEF CallsType
      <4> QED BY <4>1, <4>2
    <3>9. CASE Send(c)
      <4>1. [Idle EXCEPT !.kind = "open", !.step = "create"] \in CallState
        BY DEF Idle, CallState, Steps
      <4> QED BY <1>0, <3>1, <3>9, <4>1, CallSet DEF Send, Refuse, End, CallsType
    <3>10. CASE Normalise(c) \/ Create(c) \/ Rename(c)
      <4>1. wsBranch \in Branch /\ (Rename(c) => wsBranch' \in {wsBranch, "renamed"})
        BY <1>0 DEF RowType, Rename, Refuse, history
      <4>2. \/ calls' = [calls EXCEPT ![c] = Idle]
            \/ \E step \in Steps, b \in Branch :
                  \/ calls' = [calls EXCEPT ![c].step = step]
                  \/ calls' = [calls EXCEPT ![c].step = step, ![c].branch = b]
                  \/ calls' = [calls EXCEPT ![c].step = step, ![c].pr = b]
        BY <3>10, <4>1 DEF Normalise, Create, Rename, Refuse, End, Advance, Steps, Branch
      <4>3. ASSUME NEW step \in Steps, NEW b \in Branch,
                   \/ calls' = [calls EXCEPT ![c].step = step, ![c].branch = b]
                   \/ calls' = [calls EXCEPT ![c].step = step, ![c].pr = b]
            PROVE  CallsType'
        <5>1. /\ [calls EXCEPT ![c].step = step, ![c].branch = b] \in [Call -> CallState]
              /\ [calls EXCEPT ![c].step = step, ![c].pr = b] \in [Call -> CallState]
          BY <1>0, CallsNamed
        <5> QED BY <4>3, <5>1 DEF CallsType
      <4> QED BY <3>1, <3>2, <4>2, <4>3
    <3>11. CASE Settle(c)
      BY <3>1, <3>11 DEF Settle, End
    <3> QED BY <2>4, <3>3, <3>4, <3>5, <3>6, <3>7, <3>8, <3>9, <3>10, <3>11 DEF Step
  <2>5. CASE Start \/ PoolFetch \/ PeerPush \/ Revise \/ UNCHANGED vars
    BY <2>1, <2>5 DEF Start, PoolFetch, PeerPush, Revise, vars
  <2> QED BY <2>2, <2>3, <2>4, <2>5 DEF Next
<1> USE DEF run, tree, github, history, Refuse, End
<1>2. HubType' /\ PoolType'
  <2>1. CASE UNCHANGED <<remote, prs, tracking, known>>
    BY <1>0, <2>1 DEF HubType, PoolType
  <2>2. CASE Start \/ PoolFetch
    <3>1. PeersIn(remote) \subseteq Peer
      BY <1>0 DEF PeersIn, HubType, Commit
    <3> QED BY <1>0, <2>2, <3>1 DEF Start, PoolFetch, HubType, PoolType
  <2>3. CASE PeerPush
    <3>1. PICK b \in prs : remote' = [remote EXCEPT ![b].peers = @ \cup {peers'}]
      BY <2>3 DEF PeerPush
    <3>2. remote[b] \in Commit /\ b \in Branch
      BY <1>0 DEF PrsThere, HubType
    <3>3. peers' \in Peer
      BY <1>0, <2>3, Bounds DEF PeerPush, CountType, Peer
    <3>4. [remote[b] EXCEPT !.peers = @ \cup {peers'}] \in Commit
      BY <3>2, <3>3 DEF Commit
    <3> QED BY <1>0, <2>3, <3>1, <3>2, <3>4 DEF PeerPush, HubType, PoolType
  <2>4. ASSUME NEW c \in Call, Send(c) PROVE HubType' /\ PoolType'
    <3>1. calls[c].snap \in Commit \cup {None}
      BY CallType
    <3> QED BY <1>0, <2>4, <3>1 DEF Send, HubType, PoolType, TreeType
  <2>5. ASSUME NEW c \in Call, Open(c) PROVE HubType' /\ PoolType'
    <3>1. calls[c].step = "opening" => calls[c].pr \in Branch
      BY DEF CallsOK, CallOK
    <3> QED BY <1>0, <2>5, <3>1 DEF Open, HubType, PoolType
  <2> QED
    BY <2>1, <2>2, <2>3, <2>4, <2>5
       DEF Next, Step, Exit, Agent, Revise, Publish, Classify, Fix, Amend, RunPhase, RecordReceipt,
           RequireReceipt, Normalise, Inspect, Probe, Create, Settle, Rename, Name, Label, vars
<1>3. TreeType'
  <2>1. CASE UNCHANGED <<head, work>>
    BY <1>0, <2>1 DEF TreeType
  <2>2. CASE Edit \/ Discard
    BY <1>0, <2>2 DEF Edit, Discard, TreeType, Commit
  <2>3. CASE Record \/ ResetAuthor
    BY <1>0, <2>3 DEF Record, ResetAuthor, TreeType, Commit
  <2>4. CASE Incorporate
    <3>1. tracking[wsBranch] \in Commit
      BY <1>0, <2>4 DEF Incorporate, PoolType, RowType
    <3> QED BY <1>0, <2>4, <3>1 DEF Incorporate, TreeType, Commit
  <2>5. ASSUME NEW c \in Call, Fix(c) \/ Amend(c) PROVE TreeType'
    BY <1>0, <2>5, Bounds DEF Fix, Amend, TreeType, Commit
  <2>6. ASSUME NEW c \in Call, Normalise(c) PROVE TreeType'
    BY <1>0, <2>6 DEF Normalise, TreeType, Commit
  <2> QED
    BY <2>1, <2>2, <2>3, <2>4, <2>5, <2>6
       DEF Next, Step, Start, Exit, PoolFetch, PeerPush, Agent, Revise, Publish, Classify, RunPhase,
           RecordReceipt, RequireReceipt, Inspect, Probe, Send, Create, Open, Settle, Rename, Name,
           Label, vars
<1>4. RowType' /\ ReceiptsType'
  <2>1. CASE UNCHANGED <<wsBranch, row, receipts>>
    BY <1>0, <2>1 DEF RowType, ReceiptsType
  <2>2. CASE Start
    BY <1>0, <2>2 DEF Start, RowType, ReceiptsType
  <2>3. CASE Revise
    BY <1>0, <2>3 DEF Revise, RowType, ReceiptsType
  <2>4. ASSUME NEW c \in Call, Settle(c) PROVE RowType' /\ ReceiptsType'
    <3>1. calls[c].pr \in Branch \cup {None}
      BY CallType
    <3> QED BY <1>0, <2>4, <3>1 DEF Settle, RowType, ReceiptsType
  <2>5. ASSUME NEW c \in Call, Rename(c) PROVE RowType' /\ ReceiptsType'
    BY <1>0, <2>5 DEF Rename, RowType, ReceiptsType, Branch
  <2>8. ASSUME NEW c \in Call, Name(c) PROVE RowType' /\ ReceiptsType'
    BY <1>0, <2>8 DEF Name, RowType, ReceiptsType
  <2>6. ASSUME NEW c \in Call, Label(c) PROVE RowType' /\ ReceiptsType'
    BY <1>0, <2>6 DEF Label, RowType, ReceiptsType
  <2>7. ASSUME NEW c \in Call, RecordReceipt(c) PROVE RowType' /\ ReceiptsType'
    BY <1>0, <2>7, GatesType DEF RecordReceipt, RowType, ReceiptsType, TreeType
  <2> QED
    BY <2>1, <2>2, <2>3, <2>4, <2>5, <2>6, <2>7, <2>8
       DEF Next, Step, Exit, PoolFetch, PeerPush, Agent, Publish, Classify, Fix, Amend, RunPhase,
           RequireReceipt, Normalise, Inspect, Probe, Send, Create, Open, vars
<1>5. CountType'
  <2>1. CASE UNCHANGED <<runs, acts, peers>>
    BY <1>0, <2>1 DEF CountType
  <2>2. runs < MaxRuns => runs + 1 \in 0 .. MaxRuns
    BY <1>0, Bounds DEF CountType
  <2>3. acts < MaxActs => acts + 1 \in 0 .. MaxActs
    BY <1>0, Bounds DEF CountType
  <2>4. peers < MaxPeer => peers + 1 \in 0 .. MaxPeer
    BY <1>0, Bounds DEF CountType
  <2>5. CASE Start \/ PeerPush \/ Agent \/ Revise
    BY <1>0, <2>2, <2>3, <2>4, <2>5 DEF Start, PeerPush, Agent, Revise, CountType
  <2>6. ASSUME NEW c \in Call, Publish(c) \/ Classify(c) PROVE CountType'
    BY <1>0, <2>3, <2>6 DEF Publish, Classify, CountType
  <2>7. CASE Exit \/ PoolFetch \/ UNCHANGED vars
    BY <2>1, <2>7 DEF Exit, PoolFetch, vars
  <2>8. ASSUME NEW c \in Call, Step(c), ~Publish(c), ~Classify(c) PROVE CountType'
    BY <2>1, <2>8
       DEF Step, Fix, Amend, RunPhase, RecordReceipt, RequireReceipt, Normalise, Inspect, Probe,
           Send, Create, Open, Settle, Rename, Name, Label
  <2> QED BY <2>5, <2>6, <2>7, <2>8 DEF Next
<1>6. FlagType'
  <2>1. CASE UNCHANGED <<setup, up, passed, blind>>
    BY <1>0, <2>1 DEF FlagType
  <2>2. CASE Start \/ Exit
    BY <1>0, <2>2 DEF Start, Exit, FlagType
  <2>3. ASSUME NEW c \in Call, RunPhase(c) PROVE FlagType'
    <3>1. \A p \in calls[c].todo : <<work, p>> \in Tree \X Phase
      BY <1>0, CallType DEF TreeType
    <3>2. passed' \subseteq Tree \X Phase
      BY <1>0, <2>3, <3>1 DEF RunPhase, FlagType
    <3> QED BY <1>0, <2>3, <3>2 DEF RunPhase, FlagType
  <2>4. ASSUME NEW c \in Call, Rename(c) PROVE FlagType'
    <3>1. (blind \/ RenameIsBlind) \in BOOLEAN
      BY DEF RenameIsBlind
    <3>2. blind' \in BOOLEAN
      BY <1>0, <2>4, <3>1, Zenon DEF Rename, FlagType
    <3> QED BY <1>0, <2>4, <3>2 DEF Rename, FlagType
  <2> QED
    BY <2>1, <2>2, <2>3, <2>4
       DEF Next, Step, PoolFetch, PeerPush, Agent, Revise, Publish, Classify, Fix, Amend,
           RecordReceipt, RequireReceipt, Normalise, Inspect, Probe, Send, Create, Open, Settle, Name,
           Label, vars
<1> QED
  BY <1>1, <1>2, <1>3, <1>4, <1>5, <1>6
     DEF TypeOK, CallsType, TreeType, HubType, PoolType, RowType, ReceiptsType, CountType, FlagType

-----------------------------------------------------------------------------
(* Calls *)

\* Pull requests, verdicts and fetches are only added to.
Grows == prs \subseteq prs' /\ known \subseteq known' /\ passed \subseteq passed' /\ setup' = setup

\* No step takes back a pull request, a verdict or a fetched commit.
LEMMA GrowsStep ==
    ASSUME [Next]_vars
    PROVE  Grows
<1> USE DEF Grows, run, tree, github, history, Refuse, End
<1>1. CASE Start \/ Exit \/ PoolFetch \/ PeerPush \/ Agent \/ Revise \/ UNCHANGED vars
  BY <1>1 DEF Start, Exit, PoolFetch, PeerPush, Agent, Revise, vars
<1>2. ASSUME NEW c \in Call, Step(c) PROVE Grows
  BY <1>2 DEF Step, Publish, Classify, Fix, Amend, RunPhase, RecordReceipt, RequireReceipt,
              Normalise, Inspect, Probe, Send, Create, Open, Settle, Rename, Name, Label
<1> QED BY <1>1, <1>2 DEF Next

\* What a call carries holds while nobody moves what its verdict is on.
LEMMA CallStable ==
    ASSUME Grows, NEW q, CallOK(q),
           q.intact => /\ q.step \in OnFiles => work' = work
                       /\ q.step = "send" => head'.tree = head.tree
    PROVE  CallOK(q)'
BY DEF Grows, CallOK, VerdictOK, Verified, FetchedCommit, Todo

\* A disturbed call claims nothing of the files.
LEMMA CallDisturbed ==
    ASSUME Grows, NEW q, CallOK(q), NEW s, s.step = q.step, s.branch = q.branch, s.pr = q.pr,
           s.snap = q.snap, s.lease = q.lease, s.todo = q.todo, s.kind = q.kind, s.intact = FALSE
    PROVE  CallOK(s)'
BY DEF Grows, CallOK, VerdictOK, FetchedCommit, Todo

\* A call that is over promises nothing.
LEMMA IdleOK == CallOK(Idle)'
BY DEF CallOK, VerdictOK, Idle, FetchedCommit, OnFiles

\* Whoever moves HEAD or the files disturbs the calls whose verdict is on them.
LEMMA CallOvertaken ==
    ASSUME TypeOK, Grows, NEW d \in Call, CallOK(calls[d]),
           NEW s, s = IF Overtaken(d) THEN [calls[d] EXCEPT !.intact = FALSE] ELSE calls[d]
    PROVE  CallOK(s)'
<1>1. PICK q : q = calls[d] /\ q \in CallState /\ CallOK(q)
  BY DEF TypeOK
<1>2. CASE Overtaken(d)
  <2>1. s = [q EXCEPT !.intact = FALSE]
    BY <1>1, <1>2
  <2>2. /\ s.step = q.step /\ s.branch = q.branch /\ s.pr = q.pr /\ s.snap = q.snap
        /\ s.lease = q.lease /\ s.todo = q.todo /\ s.kind = q.kind /\ s.intact = FALSE
    BY <1>1, <2>1 DEF CallState
  <2> QED BY <1>1, <2>2, CallDisturbed
<1>3. CASE ~Overtaken(d)
  <2>1. q.step \in OnFiles => work' = work
    BY <1>1, <1>3 DEF Overtaken, OnFiles, tree
  <2>2. q.step = "send" => head' = head
    BY <1>1, <1>3 DEF Overtaken
  <2>3. s = q
    BY <1>1, <1>3
  <2> QED BY <1>1, <2>1, <2>2, <2>3, CallStable
<1> QED BY <1>2, <1>3

\* The step of a call, seen from the others.
LEMMA OtherCalls ==
    ASSUME IInv, NEW c \in Call, Step(c), NEW d \in Call, d # c
    PROVE  \A q \in {calls'[d]} : CallOK(q)'
<1>1. TypeOK /\ Grows /\ CallOK(calls[d])
  BY GrowsStep DEF IInv, CallsOK, Next
<1> USE DEF run, tree, github, history, Refuse, End, Advance
<1>2. CASE /\ calls'[d] = calls[d] /\ work' = work /\ head'.tree = head.tree
  <2>1. PICK q : q = calls[d]
    OBVIOUS
  <2>2. CallOK(q)
    BY <1>1, <2>1
  <2> QED BY <1>1, <1>2, <2>1, <2>2, CallStable
<1>3. CASE Fix(c) \/ Amend(c)
  <2>1. CASE Refuse(c)
    BY <1>1, <1>2, <2>1 DEF TypeOK
  <2>2. CASE ~Refuse(c)
    <3>1. PICK s : s = calls'[d]
      OBVIOUS
    <3>2. s = IF Overtaken(d) THEN [calls[d] EXCEPT !.intact = FALSE] ELSE calls[d]
      BY <1>3, <2>2, <3>1 DEF Fix, Amend, Disturb
    <3> QED BY <1>1, <3>1, <3>2, CallOvertaken
  <2> QED BY <2>1, <2>2
<1>4. CASE Normalise(c)
  <2>1. head'.tree = head.tree
    BY <1>1, <1>4 DEF Normalise, TypeOK, Commit
  <2> QED BY <1>1, <1>2, <1>4, <2>1 DEF Normalise, TypeOK
<1>5. CASE \/ Publish(c) \/ Classify(c) \/ RunPhase(c) \/ RecordReceipt(c) \/ RequireReceipt(c)
           \/ Inspect(c) \/ Probe(c) \/ Send(c) \/ Create(c) \/ Open(c) \/ Settle(c)
           \/ Rename(c) \/ Name(c) \/ Label(c)
  <2>1. head' = head /\ work' = work
    BY <1>5 DEF Publish, Classify, RunPhase, RecordReceipt, RequireReceipt, Inspect, Probe, Send,
                Create, Open, Settle, Rename, Name, Label
  <2>2. calls'[d] = calls[d]
    BY <1>1, <1>5 DEF Publish, Classify, RunPhase, RecordReceipt, RequireReceipt, Inspect, Probe,
                      Send, Create, Open, Settle, Rename, Name, Label, TypeOK
  <2> QED BY <1>2, <2>1, <2>2
<1> QED BY <1>3, <1>4, <1>5 DEF Step

\* The step of a call, for the call.
LEMMA OwnCall ==
    ASSUME IInv, NEW c \in Call, Step(c)
    PROVE  \A q \in {calls'[c]} : CallOK(q)'
<1>1. PICK q, s : q = calls[c] /\ s = calls'[c]
  OBVIOUS
<1> SUFFICES CallOK(s)'
  BY <1>1
<1>2. /\ TypeOK /\ Grows /\ CallOK(q) /\ q \in CallState /\ calls \in [Call -> CallState]
      /\ Fetched /\ wsBranch \in Branch
  BY <1>1, GrowsStep DEF IInv, CallsOK, Next, TypeOK
<1>3. CASE calls' = [calls EXCEPT ![c] = Idle]
  BY <1>1, <1>2, <1>3, IdleOK
<1> USE DEF run, tree, github, history, Refuse, End, Advance
\* After its push a call promises no more than its pull request.
<1>4. ASSUME s.step \in {"create", "opening", "settle", "rename", "name", "label"},
             FetchedCommit(s.snap)', FetchedCommit(s.lease)',
             s.step = "opening" => s.pr \in Branch, s.step = "settle" => s.pr \in prs'
      PROVE  CallOK(s)'
  BY <1>4 DEF CallOK, VerdictOK, OnFiles
\* A call keeps the commits it has read.
<1>5. ASSUME s.snap = q.snap, s.lease = q.lease
      PROVE  FetchedCommit(s.snap)' /\ FetchedCommit(s.lease)'
  BY <1>2, <1>5 DEF CallOK, FetchedCommit, Grows
\* A new call has read none.
<1>6. ASSUME s.snap = None, s.lease = None
      PROVE  FetchedCommit(s.snap)' /\ FetchedCommit(s.lease)'
  BY <1>6 DEF FetchedCommit
<1>7. CASE Publish(c)
  <2>1. PICK k \in {"push", "open"}, step \in {"fix", "gates"} :
           s = [Idle EXCEPT !.kind = k, !.branch = wsBranch, !.todo = Todo(k), !.intact = TRUE,
                            !.step = step]
    BY <1>1, <1>2, <1>7 DEF Publish
  <2>2. /\ s.step \in {"fix", "gates"} /\ s.snap = None /\ s.lease = None /\ s.kind = k
        /\ s.todo = Todo(k)
    BY <2>1 DEF Idle
  <2>3. (Gates(k) \cap setup'.runs) \ Todo(k) = {} /\ setup' = setup
    BY <1>2 DEF Todo, Grows
  <2> QED BY <1>6, <2>2, <2>3 DEF CallOK, VerdictOK, Verified, OnFiles, Todo
<1>8. CASE Classify(c)
  <2>1. s = [Idle EXCEPT !.kind = "classify", !.pr = row.pr, !.step = "rename"]
    BY <1>1, <1>2, <1>8 DEF Classify
  <2>2. s.step = "rename" /\ s.snap = None /\ s.lease = None
    BY <2>1 DEF Idle
  <2> QED BY <1>4, <1>6, <2>2
<1>9. CASE Fix(c) \/ Amend(c)
  <2>1. CASE ~Refuse(c)
    <3>1. PICK step \in {"gates", "amend"} :
             s = [[q EXCEPT !.step = step] EXCEPT !.intact = TRUE] /\ q.step \in {"fix", "amend"}
      BY <1>1, <1>2, <1>9, <2>1 DEF Fix, Amend, Disturb
    <3>2. /\ s.step \in {"gates", "amend"} /\ s.snap = q.snap /\ s.lease = q.lease
          /\ s.kind = q.kind /\ s.todo = q.todo
      BY <1>2, <3>1 DEF CallState
    <3>3. s.todo = Todo(s.kind) /\ setup' = setup
      BY <1>2, <3>1, <3>2 DEF CallOK, Grows
    <3> QED BY <1>5, <3>2, <3>3 DEF CallOK, VerdictOK, Verified, OnFiles, Todo
  <2> QED BY <1>3, <1>9, <2>1
<1>10. CASE RunPhase(c)
  <2>1. CASE ~Refuse(c)
    <3>1. PICK p \in q.todo :
             /\ q.step = "gates" /\ work' = work /\ setup' = setup
             /\ s = [q EXCEPT !.todo = @ \ {p}]
             /\ q.intact /\ ~setup.skip => passed' = passed \cup {<<work, p>>}
      BY <1>1, <1>2, <1>10, <2>1 DEF RunPhase
    <3>2. /\ s.step = "gates" /\ s.snap = q.snap /\ s.lease = q.lease
          /\ s.kind = q.kind /\ s.todo = q.todo \ {p} /\ s.intact = q.intact
      BY <1>2, <3>1 DEF CallState
    <3>3. q.intact /\ ~setup.skip => Verified(work, q)
      BY <1>2, <3>1 DEF CallOK, VerdictOK, OnFiles
    <3>4. s.intact /\ ~setup.skip => Verified(work, s)'
      BY <3>1, <3>2, <3>3 DEF Verified
    <3> QED BY <1>5, <3>1, <3>2, <3>4 DEF CallOK, VerdictOK, OnFiles
  <2> QED BY <1>3, <1>10, <2>1
<1>11. CASE RecordReceipt(c) \/ RequireReceipt(c) \/ Normalise(c)
  <2>1. CASE ~Refuse(c)
    <3>1. /\ q.step \in OnFiles /\ q.todo = {} /\ work' = work /\ setup' = setup
          /\ \/ \E step \in {"require", "normalise"} : s = [q EXCEPT !.step = step]
             \/ s = [[q EXCEPT !.step = "inspect"] EXCEPT !.branch = wsBranch]
      BY <1>1, <1>2, <1>11, <2>1 DEF RecordReceipt, RequireReceipt, Normalise, OnFiles, CallOK
    <3>2. /\ s.step \in {"require", "normalise", "inspect"} /\ s.snap = q.snap
          /\ s.lease = q.lease /\ s.kind = q.kind /\ s.todo = {} /\ s.intact = q.intact
          /\ s.step = "inspect" => s.branch \in Branch
      BY <1>2, <3>1 DEF CallState
    <3>3. s.intact /\ ~setup.skip => Verified(work, s)'
      BY <1>2, <3>1, <3>2 DEF CallOK, VerdictOK, Verified, Grows
    <3> QED BY <1>5, <3>1, <3>2, <3>3 DEF CallOK, VerdictOK, OnFiles
  <2> QED BY <1>3, <1>11, <2>1
<1>12. CASE Inspect(c)
  <2>1. CASE ~Refuse(c)
    <3>1. /\ q.step = "inspect" /\ work = head.tree /\ setup' = setup /\ passed' = passed
          /\ known' = known /\ s = [[q EXCEPT !.step = "probe"] EXCEPT !.snap = head]
      BY <1>1, <1>2, <1>12, <2>1 DEF Inspect, Dirty
    <3>2. /\ s.step = "probe" /\ s.branch = q.branch /\ s.snap = head /\ s.lease = q.lease
          /\ s.kind = q.kind /\ s.todo = q.todo /\ s.intact = q.intact
      BY <1>2, <3>1 DEF CallState
    <3>3. s.intact /\ ~setup.skip => Verified(s.snap.tree, s)'
      BY <1>2, <3>1, <3>2 DEF CallOK, VerdictOK, Verified, OnFiles
    <3> QED BY <1>2, <3>1, <3>2, <3>3 DEF CallOK, VerdictOK, OnFiles, Fetched, FetchedCommit
  <2> QED BY <1>3, <1>12, <2>1
<1>13. CASE Probe(c)
  <2>1. CASE ~Refuse(c)
    <3>1. /\ q.step = "probe" /\ head' = head /\ q.snap = head /\ setup' = setup
          /\ passed' = passed /\ known' = known
          /\ s = [[q EXCEPT !.step = "send"] EXCEPT !.lease = tracking[q.branch]]
      BY <1>1, <1>2, <1>13, <2>1 DEF Probe
    <3>2. /\ s.step = "send" /\ s.branch = q.branch /\ s.snap = q.snap
          /\ s.lease = tracking[q.branch] /\ s.kind = q.kind /\ s.todo = q.todo
          /\ s.intact = q.intact
      BY <1>2, <3>1 DEF CallState
    <3>3. q.branch \in Branch
      BY <1>2, <3>1 DEF CallOK
    <3>4. FetchedCommit(tracking[q.branch])
      BY <1>2, <3>3 DEF Fetched
    <3>5. s.intact /\ ~setup.skip => Verified(head.tree, s)'
      BY <1>2, <3>1, <3>2 DEF CallOK, VerdictOK, Verified
    <3> QED BY <1>2, <3>1, <3>2, <3>3, <3>4, <3>5 DEF CallOK, VerdictOK, OnFiles, FetchedCommit
  <2> QED BY <1>3, <1>13, <2>1
<1>14. CASE Send(c)
  <2>1. CASE s = [Idle EXCEPT !.kind = "open", !.step = "create"]
    <3>1. s.step = "create" /\ s.snap = None /\ s.lease = None
      BY <2>1 DEF Idle
    <3> QED BY <1>4, <1>6, <3>1
  <2> QED BY <1>1, <1>2, <1>3, <1>14, <2>1 DEF Send
<1>15. CASE Create(c)
  <2>1. CASE s = [[q EXCEPT !.step = "opening"] EXCEPT !.pr = wsBranch]
    <3>1. s.step = "opening" /\ s.pr = wsBranch /\ s.snap = q.snap /\ s.lease = q.lease
      BY <1>2, <2>1 DEF CallState
    <3> QED BY <1>2, <1>4, <1>5, <3>1
  <2> QED BY <1>1, <1>2, <1>3, <1>15, <2>1 DEF Create
<1>16. CASE Open(c)
  <2>1. CASE s = [q EXCEPT !.step = "settle"] /\ q.pr \in prs'
    <3>1. s.step = "settle" /\ s.pr = q.pr /\ s.snap = q.snap /\ s.lease = q.lease
      BY <1>2, <2>1 DEF CallState
    <3> QED BY <1>4, <1>5, <2>1, <3>1
  <2> QED BY <1>1, <1>2, <1>3, <1>16, <2>1 DEF Open
<1>17. CASE Settle(c) \/ Label(c)
  BY <1>3, <1>17 DEF Settle, Label
<1>18. CASE Rename(c) \/ Name(c)
  <2>1. CASE ~Refuse(c)
    <3>1. \/ s = [q EXCEPT !.step = "label"]
          \/ s = [[q EXCEPT !.step = "name"] EXCEPT !.branch = wsBranch']
      BY <1>1, <1>2, <1>18, <2>1 DEF Rename, Name
    <3>2. s.step \in {"label", "name"} /\ s.snap = q.snap /\ s.lease = q.lease
      BY <1>2, <3>1 DEF CallState
    <3> QED BY <1>4, <1>5, <3>2
  <2> QED BY <1>3, <1>18, <2>1
<1> QED
  BY <1>7, <1>8, <1>9, <1>10, <1>11, <1>12, <1>13, <1>14, <1>15, <1>16, <1>17, <1>18 DEF Step

\* Every step keeps what each call in flight has established.
LEMMA CallsStep == IInv /\ [Next]_vars => CallsOK'
<1> SUFFICES ASSUME IInv, [Next]_vars, NEW c \in Call, NEW q, q = calls[c], NEW s, s = calls'[c]
             PROVE  CallOK(s)'
  BY DEF CallsOK
<1>1. TypeOK /\ CallOK(q) /\ Grows /\ q \in CallState /\ c # None
  BY GrowsStep, NoneAssumption DEF IInv, CallsOK, TypeOK
<1>2. CASE Start \/ PoolFetch \/ PeerPush \/ Revise \/ UNCHANGED vars
  <2>1. calls' = calls /\ head' = head /\ work' = work
    BY <1>2 DEF Start, PoolFetch, PeerPush, Revise, vars, tree
  <2> QED BY <1>1, <2>1, CallStable
<1>3. CASE Exit
  BY <1>3, IdleOK DEF Exit
<1>4. CASE Agent
  <2>1. s = IF Overtaken(c) THEN [calls[c] EXCEPT !.intact = FALSE] ELSE calls[c]
    BY <1>1, <1>4 DEF Agent, Disturb
  <2> QED BY <1>1, <2>1, CallOvertaken
<1>5. ASSUME NEW d \in Call, Step(d) PROVE CallOK(s)'
  <2>1. CASE d = c
    BY <1>5, <2>1, OwnCall
  <2>2. CASE d # c
    BY <1>5, <2>2, OtherCalls
  <2> QED BY <2>1, <2>2
<1> QED BY <1>2, <1>3, <1>4, <1>5 DEF Next

-----------------------------------------------------------------------------
(* Refs *)

\* A branch that is there has the pushes of its commit among those of all.
LEMMA PeersOf ==
    ASSUME NEW refs, NEW b \in Branch, refs[b] # None
    PROVE  refs[b].peers \subseteq PeersIn(refs)
BY DEF PeersIn

\* Every step keeps what the worktree and the pool hold among what was fetched.
LEMMA FetchedStep == IInv /\ [Next]_vars => Fetched'
<1> SUFFICES ASSUME TypeOK, CallsOK, Fetched, [Next]_vars PROVE Fetched'
  BY DEF IInv
<1>0. /\ known \subseteq known' /\ head \in Commit /\ wsBranch \in Branch
      /\ tracking \in [Branch -> Commit \cup {None}] /\ remote \in [Branch -> Commit \cup {None}]
  BY GrowsStep DEF Grows, TypeOK
<1> USE DEF run, tree, github, history, Refuse, End
<1>1. CASE head'.peers = head.peers /\ tracking' = tracking
  BY <1>0, <1>1 DEF Fetched, FetchedCommit
<1>2. CASE Start \/ PoolFetch
  <2>1. tracking' = remote /\ head' = head /\ PeersIn(remote) \subseteq known'
    BY <1>2 DEF Start, PoolFetch
  <2>2. \A b \in Branch : remote[b] # None => remote[b].peers \subseteq known'
    BY <2>1, PeersOf
  <2> QED BY <1>0, <2>1, <2>2 DEF Fetched, FetchedCommit
<1>3. CASE Agent
  <2>1. CASE Edit \/ Record \/ Discard \/ ResetAuthor
    <3>1. head'.peers = head.peers
      BY <1>0, <2>1 DEF Edit, Record, Discard, ResetAuthor, Commit
    <3> QED BY <1>1, <1>3, <3>1 DEF Agent
  <2>2. CASE Incorporate
    <3>1. tracking[wsBranch].peers \subseteq known
      BY <1>0, <2>2 DEF Incorporate, Fetched, FetchedCommit
    <3>2. head'.peers = head.peers \cup tracking[wsBranch].peers
      BY <2>2 DEF Incorporate
    <3> QED BY <1>0, <1>3, <3>1, <3>2 DEF Agent, Fetched, FetchedCommit
  <2> QED BY <1>3, <2>1, <2>2 DEF Agent
<1>4. ASSUME NEW c \in Call, Fix(c) \/ Amend(c) \/ Normalise(c) PROVE Fetched'
  <2>1. head'.peers = head.peers
    BY <1>0, <1>4 DEF Fix, Amend, Normalise, Commit
  <2> QED BY <1>1, <1>4, <2>1 DEF Fix, Amend, Normalise
<1>5. ASSUME NEW c \in Call, Send(c) PROVE Fetched'
  <2>1. FetchedCommit(calls[c].snap)
    BY DEF CallsOK, CallOK
  <2>2. CASE tracking' = [tracking EXCEPT ![calls[c].branch] = calls[c].snap]
    <3>1. \A b \in Branch : tracking'[b] \in {tracking[b], calls[c].snap}
      BY <1>0, <2>2
    <3>2. head' = head
      BY <1>5 DEF Send
    <3> QED BY <1>0, <2>1, <3>1, <3>2 DEF Fetched, FetchedCommit
  <2> QED BY <1>1, <1>5, <2>2 DEF Send
<1>6. CASE Exit \/ PeerPush \/ Revise \/ UNCHANGED vars
  BY <1>1, <1>6 DEF Exit, PeerPush, Revise, vars
<1>7. ASSUME NEW c \in Call,
             \/ Publish(c) \/ Classify(c) \/ RunPhase(c) \/ RecordReceipt(c) \/ RequireReceipt(c)
             \/ Inspect(c) \/ Probe(c) \/ Create(c) \/ Open(c) \/ Settle(c) \/ Rename(c)
             \/ Name(c) \/ Label(c)
      PROVE  Fetched'
  BY <1>1, <1>7 DEF Publish, Classify, RunPhase, RecordReceipt, RequireReceipt, Inspect, Probe,
                    Create, Open, Settle, Rename, Name, Label
<1> QED BY <1>2, <1>3, <1>4, <1>5, <1>6, <1>7 DEF Next, Step

\* A person's push adds to one branch that is there.
LEMMA PeerPushed ==
    ASSUME TypeOK, PrsThere, PeerPush
    PROVE  \E b \in Branch : \E y \in Commit :
              remote' = [remote EXCEPT ![b] = y] /\ remote[b].peers \subseteq y.peers
<1>1. PICK b \in prs : remote' = [remote EXCEPT ![b].peers = @ \cup {peers'}]
  BY DEF PeerPush
<1>2. remote[b] \in Commit /\ b \in Branch
  BY DEF PrsThere, TypeOK
<1>3. peers' \in Peer
  BY Bounds DEF PeerPush, TypeOK, Peer
<1>4. /\ [remote[b] EXCEPT !.peers = @ \cup {peers'}] \in Commit
      /\ remote[b].peers \subseteq [remote[b] EXCEPT !.peers = @ \cup {peers'}].peers
  BY <1>2, <1>3 DEF Commit
<1> QED BY <1>1, <1>2, <1>4

\* Every step keeps the pull requests on branches that are there.
LEMMA PrsStep == IInv /\ [Next]_vars => PrsThere'
<1> SUFFICES ASSUME TypeOK, CallsOK, PrsThere, [Next]_vars PROVE PrsThere'
  BY DEF IInv
<1>0. /\ remote \in [Branch -> Commit \cup {None}] /\ prs \subseteq Branch /\ head \in Commit
      /\ row \in [branch : Branch, pr : Branch \cup {None}, class : {None, "bug", "question"}]
      /\ wsBranch \in Branch
  BY DEF TypeOK
<1> USE DEF run, tree, github, history, Refuse, End
<1>1. CASE UNCHANGED <<remote, prs>> /\ row'.pr = row.pr
  BY <1>1 DEF PrsThere
<1>2. CASE Start
  <2>1. row'.pr \in {row.pr} \cup prs
    BY <1>0, <1>2 DEF Start
  <2> QED BY <1>2, <2>1 DEF Start, PrsThere
<1>3. CASE PeerPush
  <2>1. PICK b \in Branch, y \in Commit : remote' = [remote EXCEPT ![b] = y]
    BY <1>3, PeerPushed
  <2> QED BY <1>0, <1>3, <2>1, NoneAssumption DEF PeerPush, PrsThere
<1>4. ASSUME NEW c \in Call, Send(c) PROVE PrsThere'
  <2>1. \A b \in Branch : remote'[b] \in {remote[b], head}
    BY <1>0, <1>4 DEF Send
  <2>2. prs' = prs /\ row' = row
    BY <1>4 DEF Send
  <2> QED BY <1>0, <2>1, <2>2, NoneAssumption DEF PrsThere
<1>5. ASSUME NEW c \in Call, Open(c) PROVE PrsThere'
  BY <1>0, <1>1, <1>5 DEF Open, PrsThere
<1>6. ASSUME NEW c \in Call, Settle(c) PROVE PrsThere'
  <2>1. calls[c].pr \in prs
    BY <1>6 DEF Settle, CallsOK, CallOK
  <2>2. row'.pr = calls[c].pr
    BY <1>0, <1>6 DEF Settle
  <2> QED BY <1>6, <2>1, <2>2 DEF Settle, PrsThere
<1>7. ASSUME NEW c \in Call, Rename(c) \/ Name(c) \/ Label(c) PROVE PrsThere'
  <2>1. row'.pr = row.pr
    BY <1>0, <1>7 DEF Rename, Name, Label
  <2> QED BY <1>1, <1>7, <2>1 DEF Rename, Name, Label
<1>8. CASE Revise
  <2>1. row'.pr = row.pr
    BY <1>0, <1>8 DEF Revise
  <2> QED BY <1>1, <1>8, <2>1 DEF Revise
<1>9. CASE Exit \/ PoolFetch \/ Agent \/ UNCHANGED vars
  BY <1>1, <1>9 DEF Exit, PoolFetch, Agent, vars
<1>10. ASSUME NEW c \in Call,
              \/ Publish(c) \/ Classify(c) \/ Fix(c) \/ Amend(c) \/ RunPhase(c)
              \/ RecordReceipt(c) \/ RequireReceipt(c) \/ Normalise(c) \/ Inspect(c)
              \/ Probe(c) \/ Create(c)
       PROVE  PrsThere'
  BY <1>1, <1>10 DEF Publish, Classify, Fix, Amend, RunPhase, RecordReceipt, RequireReceipt,
                     Normalise, Inspect, Probe, Create
<1> QED BY <1>2, <1>3, <1>4, <1>5, <1>6, <1>7, <1>8, <1>9, <1>10 DEF Next, Step

\* Nothing but Create asks for a pull request.
LEMMA AskedStep ==
    ASSUME TypeOK, [Next]_vars, NEW d \in Call, calls'[d].step = "opening"
    PROVE  \/ calls[d].step = "opening" /\ calls'[d].pr = calls[d].pr
           \/ Create(d) /\ calls'[d].pr = wsBranch
<1>1. calls \in [Call -> CallState] /\ d # None
  BY NoneAssumption DEF TypeOK
<1>2. Idle.step # "opening"
  BY DEF Idle
<1> USE DEF Refuse, End, Advance
<1>3. CASE calls'[d] = calls[d] \/ calls'[d] = [calls[d] EXCEPT !.intact = FALSE]
  <2>1. calls[d] \in CallState
    BY <1>1
  <2> QED BY <1>3, <2>1 DEF CallState
<1>4. CASE Exit
  BY <1>2, <1>4 DEF Exit
<1>5. CASE Agent
  BY <1>1, <1>3, <1>5 DEF Agent, Disturb
<1>6. CASE Start \/ PoolFetch \/ PeerPush \/ Revise \/ UNCHANGED vars
  BY <1>3, <1>6 DEF Start, PoolFetch, PeerPush, Revise, vars
<1>7. ASSUME NEW c \in Call, Step(c), c # d
      PROVE  calls'[d] = calls[d] \/ calls'[d] = [calls[d] EXCEPT !.intact = FALSE]
  BY <1>1, <1>7
     DEF Step, Publish, Classify, Fix, Amend, RunPhase, RecordReceipt, RequireReceipt, Normalise,
         Inspect, Probe, Send, Create, Open, Settle, Rename, Name, Label, Disturb
<1>8. CASE Step(d) /\ ~Create(d)
  <2>1. \A q \in CallState : \A p : [q EXCEPT !.todo = @ \ {p}].step = q.step
    BY DEF CallState
  <2>2. calls[d] \in CallState /\ Disturb(d)[d] = calls[d]
    BY <1>1 DEF Disturb
  <2>3. calls'[d].step # "opening"
    <3>1. CASE Publish(d)
      <4>1. PICK k \in {"push", "open"}, step \in {"fix", "gates"} :
               calls' = [calls EXCEPT ![d] = [Idle EXCEPT !.kind = k, !.branch = wsBranch,
                                                         !.todo = Todo(k), !.intact = TRUE,
                                                         !.step = step]]
        BY <3>1 DEF Publish
      <4> QED BY <1>1, <4>1 DEF Idle
    <3>5. CASE Classify(d) \/ Send(d)
      BY <1>1, <1>2, <3>5 DEF Classify, Send, Idle
    <3>6. CASE Open(d) \/ Settle(d) \/ Label(d)
      BY <1>1, <1>2, <2>2, <3>6 DEF Open, Settle, Label, CallState
    <3>2. CASE Fix(d) \/ Amend(d) \/ RecordReceipt(d) \/ RequireReceipt(d)
      BY <1>1, <1>2, <2>2, <3>2, DisturbType
         DEF Fix, Amend, RecordReceipt, RequireReceipt, CallState, CallsType
    <3>3. CASE RunPhase(d)
      <4>1. \/ calls' = [calls EXCEPT ![d] = Idle]
            \/ \E p : calls' = [calls EXCEPT ![d].todo = @ \ {p}]
        BY <3>3 DEF RunPhase
      <4>2. ASSUME NEW p, calls' = [calls EXCEPT ![d].todo = @ \ {p}]
            PROVE  calls'[d].step # "opening"
        <5>1. calls'[d] = [calls[d] EXCEPT !.todo = @ \ {p}]
          BY <1>1, <4>2
        <5>2. [calls[d] EXCEPT !.todo = @ \ {p}].step = calls[d].step
          BY <2>1, <2>2
        <5>3. calls[d].step = "gates"
          BY <3>3 DEF RunPhase
        <5> QED BY <5>1, <5>2, <5>3
      <4> QED BY <1>1, <1>2, <4>1, <4>2
    <3>4. CASE Normalise(d) \/ Inspect(d) \/ Probe(d) \/ Rename(d) \/ Name(d)
      BY <1>1, <1>2, <2>2, <3>4 DEF Normalise, Inspect, Probe, Rename, Name, CallState
    <3> QED BY <1>8, <3>1, <3>2, <3>3, <3>4, <3>5, <3>6 DEF Step
  <2> QED BY <1>8, <2>3
<1>9. CASE Create(d)
  <2>1. calls[d] \in CallState
    BY <1>1
  <2> QED BY <1>1, <1>2, <1>9, <2>1 DEF Create, CallState
<1> QED BY <1>3, <1>4, <1>5, <1>6, <1>7, <1>8, <1>9 DEF Next

\* Every step keeps what is open and asked for on the worktree's branch.
LEMMA OneStep == IInv /\ [Next]_vars => OnePr'
<1> SUFFICES ASSUME TypeOK, OnePr, [Next]_vars PROVE OnePr'
  BY DEF IInv
<1> SUFFICES ASSUME ~blind'
             PROVE  /\ prs' \subseteq {wsBranch'}
                    /\ \A c \in Call : calls'[c].step = "opening" => calls'[c].pr = wsBranch'
  BY Zenon DEF OnePr
<1> USE DEF run, tree, github, history, Refuse, End
<1>1. CASE UNCHANGED <<blind, wsBranch>>
  <2>1. prs \subseteq {wsBranch} /\ \A d \in Call : calls[d].step = "opening" => calls[d].pr = wsBranch
    BY <1>1 DEF OnePr
  <2>2. prs' = prs \/ \E d \in Call : calls[d].step = "opening" /\ prs' = prs \cup {calls[d].pr}
    <3>1. CASE Start \/ Exit \/ PoolFetch \/ PeerPush \/ Agent \/ Revise \/ UNCHANGED vars
      BY <3>1 DEF Start, Exit, PoolFetch, PeerPush, Agent, Revise, vars
    <3>2. ASSUME NEW d \in Call, Step(d), ~Open(d) PROVE prs' = prs
      BY <3>2 DEF Step, Publish, Classify, Fix, Amend, RunPhase, RecordReceipt, RequireReceipt,
                  Normalise, Inspect, Probe, Send, Create, Settle, Rename, Name, Label
    <3>3. ASSUME NEW d \in Call, Open(d)
          PROVE  prs' = prs \/ (calls[d].step = "opening" /\ prs' = prs \cup {calls[d].pr})
      BY <3>3 DEF Open
    <3> QED BY <3>1, <3>2, <3>3 DEF Next
  <2> QED BY <1>1, <2>1, <2>2, AskedStep
<1>2. ASSUME NEW d \in Call, Rename(d), wsBranch' # wsBranch
      PROVE  prs' = {} /\ \A c \in Call : calls'[c].step # "opening"
  <2>1. blind' = (blind \/ RenameIsBlind) /\ prs' = prs
    BY <1>2 DEF Rename
  <2>2. ~RenameIsBlind
    BY <2>1, Zenon
  <2>3. \A c \in Call : ~Create(c)
    BY <1>2 DEF Create
  <2> QED BY <2>1, <2>2, <2>3, AskedStep DEF RenameIsBlind
<1>3. ASSUME NEW d \in Call, Rename(d), wsBranch' = wsBranch
      PROVE  UNCHANGED <<blind, wsBranch>>
  BY <1>3 DEF Rename
<1>4. CASE UNCHANGED <<blind, wsBranch>> \/ \E d \in Call : Rename(d)
  <2>1. CASE \E d \in Call : Rename(d) /\ wsBranch' # wsBranch
    BY <1>2, <2>1
  <2>2. CASE \E d \in Call : Rename(d) /\ wsBranch' = wsBranch
    BY <1>1, <1>3, <2>2
  <2> QED BY <1>1, <1>4, <2>1, <2>2
<1> QED
  BY <1>4 DEF Next, Step, Start, Exit, PoolFetch, PeerPush, Agent, Revise, Publish, Classify, Fix,
              Amend, RunPhase, RecordReceipt, RequireReceipt, Normalise, Inspect, Probe, Send, Create,
              Open, Settle, Name, Label, vars

-----------------------------------------------------------------------------
(* The theorems *)

\* The inductive invariant holds in a fresh workspace.
LEMMA InvInit == Init => IInv
<1> SUFFICES ASSUME Init PROVE IInv
  OBVIOUS
<1>1. TypeOK
  BY TypeInit
<1>2. CallsOK
  <2>1. \A c \in Call : calls[c] = Idle
    BY DEF Init
  <2>2. CallOK(Idle)
    BY DEF CallOK, VerdictOK, Idle, FetchedCommit, OnFiles
  <2> QED BY <2>1, <2>2 DEF CallsOK
<1>3. Fetched /\ PrsThere /\ OnePr
  BY DEF Init, Fetched, FetchedCommit, PrsThere, OnePr, Base, Idle
<1> QED BY <1>1, <1>2, <1>3 DEF IInv

\* Every step preserves it.
LEMMA InvStep == IInv /\ [Next]_vars => IInv'
BY TypeStep, CallsStep, FetchedStep, PrsStep, OneStep DEF IInv

\* The inductive invariant holds in every reachable state.
THEOREM Invariance == Spec => []IInv
BY InvInit, InvStep, PTL DEF Spec

\* Every variable of the publication keeps its type.
THEOREM TypeCorrect == Spec => []TypeOK
<1>1. IInv => TypeOK
  BY DEF IInv
<1> QED BY <1>1, Invariance, PTL

\* An issue has one pull request, on its worktree's branch, unless a rename did
\* not know that it was open or asked for.
THEOREM OnePrAlways == Spec => []OnePrOnItsBranch
<1>1. IInv => OnePrOnItsBranch
  <2> SUFFICES ASSUME IInv, ~blind PROVE Cardinality(prs) <= 1 /\ (row.pr # None => wsBranch = row.pr)
    BY DEF OnePrOnItsBranch
  <2>1. prs \subseteq {wsBranch} /\ (row.pr # None => row.pr \in prs)
    BY DEF IInv, OnePr, PrsThere
  <2>2. prs = {} \/ prs = {wsBranch}
    BY <2>1
  <2>3. Cardinality({}) = 0 /\ Cardinality({wsBranch}) = 1
    BY FS_EmptySet, FS_Singleton
  <2> QED BY <2>1, <2>2, <2>3
<1> QED BY <1>1, Invariance, PTL

\* What a call sends passed its gates while its verdict stands.
LEMMA SendVerified ==
    ASSUME IInv, [Next]_vars, NEW c \in Call, Sent(c), calls[c].intact, ~setup.skip
    PROVE  {head.tree} \X (Gates(calls[c].kind) \cap setup.runs) \subseteq passed
<1>1. PICK q : q = calls[c]
  OBVIOUS
<1>2. CallOK(q) /\ q.step = "send" /\ q.intact
  BY <1>1 DEF IInv, CallsOK, Sent
<1>3. q.todo = {} /\ Verified(head.tree, q)
  BY <1>2 DEF CallOK, VerdictOK
<1> QED BY <1>1, <1>3 DEF Verified

\* What is published passed every phase of its gates, unless somebody else moved
\* it where the code does not look, or the run may skip them.
THEOREM PublishedAlways == Spec => PublishedIsVerified
<1>1. IInv /\ [Next]_vars =>
         [\A c \in Call : Sent(c) /\ calls[c].intact /\ ~setup.skip =>
             {head.tree} \X (Gates(calls[c].kind) \cap setup.runs) \subseteq passed]_vars
  BY SendVerified
<1> QED BY <1>1, Invariance, PTL DEF Spec, PublishedIsVerified

\* A push takes from GitHub only what the pool has had.
LEMMA LossStep == IInv /\ [Next]_vars => PeersIn(remote) \ PeersIn(remote') \subseteq known
<1> SUFFICES ASSUME IInv, [Next]_vars, NEW b \in Branch, remote[b] # None,
                    NEW p \in remote[b].peers, p \notin known
             PROVE  p \in PeersIn(remote')
  BY DEF PeersIn
<1>0. TypeOK /\ remote \in [Branch -> Commit \cup {None}] /\ PrsThere
  BY DEF IInv, TypeOK
<1>1. CASE remote' = remote
  BY <1>1 DEF PeersIn
<1>2. ASSUME NEW c \in Call, Send(c), remote' # remote PROVE p \in PeersIn(remote')
  <2>1. PICK q : q = calls[c]
    OBVIOUS
  <2>2. CallOK(q) /\ q.step = "send" /\ remote[q.branch] = q.lease
        /\ remote' = [remote EXCEPT ![q.branch] = head]
    BY <1>2, <2>1 DEF Send, Refuse, github, IInv, CallsOK
  <2>3. q.branch # b
    BY <2>2 DEF CallOK, FetchedCommit
  <2>4. remote'[b] = remote[b]
    BY <1>0, <2>2, <2>3
  <2> QED BY <2>4 DEF PeersIn
<1>3. CASE PeerPush
  <2>1. PICK d \in Branch, y \in Commit :
           remote' = [remote EXCEPT ![d] = y] /\ remote[d].peers \subseteq y.peers
    BY <1>0, <1>3, PeerPushed
  <2>2. CASE d = b
    BY <1>0, <2>1, <2>2, NoneAssumption DEF PeersIn
  <2>3. CASE d # b
    BY <1>0, <2>1, <2>3 DEF PeersIn
  <2> QED BY <2>2, <2>3
<1>4. CASE remote' # remote /\ ~PeerPush
  BY <1>2, <1>4
     DEF Next, Step, Start, Exit, PoolFetch, Agent, Revise, Publish, Classify, Fix, Amend, RunPhase,
         RecordReceipt, RequireReceipt, Normalise, Inspect, Probe, Create, Open, Settle, Rename,
         Name, Label, Refuse, github, vars
<1> QED BY <1>1, <1>3, <1>4

\* A person's commit leaves GitHub only after a fetch of the pool brought it.
THEOREM PeerLossAlways == Spec => PeerLossNeedsFetch
<1>1. IInv /\ [Next]_vars => [PeersIn(remote) \ PeersIn(remote') \subseteq known]_vars
  BY LossStep
<1> QED BY <1>1, Invariance, PTL DEF Spec, PeerLossNeedsFetch
=============================================================================

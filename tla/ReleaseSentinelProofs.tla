----------------------- MODULE ReleaseSentinelProofs -----------------------
(***************************************************************************)
(* For any number of releases and workflows and any round cap: the tables  *)
(* keep their types, decided releases stay decided, one release at most is *)
(* active, a commit starts one round at most, a repair is tended, and the  *)
(* verdicts of a commit decide its release, however verdicts, people,      *)
(* retries and exits interleave.  Calls of release_retag that write after  *)
(* their turn are the exception, and are stated as one.                    *)
(***************************************************************************)
EXTENDS ReleaseSentinel, FiniteSetTheorems, TLAPS

\* Verdicts and rows are about commits that exist, and name their own release.
KnownVerdict(e) == e.sha <= made /\ subject[e.sha] \in Tag

Known ==
    /\ \A e \in inbox : KnownVerdict(e)
    /\ at # "idle" => KnownVerdict(event)
    /\ \A c \in Commit, w \in Workflow : ci[c][w] # "none" => c <= made /\ subject[c] \in Tag
    /\ \A t \in Tag : tagAt[t] <= made
    /\ \A k \in calls : k.head <= made
    /\ \A t \in Tag : \A c \in bumped[t] : c <= made
    /\ \A t \in Tag : rel[t].failed # NoCommit =>
                         rel[t].failed <= made /\ subject[rel[t].failed] = t

IsActive(t) == rel[t].state \in {"awaiting_ci", "fixing"}

\* What a step of the handler may rely on about the row it is about to write.
Serving ==
    /\ at = "supersede" /\ active # None => IsActive(active)
    /\ at \in {"supersede", "judge"} => rel[tag].state # "none"
    /\ at \in {"runs", "release", "workspace", "agent"} => IsActive(tag)
    /\ at \in {"runs", "release"} => event.conclusion = "success"
    /\ at \in {"workspace", "agent", "end"} =>
          /\ event.conclusion = "failure"
          /\ rel[tag].state = "fixing" => rel[tag].failed = head

\* One active release; between the insert and the supersession two.
Single ==
    ~torn /\ ~late => \A t, u \in Tag : IsActive(t) /\ IsActive(u) =>
                t = u \/ (at = "supersede" /\ {t, u} = {active, tag})

\* The row says of commit c that it was decided, or that its round goes on.
Spoken(t, c) == rel[t].state \in Terminal \/ (rel[t].state = "fixing" /\ rel[t].failed = c)

\* A commit on which a round was spent is not met again by a release that
\* could start another.
Fresh ==
    ~late =>
      /\ \A t \in Tag : tagAt[t] \in bumped[t] => Spoken(t, tagAt[t])
      /\ \A t \in Tag : rel[t].state = "none" => bumped[t] = {}
      /\ at \in {"create", "supersede", "judge"} =>
            /\ head \in bumped[tag] => Spoken(tag, head)
            /\ tagAt[tag] = head \/ tagAt[tag] \notin bumped[tag]

\* A call that has pushed has left its commit for good.
Moved == \A k \in calls : k.step # "checked" => tagAt[k.tag] # k.head

Counted ==
    ~late => \A t \in Tag :
        /\ rel[t].rounds = Cardinality(bumped[t])
        /\ rel[t].error = "round cap" =>
              /\ rel[t].state \in Terminal
              /\ rel[t].rounds = MaxRounds /\ rel[t].sha \notin bumped[t]

\* The verdicts somebody will still act on.
Open == inbox \cup (IF at = "idle" THEN {} ELSE {event})

\* A turn that left its release neither under repair nor decided has moved the
\* tag away from the commit.
Left ==
    ~late /\ at \in {"workspace", "agent", "end"} =>
        \/ rel[tag].state \in Terminal \cup {"fixing"}
        \/ tagAt[tag] # head

\* What an undecided release waits for, given how the workflows of its commit
\* stand: the verdict of each that blocks it, and, when all have passed, one
\* that says so.
Waits(c, runs, open) ==
    /\ \A w \in Workflow : runs[w] \in Blocking =>
          [sha |-> c, workflow |-> w, conclusion |-> runs[w]] \in open
    /\ (\A w \in Workflow : runs[w] = "success") =>
          \E w \in Workflow : [sha |-> c, workflow |-> w, conclusion |-> "success"] \in open

Owed ==
    ~late => \A t \in Tag :
        /\ tagAt[t] # NoCommit /\ tagAt[t] \notin givenUp /\ subject[tagAt[t]] = t
        /\ rel[t].state \notin Terminal
        => Waits(tagAt[t], ci[tagAt[t]], Open)

IInv ==
    /\ TypeOK /\ Known /\ Serving /\ Single /\ Fresh /\ Moved /\ Counted /\ RepairIsTended
    /\ Left /\ Owed

-----------------------------------------------------------------------------
(* Writes to the table.                                                    *)

States == {"none", "awaiting_ci", "fixing", "green", "failed", "superseded"}
Errors == {"none", "round cap", "other"}

\* A release row, field by field.
LEMMA RowFields ==
    ASSUME NEW r
    PROVE  r \in Release <=> r \in [state : States, sha : Commit \cup {NoCommit},
                                    failed : Commit \cup {NoCommit}, rounds : 0 .. MaxRounds,
                                    error : Errors]
BY DEF Release, States, Errors, Terminal

\* Write changes one row, and in it state, commit and error.
Written(t, s, c, e) ==
    /\ rel' \in [Tag -> Release]
    /\ \A u \in Tag : u # t => rel'[u] = rel[u]
    /\ rel'[t].state = s /\ rel'[t].sha = c /\ rel'[t].error = e
    /\ rel'[t].failed = rel[t].failed /\ rel'[t].rounds = rel[t].rounds

Typed == rel' \in [Tag -> Release] /\ older' \subseteq Tag \X Tag

\* Touch keeps the order one of releases.
LEMMA TouchTypes ==
    ASSUME older \subseteq Tag \X Tag, NEW t \in Tag, NEW s, Touch(t, s)
    PROVE  older' \subseteq Tag \X Tag
BY DEF Touch, Forget, Active

\* Write keeps the types and changes what Written names.
LEMMA WriteWrites ==
    ASSUME rel \in [Tag -> Release], older \subseteq Tag \X Tag,
           NEW t \in Tag, NEW s \in States,
           NEW c \in Commit \cup {NoCommit}, NEW e \in Errors, Write(t, s, c, e)
    PROVE  Typed /\ Written(t, s, c, e)
<1>1. rel[t] \in [state : States, sha : Commit \cup {NoCommit},
                  failed : Commit \cup {NoCommit}, rounds : 0 .. MaxRounds, error : Errors]
      BY RowFields
<1> DEFINE r == [rel[t] EXCEPT !.state = s, !.sha = c, !.error = e]
<1>2. /\ r \in [state : States, sha : Commit \cup {NoCommit},
                failed : Commit \cup {NoCommit}, rounds : 0 .. MaxRounds, error : Errors]
      /\ r.state = s /\ r.sha = c /\ r.error = e
      /\ r.failed = rel[t].failed /\ r.rounds = rel[t].rounds
      BY <1>1
<1>3. r \in Release
      BY <1>2, RowFields
<1>4. rel' = [rel EXCEPT ![t] = r]
      BY DEF Write
<1>5. rel' \in [Tag -> Release] /\ rel'[t] = r /\ \A u \in Tag : u # t => rel'[u] = rel[u]
      BY <1>3, <1>4
<1>6. older' \subseteq Tag \X Tag
      BY TouchTypes DEF Write
<1> QED
    BY <1>2, <1>5, <1>6 DEF Written, Typed

\* The fields of a row of the table.
LEMMA RowTypes ==
    ASSUME rel \in [Tag -> Release], NEW t \in Tag
    PROVE  /\ rel[t].state \in States /\ rel[t].sha \in Commit \cup {NoCommit}
           /\ rel[t].failed \in Commit \cup {NoCommit}
           /\ rel[t].rounds \in 0 .. MaxRounds /\ rel[t].error \in Errors
<1>1. rel[t] \in [state : States, sha : Commit \cup {NoCommit},
                  failed : Commit \cup {NoCommit}, rounds : 0 .. MaxRounds, error : Errors]
      BY RowFields
<1> QED
    BY <1>1

\* The fields of a verdict.
LEMMA VerdictTypes ==
    ASSUME NEW e \in Verdict
    PROVE  e.sha \in Commit /\ e.workflow \in Workflow /\ e.conclusion \in Conclusion
BY DEF Verdict

\* The bounds are numbers, and no commit is the absent one.
LEMMA CommitsNumbers ==
    /\ MaxCommits \in Nat \ {0} /\ MaxRounds \in Nat /\ MaxMishaps \in Nat
    /\ Commit \subseteq Nat \ {0} /\ NoCommit \notin Commit
BY BoundsAssumption DEF Commit, NoCommit

\* A push adds one commit with its subject and its workflows.
LEMMA CommitsAdd ==
    ASSUME TypeOK, NEW s \in Tag \cup {None}, Commits(s)
    PROVE  /\ made \in Nat /\ made + 1 \in Commit /\ made' = made + 1
           /\ subject'[made + 1] = s
           /\ \A d \in Commit : d # made + 1 => subject'[d] = subject[d] /\ ci'[d] = ci[d]
           /\ s = None => ci' = ci
<1>1. made \in Nat /\ made + 1 \in Commit /\ made' = made + 1
      BY CommitsNumbers DEF Commits, TypeOK, Commit
<1>2. /\ subject' = [subject EXCEPT ![made + 1] = s]
      /\ ci' \in {ci, [ci EXCEPT ![made + 1] = Started]}
      /\ s = None => ci' = ci
      BY DEF Commits
<1> QED
    BY <1>1, <1>2 DEF TypeOK

-----------------------------------------------------------------------------
(* What the steps of the handler write.                                    *)

\* While the handler is at work it has a verdict on a known release.
LEMMA Serves ==
    ASSUME TypeOK, Known, at # "idle"
    PROVE  /\ event \in Verdict /\ head \in Commit /\ head <= made /\ tag \in Tag
           /\ event.conclusion \in Conclusion
BY VerdictTypes DEF TypeOK, Known, KnownVerdict, head, tag

\* TakeSha changes the commit of one row at most.
LEMMA TakeShaWrites ==
    ASSUME rel \in [Tag -> Release], older \subseteq Tag \X Tag,
           tag \in Tag, head \in Commit, TakeSha
    PROVE  /\ Written(tag, rel[tag].state, head, rel[tag].error)
           /\ Typed
<1>1. CASE rel[tag].sha = head
      BY <1>1 DEF TakeSha, Written, Typed
<1>2. CASE rel[tag].sha # head
  <2>1. Write(tag, rel[tag].state, head, rel[tag].error)
        BY <1>2 DEF TakeSha, SetSha
  <2> QED
      BY <2>1, WriteWrites, RowTypes
<1> QED
    BY <1>1, <1>2

\* SetState changes state and error of one row.
LEMMA SetStateWrites ==
    ASSUME rel \in [Tag -> Release], older \subseteq Tag \X Tag,
           NEW t \in Tag, NEW s \in States, NEW e \in Errors, SetState(t, s, e)
    PROVE  /\ Written(t, s, rel[t].sha, e)
           /\ Typed
<1>1. Write(t, s, rel[t].sha, e)
      BY DEF SetState
<1> QED
    BY <1>1, WriteWrites, RowTypes

\* The row of a release that starts a round.
Rounded(t, c) ==
    /\ rel' \in [Tag -> Release]
    /\ \A u \in Tag : u # t => rel'[u] = rel[u]
    /\ rel'[t].state = "fixing" /\ rel'[t].sha = c /\ rel'[t].error = "none"
    /\ rel'[t].failed = c /\ rel'[t].rounds = rel[t].rounds + 1

\* Starting a round changes the rounds and the failed commit of one row.
LEMMA BumpWrites ==
    ASSUME rel \in [Tag -> Release], older \subseteq Tag \X Tag,
           NEW t \in Tag, NEW c \in Commit, rel[t].rounds < MaxRounds, SetShaAndBump(t, c)
    PROVE  /\ Rounded(t, c)
           /\ Typed
<1> DEFINE r == [state |-> "fixing", sha |-> c, failed |-> c,
                 rounds |-> rel[t].rounds + 1, error |-> "none"]
<1>1. rel[t].rounds + 1 \in 0 .. MaxRounds
      BY RowTypes, CommitsNumbers
<1>2. r \in [state : States, sha : Commit \cup {NoCommit}, failed : Commit \cup {NoCommit},
             rounds : 0 .. MaxRounds, error : Errors]
      BY <1>1 DEF States, Errors
<1>3. r \in Release
      BY <1>2, RowFields
<1>4. rel' = [rel EXCEPT ![t] = r] /\ Touch(t, "fixing")
      BY DEF SetShaAndBump
<1>5. rel' \in [Tag -> Release] /\ rel'[t] = r /\ \A u \in Tag : u # t => rel'[u] = rel[u]
      BY <1>3, <1>4
<1> QED
    BY <1>4, <1>5, TouchTypes DEF Rounded, Typed

\* Every action that writes the table, with the row it writes.
LEMMA CreateWrites ==
    ASSUME TypeOK, Known, Create
    PROVE  /\ Typed
           /\ \/ rel[tag].state # "none" /\ UNCHANGED rel
              \/ rel[tag].state = "none" /\ Written(tag, "awaiting_ci", head, "none")
<1>1. CASE rel[tag].state # "none"
      BY <1>1 DEF Create, Typed, TypeOK
<1>2. CASE rel[tag].state = "none"
  <2>1. Write(tag, "awaiting_ci", head, "none") /\ at # "idle"
        BY <1>2 DEF Create
  <2>2. rel \in [Tag -> Release] /\ older \subseteq Tag \X Tag /\ tag \in Tag /\ head \in Commit
        BY <2>1, Serves DEF TypeOK
  <2> QED
      BY <1>2, <2>1, <2>2, WriteWrites DEF States, Errors
<1> QED
    BY <1>1, <1>2

\* Supersede changes the other active row at most, and only to superseded.
LEMMA SupersedeWrites ==
    ASSUME TypeOK, Supersede
    PROVE  /\ Typed
           /\ \/ active \in {None, tag} /\ UNCHANGED rel
              \/ /\ active \in Tag \ {tag}
                 /\ Written(active, "superseded", rel[active].sha, "none")
BY SetStateWrites DEF Supersede, TypeOK, Typed, States, Errors

\* A success or an ignored verdict records the commit of the tag.
LEMMA TakeShaStep ==
    ASSUME TypeOK, Known, JudgeSuccess \/ JudgeIgnored
    PROVE  Typed /\ Written(tag, rel[tag].state, head, rel[tag].error)
BY Serves, TakeShaWrites DEF JudgeSuccess, JudgeIgnored, TypeOK

\* A verdict that wants a person fails its release.
LEMMA ActionRequiredWrites ==
    ASSUME TypeOK, Known, JudgeActionRequired
    PROVE  Typed /\ Written(tag, "failed", head, "other")
BY Serves, WriteWrites DEF JudgeActionRequired, TypeOK, States, Errors

\* A failing verdict resumes its round, starts one below the cap, or fails its release.
LEMMA FailureWrites ==
    ASSUME TypeOK, Known, JudgeFailure
    PROVE  /\ Typed
           /\ \/ /\ Resumed /\ Goto("workspace") /\ UNCHANGED bumped
                 /\ Written(tag, rel[tag].state, head, rel[tag].error)
              \/ /\ ~Resumed /\ Goto("workspace")
                 /\ bumped' = [bumped EXCEPT ![tag] = bumped[tag] \cup {head}]
                 /\ rel[tag].rounds < MaxRounds
                 /\ Rounded(tag, head)
              \/ /\ ~Resumed /\ Finish /\ UNCHANGED bumped
                 /\ rel[tag].rounds = MaxRounds
                 /\ Written(tag, "failed", head, "round cap")
<1>1. rel \in [Tag -> Release] /\ older \subseteq Tag \X Tag
      BY DEF TypeOK
<1>2. /\ tag \in Tag /\ head \in Commit
      /\ rel[tag].rounds \in 0 .. MaxRounds /\ MaxRounds \in Nat
      BY <1>1, Serves, RowTypes, CommitsNumbers DEF JudgeFailure
<1>3. CASE Resumed /\ TakeSha /\ Goto("workspace") /\ UNCHANGED bumped
      BY <1>1, <1>2, <1>3, TakeShaWrites
<1>4. CASE ~Resumed /\ ~CapReached /\ SetShaAndBump(tag, head) /\ Goto("workspace")
  <2>1. rel[tag].rounds < MaxRounds
        BY <1>2, <1>4 DEF CapReached
  <2>2. bumped' = [bumped EXCEPT ![tag] = bumped[tag] \cup {head}]
        BY <1>4 DEF SetShaAndBump
  <2> QED
      BY <1>1, <1>2, <1>4, <2>1, <2>2, BumpWrites
<1>5. CASE /\ ~Resumed /\ CapReached /\ Write(tag, "failed", head, "round cap")
           /\ Finish /\ UNCHANGED bumped
  <2>1. CapReached
        BY <1>5
  <2>2. rel[tag].rounds = MaxRounds
        BY <1>2, <2>1 DEF CapReached
  <2> QED
      BY <1>1, <1>2, <1>5, <2>2, WriteWrites DEF States, Errors
<1> QED
    BY <1>3, <1>4, <1>5 DEF JudgeFailure

\* Reading the published release makes the row green or failed.
LEMMA ReleaseWrites ==
    ASSUME TypeOK, Known, ReadRelease
    PROVE  /\ Typed
           /\ \/ Written(tag, "green", rel[tag].sha, "none")
              \/ Written(tag, "failed", rel[tag].sha, "other")
BY Serves, SetStateWrites DEF ReadRelease, TypeOK, States, Errors

\* Preparing the workspace writes nothing, or fails the release when main has moved.
LEMMA WorkspaceWrites ==
    ASSUME TypeOK, Known, PrepareWorkspace
    PROVE  /\ Typed
           /\ \/ main = head /\ Goto("agent") /\ UNCHANGED rel
              \/ Finish /\ Written(tag, "failed", rel[tag].sha, "other")
BY Serves, SetStateWrites DEF PrepareWorkspace, TypeOK, Typed, States, Errors

\* The fields of a call of release_retag.
LEMMA CallTypes ==
    ASSUME TypeOK, NEW k \in calls
    PROVE  k.tag \in Tag /\ k.head \in Commit /\ k.fix \in Commit \cup {NoCommit}
BY DEF TypeOK, Call

\* Moving a call forward keeps it a call.
LEMMA AdvanceTypes ==
    ASSUME TypeOK, NEW k \in calls, NEW s \in {"checked", "pushed", "recorded"},
           NEW c \in Commit \cup {NoCommit}, Advance(k, s, c)
    PROVE  calls' \subseteq Call
<1>1. [tag |-> k.tag, head |-> k.head, step |-> s, fix |-> c] \in Call
      BY CallTypes DEF Call
<1> QED
    BY <1>1 DEF Advance, TypeOK

\* Recording the pushed commit writes one row.
LEMMA RecordShaWrites ==
    ASSUME TypeOK, NEW k \in calls, RecordSha(k)
    PROVE  Typed /\ Written(k.tag, rel[k.tag].state, k.fix, rel[k.tag].error)
<1>1. rel \in [Tag -> Release] /\ older \subseteq Tag \X Tag
      BY DEF TypeOK
<1>2. Write(k.tag, rel[k.tag].state, k.fix, rel[k.tag].error)
      BY DEF RecordSha, SetSha
<1> QED
    BY <1>1, <1>2, CallTypes, WriteWrites, RowTypes

\* Recording the state after a push has the release await its checks.
LEMMA RecordStateWrites ==
    ASSUME TypeOK, NEW k \in calls, RecordState(k)
    PROVE  Typed /\ Written(k.tag, "awaiting_ci", rel[k.tag].sha, "none")
<1>1. rel \in [Tag -> Release] /\ older \subseteq Tag \X Tag
      BY DEF TypeOK
<1> QED
    BY <1>1, CallTypes, SetStateWrites DEF RecordState, States, Errors

\* abort_task fails the release of the handler.
LEMMA AbortWrites ==
    ASSUME TypeOK, Known, Abort
    PROVE  Typed /\ Written(tag, "failed", rel[tag].sha, "other")
BY Serves, SetStateWrites DEF Abort, TypeOK, States, Errors

\* The end of a round fails the release it left under repair.
LEMMA EndWrites ==
    ASSUME TypeOK, Known, EndRound
    PROVE  /\ Typed
           /\ \/ rel[tag].state # "fixing" /\ UNCHANGED rel
              \/ /\ rel[tag].state = "fixing"
                 /\ Written(tag, "failed", rel[tag].sha, "other")
BY Serves, SetStateWrites DEF EndRound, TypeOK, Typed, States, Errors

-----------------------------------------------------------------------------
(* Types.                                                                  *)

\* A push to GitHub, ours or somebody's, keeps GitHub's types.
HubTyped ==
    /\ made' \in Commit /\ main' \in Commit
    /\ subject' \in [Commit -> Tag \cup {None}]
    /\ ci' \in [Commit -> [Workflow -> Conclusion \cup {"none", "running"}]]

\* A push to main, with a tag or without, keeps the types of what GitHub holds.
LEMMA CommitsTypes ==
    ASSUME TypeOK, NEW s \in Tag \cup {None}, Commits(s), main' \in {main, made + 1}
    PROVE  HubTyped
<1>1. made' = made + 1 /\ made + 1 \in Commit
      BY CommitsAdd
<1> QED
    BY <1>1 DEF HubTyped, TypeOK, Commits, Started

\* A call keeps its tag and its commit.
LEMMA CallsStep ==
    ASSUME TypeOK, NEW k \in calls,
           \/ \E s \in Tag : Push(k, s)
           \/ PushFails(k) \/ RecordSha(k) \/ RecordState(k)
    PROVE  /\ calls' \subseteq Call
           /\ \A j \in calls' : \/ j \in calls
                                \/ /\ j.head = k.head /\ j.tag = k.tag
                                   /\ k.step # "checked" \/ tagAt'[k.tag] = made + 1
<1>1. CASE \E s \in Tag : Push(k, s)
  <2>1. PICK s \in Tag : Push(k, s)
        BY <1>1
  <2>2. made + 1 \in Commit /\ tagAt'[k.tag] = made + 1
        BY <2>1, CommitsAdd, CallTypes DEF Push, TypeOK
  <2>3. CASE Advance(k, "pushed", made + 1)
    <3>1. calls' \subseteq Call
          BY <2>2, <2>3, AdvanceTypes
    <3> QED
        BY <2>2, <2>3, <3>1 DEF Advance
  <2>4. CASE calls' = calls \ {k}
        BY <2>4 DEF TypeOK
  <2> QED
      BY <2>1, <2>3, <2>4 DEF Push
<1>2. CASE RecordSha(k)
  <2>1. Advance(k, "recorded", k.fix) /\ k.step = "pushed"
        BY <1>2 DEF RecordSha
  <2>2. calls' \subseteq Call
        BY <2>1, AdvanceTypes, CallTypes
  <2> QED
      BY <2>1, <2>2 DEF Advance
<1>3. CASE PushFails(k) \/ RecordState(k)
      BY <1>3 DEF PushFails, RecordState, TypeOK
<1> QED
    BY <1>1, <1>2, <1>3

\* Every step keeps the types.
LEMMA TypeStep ==
    ASSUME TypeOK, Known, [Next]_vars
    PROVE  TypeOK'
<1>1. ASSUME NEW t \in Tag, CutRelease(t) \/ MoveTag(t) PROVE TypeOK'
  <2>1. HubTyped /\ tagAt' = [tagAt EXCEPT ![t] = made + 1] /\ made + 1 \in Commit
        BY <1>1, CommitsTypes, CommitsAdd DEF CutRelease, MoveTag
  <2>2. UNCHANGED <<tables, handler, mishaps, history>>
        BY <1>1 DEF CutRelease, MoveTag
  <2> QED
      BY <2>1, <2>2 DEF TypeOK, HubTyped, tables, handler, history
<1>2. ASSUME PushToMain PROVE TypeOK'
  <2>1. HubTyped /\ UNCHANGED <<tagAt, tables, handler, mishaps, history>>
        BY <1>2, CommitsTypes DEF PushToMain
  <2> QED
      BY <2>1 DEF TypeOK, HubTyped, tables, handler, history
<1>3. ASSUME NEW c \in Commit, NEW w \in Workflow, NEW x \in Conclusion, Conclude(c, w, x)
      PROVE  TypeOK'
      BY <1>3 DEF Conclude, TypeOK, handler, history, Verdict
<1>4. ASSUME NEW c \in Commit, NEW w \in Workflow, Rerun(c, w) PROVE TypeOK'
      BY <1>4, CommitsNumbers DEF Rerun, Mishap, TypeOK, tables, handler, history
<1>5. ASSUME NEW k \in calls, NEW s \in Tag, Push(k, s) PROVE TypeOK'
  <2>1. HubTyped /\ tagAt' = [tagAt EXCEPT ![k.tag] = made + 1] /\ made + 1 \in Commit
        BY <1>5, CommitsTypes, CommitsAdd DEF Push
  <2>2. calls' \subseteq Call /\ UNCHANGED <<tables, at, event, active, mishaps, history>>
        BY <1>5, CallsStep DEF Push
  <2> QED
      BY <2>1, <2>2 DEF TypeOK, HubTyped, tables, history
<1>6. ASSUME NEW k \in calls, PushFails(k) PROVE TypeOK'
      BY <1>6, CallsStep DEF PushFails, TypeOK, hub, tables, history
<1>7. ASSUME NEW k \in calls, RecordSha(k) PROVE TypeOK'
      BY <1>7, CallsStep, RecordShaWrites DEF RecordSha, TypeOK, Typed, hub, Attended
<1>8. ASSUME NEW k \in calls, RecordState(k) PROVE TypeOK'
      BY <1>8, CallsStep, RecordStateWrites DEF RecordState, TypeOK, Typed, hub, Attended
<1>9. ASSUME CheckTag PROVE TypeOK'
  <2>1. [tag |-> tag, head |-> head, step |-> "checked", fix |-> NoCommit] \in Call
        BY <1>9, Serves DEF CheckTag, Call
  <2> QED
      BY <1>9, <2>1 DEF CheckTag, TypeOK, hub, tables, history
<1>10. ASSUME Claim PROVE TypeOK'
      BY <1>10
         DEF Claim, TypeOK, hub, history, Step
<1>11. ASSUME ReadTag PROVE TypeOK'
      BY <1>11
         DEF ReadTag, TypeOK, hub, tables, history, Goto, Finish, Rest, Step
<1>12. ASSUME SkipTerminal PROVE TypeOK'
      BY <1>12
         DEF SkipTerminal, TypeOK, hub, tables, history, Finish, Rest, Step
<1>13. ASSUME ReadRuns PROVE TypeOK'
      BY <1>13
         DEF ReadRuns, TypeOK, hub, tables, history, Goto, Finish, Rest, Step
<1>14. ASSUME EndTurn PROVE TypeOK'
      BY <1>14
         DEF EndTurn, TypeOK, hub, tables, history, Goto, Step
<1>15. ASSUME Create PROVE TypeOK'
      BY <1>15, CreateWrites
         DEF Create, TypeOK, Typed, hub, history, Newest, Active, Step
<1>16. ASSUME Supersede PROVE TypeOK'
      BY <1>16, SupersedeWrites
         DEF Supersede, TypeOK, Typed, hub, history, Goto, Step
<1>17. ASSUME JudgeSuccess PROVE TypeOK'
      BY <1>17, TakeShaStep
         DEF JudgeSuccess, TypeOK, Typed, hub, history, Goto, Step
<1>18. ASSUME JudgeIgnored PROVE TypeOK'
      BY <1>18, TakeShaStep
         DEF JudgeIgnored, TypeOK, Typed, hub, history, Finish, Rest, Step
<1>19. ASSUME JudgeActionRequired PROVE TypeOK'
      BY <1>19, ActionRequiredWrites
         DEF JudgeActionRequired, TypeOK, Typed, hub, history, Finish, Rest, Step
<1>20. ASSUME ReadRelease PROVE TypeOK'
      BY <1>20, ReleaseWrites
         DEF ReadRelease, TypeOK, Typed, hub, history, Finish, Rest, Step
<1>21. ASSUME PrepareWorkspace PROVE TypeOK'
      BY <1>21, WorkspaceWrites
         DEF PrepareWorkspace, TypeOK, Typed, hub, history, Goto, Finish, Rest, Step
<1>22. ASSUME Abort PROVE TypeOK'
      BY <1>22, AbortWrites
         DEF Abort, TypeOK, Typed, hub, history, Goto, Step
<1>23. ASSUME EndRound PROVE TypeOK'
      BY <1>23, EndWrites
         DEF EndRound, TypeOK, Typed, hub, history, Finish, Rest, Step
<1>24. ASSUME JudgeFailure PROVE TypeOK'
  <2>1. at # "idle" /\ tag \in Tag /\ head \in Commit
        BY <1>24, Serves DEF JudgeFailure
  <2>2. bumped \in [Tag -> SUBSET Commit] /\ bumped' \in [Tag -> SUBSET Commit]
    <3>1. bumped' = bumped \/ bumped' = [bumped EXCEPT ![tag] = bumped[tag] \cup {head}]
          BY <1>24, FailureWrites
    <3> QED
        BY <2>1, <3>1 DEF TypeOK
  <2>3. Typed /\ UNCHANGED calls
             /\ \/ at' = "workspace" /\ UNCHANGED <<event, active>>
                \/ Rest
        BY <1>24, FailureWrites DEF Goto, Finish
  <2> QED
      BY <1>24, <2>2, <2>3 DEF JudgeFailure, TypeOK, Typed, hub, Rest, Step
<1>25. ASSUME HandlerFails PROVE TypeOK'
  <2>1. /\ at # "idle" /\ head \in Commit /\ event \in Verdict
        /\ inbox' \in {inbox, inbox \cup {event}}
        /\ givenUp' \in {givenUp, givenUp \cup {head}}
        BY <1>25, Serves DEF HandlerFails
  <2> QED
      BY <1>25, <2>1, CommitsNumbers DEF HandlerFails, Mishap, TypeOK, hub, Finish, Rest, Step
<1>26. ASSUME Exit PROVE TypeOK'
  <2>1. inbox' \in {inbox, inbox \cup {event}} /\ inbox' \subseteq Verdict
        BY <1>26 DEF Exit, TypeOK
  <2> QED
      BY <1>26, <2>1, CommitsNumbers DEF Exit, Mishap, TypeOK, hub, Rest, Step
<1>27. CASE UNCHANGED vars
      BY <1>27 DEF vars, TypeOK, hub, tables, handler, history
<1> QED
    BY <1>1, <1>2, <1>3, <1>4, <1>5, <1>6, <1>7, <1>8, <1>9, <1>10, <1>11, <1>12,
       <1>13, <1>14, <1>15, <1>16, <1>17, <1>18, <1>19, <1>20, <1>21, <1>22, <1>23,
       <1>24, <1>25, <1>26, <1>27
       DEF Next, GitHub, Judgement, Round, Retag

\* A push adds a commit and takes nothing away.
LEMMA CommitsKnown ==
    ASSUME TypeOK, Known, NEW s \in Tag \cup {None}, Commits(s),
           UNCHANGED <<inbox, event, at, rel, bumped>>,
           \A t \in Tag : tagAt'[t] = tagAt[t] \/ tagAt'[t] = made + 1,
           \A k \in calls' : \E j \in calls : k.head = j.head
    PROVE  Known'
<1>1. /\ made \in Nat /\ made + 1 \in Commit /\ made' = made + 1
      /\ subject'[made + 1] = s /\ (s = None => ci' = ci)
      /\ \A d \in Commit : d # made + 1 => subject'[d] = subject[d] /\ ci'[d] = ci[d]
      BY CommitsAdd
<1>2. \A c \in Commit \cup {0} : c \in Nat
      BY DEF Commit
<1>3. \A d \in Commit : d <= made => d <= made' /\ subject'[d] = subject[d]
      BY <1>1, <1>2
<1>4. \A t \in Tag : tagAt'[t] <= made'
  <2>1. \A t \in Tag : tagAt[t] \in Commit \cup {0} /\ tagAt[t] <= made
        BY DEF TypeOK, Known, NoCommit
  <2>2. \A t \in Tag : tagAt[t] \in Nat
        BY <1>2, <2>1
  <2> QED
      BY <1>1, <2>1, <2>2
<1>5. \A e \in Verdict : KnownVerdict(e) => e.sha <= made' /\ subject'[e.sha] \in Tag
      BY <1>3, VerdictTypes DEF KnownVerdict
<1>6. \A t \in Tag : \A d \in bumped[t] : d <= made'
      BY <1>3 DEF Known, TypeOK
<1>7. ASSUME NEW d \in Commit, NEW v \in Workflow, ci'[d][v] # "none"
      PROVE  d <= made' /\ subject'[d] \in Tag
  <2>1. CASE d = made + 1 /\ s # None
        BY <1>1, <1>2, <2>1
  <2>2. CASE d # made + 1 \/ s = None
    <3>1. ci[d][v] # "none"
          BY <1>1, <1>7, <2>2
    <3>2. d <= made /\ subject[d] \in Tag
          BY <3>1 DEF Known
    <3> QED
        BY <1>3, <3>2
  <2> QED
      BY <2>1, <2>2
<1>8. \A t \in Tag : rel[t].failed # NoCommit =>
                        rel[t].failed <= made' /\ subject'[rel[t].failed] = t
  <2>1. rel \in [Tag -> Release]
        BY DEF TypeOK
  <2>2. \A t \in Tag : rel[t].failed # NoCommit => rel[t].failed \in Commit
        BY <2>1, RowTypes
  <2> QED
      BY <1>3, <2>2 DEF Known
<1>9. \A k \in calls' : k.head <= made'
      BY <1>3, CallTypes DEF Known
<1>10. \A e \in inbox : KnownVerdict(e)'
       BY <1>5 DEF Known, TypeOK, KnownVerdict
<1>11. at # "idle" => KnownVerdict(event)'
       BY <1>5 DEF Known, TypeOK, KnownVerdict
<1> QED
    BY <1>4, <1>6, <1>7, <1>8, <1>9, <1>10, <1>11 DEF Known

\* A write that does not start a round.
LEMMA WriteKnown ==
    ASSUME Known, UNCHANGED <<made, subject, tagAt, ci, bumped>>,
           inbox' \subseteq inbox \/ (at # "idle" /\ inbox' \subseteq inbox \cup {event}),
           at' # "idle" => event' \in inbox \/ (at # "idle" /\ event' = event),
           \A t \in Tag : rel'[t].failed = rel[t].failed,
           \A k \in calls' : \/ \E j \in calls : k.head = j.head
                             \/ at # "idle" /\ k.head = head
    PROVE  Known'
<1>1. at # "idle" => head <= made
      BY DEF Known, KnownVerdict, head
<1>2. \A e \in inbox' : KnownVerdict(e)
      BY DEF Known
<1>3. at' # "idle" => KnownVerdict(event')
      BY DEF Known
<1> QED
    BY <1>1, <1>2, <1>3 DEF Known, KnownVerdict

\* Every step keeps verdicts about commits that exist.
LEMMA KnownStep ==
    ASSUME TypeOK, Known, [Next]_vars
    PROVE  Known'
<1>1. ASSUME NEW t \in Tag, CutRelease(t) \/ MoveTag(t) PROVE Known'
  <2>1. /\ Commits(t) /\ UNCHANGED <<tables, handler, history>>
        /\ \A u \in Tag : tagAt'[u] = tagAt[u] \/ tagAt'[u] = made + 1
        BY <1>1 DEF CutRelease, MoveTag, TypeOK
  <2> QED
      BY <2>1, CommitsKnown DEF tables, handler, history
<1>2. ASSUME PushToMain PROVE Known'
      BY <1>2, CommitsKnown DEF PushToMain, tables, handler, history
<1>3. ASSUME NEW c \in Commit, NEW w \in Workflow, NEW x \in Conclusion, Conclude(c, w, x)
      PROVE  Known'
  <2>1. c <= made /\ subject[c] \in Tag
        BY <1>3 DEF Conclude, Known
  <2>2. \A d \in Commit, v \in Workflow : ci'[d][v] # "none" => ci[d][v] # "none" \/ d = c
        BY <1>3 DEF Conclude, TypeOK
  <2>3. /\ inbox' = inbox \cup {[sha |-> c, workflow |-> w, conclusion |-> x]}
        /\ UNCHANGED <<made, subject, tagAt, rel, at, event, calls, bumped>>
        BY <1>3 DEF Conclude, handler, history
  <2> QED
      BY <2>1, <2>2, <2>3 DEF Known, KnownVerdict
<1>4. ASSUME NEW c \in Commit, NEW w \in Workflow, Rerun(c, w) PROVE Known'
  <2>1. c <= made /\ subject[c] \in Tag
        BY <1>4 DEF Rerun, Known, Conclusion, Blocking
  <2>2. \A d \in Commit, v \in Workflow : ci'[d][v] # "none" => ci[d][v] # "none" \/ d = c
        BY <1>4 DEF Rerun, TypeOK
  <2> QED
      BY <1>4, <2>1, <2>2 DEF Rerun, Known, KnownVerdict, tables, handler, history
<1>5. ASSUME NEW k \in calls, NEW s \in Tag, Push(k, s) PROVE Known'
  <2>1. /\ Commits(s) /\ UNCHANGED <<inbox, event, at, rel, bumped>>
        /\ \A u \in Tag : tagAt'[u] = tagAt[u] \/ tagAt'[u] = made + 1
        BY <1>5 DEF Push, TypeOK, tables, history
  <2>2. \A j \in calls' : \E i \in calls : j.head = i.head
        BY <1>5, CallsStep
  <2> QED
      BY <2>1, <2>2, CommitsKnown
<1>6. ASSUME NEW k \in calls, PushFails(k) \/ RecordSha(k) \/ RecordState(k) PROVE Known'
  <2>1. /\ UNCHANGED <<made, subject, tagAt, ci, bumped, inbox, at, event>>
        BY <1>6 DEF PushFails, RecordSha, RecordState, hub, tables, history
  <2>2. \A j \in calls' : \E i \in calls : j.head = i.head
        BY <1>6, CallsStep
  <2>3. \A t \in Tag : rel'[t].failed = rel[t].failed
        BY <1>6, RecordShaWrites, RecordStateWrites DEF PushFails, tables, Written
  <2> QED
      BY <2>1, <2>2, <2>3, WriteKnown
<1>7. ASSUME CheckTag PROVE Known'
  <2>1. /\ UNCHANGED <<made, subject, tagAt, ci, bumped, inbox, at, event, rel>> /\ at = "agent"
        /\ calls' = calls \cup {[tag |-> tag, head |-> head, step |-> "checked", fix |-> NoCommit]}
        BY <1>7 DEF CheckTag, hub, tables, history
  <2> QED
      BY <2>1, WriteKnown
<1>8. ASSUME Claim PROVE Known'
  <2>1. /\ UNCHANGED <<made, subject, tagAt, ci, bumped, calls, rel>>
        /\ event' \in inbox /\ inbox' \subseteq inbox
        BY <1>8 DEF Claim, hub, history
  <2> QED
      BY <2>1, WriteKnown
<1>9. ASSUME ReadTag \/ SkipTerminal \/ ReadRuns \/ EndTurn PROVE Known'
  <2>1. /\ UNCHANGED <<made, subject, tagAt, ci, bumped, calls, rel, inbox>>
        /\ at # "idle" /\ (at' # "idle" => event' = event)
        BY <1>9 DEF ReadTag, SkipTerminal, ReadRuns, EndTurn, Goto, Finish, Rest,
                    hub, tables, history
  <2> QED
      BY <2>1, WriteKnown
<1>10. ASSUME Create \/ Supersede PROVE Known'
  <2>1. /\ UNCHANGED <<made, subject, tagAt, ci, bumped, calls, inbox, event>> /\ at # "idle"
        BY <1>10 DEF Create, Supersede, Goto, hub, history
  <2>2. \A t \in Tag : rel'[t].failed = rel[t].failed
        BY <1>10, CreateWrites, SupersedeWrites DEF Written
  <2> QED
      BY <2>1, <2>2, WriteKnown
<1>11. ASSUME JudgeSuccess \/ JudgeIgnored \/ JudgeActionRequired PROVE Known'
  <2>1. /\ UNCHANGED <<made, subject, tagAt, ci, bumped, calls, inbox>>
        /\ at # "idle" /\ (at' # "idle" => event' = event)
        BY <1>11 DEF JudgeSuccess, JudgeIgnored, JudgeActionRequired, Goto, Finish, Rest,
                     hub, history
  <2>2. \A t \in Tag : rel'[t].failed = rel[t].failed
        BY <1>11, TakeShaStep, ActionRequiredWrites DEF Written
  <2> QED
      BY <2>1, <2>2, WriteKnown
<1>12. ASSUME ReadRelease \/ PrepareWorkspace \/ Abort \/ EndRound PROVE Known'
  <2>1. /\ UNCHANGED <<made, subject, tagAt, ci, bumped, calls, inbox>>
        /\ at # "idle" /\ (at' # "idle" => event' = event)
        BY <1>12 DEF ReadRelease, PrepareWorkspace, Abort, EndRound, Goto, Finish, Rest,
                     hub, history
  <2>2. \A t \in Tag : rel'[t].failed = rel[t].failed
    <3>1. CASE ReadRelease \/ Abort
          BY <3>1, ReleaseWrites, AbortWrites DEF Written
    <3>2. CASE PrepareWorkspace \/ EndRound
          BY <3>2, WorkspaceWrites, EndWrites DEF Written
    <3> QED
        BY <1>12, <3>1, <3>2
  <2> QED
      BY <2>1, <2>2, WriteKnown
<1>13. ASSUME JudgeFailure PROVE Known'
  <2>1. /\ at # "idle" /\ tag \in Tag /\ head \in Commit /\ head <= made
        /\ event' \in {event, None} /\ at' \in {"workspace", "idle"}
        /\ at' # "idle" => event' = event
        /\ UNCHANGED calls
        BY <1>13, Serves, FailureWrites DEF JudgeFailure, Goto, Finish, Rest
  <2>2. \A t \in Tag : bumped'[t] \subseteq bumped[t] \cup {head}
        BY <1>13, <2>1, FailureWrites DEF TypeOK
  <2>3. \A t \in Tag : \/ rel'[t].failed = rel[t].failed
                       \/ t = tag /\ rel'[t].failed = head
        BY <1>13, <2>1, FailureWrites DEF Written, Rounded
  <2>4. \A t \in Tag : \A c \in bumped'[t] : c <= made
        BY <2>1, <2>2 DEF Known
  <2>5. \A t \in Tag : rel'[t].failed # NoCommit =>
                          rel'[t].failed <= made /\ subject[rel'[t].failed] = t
        BY <2>1, <2>3 DEF Known, tag, head
  <2> QED
      BY <1>13, <2>1, <2>4, <2>5 DEF JudgeFailure, Known, KnownVerdict, hub
<1>14. ASSUME HandlerFails \/ Exit PROVE Known'
  <2>1. /\ UNCHANGED <<made, subject, tagAt, ci, bumped, rel>> /\ calls' \subseteq calls
        /\ at' = "idle" /\ inbox' \subseteq inbox \cup {event}
        /\ at = "idle" => inbox' = inbox
        BY <1>14 DEF HandlerFails, Exit, Finish, Rest, hub
  <2> QED
      BY <2>1, WriteKnown
<1>15. CASE UNCHANGED vars
  <2>1. /\ UNCHANGED <<made, subject, tagAt, ci, bumped, rel, calls, inbox, at, event>>
        BY <1>15 DEF vars, hub, tables, handler, history
  <2> QED
      BY <2>1, WriteKnown
<1> QED
    BY <1>1, <1>2, <1>3, <1>4, <1>5, <1>6, <1>7, <1>8, <1>9, <1>10, <1>11, <1>12,
       <1>13, <1>14, <1>15
       DEF Next, GitHub, Judgement, Round, Retag
-----------------------------------------------------------------------------
(* What the steps leave alone.                                             *)

\* GitHub's side, and a push by release_retag, change no table but the queue,
\* to which they add, and a tag only moves to a commit nobody has seen.
Beside ==
    /\ UNCHANGED <<rel, older, at, event, active, bumped, givenUp, torn, late>>
    /\ inbox \subseteq inbox'
    /\ \A c \in Commit : c <= made => subject'[c] = subject[c]
    /\ \A t \in Tag : tagAt'[t] = tagAt[t] \/ tagAt'[t] = made + 1
    /\ made \in Nat

\* A step of GitHub leaves the table and the handler alone.
LEMMA GitHubBeside ==
    ASSUME TypeOK, GitHub
    PROVE  Beside
<1>1. made \in Nat /\ \A c \in Commit : c \in Nat
      BY DEF TypeOK, Commit
<1>2. ASSUME NEW s \in Tag \cup {None}, Commits(s)
      PROVE  \A c \in Commit : c <= made => subject'[c] = subject[c]
  <2>1. \A c \in Commit : c # made + 1 => subject'[c] = subject[c]
        BY <1>2, CommitsAdd
  <2> QED
      BY <1>1, <2>1
<1>3. ASSUME NEW t \in Tag, CutRelease(t) \/ MoveTag(t) PROVE Beside
  <2>1. Commits(t) /\ UNCHANGED <<tables, handler, mishaps, history>>
        BY <1>3 DEF CutRelease, MoveTag
  <2>2. \A u \in Tag : tagAt'[u] = tagAt[u] \/ tagAt'[u] = made + 1
        BY <1>3 DEF CutRelease, MoveTag, TypeOK
  <2>3. \A c \in Commit : c <= made => subject'[c] = subject[c]
        BY <1>2, <2>1
  <2> QED
      BY <1>1, <2>1, <2>2, <2>3 DEF Beside, tables, handler, history
<1>4. ASSUME PushToMain PROVE Beside
      BY <1>1, <1>2, <1>4 DEF PushToMain, Beside, tables, handler, history
<1>5. ASSUME NEW c \in Commit, NEW w \in Workflow, NEW x \in Conclusion, Conclude(c, w, x)
      PROVE  Beside
      BY <1>1, <1>5 DEF Conclude, Beside, handler, history
<1>6. ASSUME NEW c \in Commit, NEW w \in Workflow, Rerun(c, w) PROVE Beside
      BY <1>1, <1>6 DEF Rerun, Beside, tables, handler, history
<1> QED
    BY <1>3, <1>4, <1>5, <1>6 DEF GitHub

\* A push leaves the table and the handler alone.
LEMMA PushBeside ==
    ASSUME TypeOK, NEW k \in calls, NEW s \in Tag, Push(k, s)
    PROVE  Beside
<1>1. made \in Nat /\ \A c \in Commit : c \in Nat
      BY DEF TypeOK, Commit
<1>2. \A c \in Commit : c # made + 1 => subject'[c] = subject[c]
      BY CommitsAdd DEF Push
<1>3. \A c \in Commit : c <= made => subject'[c] = subject[c]
      BY <1>1, <1>2
<1>4. \A t \in Tag : tagAt'[t] = tagAt[t] \/ tagAt'[t] = made + 1
      BY DEF Push, TypeOK
<1> QED
    BY <1>1, <1>3, <1>4 DEF Push, Beside, tables, history

\* What the handler works on is the same when only commits were added.
LEMMA SameTag ==
    ASSUME TypeOK, Known, at # "idle", event' = event,
           \A c \in Commit : c <= made => subject'[c] = subject[c]
    PROVE  head' = head /\ tag' = tag
BY Serves DEF head, tag

\* Moving to another step of the handler keeps the delivery it serves.
LEMMA GotoKeeps ==
    ASSUME NEW s, Goto(s), UNCHANGED hub
    PROVE  /\ at' = s /\ event' = event /\ active' = active /\ calls' = calls
           /\ head' = head /\ tag' = tag
BY DEF Goto, hub, head, tag

-----------------------------------------------------------------------------
(* What the handler relies on.                                             *)

\* A handler that is finished serves nobody, and so is right about whom it serves.
LEMMA FinishServes ==
    ASSUME Finish
    PROVE  Serving'
BY DEF Finish, Rest, Serving

\* Every step keeps what the handler read when it began in step with the table.
LEMMA ServingStep ==
    ASSUME TypeOK, Known, Serving, [Next]_vars
    PROVE  Serving'
<1>1. ASSUME Beside PROVE Serving'
  <2>1. at # "idle" => head' = head /\ tag' = tag
        BY <1>1, SameTag DEF Beside
  <2> QED
      BY <1>1, <2>1 DEF Beside, Serving, IsActive
<1>2. ASSUME NEW k \in calls, PushFails(k) \/ RecordSha(k) \/ RecordState(k)
      PROVE  Serving'
  <2>1. /\ UNCHANGED <<hub, at, event, active>> /\ head' = head /\ tag' = tag
        /\ rel' # rel => at # "supersede"
        BY <1>2 DEF PushFails, RecordSha, RecordState, MayRecord, hub, tables, head, tag
  <2>2. \A t \in Tag : /\ IsActive(t) => rel'[t].state \in {"awaiting_ci", "fixing"}
                       /\ rel[t].state # "none" => rel'[t].state # "none"
                       /\ rel'[t].failed = rel[t].failed
                       /\ rel'[t].state = "fixing" => rel[t].state = "fixing"
    <3>1. CASE PushFails(k)
          BY <3>1 DEF PushFails, tables, IsActive
    <3>2. CASE RecordSha(k)
          BY <3>2, RecordShaWrites DEF Written, IsActive
    <3>3. CASE RecordState(k)
          BY <3>3, RecordStateWrites DEF Written, IsActive
    <3> QED
        BY <1>2, <3>1, <3>2, <3>3
  <2>3. at # "idle" => tag \in Tag
        BY Serves
  <2> QED
      BY <2>1, <2>2, <2>3 DEF Serving, IsActive
<1>3. ASSUME Claim PROVE Serving'
      BY <1>3 DEF Claim, Serving
<1>4. ASSUME ReadTag \/ SkipTerminal \/ HandlerFails \/ Exit PROVE Serving'
  <2>1. at' \in {"idle", "create"}
        BY <1>4 DEF ReadTag, SkipTerminal, HandlerFails, Exit, Goto, Finish, Rest
  <2> QED
      BY <2>1 DEF Serving
<1>5. ASSUME Create PROVE Serving'
  <2>1. at' = "supersede" /\ tag' = tag /\ tag \in Tag /\ rel \in [Tag -> Release]
        BY <1>5, Serves DEF Create, hub, tag, TypeOK
  <2>2. active' # None => active' \in Tag /\ IsActive(active')
        BY <1>5 DEF Create, Newest, Active, IsActive
  <2>3. rel'[tag].state # "none" /\ \A u \in Tag : IsActive(u) => rel'[u] = rel[u]
        BY <1>5, CreateWrites DEF Written, IsActive
  <2>4. active' # None => rel'[active'].state \in {"awaiting_ci", "fixing"}
        BY <2>2, <2>3 DEF IsActive
  <2> QED
      BY <2>1, <2>3, <2>4 DEF Serving, IsActive
<1>6. ASSUME Supersede PROVE Serving'
  <2>1. at' = "judge" /\ tag' = tag /\ at = "supersede" /\ tag \in Tag
        BY <1>6, GotoKeeps, Serves DEF Supersede, hub
  <2>2. rel'[tag] = rel[tag]
        BY <1>6, <2>1, SupersedeWrites DEF Written
  <2> QED
      BY <2>1, <2>2 DEF Serving
<1>7. ASSUME JudgeSuccess PROVE Serving'
  <2>1. at' = "runs" /\ tag' = tag /\ event' = event /\ at = "judge" /\ tag \in Tag
        BY <1>7, GotoKeeps, Serves DEF JudgeSuccess
  <2>2. rel'[tag].state = rel[tag].state
        BY <1>7, TakeShaStep DEF Written
  <2>3. IsActive(tag)
        BY <1>7, <2>1, RowTypes
           DEF JudgeSuccess, Decided, Terminal, Serving, IsActive, States, TypeOK
  <2> QED
      BY <1>7, <2>1, <2>2, <2>3 DEF Serving, IsActive, JudgeSuccess
<1>8. ASSUME JudgeIgnored \/ JudgeActionRequired \/ ReadRelease \/ EndRound PROVE Serving'
      BY <1>8, FinishServes DEF JudgeIgnored, JudgeActionRequired, ReadRelease, EndRound
<1>9. ASSUME JudgeFailure PROVE Serving'
  <2>1. at = "judge" /\ tag \in Tag /\ event.conclusion = "failure" /\ UNCHANGED hub
        BY <1>9, Serves DEF JudgeFailure
  <2>2. CASE Finish
        BY <2>2, FinishServes
  <2>3. CASE Goto("workspace") /\ rel'[tag].state = "fixing" /\ rel'[tag].failed = head
    <3>1. at' = "workspace" /\ tag' = tag /\ event' = event /\ head' = head
          BY <2>1, <2>3, GotoKeeps
    <3> QED
        BY <2>1, <2>3, <3>1 DEF Serving, IsActive
  <2> QED
      BY <1>9, <2>2, <2>3, FailureWrites DEF Written, Rounded, Resumed
<1>10. ASSUME ReadRuns PROVE Serving'
  <2>1. CASE Finish
        BY <2>1, FinishServes
  <2>2. CASE Goto("release")
    <3>1. at' = "release" /\ tag' = tag /\ event' = event /\ at = "runs" /\ UNCHANGED rel
          BY <1>10, <2>2, GotoKeeps DEF ReadRuns, tables
    <3> QED
        BY <3>1 DEF Serving, IsActive
  <2> QED
      BY <1>10, <2>1, <2>2 DEF ReadRuns
<1>11. ASSUME PrepareWorkspace PROVE Serving'
  <2>1. CASE Finish
        BY <2>1, FinishServes
  <2>2. CASE Goto("agent") /\ UNCHANGED rel
    <3>1. at' = "agent" /\ tag' = tag /\ event' = event /\ at = "workspace" /\ head' = head
          BY <1>11, <2>2, GotoKeeps DEF PrepareWorkspace
    <3> QED
        BY <2>2, <3>1 DEF Serving, IsActive
  <2> QED
      BY <1>11, <2>1, <2>2, WorkspaceWrites
<1>12. ASSUME CheckTag \/ EndTurn PROVE Serving'
  <2>1. /\ at = "agent" /\ at' \in {"agent", "end"} /\ UNCHANGED <<event, rel, subject>>
        BY <1>12 DEF CheckTag, EndTurn, Goto, hub, tables
  <2>2. tag' = tag /\ head' = head
        BY <2>1 DEF tag, head
  <2> QED
      BY <2>1, <2>2 DEF Serving, IsActive
<1>13. ASSUME Abort PROVE Serving'
  <2>1. /\ at = "agent" /\ at' = "end"
        /\ tag' = tag /\ event' = event /\ head' = head /\ tag \in Tag
        BY <1>13, GotoKeeps, Serves DEF Abort
  <2>2. rel'[tag].state = "failed"
        BY <1>13, AbortWrites DEF Written
  <2> QED
      BY <2>1, <2>2 DEF Serving
<1>14. CASE UNCHANGED vars
  <2>1. tag' = tag /\ head' = head /\ UNCHANGED <<at, event, active, rel>>
        BY <1>14 DEF vars, hub, handler, tables, tag, head
  <2> QED
      BY <2>1 DEF Serving, IsActive
<1> QED
    BY GitHubBeside, PushBeside, <1>1, <1>2, <1>3, <1>4, <1>5, <1>6, <1>7, <1>8, <1>9,
       <1>10, <1>11, <1>12, <1>13, <1>14
       DEF Next, Judgement, Round, Retag

-----------------------------------------------------------------------------
(* One active release.                                                     *)

\* No row becomes active in the step.
NoneWakes == \A t \in Tag : rel'[t].state \in {"awaiting_ci", "fixing"} => IsActive(t)

\* One active release stays one when no row becomes active.
LEMMA SingleStays ==
    ASSUME Single, NoneWakes, UNCHANGED <<torn, late>>, at # "supersede"
    PROVE  Single'
BY DEF Single, NoneWakes, IsActive

\* Every step keeps at most one active release, but for the excused ones.
LEMMA SingleStep ==
    ASSUME TypeOK, Known, Serving, Single, [Next]_vars
    PROVE  Single'
<1>1. ASSUME Beside PROVE Single'
  <2>1. at # "idle" => head' = head /\ tag' = tag
        BY <1>1, SameTag DEF Beside
  <2> QED
      BY <1>1, <2>1 DEF Beside, Single, IsActive
<1>2. ASSUME NEW k \in calls, PushFails(k) PROVE Single'
  <2>1. UNCHANGED <<rel, torn, late, at, active>> /\ tag' = tag
        BY <1>2 DEF PushFails, hub, tables, history, tag
  <2> QED
      BY <2>1 DEF Single, IsActive
<1>3. ASSUME Claim \/ ReadTag \/ SkipTerminal \/ ReadRuns \/ CheckTag
             \/ EndTurn \/ HandlerFails
      PROVE  Single'
  <2>1. UNCHANGED <<rel, torn, late>> /\ at # "supersede"
        BY <1>3 DEF Claim, ReadTag, SkipTerminal, ReadRuns, CheckTag, EndTurn,
                    HandlerFails, tables, history
  <2> QED
      BY <2>1, SingleStays DEF NoneWakes, IsActive
<1>4. ASSUME Create PROVE Single'
  <2>1. /\ at = "create" /\ at' = "supersede" /\ torn' = torn /\ late' = late
        /\ tag' = tag /\ tag \in Tag
        BY <1>4, Serves DEF Create, hub, tag, history
  <2>2. \A u \in Tag : rel'[u].state \in {"awaiting_ci", "fixing"} => IsActive(u) \/ u = tag
        BY <1>4, CreateWrites DEF Written, IsActive
  <2>3. \/ \A u \in Tag : ~IsActive(u)
        \/ active' \in Tag /\ IsActive(active')
        BY <1>4 DEF Create, Newest, Active, IsActive
  <2>4. ~torn /\ ~late => \A t, u \in Tag : IsActive(t) /\ IsActive(u) => t = u
        BY <2>1 DEF Single
  <2> QED
      BY <2>1, <2>2, <2>3, <2>4 DEF Single, IsActive
<1>5. ASSUME Supersede PROVE Single'
  <2>1. at = "supersede" /\ at' = "judge" /\ torn' = torn /\ late' = late
        BY <1>5, GotoKeeps DEF Supersede, hub, history
  <2>2. CASE active \in {None, tag} /\ UNCHANGED rel
        BY <2>1, <2>2, NoneAssumption DEF Single, IsActive
  <2>3. CASE active \in Tag \ {tag} /\ Written(active, "superseded", rel[active].sha, "none")
    <3>1. \A t \in Tag : rel'[t].state \in {"awaiting_ci", "fixing"} => IsActive(t) /\ t # active
          BY <2>3 DEF Written, IsActive
    <3> QED
        BY <2>1, <3>1 DEF Single, IsActive
  <2> QED
      BY <1>5, <2>2, <2>3, SupersedeWrites
<1>6. ASSUME JudgeSuccess \/ JudgeIgnored PROVE Single'
  <2>1. at = "judge" /\ UNCHANGED <<torn, late>>
        BY <1>6 DEF JudgeSuccess, JudgeIgnored, history
  <2>2. NoneWakes
        BY <1>6, TakeShaStep DEF Written, NoneWakes, IsActive
  <2> QED
      BY <2>1, <2>2, SingleStays
<1>7. ASSUME JudgeActionRequired PROVE Single'
  <2>1. at = "judge" /\ UNCHANGED <<torn, late>>
        BY <1>7 DEF JudgeActionRequired, history
  <2>2. NoneWakes
        BY <1>7, ActionRequiredWrites DEF Written, NoneWakes, IsActive
  <2> QED
      BY <2>1, <2>2, SingleStays
<1>8. ASSUME JudgeFailure PROVE Single'
  <2>1. at = "judge" /\ UNCHANGED <<torn, late>> /\ ~Decided /\ tag \in Tag
        BY <1>8, Serves DEF JudgeFailure
  <2>2. IsActive(tag)
        BY <2>1, RowTypes DEF Decided, Terminal, Serving, IsActive, States, TypeOK
  <2>3. NoneWakes
        BY <1>8, <2>2, FailureWrites DEF Written, Rounded, NoneWakes, IsActive
  <2> QED
      BY <2>1, <2>3, SingleStays
<1>9. ASSUME ReadRelease \/ PrepareWorkspace \/ Abort \/ EndRound PROVE Single'
  <2>1. at # "supersede" /\ UNCHANGED <<torn, late>>
        BY <1>9 DEF ReadRelease, PrepareWorkspace, Abort, EndRound, history
  <2>2. NoneWakes
        BY <1>9, ReleaseWrites, WorkspaceWrites, AbortWrites, EndWrites
           DEF Written, NoneWakes, IsActive
  <2> QED
      BY <2>1, <2>2, SingleStays
<1>10. ASSUME NEW k \in calls, RecordSha(k) \/ RecordState(k) PROVE Single'
  <2>1. /\ at # "supersede" /\ torn' = torn
        /\ ~late' => ~late /\ at = "agent" /\ k.tag = tag
        BY <1>10 DEF RecordSha, RecordState, MayRecord, Attended
  <2>2. \A t \in Tag : rel'[t].state \in {"awaiting_ci", "fixing"} => IsActive(t) \/ t = k.tag
        BY <1>10, RecordShaWrites, RecordStateWrites DEF Written, IsActive
  <2>3. at = "agent" => IsActive(tag)
        BY DEF Serving
  <2> QED
      BY <2>1, <2>2, <2>3 DEF Single, IsActive
<1>11. ASSUME Exit PROVE Single'
  <2>1. /\ UNCHANGED rel
        /\ late' = late
        /\ ~torn' => ~torn /\ (at = "supersede" => active \in {None, tag})
        BY <1>11 DEF Exit
  <2> QED
      BY <2>1, NoneAssumption DEF Single, IsActive
<1>12. CASE UNCHANGED vars
  <2>1. tag' = tag /\ UNCHANGED <<at, active, rel, torn, late>>
        BY <1>12 DEF vars, hub, handler, tables, tag, history
  <2> QED
      BY <2>1 DEF Single, IsActive
<1> QED
    BY GitHubBeside, PushBeside, <1>1, <1>2, <1>3, <1>4, <1>5, <1>6, <1>7, <1>8, <1>9,
       <1>10, <1>11, <1>12
       DEF Next, Judgement, Round, Retag

-----------------------------------------------------------------------------
(* No second round for a commit.                                           *)

\* The rows change only so that what they say of a commit stays said, and no
\* row is taken back to "none".
SpokenStays ==
    \A t \in Tag :
        /\ rel'[t].state = "none" => rel[t].state = "none"
        /\ \/ rel'[t].state = rel[t].state /\ rel'[t].failed = rel[t].failed
           \/ rel'[t].state \in Terminal
           \/ ~IsActive(t) /\ rel[t].state \notin Terminal

\* Fresh survives a step that counts no round, moves no tag and leaves no verdict to judge.
LEMMA FreshStays ==
    ASSUME TypeOK, Fresh, SpokenStays, UNCHANGED <<tagAt, bumped, late>>,
           at' \notin {"create", "supersede", "judge"}
    PROVE  Fresh'
<1> SUFFICES ASSUME ~late PROVE Fresh'
    BY DEF Fresh
<1>1. ASSUME NEW t \in Tag, tagAt[t] \in bumped[t]
      PROVE  \/ rel'[t].state \in Terminal
             \/ rel'[t].state = "fixing" /\ rel'[t].failed = tagAt[t]
      BY <1>1 DEF Fresh, SpokenStays, Spoken, IsActive
<1>2. \A t \in Tag : rel'[t].state = "none" => bumped[t] = {}
      BY DEF Fresh, SpokenStays
<1> QED
    BY <1>1, <1>2 DEF Fresh, Spoken

\* Steps of the handler that change no row.
LEMMA IdleRows ==
    ASSUME UNCHANGED rel
    PROVE  SpokenStays
BY DEF SpokenStays

\* A late write is never forgotten.
LEMMA LateStays ==
    ASSUME [Next]_vars, late
    PROVE  late'
<1>1. CASE GitHub
      BY <1>1 DEF GitHub, CutRelease, MoveTag, PushToMain, Conclude, Rerun, history
<1>2. CASE Judgement
      BY <1>2 DEF Judgement, Claim, ReadTag, Create, Supersede, SkipTerminal, JudgeSuccess,
                  JudgeIgnored, JudgeActionRequired, JudgeFailure, ReadRuns, ReadRelease, history
<1>3. CASE Round
      BY <1>3 DEF Round, PrepareWorkspace, CheckTag, Abort, EndTurn, EndRound, history
<1>4. CASE Retag \/ HandlerFails \/ Exit \/ UNCHANGED vars
      BY <1>4 DEF Retag, Push, PushFails, RecordSha, RecordState, HandlerFails, Exit,
                  vars, history
<1> QED
    BY <1>1, <1>2, <1>3, <1>4 DEF Next

\* Every step keeps the commit the handler may count one that was not counted.
LEMMA FreshStep ==
    ASSUME TypeOK, Known, Serving, Fresh, Moved, [Next]_vars
    PROVE  Fresh'
<1> SUFFICES ASSUME ~late PROVE Fresh'
  <2>1. late => late'
        BY LateStays
  <2> QED
      BY <2>1 DEF Fresh
<1>1. ASSUME Beside PROVE Fresh'
  <2>1. /\ UNCHANGED <<at, rel, bumped>> /\ made \in Nat
        /\ at # "idle" => head' = head /\ tag' = tag /\ tag \in Tag
        BY <1>1, SameTag, Serves DEF Beside
  <2>2. \A t \in Tag : tagAt'[t] = tagAt[t] \/ tagAt'[t] \notin bumped[t]
    <3>1. \A t \in Tag : tagAt'[t] = tagAt[t] \/ tagAt'[t] = made + 1
          BY <1>1 DEF Beside
    <3>2. \A t \in Tag : made + 1 \notin bumped[t]
          BY <2>1 DEF Known
    <3> QED
        BY <3>1, <3>2
  <2>3. \A t \in Tag : tagAt'[t] \in bumped[t] => tagAt'[t] = tagAt[t]
        BY <2>2
  <2>4. \A t \in Tag : Spoken(t, tagAt[t]) /\ tagAt'[t] = tagAt[t] => Spoken(t, tagAt[t])'
        BY <2>1 DEF Spoken
  <2>5. \A t \in Tag : (tagAt[t] \in bumped[t])' => Spoken(t, tagAt[t])'
        BY <2>1, <2>3, <2>4 DEF Fresh
  <2>6. at \in {"create", "supersede", "judge"} =>
          /\ head' \in bumped[tag'] => Spoken(tag, head)'
          /\ tagAt'[tag'] = head' \/ tagAt'[tag'] \notin bumped[tag']
        BY <2>1, <2>2 DEF Fresh, Spoken
  <2>7. \A t \in Tag : rel[t].state = "none" => bumped[t] = {}
        BY DEF Fresh
  <2> QED
      BY <2>1, <2>5, <2>6, <2>7 DEF Fresh
<1>2. ASSUME NEW k \in calls, PushFails(k) PROVE Fresh'
  <2>1. UNCHANGED <<rel, tagAt, bumped, at>> /\ tag' = tag /\ head' = head
        BY <1>2 DEF PushFails, hub, tables, history, tag, head
  <2> QED
      BY <2>1 DEF Fresh, Spoken
<1>3. ASSUME Claim \/ SkipTerminal \/ ReadRuns \/ CheckTag
             \/ EndTurn \/ HandlerFails \/ Exit
      PROVE  Fresh'
  <2>1. UNCHANGED <<rel, tagAt, bumped, late>>
        BY <1>3 DEF Claim, SkipTerminal, ReadRuns, CheckTag, EndTurn,
                    HandlerFails, Exit, hub, tables, history
  <2>2. at' \notin {"create", "supersede", "judge"}
        BY <1>3 DEF Claim, SkipTerminal, ReadRuns, CheckTag, EndTurn,
                    HandlerFails, Exit, Goto, Finish, Rest
  <2> QED
      BY <2>1, <2>2, FreshStays, IdleRows
<1>4. ASSUME ReadTag PROVE Fresh'
  <2>1. UNCHANGED <<rel, tagAt, bumped, late>> /\ tag \in Tag
        BY <1>4, Serves DEF ReadTag, hub, tables, history
  <2>2. CASE Finish
        BY <2>1, <2>2, FreshStays, IdleRows DEF Finish, Rest
  <2>3. CASE Goto("create") /\ tagAt[tag] = head
    <3>1. at' = "create" /\ tag' = tag /\ head' = head
          BY <1>4, <2>3, GotoKeeps DEF ReadTag
    <3> QED
        BY <2>1, <2>3, <3>1 DEF Fresh, Spoken
  <2> QED
      BY <1>4, <2>2, <2>3 DEF ReadTag
<1>5. ASSUME Create PROVE Fresh'
  <2>1. /\ UNCHANGED <<tagAt, bumped, late>> /\ at = "create" /\ at' = "supersede"
        /\ tag' = tag /\ head' = head /\ tag \in Tag
        BY <1>5, Serves DEF Create, hub, tag, head, history
  <2>2. CASE UNCHANGED rel
        BY <2>1, <2>2 DEF Fresh, Spoken
  <2>3. CASE rel[tag].state = "none" /\ Written(tag, "awaiting_ci", head, "none")
    <3>1. bumped[tag] = {}
          BY <2>1, <2>3 DEF Fresh
    <3> QED
        BY <2>1, <2>3, <3>1 DEF Fresh, Spoken, Written
  <2> QED
      BY <1>5, <2>2, <2>3, CreateWrites
<1>6. ASSUME Supersede PROVE Fresh'
  <2>1. /\ UNCHANGED <<tagAt, bumped, late>> /\ at = "supersede" /\ at' = "judge"
        /\ tag' = tag /\ head' = head /\ tag \in Tag
        BY <1>6, GotoKeeps, Serves DEF Supersede, hub, history
  <2>2. CASE UNCHANGED rel
        BY <2>1, <2>2 DEF Fresh, Spoken
  <2>3. CASE active \in Tag \ {tag} /\ Written(active, "superseded", rel[active].sha, "none")
    <3>1. rel'[tag] = rel[tag] /\ \A t \in Tag : rel'[t] = rel[t] \/ rel'[t].state = "superseded"
          BY <2>1, <2>3 DEF Written
    <3> QED
        BY <2>1, <3>1 DEF Fresh, Spoken, Terminal
  <2> QED
      BY <1>6, <2>2, <2>3, SupersedeWrites
<1>7. ASSUME JudgeSuccess \/ JudgeIgnored PROVE Fresh'
  <2>1. UNCHANGED <<tagAt, bumped, late>> /\ at' \in {"runs", "idle"}
        BY <1>7 DEF JudgeSuccess, JudgeIgnored, hub, history, Goto, Finish, Rest
  <2>2. SpokenStays
        BY <1>7, TakeShaStep DEF Written, SpokenStays
  <2> QED
      BY <2>1, <2>2, FreshStays
<1>8. ASSUME JudgeActionRequired \/ ReadRelease \/ Abort \/ EndRound PROVE Fresh'
  <2>1. UNCHANGED <<tagAt, bumped, late>> /\ at' \in {"idle", "end"}
        BY <1>8 DEF JudgeActionRequired, ReadRelease, Abort, EndRound,
                    hub, history, Goto, Finish, Rest
  <2>2. SpokenStays
        BY <1>8, ActionRequiredWrites, ReleaseWrites, AbortWrites, EndWrites
           DEF Written, SpokenStays, Terminal
  <2> QED
      BY <2>1, <2>2, FreshStays
<1>9. ASSUME JudgeFailure PROVE Fresh'
  <2>1. /\ UNCHANGED <<hub, late>> /\ at = "judge" /\ tag \in Tag
        /\ rel[tag].state # "none" /\ ~Decided
        BY <1>9, Serves DEF JudgeFailure, Serving
  <2>2. CASE Resumed /\ Goto("workspace") /\ UNCHANGED bumped
             /\ Written(tag, rel[tag].state, head, rel[tag].error)
    <3>1. SpokenStays
          BY <2>2 DEF Written, SpokenStays
    <3> QED
        BY <2>1, <2>2, <3>1, FreshStays DEF Goto, hub
  <2>3. CASE Finish /\ UNCHANGED bumped /\ Written(tag, "failed", head, "round cap")
    <3>1. SpokenStays
          BY <2>3 DEF Written, SpokenStays, Terminal
    <3> QED
        BY <2>1, <2>3, <3>1, FreshStays DEF Finish, Rest, hub
  <2>4. CASE Goto("workspace") /\ Rounded(tag, head)
             /\ bumped' = [bumped EXCEPT ![tag] = bumped[tag] \cup {head}]
    <3>1. at' = "workspace" /\ tagAt' = tagAt
          BY <2>1, <2>4 DEF Goto, hub
    <3>2. /\ bumped'[tag] = bumped[tag] \cup {head}
          /\ \A t \in Tag : t # tag => bumped'[t] = bumped[t] /\ rel'[t] = rel[t]
          BY <2>1, <2>4 DEF TypeOK, Rounded
    <3>3. tagAt[tag] \in bumped'[tag] => tagAt[tag] = head
          BY <2>1, <3>2 DEF Fresh
    <3>4. rel'[tag].state = "fixing" /\ rel'[tag].failed = head
          BY <2>4 DEF Rounded
    <3> QED
        BY <3>1, <3>2, <3>3, <3>4 DEF Fresh, Spoken
  <2> QED
      BY <1>9, <2>2, <2>3, <2>4, FailureWrites
<1>10. ASSUME PrepareWorkspace PROVE Fresh'
  <2>1. UNCHANGED <<tagAt, bumped, late>> /\ at' \in {"idle", "agent"}
        BY <1>10 DEF PrepareWorkspace, hub, history, Goto, Finish, Rest
  <2>2. SpokenStays
        BY <1>10, WorkspaceWrites DEF Written, SpokenStays, Terminal
  <2> QED
      BY <2>1, <2>2, FreshStays
<1>11. ASSUME NEW k \in calls, RecordSha(k) PROVE Fresh'
  <2> SUFFICES ASSUME ~late' PROVE Fresh'
      BY DEF Fresh
  <2>0. late \in BOOLEAN /\ late' = (late \/ ~Attended(k))
        BY <1>11 DEF RecordSha, TypeOK
  <2>1. UNCHANGED <<tagAt, bumped>> /\ late' = late /\ at' = "agent"
    <3>1. late' = late /\ Attended(k)
          BY <2>0, Zenon
    <3> QED
        BY <1>11, <3>1 DEF RecordSha, Attended, hub
  <2>2. SpokenStays
        BY <1>11, RecordShaWrites DEF Written, SpokenStays
  <2> QED
      BY <2>1, <2>2, FreshStays
<1>12. ASSUME NEW k \in calls, RecordState(k) PROVE Fresh'
  <2> SUFFICES ASSUME ~late' PROVE Fresh'
      BY DEF Fresh
  <2>0. Attended(k)
        BY <1>12 DEF RecordState
  <2>1. /\ UNCHANGED <<tagAt, bumped>> /\ at = "agent" /\ at' = "agent" /\ tag' = tag
        /\ k.tag = tag /\ k.head = head /\ k.step = "recorded" /\ tag \in Tag
        BY <1>12, <2>0, Serves DEF RecordState, Attended, hub, tag
  <2>2. Written(tag, "awaiting_ci", rel[tag].sha, "none")
        BY <1>12, <2>1, RecordStateWrites
  <2>3. tagAt[tag] # head
        BY <2>1 DEF Moved
  <2>4. tagAt[tag] \notin bumped[tag]
        BY <2>1, <2>3 DEF Fresh, Spoken, Serving, IsActive, Terminal
  <2> QED
      BY <2>1, <2>2, <2>4 DEF Fresh, Spoken, Written
<1>13. CASE UNCHANGED vars
  <2>1. tag' = tag /\ head' = head /\ UNCHANGED <<at, rel, tagAt, bumped, late>>
        BY <1>13 DEF vars, hub, handler, tables, history, tag, head
  <2> QED
      BY <2>1 DEF Fresh, Spoken
<1> QED
    BY GitHubBeside, PushBeside, <1>1, <1>2, <1>3, <1>4, <1>5, <1>6, <1>7, <1>8, <1>9,
       <1>10, <1>11, <1>12, <1>13
       DEF Next, Judgement, Round, Retag

\* Every step keeps what is known of a tag that moved on.
LEMMA MovedStep ==
    ASSUME TypeOK, Known, Moved, [Next]_vars
    PROVE  Moved'
<1>1. ASSUME GitHub PROVE Moved'
  <2>1. /\ UNCHANGED calls /\ made \in Nat
        /\ \A t \in Tag : tagAt'[t] = tagAt[t] \/ tagAt'[t] = made + 1
        BY <1>1, GitHubBeside
           DEF Beside, GitHub, CutRelease, MoveTag, PushToMain, Conclude, Rerun, handler
  <2>2. \A k \in calls : k.tag \in Tag /\ k.head # made + 1
        BY <2>1, CallTypes, CommitsNumbers DEF Known, Commit
  <2> QED
      BY <2>1, <2>2 DEF Moved
<1>2. ASSUME NEW k \in calls,
             \/ \E s \in Tag : Push(k, s)
             \/ PushFails(k) \/ RecordSha(k) \/ RecordState(k)
      PROVE  Moved'
  <2>1. /\ made \in Nat
        /\ \A t \in Tag : tagAt'[t] = tagAt[t] \/ tagAt'[t] = made + 1
        BY <1>2, PushBeside DEF Beside, PushFails, RecordSha, RecordState, hub, TypeOK, Commit
  <2>2. \A j \in calls : j.tag \in Tag /\ j.head # made + 1
        BY <2>1, CallTypes, CommitsNumbers DEF Known, Commit
  <2>3. \A j \in calls : j.step # "checked" => tagAt'[j.tag] # j.head
        BY <2>1, <2>2 DEF Moved
  <2> QED
      BY <1>2, <2>2, <2>3, CallsStep DEF Moved
<1>3. CASE Judgement
      BY <1>3 DEF Judgement, Claim, ReadTag, Create, Supersede, SkipTerminal, JudgeSuccess,
                  JudgeIgnored, JudgeActionRequired, JudgeFailure, ReadRuns, ReadRelease,
                  Goto, Finish, hub, Moved
<1>4. ASSUME PrepareWorkspace \/ Abort \/ EndTurn \/ EndRound \/ HandlerFails \/ Exit
             \/ UNCHANGED vars
      PROVE  Moved'
  <2>1. calls' \subseteq calls /\ UNCHANGED tagAt
        BY <1>4 DEF PrepareWorkspace, Abort, EndTurn, EndRound, HandlerFails, Exit, Goto,
                    Finish, vars, handler, hub
  <2> QED
      BY <2>1 DEF Moved
<1>5. CASE CheckTag
      BY <1>5 DEF CheckTag, Moved, hub
<1> QED
    BY <1>1, <1>2, <1>3, <1>4, <1>5 DEF Next, Round, Retag

-----------------------------------------------------------------------------
(* The rounds and their cap.                                               *)

\* No round begins, and no row comes to speak of the cap.
NoneCounts ==
    /\ bumped' = bumped /\ late' = late
    /\ \A t \in Tag : rel'[t] = rel[t]
                      \/ (rel'[t].rounds = rel[t].rounds /\ rel'[t].error # "round cap")

\* Rounds stay counted when neither rounds nor their history change.
LEMMA CountedStays ==
    ASSUME Counted, NoneCounts
    PROVE  Counted'
BY DEF Counted, NoneCounts

\* A commit that starts a round has not started one before.
LEMMA RoundIsNew ==
    ASSUME Fresh, ~late, tag \in Tag, at = "judge", ~Decided, ~Resumed
    PROVE  head \notin bumped[tag]
BY DEF Fresh, Spoken, Decided, Resumed

\* Every step keeps rounds counted.
LEMMA CountedStep ==
    ASSUME TypeOK, Known, Serving, Fresh, Counted, [Next]_vars
    PROVE  Counted'
<1> SUFFICES ASSUME ~late PROVE Counted'
  <2>1. late => late'
        BY LateStays
  <2> QED
      BY <2>1 DEF Counted
<1>1. ASSUME Beside PROVE Counted'
      BY <1>1 DEF Beside, Counted
<1>2. ASSUME NEW k \in calls, PushFails(k) PROVE Counted'
      BY <1>2 DEF PushFails, Counted, tables, history
<1>3. ASSUME Claim \/ ReadTag \/ SkipTerminal \/ ReadRuns \/ CheckTag
             \/ EndTurn \/ HandlerFails \/ Exit \/ UNCHANGED vars
      PROVE  Counted'
  <2>1. UNCHANGED <<rel, bumped, late>>
        BY <1>3 DEF Claim, ReadTag, SkipTerminal, ReadRuns, CheckTag, EndTurn,
                    HandlerFails, Exit, vars, tables, history
  <2> QED
      BY <2>1, CountedStays DEF NoneCounts
<1>4. ASSUME Create PROVE Counted'
  <2>1. bumped' = bumped /\ late' = late
        BY <1>4 DEF Create, history
  <2>2. NoneCounts
        BY <1>4, <2>1, CreateWrites DEF Written, NoneCounts
  <2> QED
      BY <2>2, CountedStays
<1>5. ASSUME Supersede PROVE Counted'
  <2>1. bumped' = bumped /\ late' = late
        BY <1>5 DEF Supersede, history
  <2>2. NoneCounts
        BY <1>5, <2>1, SupersedeWrites DEF Written, NoneCounts
  <2> QED
      BY <2>2, CountedStays
<1>6. ASSUME JudgeSuccess \/ JudgeIgnored PROVE Counted'
  <2>1. bumped' = bumped /\ late' = late /\ ~Decided /\ tag \in Tag
        BY <1>6, Serves DEF JudgeSuccess, JudgeIgnored, history
  <2>2. rel[tag].error # "round cap"
        BY <2>1 DEF Counted, Decided
  <2>3. NoneCounts
        BY <1>6, <2>1, <2>2, TakeShaStep DEF Written, NoneCounts
  <2> QED
      BY <2>3, CountedStays
<1>7. ASSUME JudgeActionRequired \/ ReadRelease \/ PrepareWorkspace \/ Abort
             \/ EndRound
      PROVE  Counted'
  <2>1. bumped' = bumped /\ late' = late
        BY <1>7 DEF JudgeActionRequired, ReadRelease, PrepareWorkspace,
                    Abort, EndRound, history
  <2>2. UNCHANGED rel \/ \E s, e : e # "round cap" /\ Written(tag, s, rel'[tag].sha, e)
    <3>1. CASE JudgeActionRequired
          BY <3>1, ActionRequiredWrites DEF Written
    <3>2. CASE ReadRelease \/ Abort
          BY <3>2, ReleaseWrites, AbortWrites DEF Written
    <3>3. CASE PrepareWorkspace \/ EndRound
          BY <3>3, WorkspaceWrites, EndWrites DEF Written
    <3> QED
        BY <1>7, <3>1, <3>2, <3>3
  <2>3. NoneCounts
        BY <2>1, <2>2 DEF NoneCounts, Written
  <2> QED
      BY <2>3, CountedStays
<1>8. ASSUME NEW k \in calls, RecordSha(k) \/ RecordState(k) PROVE Counted'
  <2> SUFFICES ASSUME ~late' PROVE Counted'
      BY DEF Counted
  <2>1. Attended(k) /\ bumped' = bumped
        BY <1>8 DEF RecordSha, RecordState
  <2>2. rel[k.tag].error # "round cap" /\ k.tag \in Tag
        BY <2>1, CallTypes DEF Attended, Counted, Serving, IsActive, Terminal
  <2>3. \A t \in Tag : rel'[t] = rel[t]
                       \/ (rel'[t].rounds = rel[t].rounds /\ rel'[t].error # "round cap")
        BY <1>8, <2>2, RecordShaWrites, RecordStateWrites DEF Written
  <2> QED
      BY <2>1, <2>3 DEF Counted
<1>9. ASSUME JudgeFailure PROVE Counted'
  <2>1. at = "judge" /\ tag \in Tag /\ ~Decided /\ late' = late
        BY <1>9, Serves DEF JudgeFailure
  <2>2. CASE UNCHANGED bumped /\ Written(tag, rel[tag].state, head, rel[tag].error)
    <3>1. rel[tag].error # "round cap"
          BY <2>1 DEF Counted, Decided
    <3>2. NoneCounts
          BY <2>1, <2>2, <3>1 DEF Written, NoneCounts
    <3> QED
        BY <3>2, CountedStays
  <2>3. CASE /\ ~Resumed /\ Rounded(tag, head)
             /\ bumped' = [bumped EXCEPT ![tag] = bumped[tag] \cup {head}]
    <3>1. head \notin bumped[tag]
          BY <2>1, <2>3, RoundIsNew
    <3>2. IsFiniteSet(bumped[tag])
      <4>1. IsFiniteSet(Commit)
            BY CommitsNumbers, FS_Interval DEF Commit
      <4> QED
          BY <2>1, <4>1, FS_Subset DEF TypeOK
    <3>3. Cardinality(bumped[tag] \cup {head}) = Cardinality(bumped[tag]) + 1
          BY <3>1, <3>2, FS_AddElement
    <3>4. /\ bumped'[tag] = bumped[tag] \cup {head}
          /\ \A t \in Tag : t # tag => bumped'[t] = bumped[t] /\ rel'[t] = rel[t]
          BY <2>1, <2>3 DEF TypeOK, Rounded
    <3>5. rel'[tag].rounds = Cardinality(bumped'[tag]) /\ rel'[tag].error # "round cap"
          BY <2>1, <2>3, <3>3, <3>4 DEF Rounded, Counted
    <3> QED
        BY <2>1, <3>4, <3>5 DEF Counted
  <2>4. CASE /\ ~Resumed /\ UNCHANGED bumped /\ rel[tag].rounds = MaxRounds
             /\ Written(tag, "failed", head, "round cap")
    <3>1. head \notin bumped[tag]
          BY <2>1, <2>4, RoundIsNew
    <3> QED
        BY <2>1, <2>4, <3>1 DEF Counted, Written, Terminal
  <2> QED
      BY <1>9, <2>2, <2>3, <2>4, FailureWrites
<1> QED
    BY GitHubBeside, PushBeside, <1>1, <1>2, <1>3, <1>4, <1>5, <1>6, <1>7, <1>8, <1>9
       DEF Next, Judgement, Round, Retag

-----------------------------------------------------------------------------
(* Whose a repair is.                                                      *)

FailureOf(e, c) == e.sha = c /\ e.conclusion = "failure"

\* RepairIsTended, with the verdict spelled FailureOf.
LEMMA Tending ==
    RepairIsTended <=>
        \A t \in Tag : rel[t].state = "fixing" =>
            \/ at # "idle" /\ FailureOf(event, rel[t].failed)
            \/ \E e \in inbox : FailureOf(e, rel[t].failed)
            \/ tagAt[t] # rel[t].failed
            \/ rel[t].failed \in givenUp
BY DEF RepairIsTended, FailureOf

\* The same, in the next state.
LEMMA TendingNext ==
    RepairIsTended' <=>
        \A t \in Tag : rel'[t].state = "fixing" =>
            \/ at' # "idle" /\ FailureOf(event', rel'[t].failed)
            \/ \E e \in inbox' : FailureOf(e, rel'[t].failed)
            \/ tagAt'[t] # rel'[t].failed
            \/ rel'[t].failed \in givenUp'
BY DEF RepairIsTended, FailureOf

\* No repair begins in the step.
NoneBreaks ==
    \A t \in Tag : rel'[t].state = "fixing" =>
        rel[t].state = "fixing" /\ rel'[t].failed = rel[t].failed

\* The handler goes on.
LEMMA TendedOn ==
    ASSUME RepairIsTended, NoneBreaks, UNCHANGED <<tagAt, inbox, givenUp, event>>, at' # "idle"
    PROVE  RepairIsTended'
BY Tending, TendingNext DEF NoneBreaks

\* The handler ends, and leaves no repair of its own behind.
LEMMA TendedOff ==
    ASSUME TypeOK, Known, RepairIsTended, NoneBreaks, UNCHANGED <<tagAt, inbox, givenUp>>,
           at # "idle",
           \/ event.conclusion # "failure"
           \/ rel'[tag].state # "fixing"
           \/ tagAt[tag] # head
    PROVE  RepairIsTended'
<1> SUFFICES ASSUME NEW t \in Tag, rel'[t].state = "fixing"
             PROVE  \/ \E e \in inbox : FailureOf(e, rel[t].failed)
                    \/ tagAt[t] # rel[t].failed
                    \/ rel[t].failed \in givenUp
    BY TendingNext DEF NoneBreaks
<1>1. rel[t].state = "fixing"
      BY DEF NoneBreaks
<1>2. CASE FailureOf(event, rel[t].failed)
  <2>1. event.sha = rel[t].failed /\ event.conclusion = "failure"
        BY <1>2 DEF FailureOf
  <2>2. rel[t].failed # NoCommit
        BY <2>1, Serves, CommitsNumbers DEF head
  <2>3. tag = t /\ head = rel[t].failed
        BY <2>1, <2>2 DEF Known, tag, head
  <2> QED
      BY <2>1, <2>3
<1>3. CASE ~FailureOf(event, rel[t].failed)
      BY <1>1, <1>3, Tending
<1> QED
    BY <1>2, <1>3

\* Every step keeps the releases under repair tended.
LEMMA TendedStep ==
    ASSUME TypeOK, Known, Serving, RepairIsTended, [Next]_vars
    PROVE  RepairIsTended'
<1>1. ASSUME Beside PROVE RepairIsTended'
  <2>1. /\ UNCHANGED <<at, event, rel, givenUp>> /\ inbox \subseteq inbox' /\ made \in Nat
        /\ \A t \in Tag : tagAt'[t] = tagAt[t] \/ tagAt'[t] = made + 1
        BY <1>1 DEF Beside
  <2>2. \A t \in Tag : rel[t].failed # made + 1
        BY <2>1 DEF Known, NoCommit
  <2> QED
      BY <2>1, <2>2, Tending, TendingNext
<1>2. ASSUME NEW k \in calls, PushFails(k) \/ RecordSha(k) \/ RecordState(k)
      PROVE  RepairIsTended'
  <2>1. UNCHANGED <<tagAt, inbox, givenUp, event, at>>
        BY <1>2 DEF PushFails, RecordSha, RecordState, hub, tables, history
  <2>2. NoneBreaks
    <3>1. CASE PushFails(k)
          BY <3>1 DEF PushFails, tables, NoneBreaks
    <3>2. CASE RecordSha(k) \/ RecordState(k)
          BY <3>2, RecordShaWrites, RecordStateWrites DEF Written, NoneBreaks
    <3> QED
        BY <1>2, <3>1, <3>2
  <2> QED
      BY <2>1, <2>2, Tending, TendingNext DEF NoneBreaks
<1>3. ASSUME Claim PROVE RepairIsTended'
  <2>1. /\ UNCHANGED <<rel, tagAt, givenUp>> /\ at = "idle" /\ at' = "tag"
        /\ event' \in inbox /\ inbox' = inbox \ {event'}
        BY <1>3 DEF Claim, hub, history
  <2> QED
      BY <2>1, Tending, TendingNext
<1>4. ASSUME ReadTag PROVE RepairIsTended'
  <2>1. UNCHANGED <<rel, tagAt, inbox, givenUp>> /\ at = "tag"
        BY <1>4 DEF ReadTag, hub, tables, history
  <2>2. NoneBreaks
        BY <2>1 DEF NoneBreaks
  <2>3. CASE tagAt[tag] = head
        BY <1>4, <2>1, <2>2, <2>3, TendedOn DEF ReadTag, Goto
  <2>4. CASE tagAt[tag] # head
        BY <2>1, <2>2, <2>4, TendedOff
  <2> QED
      BY <2>3, <2>4
<1>5. ASSUME SkipTerminal PROVE RepairIsTended'
  <2>1. UNCHANGED <<rel, tagAt, inbox, givenUp>> /\ at = "judge" /\ rel[tag].state # "fixing"
        BY <1>5 DEF SkipTerminal, Decided, Terminal, hub, tables, history
  <2>2. NoneBreaks
        BY <2>1 DEF NoneBreaks
  <2> QED
      BY <2>1, <2>2, TendedOff
<1>6. ASSUME CheckTag \/ EndTurn PROVE RepairIsTended'
  <2>1. UNCHANGED <<rel, tagAt, inbox, givenUp, event>> /\ at' # "idle"
        BY <1>6 DEF CheckTag, EndTurn, Goto, hub, tables, history
  <2> QED
      BY <2>1, TendedOn DEF NoneBreaks
<1>7. ASSUME Create \/ Supersede \/ Abort PROVE RepairIsTended'
  <2>1. UNCHANGED <<tagAt, inbox, givenUp, event>> /\ at' # "idle"
        BY <1>7 DEF Create, Supersede, Abort, Goto, hub, history
  <2>2. NoneBreaks
        BY <1>7, CreateWrites, SupersedeWrites, AbortWrites DEF Written, NoneBreaks
  <2> QED
      BY <2>1, <2>2, TendedOn
<1>8. ASSUME JudgeSuccess \/ JudgeIgnored PROVE RepairIsTended'
  <2>1. /\ UNCHANGED <<tagAt, inbox, givenUp>> /\ at = "judge"
        /\ event.conclusion # "failure"
        BY <1>8 DEF JudgeSuccess, JudgeIgnored, hub, history
  <2>2. NoneBreaks
        BY <1>8, TakeShaStep DEF Written, NoneBreaks
  <2> QED
      BY <2>1, <2>2, TendedOff
<1>9. ASSUME JudgeActionRequired \/ ReadRelease PROVE RepairIsTended'
  <2>1. UNCHANGED <<tagAt, inbox, givenUp>> /\ at # "idle"
        BY <1>9 DEF JudgeActionRequired, ReadRelease, hub, history
  <2>2. NoneBreaks /\ rel'[tag].state # "fixing"
        BY <1>9, ActionRequiredWrites, ReleaseWrites DEF Written, NoneBreaks
  <2> QED
      BY <2>1, <2>2, TendedOff
<1>10. ASSUME ReadRuns PROVE RepairIsTended'
  <2>1. UNCHANGED <<rel, tagAt, inbox, givenUp>> /\ at = "runs"
        BY <1>10 DEF ReadRuns, hub, tables, history
  <2>2. NoneBreaks /\ event.conclusion # "failure"
        BY <2>1 DEF NoneBreaks, Serving
  <2> QED
      BY <2>1, <2>2, TendedOff
<1>11. ASSUME JudgeFailure PROVE RepairIsTended'
  <2>1. /\ UNCHANGED <<tagAt, inbox, givenUp>> /\ at = "judge"
        /\ tag \in Tag /\ event.conclusion = "failure"
        BY <1>11, Serves DEF JudgeFailure, hub
  <2>2. CASE Goto("workspace") /\ Written(tag, rel[tag].state, head, rel[tag].error)
    <3>1. NoneBreaks
          BY <2>2 DEF Written, NoneBreaks
    <3> QED
        BY <2>1, <2>2, <3>1, TendedOn DEF Goto
  <2>3. CASE Goto("workspace") /\ Rounded(tag, head)
    <3>1. at' # "idle" /\ event' = event /\ FailureOf(event, head)
          BY <2>1, <2>3 DEF Goto, FailureOf, head
    <3>2. \A t \in Tag : t # tag => rel'[t] = rel[t]
          BY <2>3 DEF Rounded
    <3>3. rel'[tag].failed = head
          BY <2>3 DEF Rounded
    <3> QED
        BY <2>1, <3>1, <3>2, <3>3, Tending, TendingNext
  <2>4. CASE Written(tag, "failed", head, "round cap")
    <3>1. NoneBreaks /\ rel'[tag].state # "fixing"
          BY <2>4 DEF Written, NoneBreaks
    <3> QED
        BY <2>1, <3>1, TendedOff
  <2> QED
      BY <1>11, <2>2, <2>3, <2>4, FailureWrites
<1>12. ASSUME PrepareWorkspace PROVE RepairIsTended'
  <2>1. UNCHANGED <<tagAt, inbox, givenUp>> /\ at = "workspace"
        BY <1>12 DEF PrepareWorkspace, hub, history
  <2>2. CASE Goto("agent") /\ UNCHANGED rel
        BY <2>1, <2>2, TendedOn DEF NoneBreaks, Goto
  <2>3. CASE Written(tag, "failed", rel[tag].sha, "other")
    <3>1. NoneBreaks /\ rel'[tag].state # "fixing"
          BY <2>3 DEF Written, NoneBreaks
    <3> QED
        BY <2>1, <3>1, TendedOff
  <2> QED
      BY <1>12, <2>2, <2>3, WorkspaceWrites
<1>13. ASSUME EndRound PROVE RepairIsTended'
  <2>1. UNCHANGED <<tagAt, inbox, givenUp>> /\ at = "end"
        BY <1>13 DEF EndRound, hub, history
  <2>2. NoneBreaks /\ rel'[tag].state # "fixing"
        BY <1>13, EndWrites DEF Written, NoneBreaks
  <2> QED
      BY <2>1, <2>2, TendedOff
<1>14. ASSUME HandlerFails PROVE RepairIsTended'
  <2>1. /\ UNCHANGED <<rel, tagAt>>
        /\ \/ inbox' = inbox \cup {event} /\ UNCHANGED givenUp
           \/ givenUp' = givenUp \cup {head} /\ UNCHANGED inbox
        BY <1>14 DEF HandlerFails, hub
  <2> QED
      BY <2>1, Tending, TendingNext DEF FailureOf, head
<1>15. ASSUME Exit PROVE RepairIsTended'
  <2>1. /\ UNCHANGED <<rel, tagAt, givenUp>> /\ inbox \subseteq inbox'
        /\ at # "idle" => event \in inbox'
        BY <1>15 DEF Exit, hub
  <2> QED
      BY <2>1, Tending, TendingNext
<1>16. CASE UNCHANGED vars
  <2>1. UNCHANGED <<rel, tagAt, givenUp, inbox, at, event>>
        BY <1>16 DEF vars, hub, handler, tables, history
  <2> QED
      BY <2>1, Tending, TendingNext
<1> QED
    BY GitHubBeside, PushBeside, <1>1, <1>2, <1>3, <1>4, <1>5, <1>6, <1>7, <1>8, <1>9,
       <1>10, <1>11, <1>12, <1>13,
       <1>14, <1>15, <1>16
       DEF Next, Judgement, Round, Retag

-----------------------------------------------------------------------------
(* What a release waits for.                                               *)

\* The handler writes rows of releases that are not decided only, and so does a
\* call of release_retag in its turn.
LEMMA DecidedStays ==
    ASSUME TypeOK, Known, Serving, [Next]_vars, NEW t \in Tag, rel[t].state \in Terminal
    PROVE  \/ rel'[t] = rel[t]
           \/ \E k \in calls : /\ k.tag = t /\ ~Attended(k)
                               /\ RecordSha(k) \/ RecordState(k)
<1>1. CASE Beside
      BY <1>1 DEF Beside
<1>2. ASSUME NEW k \in calls, RecordSha(k) \/ RecordState(k)
      PROVE  rel'[t] = rel[t] \/ (k.tag = t /\ ~Attended(k))
  <2>1. k.tag # t => rel'[t] = rel[t]
        BY <1>2, RecordShaWrites, RecordStateWrites DEF Written
  <2>2. Attended(k) => IsActive(k.tag)
        BY DEF Attended, Serving
  <2>3. IsActive(k.tag) => k.tag # t
        BY DEF IsActive, Terminal
  <2> QED
      BY <2>1, <2>2, <2>3
<1>3. CASE \/ Claim \/ ReadTag \/ SkipTerminal \/ ReadRuns \/ CheckTag
           \/ EndTurn \/ HandlerFails \/ Exit \/ UNCHANGED vars
           \/ \E k \in calls : PushFails(k)
      BY <1>3 DEF Claim, ReadTag, SkipTerminal, ReadRuns, CheckTag, PushFails, EndTurn,
                  HandlerFails, Exit, vars, tables
<1>4. CASE Create
      BY <1>4, CreateWrites DEF Written, Terminal
<1>5. CASE Supersede
  <2>1. active \in Tag => IsActive(active)
        BY <1>5, NoneAssumption DEF Supersede, Serving
  <2> QED
      BY <1>5, <2>1, SupersedeWrites DEF Written, IsActive, Terminal
<1>6. CASE JudgeSuccess \/ JudgeIgnored \/ JudgeActionRequired \/ JudgeFailure
  <2>1. t # tag
        BY <1>6 DEF JudgeSuccess, JudgeIgnored, JudgeActionRequired, JudgeFailure, Decided
  <2>2. CASE JudgeSuccess \/ JudgeIgnored
        BY <2>1, <2>2, TakeShaStep DEF Written
  <2>3. CASE JudgeActionRequired
        BY <2>1, <2>3, ActionRequiredWrites DEF Written
  <2>4. CASE JudgeFailure
        BY <2>1, <2>4, FailureWrites DEF Written, Rounded
  <2> QED
      BY <1>6, <2>2, <2>3, <2>4
<1>7. CASE ReadRelease \/ PrepareWorkspace \/ Abort
  <2>1. IsActive(tag)
        BY <1>7 DEF ReadRelease, PrepareWorkspace, Abort, Serving
  <2>2. t # tag
        BY <2>1 DEF IsActive, Terminal
  <2>3. CASE ReadRelease
        BY <2>2, <2>3, ReleaseWrites DEF Written
  <2>4. CASE PrepareWorkspace
        BY <2>2, <2>4, WorkspaceWrites DEF Written
  <2>5. CASE Abort
        BY <2>2, <2>5, AbortWrites DEF Written
  <2> QED
      BY <1>7, <2>3, <2>4, <2>5
<1>8. CASE EndRound
      BY <1>8, EndWrites DEF Written, Terminal
<1> QED
    BY GitHubBeside, PushBeside, <1>1, <1>2, <1>3, <1>4, <1>5, <1>6, <1>7, <1>8
       DEF Next, Judgement, Round, Retag

\* So a release that is undecided was so before, unless a call wrote late.
LEMMA UndecidedWas ==
    ASSUME TypeOK, Known, Serving, [Next]_vars, ~late', NEW t \in Tag,
           rel'[t].state \notin Terminal
    PROVE  rel[t].state \notin Terminal
<1>1. \A k \in calls : RecordSha(k) \/ RecordState(k) => Attended(k)
      BY DEF RecordSha, RecordState
<1> QED
    BY <1>1, DecidedStays

\* Every step keeps what a turn leaves behind.
LEMMA LeftStep ==
    ASSUME TypeOK, Known, Serving, Moved, Left, [Next]_vars
    PROVE  Left'
<1> SUFFICES ASSUME ~late' PROVE Left'
    BY DEF Left
<1>0. ~late
      BY LateStays
<1>1. ASSUME Beside PROVE Left'
  <2>1. at # "idle" => head' = head /\ tag' = tag /\ tag \in Tag /\ head <= made /\ head \in Commit
        BY <1>1, SameTag, Serves DEF Beside
  <2>2. at # "idle" /\ tagAt[tag] # head => tagAt'[tag] # head
    <3>1. /\ \A t \in Tag : tagAt'[t] = tagAt[t] \/ tagAt'[t] = made + 1
          /\ made \in Nat /\ Commit \subseteq Nat
          BY <1>1 DEF Beside, Commit
    <3> QED
        BY <2>1, <3>1
  <2> QED
      BY <1>0, <1>1, <2>1, <2>2 DEF Beside, Left
<1>2. ASSUME NEW k \in calls, PushFails(k) \/ RecordSha(k) PROVE Left'
  <2>1. UNCHANGED <<at, event, subject, tagAt>>
        BY <1>2 DEF PushFails, RecordSha, hub
  <2>2. at # "idle" => tag \in Tag
        BY Serves
  <2>3. \A t \in Tag : rel'[t].state = rel[t].state
        BY <1>2, RecordShaWrites DEF PushFails, tables, Written
  <2> QED
      BY <1>0, <2>1, <2>2, <2>3 DEF Left, tag, head
<1>3. ASSUME NEW k \in calls, RecordState(k) PROVE Left'
  <2>1. UNCHANGED <<at, event, subject, tagAt>> /\ at = "agent" /\ k.tag = tag /\ k.head = head
        BY <1>3 DEF RecordState, Attended, hub
  <2>2. tagAt[tag] # head
        BY <1>3, <2>1 DEF RecordState, Moved
  <2> QED
      BY <2>1, <2>2 DEF Left, tag, head
<1>4. ASSUME \/ Claim \/ ReadTag \/ Create \/ Supersede
             \/ SkipTerminal \/ JudgeSuccess \/ JudgeIgnored \/ JudgeActionRequired
             \/ ReadRuns \/ ReadRelease \/ EndRound \/ HandlerFails \/ Exit
      PROVE  Left'
  <2>1. at' \notin {"workspace", "agent", "end"}
        BY <1>4 DEF Claim, ReadTag, Create, Supersede, SkipTerminal, JudgeSuccess, JudgeIgnored,
                    JudgeActionRequired, ReadRuns, ReadRelease, EndRound, HandlerFails, Exit,
                    Goto, Finish, Rest
  <2> QED
      BY <2>1 DEF Left
<1>5. ASSUME JudgeFailure PROVE Left'
  <2>1. tag \in Tag /\ UNCHANGED subject
        BY <1>5, Serves DEF JudgeFailure, hub
  <2>2. CASE Goto("workspace") /\ rel'[tag].state = "fixing"
        BY <2>1, <2>2 DEF Left, Goto, tag, head
  <2>3. CASE Finish
        BY <2>3 DEF Left, Finish, Rest
  <2>4. \/ Goto("workspace") /\ rel'[tag].state = "fixing"
        \/ Finish
        BY <1>5, FailureWrites DEF Written, Rounded, Resumed
  <2> QED
      BY <2>2, <2>3, <2>4
<1>6. ASSUME PrepareWorkspace PROVE Left'
  <2>1. UNCHANGED <<subject, tagAt>> /\ at = "workspace"
        BY <1>6 DEF PrepareWorkspace, hub
  <2>2. CASE Goto("agent") /\ UNCHANGED rel
        BY <1>0, <2>1, <2>2 DEF Left, Goto, tag, head
  <2>3. CASE Finish
        BY <2>3 DEF Left, Finish, Rest
  <2> QED
      BY <1>6, <2>2, <2>3, WorkspaceWrites
<1>7. ASSUME CheckTag \/ EndTurn PROVE Left'
  <2>1. UNCHANGED <<subject, tagAt, rel, event>> /\ at = "agent"
        BY <1>7 DEF CheckTag, EndTurn, Goto, hub, tables
  <2> QED
      BY <1>0, <2>1 DEF Left, tag, head
<1>8. ASSUME Abort PROVE Left'
  <2>1. UNCHANGED <<subject, event>> /\ rel'[tag].state = "failed"
        BY <1>8, AbortWrites DEF Abort, Goto, hub, Written
  <2> QED
      BY <2>1 DEF Left, tag, head, Terminal
<1>9. CASE UNCHANGED vars
  <2>1. UNCHANGED <<subject, tagAt, rel, event, at>>
        BY <1>9 DEF vars, hub, tables, handler
  <2> QED
      BY <1>0, <2>1 DEF Left, tag, head
<1> QED
    BY GitHubBeside, PushBeside, <1>1, <1>2, <1>3, <1>4, <1>5, <1>6, <1>7, <1>8, <1>9
       DEF Next, Judgement, Round, Retag

\* What the step does with a verdict: it is kept, or given up, or not about the
\* commit of its tag, or its release is decided, or it decides nothing.
Answered(e) ==
    \/ e \in inbox' \/ (at' # "idle" /\ event' = e)
    \/ e.sha \in givenUp'
    \/ tagAt[subject[e.sha]] # e.sha
    \/ rel'[subject[e.sha]].state \in Terminal
    \/ e.conclusion = "cancelled"
    \/ e.conclusion = "success" /\ \E w \in Workflow : ci[e.sha][w] # "success"

\* A verdict, from its parts.
LEMMA MakeVerdict ==
    ASSUME NEW c \in Commit, NEW w \in Workflow, NEW x \in Conclusion
    PROVE  /\ [sha |-> c, workflow |-> w, conclusion |-> x] \in Verdict
           /\ [sha |-> c, workflow |-> w, conclusion |-> x].sha = c
           /\ [sha |-> c, workflow |-> w, conclusion |-> x].conclusion = x
BY DEF Verdict

\* A step of the handler or of a call that answers every verdict it drops
\* leaves to each release what it waits for.
LEMMA OwedKeeps ==
    ASSUME TypeOK, Owed, ~late, UNCHANGED <<tagAt, subject, ci>>, givenUp \subseteq givenUp',
           \A t \in Tag : rel'[t].state \notin Terminal => rel[t].state \notin Terminal,
           \A e \in Verdict : e \in Open => Answered(e)
    PROVE  Owed'
<1> SUFFICES ASSUME NEW t \in Tag, NEW c, c = tagAt[t], NEW runs, runs = ci[c],
                    NEW open, open = Open', c # NoCommit, c \notin givenUp',
                    subject[c] = t, rel'[t].state \notin Terminal
             PROVE  Waits(c, runs, open)
    BY DEF Owed
<1>1. c \in Commit /\ Waits(c, runs, Open)
      BY DEF Owed, TypeOK
<1>2. ASSUME NEW w \in Workflow, NEW x \in Blocking \cup {"success"},
             [sha |-> c, workflow |-> w, conclusion |-> x] \in Open,
             x = "success" => \A v \in Workflow : runs[v] = "success"
      PROVE  [sha |-> c, workflow |-> w, conclusion |-> x] \in open
  <2> DEFINE e == [sha |-> c, workflow |-> w, conclusion |-> x]
  <2>1. x \in Conclusion /\ x # "cancelled"
        BY DEF Conclusion, Blocking
  <2>2. e \in Verdict /\ e.sha = c /\ e.conclusion = x
        BY <1>1, <2>1, MakeVerdict
  <2>3. e \in Open
        BY <1>2
  <2> HIDE DEF e
  <2>4. Answered(e)
        BY <2>2, <2>3
  <2>5. e \in inbox' \/ (at' # "idle" /\ event' = e)
        BY <1>2, <2>1, <2>2, <2>4 DEF Answered
  <2>6. e \in open
        BY <2>5 DEF Open
  <2> QED
      BY <2>6 DEF e
<1>3. ASSUME NEW w \in Workflow, runs[w] \in Blocking
      PROVE  [sha |-> c, workflow |-> w, conclusion |-> runs[w]] \in open
  <2>1. [sha |-> c, workflow |-> w, conclusion |-> runs[w]] \in Open
        BY <1>1, <1>3 DEF Waits
  <2> QED
      BY <1>2, <1>3, <2>1 DEF Blocking
<1>4. ASSUME \A w \in Workflow : runs[w] = "success"
      PROVE  \E w \in Workflow : [sha |-> c, workflow |-> w, conclusion |-> "success"] \in open
  <2>1. PICK w \in Workflow : [sha |-> c, workflow |-> w, conclusion |-> "success"] \in Open
        BY <1>1, <1>4 DEF Waits
  <2> QED
      BY <1>2, <1>4, <2>1
<1> QED
    BY <1>3, <1>4 DEF Waits

\* A new commit has its verdicts before it.
LEMMA OwedCommit ==
    ASSUME TypeOK, Known, Owed, ~late, NEW s \in Tag, Commits(s), Beside
    PROVE  Owed'
<1> SUFFICES ASSUME NEW t \in Tag, NEW c, c = tagAt'[t], NEW runs, runs = ci'[c],
                    c # NoCommit, c \notin givenUp', subject'[c] = t,
                    rel'[t].state \notin Terminal
             PROVE  Waits(c, runs, Open')
    BY DEF Owed
<1>0. made \in Nat /\ made + 1 \in Commit
      BY CommitsAdd
<1>1. CASE c = made + 1
  <2>1. ci \in [Commit -> [Workflow -> Conclusion \cup {"none", "running"}]]
        BY DEF TypeOK
  <2>2. ci' = [ci EXCEPT ![made + 1] = Started]
        BY NoneAssumption DEF Commits
  <2>3. \A w \in Workflow : runs[w] = "running"
        BY <1>0, <1>1, <2>1, <2>2 DEF Started
  <2> QED
      BY <2>3, WorkflowAssumption DEF Waits, Blocking
<1>2. CASE c # made + 1
  <2>1. c = tagAt[t] /\ c \in Commit
        BY <1>2 DEF Beside, TypeOK
  <2>2. subject'[c] = subject[c] /\ ci'[c] = ci[c]
        BY <1>2, <2>1, CommitsAdd
  <2>3. Open \subseteq Open'
        BY DEF Beside, Open
  <2>4. rel' = rel /\ givenUp' = givenUp
        BY DEF Beside
  <2>5. Waits(c, runs, Open)
        BY <2>1, <2>2, <2>4 DEF Owed
  <2> QED
      BY <2>3, <2>5 DEF Waits
<1> QED
    BY <1>1, <1>2

\* A workflow that runs again is waited for, and one that completes leaves its
\* verdict.
LEMMA OwedWorkflow ==
    ASSUME TypeOK, Owed, ~late, NEW b \in Commit, NEW v \in Workflow,
           UNCHANGED <<tagAt, subject, rel, givenUp, at, event>>, inbox \subseteq inbox',
           NEW y \in Conclusion \cup {"running"},
           ci' = [ci EXCEPT ![b] = [ci[b] EXCEPT ![v] = y]],
           y # "running" => [sha |-> b, workflow |-> v, conclusion |-> y] \in inbox'
    PROVE  Owed'
<1> SUFFICES ASSUME NEW t \in Tag, NEW c, c = tagAt[t], NEW runs, runs = ci'[c],
                    NEW open, open = Open', c # NoCommit,
                    c \notin givenUp, subject[c] = t, rel[t].state \notin Terminal
             PROVE  Waits(c, runs, open)
    BY DEF Owed
<1>1. Open \subseteq open
      BY DEF Open
<1>2. c \in Commit /\ ci \in [Commit -> [Workflow -> Conclusion \cup {"none", "running"}]]
      BY DEF TypeOK
<1>3. Waits(c, ci[c], Open)
      BY DEF Owed
<1>4. CASE c # b
  <2>1. runs = ci[c]
        BY <1>2, <1>4
  <2> QED
      BY <1>1, <1>3, <2>1 DEF Waits
<1>5. CASE c = b
  <2>1. runs[v] = y /\ \A w \in Workflow \ {v} : runs[w] = ci[c][w]
        BY <1>2, <1>5
  <2>2. y # "running" => [sha |-> c, workflow |-> v, conclusion |-> y] \in open
        BY <1>5 DEF Open
  <2>3. ASSUME NEW w \in Workflow, runs[w] \in Blocking
        PROVE  [sha |-> c, workflow |-> w, conclusion |-> runs[w]] \in open
    <3>1. CASE w = v
      <4>1. y # "running"
            BY <2>1, <2>3, <3>1 DEF Blocking
      <4> QED
          BY <2>1, <2>2, <3>1, <4>1
    <3>2. CASE w # v
      <4>1. runs[w] = ci[c][w]
            BY <2>1, <3>2
      <4>2. [sha |-> c, workflow |-> w, conclusion |-> ci[c][w]] \in Open
            BY <1>3, <2>3, <4>1 DEF Waits
      <4> QED
          BY <1>1, <4>1, <4>2
    <3> QED
        BY <3>1, <3>2
  <2>4. ASSUME \A w \in Workflow : runs[w] = "success"
        PROVE  [sha |-> c, workflow |-> v, conclusion |-> "success"] \in open
    <3>1. y = "success"
          BY <2>1, <2>4
    <3> QED
        BY <2>2, <3>1
  <2> QED
      BY <2>3, <2>4 DEF Waits
<1> QED
    BY <1>4, <1>5

\* The handler goes on with its verdict.
LEMMA AnsweredOn ==
    ASSUME UNCHANGED inbox, at' # "idle", event' = event
    PROVE  \A e \in Verdict : e \in Open => Answered(e)
BY DEF Open, Answered

\* The handler is done with its verdict.
LEMMA AnsweredOff ==
    ASSUME UNCHANGED inbox, Answered(event)
    PROVE  \A e \in Verdict : e \in Open => Answered(e)
BY DEF Open, Answered

\* Every step leaves to each undecided release what it waits for.
LEMMA OwedStep ==
    ASSUME TypeOK, Known, Serving, Left, Owed, [Next]_vars
    PROVE  Owed'
<1> SUFFICES ASSUME ~late' PROVE Owed'
    BY DEF Owed
<1>0. ~late /\ \A t \in Tag : rel'[t].state \notin Terminal => rel[t].state \notin Terminal
      BY LateStays, UndecidedWas
<1>a. ASSUME UNCHANGED hub, givenUp \subseteq givenUp', \A e \in Verdict : e \in Open => Answered(e)
      PROVE  Owed'
      BY <1>0, <1>a, OwedKeeps DEF hub
<1>b. \A e : e.sha = head => subject[e.sha] = tag
      BY DEF tag, head
<1>1. ASSUME NEW t \in Tag, CutRelease(t) \/ MoveTag(t) PROVE Owed'
  <2>1. Commits(t) /\ Beside
        BY <1>1, GitHubBeside DEF GitHub, CutRelease, MoveTag
  <2> QED
      BY <1>0, <2>1, OwedCommit
<1>2. ASSUME NEW k \in calls, NEW s \in Tag, Push(k, s) PROVE Owed'
  <2>1. Commits(s) /\ Beside
        BY <1>2, PushBeside DEF Push
  <2> QED
      BY <1>0, <2>1, OwedCommit
<1>3. ASSUME PushToMain PROVE Owed'
  <2>1. /\ Beside /\ UNCHANGED <<tagAt, ci>>
        /\ \A d \in Commit : d # made + 1 => subject'[d] = subject[d]
        BY <1>3, GitHubBeside, CommitsAdd DEF GitHub, PushToMain
  <2>2. \A t \in Tag : tagAt[t] # NoCommit =>
            tagAt[t] \in Commit /\ subject'[tagAt[t]] = subject[tagAt[t]]
    <3>1. \A t \in Tag : tagAt[t] <= made
          BY DEF Known
    <3>2. \A t \in Tag : tagAt[t] # NoCommit => tagAt[t] \in Commit /\ tagAt[t] # made + 1
          BY <2>1, <3>1 DEF TypeOK, Commit
    <3> QED
        BY <2>1, <3>2
  <2>3. Open' = Open /\ rel' = rel /\ givenUp' = givenUp
        BY <1>3, <2>1 DEF PushToMain, tables, Beside, Open
  <2> QED
      BY <1>0, <2>1, <2>2, <2>3 DEF Owed
<1>4. ASSUME NEW c \in Commit, NEW w \in Workflow, NEW x \in Conclusion, Conclude(c, w, x)
      PROVE  Owed'
      BY <1>0, <1>4, OwedWorkflow DEF Conclude, handler, history
<1>5. ASSUME NEW c \in Commit, NEW w \in Workflow, Rerun(c, w) PROVE Owed'
      BY <1>0, <1>5, OwedWorkflow DEF Rerun, tables, handler, history
<1>6. ASSUME NEW k \in calls, PushFails(k) \/ RecordSha(k) \/ RecordState(k) PROVE Owed'
  <2>1. UNCHANGED hub /\ UNCHANGED <<inbox, at, event, givenUp>>
        BY <1>6 DEF PushFails, RecordSha, RecordState, tables, history
  <2>2. \A e \in Verdict : e \in Open => Answered(e)
        BY <2>1 DEF Open, Answered
  <2> QED
      BY <1>a, <2>1, <2>2
<1>7. ASSUME Claim PROVE Owed'
  <2>1. /\ UNCHANGED hub /\ UNCHANGED givenUp
        /\ at = "idle" /\ at' = "tag" /\ inbox' = inbox \ {event'}
        BY <1>7 DEF Claim, history
  <2>2. \A e \in Verdict : e \in Open => Answered(e)
        BY <2>1 DEF Open, Answered
  <2> QED
      BY <1>a, <2>1, <2>2
<1>8. ASSUME \/ Create \/ Supersede \/ JudgeSuccess \/ CheckTag \/ Abort \/ EndTurn
      PROVE  Owed'
  <2>1. /\ UNCHANGED hub /\ UNCHANGED givenUp
        /\ UNCHANGED inbox /\ at' # "idle" /\ event' = event
        BY <1>8 DEF Create, Supersede, JudgeSuccess, CheckTag, Abort, EndTurn, Goto,
                    tables, history
  <2> QED
      BY <1>a, <2>1, AnsweredOn
<1>9. ASSUME ReadTag PROVE Owed'
  <2>1. UNCHANGED hub /\ UNCHANGED <<givenUp, inbox>>
        BY <1>9 DEF ReadTag, tables, history
  <2>2. CASE tagAt[tag] = head
        BY <1>9, <1>a, <2>1, <2>2, AnsweredOn DEF ReadTag, Goto
  <2>3. CASE tagAt[tag] # head
    <3>1. Answered(event)
          BY <2>3 DEF Answered, tag, head
    <3> QED
        BY <1>a, <2>1, <3>1, AnsweredOff
  <2> QED
      BY <2>2, <2>3
<1>10. ASSUME SkipTerminal \/ JudgeActionRequired \/ ReadRelease PROVE Owed'
  <2>1. UNCHANGED hub /\ UNCHANGED <<givenUp, inbox>>
        BY <1>10 DEF SkipTerminal, JudgeActionRequired, ReadRelease, tables, history
  <2>2. rel'[tag].state \in Terminal
    <3>1. CASE SkipTerminal
          BY <3>1 DEF SkipTerminal, Decided, tables
    <3>2. CASE JudgeActionRequired \/ ReadRelease
          BY <3>2, ActionRequiredWrites, ReleaseWrites DEF Written, Terminal
    <3> QED
        BY <1>10, <3>1, <3>2
  <2>3. Answered(event)
        BY <2>2 DEF Answered, tag
  <2> QED
      BY <1>a, <2>1, <2>3, AnsweredOff
<1>11. ASSUME JudgeIgnored PROVE Owed'
  <2>1. UNCHANGED hub /\ UNCHANGED <<givenUp, inbox>> /\ event.conclusion = "cancelled"
        BY <1>11 DEF JudgeIgnored, history
  <2>2. Answered(event)
        BY <2>1 DEF Answered
  <2> QED
      BY <1>a, <2>1, <2>2, AnsweredOff
<1>12. ASSUME JudgeFailure PROVE Owed'
  <2>1. UNCHANGED hub /\ UNCHANGED <<givenUp, inbox>>
        BY <1>12 DEF JudgeFailure
  <2>2. CASE Goto("workspace")
        BY <1>a, <2>1, <2>2, AnsweredOn DEF Goto
  <2>3. CASE Written(tag, "failed", head, "round cap")
    <3>1. Answered(event)
          BY <2>3 DEF Answered, Written, Terminal, tag
    <3> QED
        BY <1>a, <2>1, <3>1, AnsweredOff
  <2> QED
      BY <1>12, <2>2, <2>3, FailureWrites
<1>13. ASSUME ReadRuns PROVE Owed'
  <2>1. UNCHANGED hub /\ UNCHANGED <<givenUp, inbox>> /\ event.conclusion = "success"
        BY <1>13 DEF ReadRuns, tables, history, Serving
  <2>2. CASE Goto("release")
        BY <1>a, <2>1, <2>2, AnsweredOn DEF Goto
  <2>3. CASE \E w \in Workflow : ci[head][w] \notin Conclusion \ Blocking
    <3>1. \E w \in Workflow : ci[head][w] # "success"
          BY <2>3 DEF Conclusion, Blocking
    <3>2. Answered(event)
          BY <2>1, <3>1 DEF Answered, head
    <3> QED
        BY <1>a, <2>1, <3>2, AnsweredOff
  <2> QED
      BY <1>13, <2>2, <2>3 DEF ReadRuns
<1>14. ASSUME PrepareWorkspace PROVE Owed'
  <2>1. UNCHANGED hub /\ UNCHANGED <<givenUp, inbox>>
        BY <1>14 DEF PrepareWorkspace, history
  <2>2. CASE Goto("agent")
        BY <1>a, <2>1, <2>2, AnsweredOn DEF Goto
  <2>3. CASE Written(tag, "failed", rel[tag].sha, "other")
    <3>1. Answered(event)
          BY <2>3 DEF Answered, Written, Terminal, tag
    <3> QED
        BY <1>a, <2>1, <3>1, AnsweredOff
  <2> QED
      BY <1>14, <2>2, <2>3, WorkspaceWrites
<1>15. ASSUME EndRound PROVE Owed'
  <2>1. UNCHANGED hub /\ UNCHANGED <<givenUp, inbox>> /\ at = "end"
        BY <1>15 DEF EndRound, history
  <2>2. rel'[tag].state \in Terminal \/ tagAt[tag] # head
        BY <1>0, <1>15, <2>1, EndWrites DEF Left, Written, Terminal
  <2>3. Answered(event)
        BY <2>2 DEF Answered, tag, head
  <2> QED
      BY <1>a, <2>1, <2>3, AnsweredOff
<1>16. ASSUME HandlerFails \/ Exit PROVE Owed'
  <2>1. /\ UNCHANGED hub /\ givenUp \subseteq givenUp' /\ inbox \subseteq inbox'
        /\ at # "idle" => event \in inbox' \/ event.sha \in givenUp'
        BY <1>16 DEF HandlerFails, Exit, head
  <2>2. \A e \in Verdict : e \in Open => Answered(e)
        BY <2>1 DEF Open, Answered
  <2> QED
      BY <1>a, <2>1, <2>2
<1>17. CASE UNCHANGED vars
  <2>1. UNCHANGED hub /\ UNCHANGED <<inbox, at, event, givenUp>>
        BY <1>17 DEF vars, tables, handler, history
  <2>2. \A e \in Verdict : e \in Open => Answered(e)
        BY <2>1 DEF Open, Answered
  <2> QED
      BY <1>a, <2>1, <2>2
<1> QED
    BY <1>1, <1>2, <1>3, <1>4, <1>5, <1>6, <1>7, <1>8, <1>9, <1>10, <1>11, <1>12, <1>13,
       <1>14, <1>15, <1>16, <1>17
       DEF Next, GitHub, Judgement, Round, Retag

-----------------------------------------------------------------------------
(* The theorems.                                                           *)

\* The inductive invariant holds before the first release.
LEMMA Initial ==
    ASSUME Init
    PROVE  IInv
<1>1. TypeOK
  <2>1. 1 \in Commit
        BY CommitsNumbers DEF Commit
  <2>2. NoRelease \in Release
        BY CommitsNumbers DEF NoRelease, Release, NoCommit
  <2>3. made \in Commit /\ main \in Commit /\ mishaps \in 0 .. MaxMishaps
        BY <2>1, CommitsNumbers DEF Init
  <2>4. /\ subject \in [Commit -> Tag \cup {None}]
        /\ tagAt \in [Tag -> Commit \cup {NoCommit}]
        /\ ci \in [Commit -> [Workflow -> Conclusion \cup {"none", "running"}]]
        /\ bumped \in [Tag -> SUBSET Commit]
        BY DEF Init, Quiet
  <2>5. rel \in [Tag -> Release]
        BY <2>2 DEF Init
  <2> QED
      BY <2>3, <2>4, <2>5 DEF Init, TypeOK, Step
<1>2. Known
      BY CommitsNumbers DEF Init, Known, Quiet, NoRelease, NoCommit
<1>3. Serving /\ Single
      BY DEF Init, Serving, Single, IsActive, NoRelease
<1>4. Fresh /\ Moved
      BY DEF Init, Fresh, Moved
<1>5. Counted
      BY FS_EmptySet DEF Init, Counted, NoRelease
<1>6. RepairIsTended
      BY DEF Init, RepairIsTended, NoRelease
<1>7. Left /\ Owed
      BY DEF Init, Left, Owed
<1> QED
    BY <1>1, <1>2, <1>3, <1>4, <1>5, <1>6, <1>7 DEF IInv

\* The invariant every theorem below rests on.
THEOREM Inductive == Spec => []IInv
<1>1. Init => IInv
      BY Initial
<1>2. IInv /\ [Next]_vars => IInv'
      BY TypeStep, KnownStep, ServingStep, SingleStep, FreshStep, MovedStep, CountedStep,
         TendedStep, LeftStep, OwedStep
         DEF IInv
<1> QED
    BY <1>1, <1>2, PTL DEF Spec

\* The tables, the queue and what the handler holds keep their types: in
\* particular a release never has more rounds than release_max_rounds.
THEOREM TypeCorrect == Spec => []TypeOK
<1>1. IInv => TypeOK
      BY DEF IInv
<1> QED
    BY <1>1, Inductive, PTL

\* handle_release_ci starts one round for a commit at most, and ends a release
\* for its cap only at a commit without a round, as long as no call of
\* release_retag wrote after its turn.
THEOREM RoundsAreCounted == Spec => []OneRoundPerFailure
<1>1. IInv => OneRoundPerFailure
      BY DEF IInv, Counted, OneRoundPerFailure
<1> QED
    BY <1>1, Inductive, PTL

\* Outside the step between its insert and the supersession one release at
\* most is awaited or repaired, as long as no exit fell between the two and no
\* call of release_retag wrote after its turn.
THEOREM OneIsActive == Spec => []OneActiveRelease
<1>1. ASSUME IInv PROVE OneActiveRelease
  <2> SUFFICES ASSUME at # "supersede", ~torn, ~late PROVE Cardinality(Active) <= 1
      BY DEF OneActiveRelease
  <2>1. \A t, u \in Active : t = u
        BY <1>1 DEF IInv, Single, Active, IsActive
  <2>2. CASE Active = {}
        BY <2>2, FS_EmptySet
  <2>3. CASE Active # {}
    <3>1. PICK t : Active = {t}
          BY <2>1, <2>3
    <3>2. Cardinality({t}) = 1
          BY FS_Singleton
    <3> QED
        BY <3>1, <3>2
  <2> QED
      BY <2>2, <2>3
<1> QED
    BY <1>1, Inductive, PTL

\* A repair is never left with nobody to end it.
THEOREM RepairsAreTended == Spec => []RepairIsTended
<1>1. IInv => RepairIsTended
      BY DEF IInv
<1> QED
    BY <1>1, Inductive, PTL

\* Once every verdict has been handled, a release at whose commit all workflows
\* passed or failed is decided, unless its event was given up or a call of
\* release_retag wrote after its turn.
THEOREM VerdictsAreDecisive == Spec => []VerdictsDecide
<1>1. ASSUME IInv PROVE VerdictsDecide
  <2> SUFFICES ASSUME at = "idle", inbox = {}, ~late, NEW t \in Tag, NEW c, c = tagAt[t],
                      c # NoCommit, c \notin givenUp, subject[c] = t,
                      \A w \in Workflow : ci[c][w] \in Blocking \cup {"success"},
                      rel[t].state \notin Terminal
               PROVE  FALSE
      BY DEF VerdictsDecide
  <2>1. Open = {}
        BY DEF Open
  <2>2. Waits(c, ci[c], {})
        BY <1>1, <2>1 DEF IInv, Owed
  <2>3. \A w \in Workflow : ci[c][w] \notin Blocking
        BY <2>2 DEF Waits
  <2>4. \A w \in Workflow : ci[c][w] = "success"
        BY <2>3
  <2> QED
      BY <2>2, <2>4 DEF Waits
<1> QED
    BY <1>1, Inductive, PTL

\* A release that is green, failed or superseded stays as it is, but for a call
\* of release_retag that goes on after its turn.
THEOREM DecidedIsFinal == Spec => TerminalIsFinal
<1> DEFINE Kept == \A t \in Tag : rel[t].state \in Terminal =>
                      \/ rel'[t] = rel[t]
                      \/ \E k \in calls : k.tag = t /\ k.step # "checked" /\ ~Attended(k)
<1>1. IInv /\ [Next]_vars => [Kept]_vars
  <2>1. \A k \in calls : RecordSha(k) \/ RecordState(k) => k.step # "checked"
        BY DEF RecordSha, RecordState
  <2> QED
      BY <2>1, DecidedStays DEF IInv
<1> QED
    BY <1>1, Inductive, PTL DEF Spec, TerminalIsFinal
=============================================================================

-------------------------- MODULE ReleaseSentinel --------------------------
(***************************************************************************)
(* The release sentinel: handle_release_ci (tasks.py) turns the verdicts   *)
(* of GitHub Actions on a release commit into the states of the `releases` *)
(* table, and for a failing commit runs an agent that pushes a fix and     *)
(* moves the tag with release_retag (host_tools.py).                       *)
(*                                                                         *)
(* All verdicts of a repository have the key <repo>#release, so one        *)
(* handler runs at a time (module EventQueue); deliveries and retries are  *)
(* taken in any order.  A call of release_retag runs on a thread that      *)
(* nothing stops: when the turn ends, is aborted or timed out under it,    *)
(* it goes on beside the next handler.  Meanwhile people push and move     *)
(* tags, workflows conclude and are run again, and the process exits, also *)
(* between two writes of one synchronous block: each is a transaction.     *)
(*                                                                         *)
(* A commit's subject names a release or none.  "failure" stands for       *)
(* failure, timed_out and startup_failure, "cancelled" for the conclusions *)
(* that neither block nor pass.                                            *)
(***************************************************************************)
EXTENDS Naturals, FiniteSets

CONSTANTS
    Tag,            \* the releases of one repository
    Workflow,       \* the workflows that run on every push
    None,
    MaxRounds,      \* release_max_rounds
    MaxCommits,     \* bound on commits
    MaxMishaps      \* bound on workflows run again, exceptions and exits of
                    \* the process, taken together

ASSUME NoneAssumption == None \notin Tag
ASSUME TagAssumption == IsFiniteSet(Tag)
\* Of a release no workflow checks nobody would ever hear.
ASSUME WorkflowAssumption == Workflow # {}
ASSUME BoundsAssumption ==
    /\ MaxRounds \in Nat /\ MaxCommits \in Nat \ {0}
    /\ MaxMishaps \in Nat

Commit == 1 .. MaxCommits
NoCommit == 0

VARIABLES
    \* GitHub
    made,           \* commits 1 .. made exist
    subject,        \* the release a commit's subject names
    main,           \* head of the default branch
    tagAt,          \* where a tag points
    ci,             \* conclusion of a workflow on a commit
    \* the tables: verdicts queued under <repo>#release, and releases
    inbox, rel, older,
    \* the handler, and what it holds between its steps
    at, event, active,
    calls,          \* the calls of release_retag past their look at the tag
    mishaps,
    \* history: the commits a round was started for, the commits with a verdict
    \* that failed for good, whether an exit fell between the insert of a
    \* release and the supersession of the one before it, and whether a call
    \* wrote to the table when its turn was over
    bumped, givenUp, torn, late

hub == <<made, subject, main, tagAt, ci>>
tables == <<inbox, rel, older>>
handler == <<at, event, active, calls>>
history == <<bumped, givenUp, torn, late>>
vars == <<hub, tables, handler, mishaps, history>>

Blocking == {"failure", "action_required"}
Conclusion == Blocking \cup {"success", "cancelled"}
Terminal == {"green", "failed", "superseded"}
Verdict == [sha : Commit, workflow : Workflow, conclusion : Conclusion]
Release == [state : {"none", "awaiting_ci", "fixing"} \cup Terminal,
            sha : Commit \cup {NoCommit}, failed : Commit \cup {NoCommit},
            rounds : 0 .. MaxRounds, error : {"none", "round cap", "other"}]
Step == {"idle", "tag", "create", "supersede", "judge", "runs", "release",
         "workspace", "agent", "end"}
Call == [tag : Tag, head : Commit, step : {"checked", "pushed", "recorded"},
         fix : Commit \cup {NoCommit}]

NoRelease == [state |-> "none", sha |-> NoCommit, failed |-> NoCommit,
              rounds |-> 0, error |-> "none"]
Quiet == [w \in Workflow |-> "none"]
Started == [w \in Workflow |-> "running"]

TypeOK ==
    /\ made \in Commit /\ main \in Commit
    /\ subject \in [Commit -> Tag \cup {None}]
    /\ tagAt \in [Tag -> Commit \cup {NoCommit}]
    /\ ci \in [Commit -> [Workflow -> Conclusion \cup {"none", "running"}]]
    /\ inbox \subseteq Verdict
    /\ rel \in [Tag -> Release]
    /\ older \subseteq Tag \X Tag
    /\ at \in Step
    /\ at # "idle" => event \in Verdict
    /\ active \in Tag \cup {None}
    /\ calls \subseteq Call
    /\ mishaps \in 0 .. MaxMishaps
    /\ bumped \in [Tag -> SUBSET Commit]
    /\ givenUp \subseteq Commit
    /\ torn \in BOOLEAN /\ late \in BOOLEAN

Init ==
    /\ made = 1 /\ main = 1
    /\ subject = [c \in Commit |-> None]
    /\ tagAt = [t \in Tag |-> NoCommit]
    /\ ci = [c \in Commit |-> Quiet]
    /\ inbox = {}
    /\ rel = [t \in Tag |-> NoRelease]
    /\ older = {}
    /\ at = "idle" /\ event = None /\ active = None /\ calls = {}
    /\ mishaps = 0
    /\ bumped = [t \in Tag |-> {}]
    /\ givenUp = {}
    /\ torn = FALSE /\ late = FALSE

-----------------------------------------------------------------------------
(* GitHub: people, and the workflows that run on what is pushed.           *)

Mishap == mishaps < MaxMishaps /\ mishaps' = mishaps + 1

\* A new commit on top of everything, with the workflows its push starts.
\* Those of a commit that names no release are nobody's business here.
Commits(s) ==
    /\ made < MaxCommits
    /\ made' = made + 1
    /\ subject' = [subject EXCEPT ![made + 1] = s]
    /\ ci' = IF s = None THEN ci ELSE [ci EXCEPT ![made + 1] = Started]

\* A release is cut: branch and tag in one push.
CutRelease(t) ==
    /\ tagAt[t] = NoCommit
    /\ Commits(t)
    /\ main' = made + 1
    /\ tagAt' = [tagAt EXCEPT ![t] = made + 1]
    /\ UNCHANGED <<tables, handler, mishaps, history>>

\* Somebody pushes to the default branch.
PushToMain ==
    /\ Commits(None)
    /\ main' = made + 1
    /\ UNCHANGED <<tagAt, tables, handler, mishaps, history>>

\* Somebody repairs a release by hand, on the default branch or beside it.
MoveTag(t) ==
    /\ tagAt[t] # NoCommit
    /\ Commits(t)
    /\ main' \in {main, made + 1}
    /\ tagAt' = [tagAt EXCEPT ![t] = made + 1]
    /\ UNCHANGED <<tables, handler, mishaps, history>>

\* A workflow completes, and the webhook is stored.  Two equal verdicts in the
\* queue are one.
Conclude(c, w, x) ==
    /\ ci[c][w] = "running"
    /\ ci' = [ci EXCEPT ![c] = [ci[c] EXCEPT ![w] = x]]
    /\ inbox' = inbox \cup {[sha |-> c, workflow |-> w, conclusion |-> x]}
    /\ UNCHANGED <<made, subject, main, tagAt,
                   rel, older, handler, mishaps, history>>

Rerun(c, w) ==
    /\ ci[c][w] \in Conclusion /\ Mishap
    /\ ci' = [ci EXCEPT ![c] = [ci[c] EXCEPT ![w] = "running"]]
    /\ UNCHANGED <<made, subject, main, tagAt, tables, handler, history>>

-----------------------------------------------------------------------------
(* The releases table.                                                     *)

Active == {t \in Tag : rel[t].state \in {"awaiting_ci", "fixing"}}

\* get_active_release takes the one updated last.
Newest(t) == t \in Active /\ \A u \in Active \ {t} : <<u, t>> \in older

\* Every write stamps updated_at; the order matters among active rows only.
Forget(t) == {p \in older : p[1] # t /\ p[2] # t}
Touch(t, s) == older' = Forget(t) \cup (IF s \in Terminal THEN {} ELSE (Active \ {t}) \X {t})

\* set_release_state replaces last_error as well.
Write(t, s, c, e) ==
    /\ rel' = [rel EXCEPT ![t] = [rel[t] EXCEPT !.state = s, !.sha = c, !.error = e]]
    /\ Touch(t, s)

SetState(t, s, e) == Write(t, s, rel[t].sha, e)

SetSha(t, c) == Write(t, rel[t].state, c, rel[t].error)

\* set_release_sha, if it is another one, and bump_release_round.
SetShaAndBump(t, c) ==
    /\ rel' = [rel EXCEPT ![t] = [state |-> "fixing", sha |-> c, failed |-> c,
                                  rounds |-> rel[t].rounds + 1, error |-> "none"]]
    /\ Touch(t, "fixing")
    /\ bumped' = [bumped EXCEPT ![t] = @ \cup {c}]

Goto(s) == at' = s /\ UNCHANGED <<event, active, calls>>
Rest == at' = "idle" /\ event' = None /\ active' = None
Finish == Rest /\ UNCHANGED calls

head == event.sha
tag == subject[event.sha]

-----------------------------------------------------------------------------
(* handle_release_ci up to the verdict.                                    *)

\* claim_next_event; another row of the key waits for the end of this one.
Claim ==
    /\ at = "idle"
    /\ \E e \in inbox :
          /\ inbox' = inbox \ {e}
          /\ event' = e
    /\ at' = "tag"
    /\ UNCHANGED <<hub, rel, older, active, calls, mishaps, history>>

\* Mutant: the verdict is compared with the row's commit.
ReadRow ==
    /\ at = "tag"
    /\ IF rel[tag].sha \in {NoCommit, head} THEN Goto("create") ELSE Finish
    /\ UNCHANGED <<hub, tables, mishaps, history>>

\* get_tag_sha: the verdict counts only for the commit the tag points at.
ReadTag ==
    /\ at = "tag"
    /\ IF tagAt[tag] = head THEN Goto("create") ELSE Finish
    /\ UNCHANGED <<hub, tables, mishaps, history>>

\* get_active_release, then upsert_release for a tag without a row.
Create ==
    /\ at = "create"
    /\ \/ Active = {} /\ active' = None
       \/ \E t \in Tag : Newest(t) /\ active' = t
    /\ IF rel[tag].state = "none"
       THEN Write(tag, "awaiting_ci", head, "none")
       ELSE UNCHANGED <<rel, older>>
    /\ at' = "supersede"
    /\ UNCHANGED <<hub, inbox, event, calls, mishaps, history>>

\* Mutant: the release that was active is left as it is.
SupersedeNothing ==
    /\ at = "supersede"
    /\ Goto("judge")
    /\ UNCHANGED <<hub, tables, mishaps, history>>

\* The release that was active gives way, whichever of the two is newer.
Supersede ==
    /\ at = "supersede"
    /\ IF active \notin {None, tag} THEN SetState(active, "superseded", "none")
                                    ELSE UNCHANGED <<rel, older>>
    /\ Goto("judge")
    /\ UNCHANGED <<hub, inbox, mishaps, history>>

\* Mutant: only a green release is left alone.
DecidedWell == rel[tag].state = "green"

Decided == rel[tag].state \in Terminal

\* A terminal release takes no more verdicts.
SkipTerminal ==
    /\ at = "judge" /\ Decided
    /\ Finish
    /\ UNCHANGED <<hub, tables, mishaps, history>>

\* The row learns the commit whatever the verdict says.
TakeSha == IF rel[tag].sha = head THEN UNCHANGED <<rel, older>> ELSE SetSha(tag, head)

\* An exit between the write of the commit and the rest repeats the verdict
\* and finds the commit written, so the two are one step.
JudgeSuccess ==
    /\ at = "judge" /\ ~Decided
    /\ event.conclusion = "success"
    /\ TakeSha
    /\ Goto("runs")
    /\ UNCHANGED <<hub, inbox, mishaps, history>>

JudgeIgnored ==
    /\ at = "judge" /\ ~Decided
    /\ event.conclusion = "cancelled"
    /\ TakeSha
    /\ Finish
    /\ UNCHANGED <<hub, inbox, mishaps, history>>

JudgeActionRequired ==
    /\ at = "judge" /\ ~Decided
    /\ event.conclusion = "action_required"
    /\ Write(tag, "failed", head, "other")
    /\ Finish
    /\ UNCHANGED <<hub, inbox, mishaps, history>>

\* Mutant: every failing verdict starts a round.
NeverResumed == FALSE

\* A round that began for this commit is resumed, it does not count again.
Resumed == rel[tag].state = "fixing" /\ rel[tag].failed = head

\* Mutant: one round more.
CapPassed == rel[tag].rounds > MaxRounds

CapReached == rel[tag].rounds >= MaxRounds

JudgeFailure ==
    /\ at = "judge" /\ ~Decided
    /\ event.conclusion = "failure"
    /\ \/ /\ Resumed
          /\ TakeSha
          /\ Goto("workspace")
          /\ UNCHANGED bumped
       \/ /\ ~Resumed /\ ~CapReached
          /\ SetShaAndBump(tag, head)
          /\ Goto("workspace")
       \/ /\ ~Resumed /\ CapReached
          /\ Write(tag, "failed", head, "round cap")
          /\ Finish
          /\ UNCHANGED bumped
    /\ UNCHANGED <<hub, inbox, mishaps, givenUp, torn, late>>

\* list_workflow_runs: wait for runs that have not completed, and leave a
\* failed one to its own verdict.
ReadRuns ==
    /\ at = "runs"
    /\ IF \A w \in Workflow : ci[head][w] \in Conclusion \ Blocking
       THEN Goto("release")
       ELSE Finish
    /\ UNCHANGED <<hub, tables, mishaps, history>>

\* get_release_by_tag finds a GitHub Release that is no draft, or does not.
ReadRelease ==
    /\ at = "release"
    /\ SetState(tag, "green", "none") \/ SetState(tag, "failed", "other")
    /\ Finish
    /\ UNCHANGED <<hub, inbox, mishaps, history>>

-----------------------------------------------------------------------------
(* A fix round: the workspace, the agent and its tools.                    *)

\* ensure_release_workspace resets the worktree to the default branch, which
\* must still be the release commit.
PrepareWorkspace ==
    /\ at = "workspace"
    /\ \/ main = head /\ Goto("agent") /\ UNCHANGED <<rel, older>>
       \/ main # head /\ SetState(tag, "failed", "other") /\ Finish
    /\ UNCHANGED <<hub, inbox, mishaps, history>>

\* The agent may call again while a call is in progress: until one has pushed,
\* equal calls are one, and then the others are refused.
Advance(k, step, c) ==
    calls' = (calls \ {k}) \cup
             {[tag |-> k.tag, head |-> k.head, step |-> step, fix |-> c]}

\* release_retag up to its last look at the remote tag; the fix is committed.
CheckTag ==
    /\ at = "agent"
    /\ tagAt[tag] = head
    /\ calls' = calls \cup {[tag |-> tag, head |-> head, step |-> "checked", fix |-> NoCommit]}
    /\ UNCHANGED <<hub, tables, at, event, active, mishaps, history>>

\* push_release moves the branch, fast-forward only, and forces the tag, both
\* or neither.  The subject must begin with release_commit_prefix, the version
\* behind it is not looked at.
Push(k, s) ==
    /\ k.step = "checked" /\ main = k.head
    /\ Commits(s)
    /\ main' = made + 1
    /\ tagAt' = [tagAt EXCEPT ![k.tag] = made + 1]
    /\ \/ Advance(k, "pushed", made + 1)        \* answered,
       \/ calls' = calls \ {k}                  \* or the answer is lost
    /\ UNCHANGED <<tables, at, event, active, mishaps, history>>

\* git refuses, or HEAD is no longer what the call was about: the next round
\* resets the same worktree.
PushFails(k) ==
    /\ k.step = "checked"
    /\ calls' = calls \ {k}
    /\ UNCHANGED <<hub, tables, at, event, active, mishaps, history>>

\* The turn that made the call, or one resumed for the same commit, goes on.
Attended(k) == at = "agent" /\ k.tag = tag /\ k.head = head

\* What a call does to the table it does without a condition.  It is not taken
\* to do it between the statements from Create to the verdict, which have no
\* await between them and go by the row that Create read.
MayRecord == at \notin {"supersede", "judge"}

RecordSha(k) ==
    /\ k.step = "pushed" /\ MayRecord
    /\ SetSha(k.tag, k.fix)
    /\ Advance(k, "recorded", k.fix)
    /\ late' = (late \/ ~Attended(k))
    /\ UNCHANGED <<hub, inbox, at, event, active, mishaps, bumped, givenUp, torn>>

RecordState(k) ==
    /\ k.step = "recorded" /\ MayRecord
    /\ SetState(k.tag, "awaiting_ci", "none")
    /\ calls' = calls \ {k}
    /\ late' = (late \/ ~Attended(k))
    /\ UNCHANGED <<hub, inbox, at, event, active, mishaps, bumped, givenUp, torn>>

\* abort_task.
Abort ==
    /\ at = "agent"
    /\ SetState(tag, "failed", "other")
    /\ Goto("end")
    /\ UNCHANGED <<hub, inbox, mishaps, history>>

\* The turn ends; a call that was cancelled goes on.
EndTurn ==
    /\ at = "agent"
    /\ Goto("end")
    /\ UNCHANGED <<hub, tables, mishaps, history>>

\* Mutant: what the agent left behind is not looked at.
LeaveRound ==
    /\ at = "end"
    /\ Finish
    /\ UNCHANGED <<hub, tables, mishaps, history>>

\* After run_task: a round that did not retag is the last one.
EndRound ==
    /\ at = "end"
    /\ IF rel[tag].state = "fixing" THEN SetState(tag, "failed", "other")
                                    ELSE UNCHANGED <<rel, older>>
    /\ Finish
    /\ UNCHANGED <<hub, inbox, mishaps, history>>

-----------------------------------------------------------------------------
(* What goes wrong.                                                        *)

\* GitHub, git or the run raises, or the turn runs out of time: a retry, or the
\* event has none left and fails for good.
HandlerFails ==
    /\ at \in {"tag", "runs", "release", "workspace", "agent"} /\ Mishap
    /\ \/ inbox' = inbox \cup {event} /\ UNCHANGED givenUp
       \/ givenUp' = givenUp \cup {head} /\ UNCHANGED inbox
    /\ Finish
    /\ UNCHANGED <<hub, rel, older, bumped, torn, late>>

\* The process exits, and its threads with it; at the next start the running
\* row is queued again.
Exit ==
    /\ at # "idle" \/ calls # {}
    /\ Mishap
    /\ inbox' = IF at = "idle" THEN inbox ELSE inbox \cup {event}
    /\ torn' = (torn \/ (at = "supersede" /\ active \notin {None, tag}))
    /\ Rest /\ calls' = {}
    /\ UNCHANGED <<hub, rel, older, bumped, givenUp, late>>

-----------------------------------------------------------------------------
GitHub ==
    \/ \E t \in Tag : CutRelease(t) \/ MoveTag(t)
    \/ PushToMain
    \/ \E c \in Commit, w \in Workflow : Rerun(c, w) \/ \E x \in Conclusion : Conclude(c, w, x)

Judgement ==
    \/ Claim \/ ReadTag \/ Create \/ Supersede
    \/ SkipTerminal \/ JudgeSuccess \/ JudgeIgnored \/ JudgeActionRequired \/ JudgeFailure
    \/ ReadRuns \/ ReadRelease

Round ==
    \/ PrepareWorkspace \/ CheckTag \/ Abort \/ EndTurn \/ EndRound

Retag ==
    \E k \in calls :
        \/ \E s \in Tag : Push(k, s)
        \/ PushFails(k) \/ RecordSha(k) \/ RecordState(k)

Next == GitHub \/ Judgement \/ Round \/ Retag \/ HandlerFails \/ Exit

Spec == Init /\ [][Next]_vars

-----------------------------------------------------------------------------
(* Properties.                                                             *)

\* A commit starts at most one round of a release, however often its verdicts
\* are repeated by retries, exits and further failing workflows
\* (handle_release_ci, "not (row.state == 'fixing' and row.last_failed_sha == head_sha)"),
\* and the round cap ends a release only at a commit it has spent no round on:
\* unless a call of release_retag once wrote "awaiting_ci" after its turn.
OneRoundPerFailure ==
    ~late => \A t \in Tag :
        /\ rel[t].rounds = Cardinality(bumped[t])
        /\ rel[t].error = "round cap" =>
              rel[t].rounds = MaxRounds /\ rel[t].sha \notin bumped[t]

\* A release that is green, failed or superseded keeps its row as it is, although
\* handle_release_ci writes it without a condition: only a call of release_retag
\* that outlived its turn, and has moved the tag, takes it up again.
TerminalIsFinal ==
    [][\A t \in Tag : rel[t].state \in Terminal =>
          \/ rel'[t] = rel[t]
          \/ \E k \in calls : k.tag = t /\ k.step # "checked" /\ ~Attended(k)]_vars

\* At most one release of the repository is awaited or repaired at a time
\* (get_active_release returns one), unless the process once exited between
\* upsert_release and the supersession it calls for (the repeated verdict then
\* finds its own row the newest and never comes back to the other), or a call
\* of release_retag wrote after its turn.
OneActiveRelease ==
    at # "supersede" /\ ~torn /\ ~late => Cardinality(Active) <= 1

\* A release is only left `fixing` while somebody is on it: the handler of the
\* failing verdict, that verdict waiting in the queue, or CI of the commit the
\* tag has moved to; or the verdict failed for good (tasks.py, "agent ended
\* round without retagging").
RepairIsTended ==
    \A t \in Tag : rel[t].state = "fixing" =>
        LET c == rel[t].failed
            IsFailureOf(e) == e.sha = c /\ e.conclusion = "failure"
        IN  \/ at # "idle" /\ IsFailureOf(event)
            \/ \E e \in inbox : IsFailureOf(e)
            \/ tagAt[t] # c
            \/ c \in givenUp

\* When every verdict has been handled, the release at whose commit all
\* workflows passed or failed has been decided: neither the order of the
\* verdicts nor reruns, retries and exits leave it waiting, only a call of
\* release_retag that writes after its turn may.  A cancelled workflow is
\* excepted: it does not block, but if it is the last to complete nobody looks
\* at the others again.
VerdictsDecide ==
    at = "idle" /\ inbox = {} /\ ~late =>
        \A t \in Tag : LET c == tagAt[t] IN
            /\ c # NoCommit /\ c \notin givenUp
            /\ subject[c] = t
            /\ \A w \in Workflow : ci[c][w] \in Blocking \cup {"success"}
            => rel[t].state \in Terminal
=============================================================================

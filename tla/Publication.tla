---------------------------- MODULE Publication ----------------------------
(* How the commits of one issue's worktree reach GitHub: the gates, the      *)
(* verification receipts, the guarded push, the pull request and the branch  *)
(* rename (carter_omp/host_tools.py, verification.py, git_ops.push,          *)
(* sandbox.rename_workspace_branch).  An agent's tool calls run in threads   *)
(* of their own: two of them, and the agent's shell, interleave here at the  *)
(* points where they read or write HEAD, the worktree, the issue row, the    *)
(* shared refs of the clone pool or GitHub.                                  *)
(*                                                                           *)
(* A commit is its tree, the pushes of other people it contains and the      *)
(* state of its message and author; two commits that agree on all of these   *)
(* are one commit here.  The push is the proxied one, which names the remote *)
(* by URL and refreshes the tracking ref itself.                             *)
EXTENDS Naturals, FiniteSets

CONSTANTS
    Call,      \* concurrent tool calls of the run
    Tree,      \* contents of the worktree
    BaseTree,  \* what origin/<default> holds
    Fmt,       \* what the formatter makes of a tree
    Passing,   \* the trees a phase passes on: [Phase -> SUBSET Tree]
    Setup,     \* deployments: [bun, runs, requires, skip, directed]
    MaxActs,   \* bound on the agent's tool calls and its own git work
    MaxPeer,   \* bound on pushes by other people to the pull request's branch
    MaxRuns,   \* bound on runs of the issue
    None

Phase == {"fast", "targeted", "full"} \* a push is gated by the first only
Branch == {"first", "renamed"}        \* carter-omp/<hex>/<slug> before and after classify_issue
Peer == 1 .. MaxPeer

ASSUME PublicationAssumption ==
    /\ BaseTree \in Tree /\ Fmt \in [Tree -> Tree] /\ Passing \in [Phase -> SUBSET Tree]
    /\ \A t \in Tree : Fmt[Fmt[t]] = Fmt[t]
    /\ Setup \subseteq [bun : BOOLEAN, runs : SUBSET Phase, requires : SUBSET Phase,
                      skip : BOOLEAN, directed : BOOLEAN]
    /\ {MaxActs, MaxPeer, MaxRuns} \subseteq Nat

\* "raw": the message wants a trailer or real newlines; "foreign": another author.
Commit == [tree : Tree, peers : SUBSET Peer, form : {"clean", "raw", "foreign"}]
Base == [tree |-> BaseTree, peers |-> {}, form |-> "clean"]

ASSUME NoneAssumption == None \notin Commit /\ None \notin Branch /\ None \notin Call

VARIABLES
    setup,     \* the repository's gates, SKIP_CHECKS and a maintainer's directive
    up,        \* the issue has a run
    runs,      \* how many it had
    head,      \* HEAD of the worktree
    work,      \* its files
    wsBranch,  \* the branch it is on
    row,       \* the issue row: [branch, pr, class]
    remote,    \* the branches on GitHub
    prs,       \* the branches with an open pull request
    tracking,  \* refs/remotes/origin/* of the pool every worktree shares
    receipts,  \* verification_receipts: the latest of each commit
    calls,     \* the tool calls in flight
    acts,      \* the agent's tool calls and its own git work so far
    peers,     \* pushes by other people so far
    passed,    \* history: <<tree, phase>> a gate really passed on
    known,     \* history: the peers' pushes a fetch of the pool has brought
    blind      \* history: a rename that did not know of the pull request
vars == <<setup, up, runs, head, work, wsBranch, row, remote, prs, tracking, receipts,
          calls, acts, peers, passed, known, blind>>
run == <<setup, up, runs>>
tree == <<head, work>>
github == <<remote, prs>>
history == <<passed, known, blind>>

\* todo: the phases a call has still to run; intact: nobody else moved what it
\* publishes since its gates began.
Idle == [kind |-> None, step |-> "idle", branch |-> None, pr |-> None, snap |-> None,
         lease |-> None, todo |-> {}, intact |-> FALSE]
Steps == {"idle", "fix", "amend", "gates", "require", "normalise", "inspect", "probe", "send",
          "create", "opening", "settle", "rename", "name", "label"}
CallState ==
    [kind : {None, "push", "open", "classify"}, step : Steps,
     branch : Branch \cup {None}, pr : Branch \cup {None}, snap : Commit \cup {None},
     lease : Commit \cup {None}, todo : SUBSET Phase, intact : BOOLEAN]

TypeOK ==
    /\ setup \in Setup /\ up \in BOOLEAN /\ runs \in 0 .. MaxRuns
    /\ acts \in 0 .. MaxActs /\ peers \in 0 .. MaxPeer
    /\ head \in Commit /\ work \in Tree /\ wsBranch \in Branch
    /\ row \in [branch : Branch, pr : Branch \cup {None}, class : {None, "bug", "question"}]
    /\ remote \in [Branch -> Commit \cup {None}] /\ prs \subseteq Branch
    /\ tracking \in [Branch -> Commit \cup {None}]
    /\ receipts \subseteq [head : Commit, phases : SUBSET Phase]
    /\ calls \in [Call -> CallState]
    /\ passed \subseteq Tree \X Phase
    /\ known \subseteq Peer /\ blind \in BOOLEAN

Init ==
    /\ setup \in Setup /\ up = FALSE /\ runs = 0 /\ acts = 0 /\ peers = 0
    /\ head = Base /\ work = BaseTree /\ wsBranch = "first"
    /\ row = [branch |-> "first", pr |-> None, class |-> None]
    /\ remote = [b \in Branch |-> None] /\ prs = {} /\ tracking = remote
    /\ receipts = {} /\ calls = [c \in Call |-> Idle]
    /\ passed = {} /\ known = {} /\ blind = FALSE

-----------------------------------------------------------------------------
(* Helpers *)

PeersIn(refs) == UNION {refs[b].peers : b \in {b \in Branch : refs[b] # None}}

\* git status --porcelain
Dirty == work # head.tree

\* HEAD is not reachable from a remote-tracking ref: what a push would publish.
Unpushed == head # Base /\ \A b \in Branch : tracking[b] # head

Gates(k) == IF k = "open" THEN Phase ELSE {"fast"}

\* What a call has to run; a phase that has no commands is passed over, unless
\* the policy requires it.
Todo(k) == Gates(k) \cap (setup.runs \cup setup.requires)

\* fast before targeted before full
First(p, todo) ==
    p \in todo /\ (p # "fast" => "fast" \notin todo) /\ (p = "full" => "targeted" \notin todo)

\* Somebody moved HEAD or the files where the code would not notice: before the
\* inspection, or HEAD once git_ops.push has compared it with the inspected one.
Overtaken(d) ==
    CASE calls[d].step = "probe" -> FALSE
      [] calls[d].step = "send" -> head' # head
      [] OTHER -> tree' # tree

\* What call c, or the shell, does to the worktree takes the others' verdicts.
Disturb(c) == [d \in Call |-> IF d # c /\ Overtaken(d) THEN [calls[d] EXCEPT !.intact = FALSE]
                                                     ELSE calls[d]]
Advance(c, step) == calls' = [calls EXCEPT ![c].step = step]

\* Every refusal, and every end, of a call.
End(c) == calls' = [calls EXCEPT ![c] = Idle]
Refuse(c) == End(c) /\ UNCHANGED <<run, tree, wsBranch, row, github, tracking, receipts, acts, peers, history>>

-----------------------------------------------------------------------------
(* Runs.  A run's start fetches the pool's refs and resumes the worktree on  *)
(* whatever branch and commit it is; one a comment on the pull request       *)
(* started finds the issue by the branch when the row lacks the number.      *)

Start ==
    /\ ~up /\ runs < MaxRuns
    /\ up' = TRUE /\ runs' = runs + 1
    /\ tracking' = remote
    /\ known' = known \cup PeersIn(remote)
    /\ \/ row' = [row EXCEPT !.branch = wsBranch]
       \/ /\ row.pr = None /\ row.branch \in prs
          /\ row' = [row EXCEPT !.pr = row.branch]
    /\ UNCHANGED <<setup, tree, wsBranch, github, receipts, calls, acts, peers, passed, blind>>

\* The run ends, or its process dies, with calls in any step.
Exit ==
    /\ up /\ up' = FALSE
    /\ calls' = [c \in Call |-> Idle]
    /\ UNCHANGED <<setup, runs, tree, wsBranch, row, github, tracking, receipts, acts, peers, history>>

\* Another issue's run refreshes the pool of the repository.
PoolFetch ==
    /\ tracking # remote /\ tracking' = remote
    /\ known' = known \cup PeersIn(remote)
    /\ UNCHANGED <<run, tree, wsBranch, row, github, receipts, calls, acts, peers, passed, blind>>

\* A person commits to the pull request's branch.
PeerPush ==
    /\ peers < MaxPeer /\ peers' = peers + 1
    /\ \E b \in prs : remote' = [remote EXCEPT ![b].peers = @ \cup {peers'}]
    /\ UNCHANGED <<run, tree, wsBranch, row, prs, tracking, receipts, calls, acts, history>>

-----------------------------------------------------------------------------
(* The agent's shell *)

Edit ==
    \E t \in Tree \ {work} :
        /\ work' = t /\ UNCHANGED head
Record ==
    /\ Dirty
    /\ \E f \in {"clean", "raw", "foreign"} :
           head' = [head EXCEPT !.tree = work, !.form = f]
    /\ UNCHANGED work
Discard == Dirty /\ work' = head.tree /\ UNCHANGED head
ResetAuthor == head.form = "foreign" /\ head' = [head EXCEPT !.form = "raw"] /\ UNCHANGED work
\* rebase onto, or merge, the branch as the pool knows it
Incorporate ==
    /\ ~Dirty /\ tracking[wsBranch] # None /\ ~(tracking[wsBranch].peers \subseteq head.peers)
    /\ \E t \in Tree :
           /\ head' = [tree |-> t, peers |-> head.peers \cup tracking[wsBranch].peers, form |-> "raw"]
           /\ work' = t
Agent ==
    /\ up /\ acts < MaxActs /\ acts' = acts + 1
    /\ (Edit \/ Record \/ Discard \/ ResetAuthor \/ Incorporate)
    /\ calls' = Disturb(None)
    /\ UNCHANGED <<run, wsBranch, row, github, tracking, receipts, peers, history>>

-----------------------------------------------------------------------------
(* gh_push_branch and gh_open_pr *)

\* Only a bug publishes on the trigger that queued the run; any other class
\* needs a maintainer's directive or the recorded pull request.
Authorized == setup.directed \/ row.pr # None \/ row.class = "bug"

Publish(c) ==
    /\ up /\ calls[c] = Idle /\ acts < MaxActs /\ acts' = acts + 1
    /\ Authorized
    /\ \E k \in {"push", "open"} :
           calls' = [calls EXCEPT ![c] =
                       [Idle EXCEPT !.kind = k, !.branch = wsBranch, !.todo = Todo(k),
                                    !.intact = TRUE, !.step = IF setup.bun THEN "fix" ELSE "gates"]]
    /\ UNCHANGED <<run, tree, wsBranch, row, github, tracking, receipts, peers, history>>

\* `bun run fix`, refused over uncommitted changes.
Fix(c) ==
    /\ calls[c].step = "fix"
    /\ \/ Refuse(c)
       \/ /\ ~Dirty
          /\ work' = IF setup.skip THEN work ELSE Fmt[work]
          /\ UNCHANGED head
          /\ calls' = [Disturb(c) EXCEPT ![c].step = IF setup.skip THEN "gates" ELSE "amend",
                                         ![c].intact = TRUE]
          /\ UNCHANGED <<run, wsBranch, row, github, tracking, receipts, acts, peers, history>>

\* Whatever differs from HEAD by now is amended into it when that is a commit of
\* the bot's own, and otherwise left behind with a refusal.
Amend(c) ==
    /\ calls[c].step = "amend"
    /\ \/ Refuse(c)
       \/ /\ Dirty => head # Base /\ head.form # "foreign"
          /\ head' = [head EXCEPT !.tree = work]
          /\ UNCHANGED work
          /\ calls' = [Disturb(c) EXCEPT ![c].step = "gates", ![c].intact = TRUE]
          /\ UNCHANGED <<run, wsBranch, row, github, tracking, receipts, acts, peers, history>>

\* `bun check` and `bun run test`, or the commands of the policy's phases: one
\* phase after the other on the files of the worktree.  A failure, a timeout or
\* a required phase without commands refuses.  Files that moved since the gates
\* began may have moved under the command, whose verdict is then anybody's.
RunPhase(c) ==
    /\ calls[c].step = "gates"
    /\ \E p \in calls[c].todo :
          /\ First(p, calls[c].todo)
          /\ \/ Refuse(c)
             \/ /\ p \in setup.runs
                /\ setup.skip \/ ~calls[c].intact \/ work \in Passing[p]
                /\ passed' = IF setup.skip \/ ~calls[c].intact THEN passed
                                                              ELSE passed \cup {<<work, p>>}
                /\ calls' = [calls EXCEPT ![c].todo = @ \ {p}]
                /\ UNCHANGED <<run, tree, wsBranch, row, github, tracking, receipts,
                               acts, peers, known, blind>>

\* The receipt names whatever HEAD is by then.  Nothing reads the one the bun
\* gates leave, so it is not kept here.
RecordReceipt(c) ==
    /\ calls[c].step = "gates" /\ calls[c].todo = {}
    /\ receipts' = IF setup.bun THEN receipts
                   ELSE {r \in receipts : r.head # head} \cup
                        {[head |-> head, phases |-> IF setup.skip THEN {} ELSE Gates(calls[c].kind) \cap setup.runs]}
    /\ Advance(c, IF calls[c].kind = "open" /\ ~setup.bun THEN "require" ELSE "normalise")
    /\ UNCHANGED <<run, tree, wsBranch, row, github, tracking, acts, peers, history>>

RequireReceipt(c) ==
    /\ calls[c].step = "require"
    /\ IF \E r \in receipts : r.head = head /\ setup.requires \subseteq r.phases
       THEN /\ Advance(c, "normalise")
            /\ UNCHANGED <<run, tree, wsBranch, row, github, tracking, receipts, acts, peers, history>>
       ELSE Refuse(c)

\* gh_open_pr reads the branch only now; gh_push_branch compares the one it read
\* at its start.  Rewrites the messages of what is about to be published, and with
\* them the commit; the trees stay.
Normalise(c) ==
    /\ calls[c].step = "normalise"
    /\ IF calls[c].kind = "push" /\ calls[c].branch # wsBranch THEN Refuse(c)
       ELSE /\ head' = IF Unpushed /\ head.form = "raw" THEN [head EXCEPT !.form = "clean"] ELSE head
            /\ calls' = [calls EXCEPT ![c].step = "inspect", ![c].branch = wsBranch]
            /\ UNCHANGED <<run, work, wsBranch, row, github, tracking, receipts, acts, peers, history>>

\* The HEAD to push, the authors of what it publishes, and a clean worktree.
Inspect(c) ==
    /\ calls[c].step = "inspect"
    /\ IF Dirty \/ (Unpushed /\ head.form = "foreign") THEN Refuse(c)
       ELSE /\ calls' = [calls EXCEPT ![c].step = "probe", ![c].snap = head]
            /\ UNCHANGED <<run, tree, wsBranch, row, github, tracking, receipts, acts, peers, history>>

\* Mutant: git_ops.push does not compare HEAD with the inspected one.
ProbeUnchecked(c) ==
    /\ calls[c].step = "probe"
    /\ calls' = [calls EXCEPT ![c].step = "send", ![c].lease = tracking[calls[c].branch]]
    /\ UNCHANGED <<run, tree, wsBranch, row, github, tracking, receipts, acts, peers, history>>

\* Mutant: the lease is what ls-remote says.
ProbeRemote(c) ==
    /\ calls[c].step = "probe"
    /\ IF head # calls[c].snap THEN Refuse(c)
       ELSE /\ calls' = [calls EXCEPT ![c].step = "send", ![c].lease = remote[calls[c].branch]]
            /\ UNCHANGED <<run, tree, wsBranch, row, github, tracking, receipts, acts, peers, history>>

\* git_ops.push: HEAD must be the inspected one, the lease is the tracking ref.
Probe(c) ==
    /\ calls[c].step = "probe"
    /\ IF head # calls[c].snap THEN Refuse(c)
       ELSE /\ calls' = [calls EXCEPT ![c].step = "send", ![c].lease = tracking[calls[c].branch]]
            /\ UNCHANGED <<run, tree, wsBranch, row, github, tracking, receipts, acts, peers, history>>

\* GitHub takes HEAD as it is now, if the branch is where the lease says; then
\* the tracking ref is set to the inspected HEAD.  When the answer is lost (the
\* proxy's 504) the branch has moved and the tracking ref has not.
Send(c) ==
    LET b == calls[c].branch IN
    /\ calls[c].step = "send"
    /\ \/ Refuse(c)
       \/ /\ remote[b] = calls[c].lease
          /\ remote' = [remote EXCEPT ![b] = head]
          /\ \/ /\ tracking' = [tracking EXCEPT ![b] = calls[c].snap]
                /\ IF calls[c].kind = "open"
                   THEN calls' = [calls EXCEPT ![c] = [Idle EXCEPT !.kind = "open", !.step = "create"]]
                   ELSE End(c)
             \/ UNCHANGED tracking /\ End(c)
          /\ UNCHANGED <<run, tree, wsBranch, row, prs, receipts, acts, peers, history>>

\* The request names the branch the worktree is on when it is made.
Create(c) ==
    /\ calls[c].step = "create"
    /\ \/ Refuse(c)
       \/ /\ calls' = [calls EXCEPT ![c].step = "opening", ![c].pr = wsBranch]
          /\ UNCHANGED <<run, tree, wsBranch, row, github, tracking, receipts, acts, peers, history>>

\* GitHub refuses a second pull request for a branch and one without commits.  An
\* answer lost after GitHub acted is retried into that refusal: an error.
Open(c) ==
    LET b == calls[c].pr IN
    /\ calls[c].step = "opening"
    /\ \/ Refuse(c)
       \/ /\ b \notin prs /\ remote[b] \notin {None, Base}
          /\ prs' = prs \cup {b}
          /\ Advance(c, "settle") \/ End(c)
          /\ UNCHANGED <<run, tree, wsBranch, row, remote, tracking, receipts, acts, peers, history>>

\* set_issue_pr
Settle(c) ==
    /\ calls[c].step = "settle"
    /\ row' = [row EXCEPT !.pr = calls[c].pr]
    /\ End(c)
    /\ UNCHANGED <<run, tree, wsBranch, github, tracking, receipts, acts, peers, history>>

-----------------------------------------------------------------------------
(* classify_issue: with a slug, the branch is renamed unless the row read at  *)
(* the start names a pull request, and then set_issue_branch writes the       *)
(* branch; then the labels, and only then the class.                          *)
Classify(c) ==
    /\ up /\ calls[c] = Idle /\ acts < MaxActs /\ acts' = acts + 1
    /\ row.class = None
    /\ calls' = [calls EXCEPT ![c] = [Idle EXCEPT !.kind = "classify", !.pr = row.pr, !.step = "rename"]]
    /\ UNCHANGED <<run, tree, wsBranch, row, github, tracking, receipts, peers, history>>

\* A rename now knows nothing of a pull request that is open, or asked for.
RenameIsBlind == prs # {} \/ \E d \in Call : calls[d].step = "opening"

\* Mutant: the branch is renamed whatever the row says.
RenameAlways(c) ==
    /\ calls[c].step = "rename"
    /\ \/ /\ wsBranch # "renamed" /\ wsBranch' = "renamed"
          /\ blind' = (blind \/ (calls[c].pr = None /\ RenameIsBlind))
          /\ calls' = [calls EXCEPT ![c].step = "name", ![c].branch = wsBranch']
       \/ Advance(c, "label") /\ UNCHANGED <<wsBranch, blind>>
    /\ UNCHANGED <<run, tree, row, github, tracking, receipts, acts, peers, passed, known>>

\* No slug; or `git branch -m`, refused when another call was first; or the
\* branch stays what it is.
Rename(c) ==
    /\ calls[c].step = "rename"
    /\ \/ Refuse(c)
       \/ /\ \/ /\ calls[c].pr = None /\ wsBranch # "renamed"
                /\ wsBranch' = "renamed"
                /\ blind' = (blind \/ RenameIsBlind)
             \/ /\ calls[c].pr # None \/ wsBranch = "renamed"
                /\ UNCHANGED <<wsBranch, blind>>
          /\ calls' = [calls EXCEPT ![c].step = "name", ![c].branch = wsBranch']
          /\ UNCHANGED <<run, tree, row, github, tracking, receipts, acts, peers, passed, known>>
       \/ /\ Advance(c, "label")
          /\ UNCHANGED <<run, tree, wsBranch, row, github, tracking, receipts, acts, peers, history>>

\* set_issue_branch, unless the branch was renamed once more.
Name(c) ==
    /\ calls[c].step = "name"
    /\ IF calls[c].branch # wsBranch THEN Refuse(c)
       ELSE /\ row' = [row EXCEPT !.branch = calls[c].branch]
            /\ Advance(c, "label")
            /\ UNCHANGED <<run, tree, wsBranch, github, tracking, receipts, acts, peers, history>>

\* Mutant: the class is the last of the labels.
LabelLast(c) ==
    /\ calls[c].step = "label"
    /\ \/ Refuse(c)
       \/ /\ \E k \in {"bug", "question", "triaged"} : row' = [row EXCEPT !.class = k]
          /\ End(c)
          /\ UNCHANGED <<run, tree, wsBranch, github, tracking, receipts, acts, peers, history>>

Label(c) ==
    /\ calls[c].step = "label"
    /\ \/ Refuse(c)
       \/ /\ \E k \in {"bug", "question"} : row' = [row EXCEPT !.class = k]
          /\ End(c)
          /\ UNCHANGED <<run, tree, wsBranch, github, tracking, receipts, acts, peers, history>>

\* revise_issue_assessment
Revise ==
    /\ up /\ row.class # None
    /\ \E k \in {"bug", "question"} \ {row.class} : row' = [row EXCEPT !.class = k]
    /\ acts < MaxActs /\ acts' = acts + 1
    /\ UNCHANGED <<run, tree, wsBranch, github, tracking, receipts, calls, peers, history>>

Step(c) ==
    \/ Publish(c) \/ Fix(c) \/ Amend(c) \/ RunPhase(c) \/ RecordReceipt(c) \/ RequireReceipt(c)
    \/ Normalise(c) \/ Inspect(c) \/ Probe(c) \/ Send(c) \/ Create(c) \/ Open(c) \/ Settle(c)
    \/ Classify(c) \/ Rename(c) \/ Name(c) \/ Label(c)
Next ==
    \/ Start \/ Exit \/ PoolFetch \/ PeerPush \/ Agent \/ Revise
    \/ \E c \in Call : Step(c)

Spec == Init /\ [][Next]_vars

-----------------------------------------------------------------------------
(* Properties *)

Sent(c) == calls[c].step = "send" /\ remote' # remote

\* What a push or a pull request publishes passed every one of its phases,
\* through the formatter's amend, the receipt and the message rewrite, unless the
\* run may skip them, or somebody else moved HEAD or the files after the first
\* phase began and before the inspection, or moved HEAD after git_ops.push had
\* compared it with the inspected one.
PublishedIsVerified ==
    [][\A c \in Call :
          Sent(c) /\ calls[c].intact /\ ~setup.skip =>
              {head.tree} \X (Gates(calls[c].kind) \cap setup.runs) \subseteq passed]_vars

\* Across retries, lost answers and renames, a peer's commit leaves GitHub only
\* after some run has fetched it into the pool.
PeerLossNeedsFetch == [][PeersIn(remote) \ PeersIn(remote') \subseteq known]_vars

\* An issue has one pull request and its worktree stays on that request's
\* branch, unless a rename came while one was asked for or open and the row the
\* call had read did not say so: a request or an answer on its way, or lost.
OnePrOnItsBranch ==
    blind \/ (Cardinality(prs) <= 1 /\ (row.pr # None => wsBranch = row.pr))
=============================================================================

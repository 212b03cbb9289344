----------------------------- MODULE Authority -----------------------------
(* What a trigger lets a run do: an authorized webhook is routed to a task   *)
(* and a key, the handler finds the issue row and the workspace behind the   *)
(* thread, the run gets a token of threads, branch and capabilities, and the *)
(* proxy decides each write by it (carter_omp/github_events.py, tasks.py,    *)
(* sandbox.ensure_workspace, worker._attach_run_token, proxy/server.py).     *)
(* One repository, strict mode; threads stay open.  The queue's own rules    *)
(* are in EventQueue: here it is a set that runs one event per key.          *)
EXTENDS Naturals, FiniteSets

CONSTANTS
    Issue, PersonPr, BotPr,  \* thread numbers: issues, people's PRs, numbers the bot's PRs get
    Person, Authorized,      \* who acts on GitHub; CARTER_OMP_AUTHORIZED_USER_IDS
    MaxEvents,               \* bound on admitted events
    None

ASSUME AuthorityAssumption ==
    /\ Issue \cup PersonPr \cup BotPr \subseteq Nat \ {0} /\ MaxEvents \in Nat
    /\ Issue \cap PersonPr = {} /\ (Issue \cup PersonPr) \cap BotPr = {}
    /\ Authorized \subseteq Person

Number == Issue \cup PersonPr \cup BotPr

\* carter-omp/<hex>/<slug> as <<number it was made for, slug>>, slug 1 the
\* title's, 2 the one the agent renames to; a person's head branch as <<0, pr>>.
Owned == (Issue \cup PersonPr) \X {1, 2}
Branch == Owned \cup {<<0, p>> : p \in PersonPr}
Titled(n) == <<n, 1>>
\* review/pr-<n>: a detached checkout
Review == <<0, 0>>

VARIABLES
    fork,      \* people's PRs whose head is in another repository
    prs,       \* the bot's PRs on GitHub: head branch or None
    rows,      \* issues table: branch and pr_number of a number, or None
    refs,      \* local branches of the pool: none, clean, or with commits of the bot's
    tree,      \* checkout of each number's workspace, None without one
    reviewed,  \* PRs with a successful submit_pr_review
    queue,     \* admitted events that wait
    runs,      \* the run of each key, or None
    admitted   \* events admitted
vars == <<fork, prs, rows, refs, tree, reviewed, queue, runs, admitted>>
git == <<refs, tree>>
hub == <<fork, prs, reviewed>>

Cap == {"comment", "label", "push", "open_pr", "request_review", "create_issue", "review_pr"}
Task == {"triage_issue", "handle_comment", "handle_pr_conversation", "handle_review", "review_pr"}
Webhook == [kind : {"label", "mention", "inline"}, on : Number, by : Person, words : BOOLEAN]
Event == [task : Task, key : Number, thread : Number, label : BOOLEAN, words : BOOLEAN]
Token == [issue : Number, pr : Number \cup {None}, branch : Branch \cup {Review}, caps : SUBSET Cap]
Run == [event : Event, number : Number, fills : BOOLEAN, plan : Branch \cup {Review, None},
        branch : Branch \cup {Review, None}, pr : Number \cup {None}, token : Token \cup {None}]
Row == [branch : Branch \cup {Review, None}, pr : Number \cup {None}]

\* None is no value of the program's.
ASSUME NoneAssumption ==
    /\ None \notin Nat /\ None \notin Branch \cup {Review}
    /\ None \notin Token /\ None \notin Run /\ None \notin Row

TypeOK ==
    /\ fork \subseteq PersonPr /\ prs \in [BotPr -> Owned \cup {None}]
    /\ rows \in [Number -> Row \cup {None}]
    /\ refs \in [Branch -> {"none", "clean", "work"}]
    /\ tree \in [Number -> Branch \cup {Review, None}]
    /\ \A n \in Number : tree[n] \in Branch => refs[tree[n]] # "none"
    /\ reviewed \subseteq PersonPr /\ queue \subseteq Event /\ admitted \in 0 .. MaxEvents
    /\ runs \in [Number -> Run \cup {None}]
    /\ \A k \in Number : runs[k] # None => runs[k].event.key = k

Init ==
    /\ fork \in SUBSET PersonPr /\ prs = [p \in BotPr |-> None]
    /\ rows = [n \in Number |-> None]
    /\ refs = [b \in Branch |-> "none"] /\ tree = [n \in Number |-> None]
    /\ reviewed = {} /\ queue = {} /\ runs = [n \in Number |-> None] /\ admitted = 0

Opened == {p \in BotPr : prs[p] # None}
Head(p) == IF p \in PersonPr THEN <<0, p>> ELSE prs[p]
Upsert(n, b, p) ==
    LET old == IF rows[n] = None THEN [branch |-> None, pr |-> None] ELSE rows[n] IN
    [rows EXCEPT ![n] = [branch |-> IF b = None THEN old.branch ELSE b,
                         pr |-> IF p = None THEN old.pr ELSE p]]
ByPr(p) == {n \in Number : rows[n] # None /\ rows[n].pr = p}
ByBranch(b) == {n \in Number : rows[n] # None /\ rows[n].branch = b}

-----------------------------------------------------------------------------
(* Ingress *)

\* authorize_event: the exact label or assignment, or a mention, by an
\* authorized person; inline comments exist on pull requests only.
AuthorizeEvent(w) ==
    /\ w.by \in Authorized
    /\ w.on \in Issue \cup PersonPr \cup Opened
    /\ w.kind = "inline" => w.on \notin Issue
    /\ w.kind = "label" => ~w.words

TaskOf(w) ==
    CASE w.on \in Issue -> IF w.kind = "label" THEN "triage_issue" ELSE "handle_comment"
      [] w.on \in BotPr -> IF w.kind = "inline" THEN "handle_review" ELSE "handle_pr_conversation"
      [] OTHER -> IF w.kind = "mention" THEN "handle_pr_conversation" ELSE "review_pr"

\* A pull request's events queue under the issue whose row has it, if one has;
\* a label on a person's pull request is not resolved.
Keys(w) ==
    IF w.on \in Issue \/ ByPr(w.on) = {} \/ (w.on \in PersonPr /\ w.kind = "label") THEN {w.on}
    ELSE ByPr(w.on)

Route(w) ==
    /\ AuthorizeEvent(w) /\ admitted < MaxEvents /\ admitted' = admitted + 1
    /\ \E key \in Keys(w) :
          queue' = queue \cup {[task |-> TaskOf(w), key |-> key, thread |-> w.on,
                                label |-> w.kind = "label", words |-> w.words]}
    /\ UNCHANGED <<hub, rows, git, runs>>

-----------------------------------------------------------------------------
(* Handlers, up to the workspace: the row is read, and may be stale when the *)
(* workspace is ready.                                                       *)

TriggerPr(e) == IF e.thread \in Issue THEN None ELSE e.thread
Skip == UNCHANGED <<rows, runs>>
\* plan is the existing_branch or review checkout that ensure_workspace is asked for
Starts(e, n, plan, fills) ==
    runs' = [runs EXCEPT ![e.key] =
        [event |-> e, number |-> n, fills |-> fills, plan |-> plan,
         branch |-> None, pr |-> TriggerPr(e), token |-> None]]

TriageIssue(e) ==
    /\ e.task = "triage_issue"
    /\ rows' = Upsert(e.thread, None, None) /\ Starts(e, e.thread, None, TRUE)

\* An issue without a row is taken up by a mention that says something.
HandleComment(e) ==
    /\ e.task = "handle_comment"
    /\ IF rows[e.thread] = None
       THEN IF e.words
            THEN rows' = Upsert(e.thread, None, None) /\ Starts(e, e.thread, None, TRUE)
            ELSE Skip
       ELSE Starts(e, e.thread, rows[e.thread].branch, FALSE) /\ UNCHANGED rows

ReviewPr(e) ==
    /\ e.task = "review_pr"
    /\ IF e.thread \in reviewed THEN Skip
       ELSE rows' = Upsert(e.thread, None, e.thread) /\ Starts(e, e.thread, Review, TRUE)

\* _can_handle_pr_directly
Directly(e) ==
    /\ e.thread \notin fork
    /\ e.thread \in BotPr \/ (e.task = "handle_pr_conversation" /\ e.words)

\* A bare mention is answered without a run; the row was repaired all the same.
Continues(e, n, plan, fills) ==
    IF e.task = "handle_pr_conversation" /\ ~e.words THEN UNCHANGED runs
    ELSE Starts(e, n, plan, fills)

\* _resolve_issue_row_for_pr and what follows: the row that has the PR, its
\* missing branch filled in from GitHub; or the row on its head branch, which
\* gets the PR; or the PR itself.  Without GitHub's answer, none of them.
ResolveRow(e) ==
    \/ \E n \in ByPr(e.thread) :
          LET b == IF rows[n].branch = None THEN Head(e.thread) ELSE rows[n].branch IN
          rows' = Upsert(n, b, None) /\ Continues(e, n, b, FALSE)
    \/ /\ ByPr(e.thread) = {}
       /\ \E n \in ByBranch(Head(e.thread)) :
             rows' = Upsert(n, None, e.thread) /\ Continues(e, n, rows[n].branch, FALSE)
    \/ /\ ByPr(e.thread) = {} /\ ByBranch(Head(e.thread)) = {} /\ UNCHANGED rows
       /\ IF Directly(e) THEN Continues(e, e.thread, Head(e.thread), TRUE) ELSE UNCHANGED runs
    \/ (\A n \in ByPr(e.thread) : rows[n].branch = None) /\ Skip

HandleReview(e) == e.task = "handle_review" /\ ResolveRow(e)
HandlePrConversation(e) == e.task = "handle_pr_conversation" /\ ~e.label /\ ResolveRow(e)

\* handle_pr_conversation looks for the number in payload["issue"], which the
\* payload of a pull_request event has not.
LabelOnOwnPr(e) ==
    /\ e.task = "handle_pr_conversation" /\ e.label /\ Skip

Begin(k) ==
    /\ runs[k] = None
    /\ \E e \in queue :
          /\ e.key = k /\ queue' = queue \ {e}
          /\ \/ TriageIssue(e) \/ HandleComment(e) \/ ReviewPr(e)
             \/ HandleReview(e) \/ HandlePrConversation(e) \/ LabelOnOwnPr(e)
    /\ UNCHANGED <<hub, git, admitted>>

-----------------------------------------------------------------------------
(* The workspace and the token *)

Preparing(k) == runs[k] # None /\ runs[k].token = None
Working(k) == runs[k] # None /\ runs[k].token # None
Free(b, n) == \A m \in Number \ {n} : tree[m] # b

\* What ensure_workspace may do, as <<checkout, branch of the run>>: an
\* existing checkout wins over the row's branch.
Kept(n) == {<<c, c>> : c \in {tree[n]} \cap Branch}
\* _refresh_review_worktree detaches the checkout at the PR's head or, when it
\* is not clean, resets it there, and then the branch it is on moves.
ReviewCheckouts(n) == {<<Review, Review>>} \cup Kept(n)
Checkouts(r) ==
    LET n == r.number
        b == IF r.plan = None THEN Titled(n) ELSE r.plan IN
    IF r.plan = Review THEN ReviewCheckouts(n)
    ELSE Kept(n) \cup {<<b, b>> : m \in {m \in {n} : tree[m] = None /\ Free(b, m)}}
                 \cup {<<Review, b>> : m \in {m \in {n} : tree[m] = Review}}

\* adopt_review_workspace: a directive on a reviewed PR turns the detached
\* checkout into a branch of the run's, created or reset (checkout -B).
Adopts(r) == r.plan = Review /\ r.event.task = "handle_pr_conversation"
Adopted(r) == {<<Titled(n), Titled(n)>> : n \in {m \in {r.number} : Free(Titled(m), m)}}

CapabilitiesFor(task) ==
    IF task = "review_pr" THEN {"comment", "label", "review_pr"} ELSE Cap \ {"review_pr"}

\* Mutant: the threads are the trigger's.
MintOfTrigger(r) ==
    [issue |-> r.event.thread, pr |-> r.pr, branch |-> r.branch,
     caps |-> CapabilitiesFor(r.event.task)]
\* _attach_run_token: bound to the issue the run works on and the trigger's PR.
Mint(r) ==
    [issue |-> r.number, pr |-> r.pr, branch |-> r.branch, caps |-> CapabilitiesFor(r.event.task)]

Saves(r, b) == r.fills \/ (r.event.task = "handle_pr_conversation" /\ r.plan # b)

Prepare(k) ==
    LET r == runs[k] IN
    /\ Preparing(k)
    /\ \E out \in IF Adopts(r) THEN Adopted(r) ELSE Checkouts(r) :
          LET ready == [r EXCEPT !.branch = out[2]] IN
          /\ tree' = [tree EXCEPT ![r.number] = out[1]]
          /\ refs' = IF out[1] \in Branch /\ (r.plan = Review \/ refs[out[1]] = "none")
                     THEN [refs EXCEPT ![out[1]] = "clean"] ELSE refs
          /\ rows' = IF Saves(r, out[2])
                     THEN Upsert(r.number, out[2], IF r.fills THEN TriggerPr(r.event) ELSE None)
                     ELSE rows
          /\ runs' = [runs EXCEPT ![k] = [ready EXCEPT !.token = Mint(ready)]]
    /\ UNCHANGED <<hub, queue, admitted>>

\* The event is done, or dead; or it is retried (an error, a restart).
Exit(k) ==
    /\ runs[k] # None /\ runs' = [runs EXCEPT ![k] = None]
    /\ UNCHANGED <<hub, rows, git, queue, admitted>>
Retry(k) ==
    /\ runs[k] # None /\ runs' = [runs EXCEPT ![k] = None]
    /\ queue' = queue \cup {runs[k].event}
    /\ UNCHANGED <<hub, rows, git, admitted>>

-----------------------------------------------------------------------------
(* The proxy: what it grants the holder of a token *)

RunCap(t, cap) == cap \in t.caps

\* _require_run_thread
RunThread(t, n) == n \in {t.issue, t.pr}

\* Mutant: any branch of the bot's.
RunBranchAnyOwned(t, b) == b = t.branch \/ (t.branch \in Owned /\ b \in Owned)
\* _require_run_branch: the token's branch, or one that a rename could have made.
RunBranch(t, b) == b = t.branch \/ (t.branch \in Owned /\ b \in Owned /\ b[1] = t.branch[1])

\* _require_push_namespace
PushNamespace(t, b) == b \in Owned \/ (t.pr # None /\ b = t.branch)

MayWrite(t, cap, n) == RunCap(t, cap) /\ RunThread(t, n)
MayOpen(t, b) == RunCap(t, "open_pr") /\ RunBranch(t, b)
MayPush(t, n, b) ==
    RunCap(t, "push") /\ RunBranch(t, b) /\ PushNamespace(t, b) /\ RunThread(t, n)

-----------------------------------------------------------------------------
(* The run's tools *)

ReviewMode(r) == r.event.task = "review_pr" \/ r.branch = Review

Commit(k) ==
    LET r == runs[k] IN
    /\ Working(k) /\ ~ReviewMode(r) /\ tree[r.number] = r.branch /\ refs[r.branch] = "clean"
    /\ refs' = [refs EXCEPT ![r.branch] = "work"]
    /\ UNCHANGED <<hub, rows, tree, queue, runs, admitted>>

\* The token is minted again from the live branch and PR; that may fail.
Refreshed(k, r) == \E t \in {r.token, Mint(r)} : runs' = [runs EXCEPT ![k] = [r EXCEPT !.token = t]]

\* gh_open_pr: pushes, opens, notes the number.  When the answer is lost
\* nothing is noted.
OpenPr(k) ==
    LET r == runs[k] IN
    /\ Working(k) /\ ~ReviewMode(r) /\ refs[r.branch] = "work"
    /\ MayPush(r.token, r.number, r.branch) /\ MayOpen(r.token, r.branch)
    /\ \A q \in PersonPr \cup Opened : Head(q) # r.branch
    /\ \E p \in BotPr \ Opened :
          /\ prs' = [prs EXCEPT ![p] = r.branch]
          /\ \/ rows' = Upsert(r.number, None, p) /\ Refreshed(k, [r EXCEPT !.pr = p])
             \/ UNCHANGED <<rows, runs>>
    /\ UNCHANGED <<fork, reviewed, git, queue, admitted>>

\* Mutant: the checkout does not follow its branch.
RenameRef(k) ==
    LET r == runs[k]
        new == <<r.branch[1], 2>> IN
    /\ Working(k) /\ "label" \in r.token.caps /\ r.branch \in Owned \ {new}
    /\ rows[r.number].pr = None
    /\ refs[r.branch] # "none" /\ refs[new] = "none"
    /\ refs' = [refs EXCEPT ![new] = refs[r.branch], ![r.branch] = "none"]
    /\ rows' = Upsert(r.number, new, None)
    /\ Refreshed(k, [r EXCEPT !.branch = new])
    /\ UNCHANGED <<hub, tree, queue, admitted>>
\* classify_issue with a slug: not once the row has a PR.
Rename(k) ==
    LET r == runs[k]
        new == <<r.branch[1], 2>> IN
    /\ Working(k) /\ "label" \in r.token.caps /\ r.branch \in Owned \ {new}
    /\ rows[r.number].pr = None
    /\ refs[r.branch] # "none" /\ refs[new] = "none"
    /\ refs' = [refs EXCEPT ![new] = refs[r.branch], ![r.branch] = "none"]
    /\ tree' = [n \in Number |-> IF tree[n] = r.branch THEN new ELSE tree[n]]
    /\ rows' = Upsert(r.number, new, None)
    /\ Refreshed(k, [r EXCEPT !.branch = new])
    /\ UNCHANGED <<hub, queue, admitted>>

SubmitReview(k) ==
    /\ Working(k) /\ runs[k].event.task = "review_pr"
    /\ MayWrite(runs[k].token, "review_pr", runs[k].event.thread)
    /\ reviewed' = reviewed \cup {runs[k].event.thread}
    /\ UNCHANGED <<fork, prs, rows, git, queue, runs, admitted>>

Step(k) ==
    \/ Begin(k) \/ Prepare(k) \/ Exit(k) \/ Retry(k)
    \/ Commit(k) \/ OpenPr(k) \/ Rename(k) \/ SubmitReview(k)
Next ==
    \/ \E w \in Webhook : Route(w)
    \/ \E k \in Number : Step(k)

Spec == Init /\ [][Next]_vars

-----------------------------------------------------------------------------
(* Properties *)

\* The piece of work a thread or a branch belongs to.
WorkOf(n) == IF n \in Opened THEN prs[n][1] ELSE n
WorkOnBranch(b) == IF b \in Owned THEN b[1] ELSE b[2]

\* Whatever a run asks for, the proxy grants it writes on the thread it was
\* triggered from, and on the issue, PRs and branches of the same piece of
\* work, and nowhere else: through routing, the repair of the PR mapping, the
\* run's own renames and PRs, and tokens that were not refreshed.
Confined ==
    \A k \in Number : Working(k) =>
        LET t == runs[k].token
            home == WorkOf(runs[k].event.thread) IN
        /\ \A n \in Number, c \in Cap : MayWrite(t, c, n) => WorkOf(n) = home
        /\ \A b \in Branch : MayOpen(t, b) => WorkOnBranch(b) = home
        /\ \A n \in Number, b \in Branch \cup {Review} : MayPush(t, n, b) =>
              WorkOf(n) = home /\ WorkOnBranch(b) = home

\* A run that may push is never refused the push of its own checkout from its
\* own workspace: triggered from the issue or from its PR, on the bot's branch
\* or a person's, before and after a rename whose new token was not applied.
OwnPushGranted ==
    \A k \in Number : Working(k) /\ ~ReviewMode(runs[k]) =>
        MayPush(runs[k].token, runs[k].number, runs[k].branch)
=============================================================================

---------------------------- MODULE ReviewPosts ----------------------------
(* A pull request review: the findings an agent stages in sqlite, the one    *)
(* review that flushes them, the comments it falls back to when GitHub       *)
(* refuses the batch, and the ledger that keeps a comment from being posted  *)
(* twice (carter_omp/host_tools.py, db.py, tasks.handle_review,              *)
(* proxy_client._request).  Two tool calls of the run interleave, the run    *)
(* may die in any of their steps and is then retried over the same rows.     *)
EXTENDS Naturals, FiniteSets

CONSTANTS
    Call,       \* concurrent tool calls of the run
    MaxNote,    \* findings (rows of pr_review_comments)
    Version,    \* <<finding, version>>: its line and text, as staged or updated
    Footer,     \* what the rest of a submission's body may be: the agent's text, the footer
    Anchored,   \* <<finding, version, head>>: the line is in a hunk of that head's diff
    MaxHead,    \* bound on pushes to the pull request
    MaxSubmit,  \* bound on submissions, over all runs
    None

Sha == 0 .. MaxHead
Note == 1 .. MaxNote

ASSUME ReviewAssumption ==
    /\ {MaxNote, MaxHead, MaxSubmit} \subseteq Nat /\ None \notin Nat
    /\ Version \subseteq Note \X (Nat \ {0})
    /\ Anchored \subseteq Note \X Nat \X Sha
    /\ Footer \cap Nat = {}

\* What a comment is to the ledger, which hashes its text: the summary, with
\* the findings it lists and its footer, or a version of a finding.
Movable == {v \in Version : \E h \in Sha : <<v[1], v[2], h>> \notin Anchored}
Summary == Footer \X SUBSET Movable
Action == Summary \cup Version

\* A row that was deleted; its id is not used again.
Gone == 0

VARIABLES
    up,         \* the review has a run
    head,       \* the pull request's head on GitHub
    shown,      \* review_heads: the head the last fetch_pr showed
    staged,     \* pr_review_comments: each finding's version, None or Gone
    ledger,     \* side_effects: absent, pending, failed or done
    comments,   \* how often each comment stands on the thread: 2 is more than once
    submits,    \* submissions so far
    submitted,  \* tool_calls has a successful submit_pr_review
    calls,      \* the tool calls in flight
    told,       \* history: the findings GitHub has, in a review, its body or a comment
    excused     \* history: comments sent over an unread or overlapping attempt
vars == <<up, head, shown, staged, ledger, comments, submits, submitted,
          calls, told, excused>>
run == <<up, submits, submitted>>
pr == <<head, shown>>
posts == <<ledger, comments, excused>>

Idle == [step |-> "idle", notes |-> [n \in Note |-> None], todo |-> {}, now |-> None, at |-> None]
Snapshot == {m \in [Note -> Nat \cup {None}] :
                \A n \in Note : m[n] \in {None, Gone} \/ <<n, m[n]>> \in Version}
CallState ==
    [step : {"idle", "filter", "post", "look", "reconcile", "begin", "send", "finish", "clear",
             "audit"},
     notes : Snapshot, todo : SUBSET Note, now : Action \cup {None}, at : {None, 0, 1, 2}]

TypeOK ==
    /\ up \in BOOLEAN
    /\ head \in Sha /\ shown \in Sha \cup {None}
    /\ staged \in Snapshot
    /\ ledger \in [Action -> {"absent", "pending", "failed", "done"}]
    /\ comments \in [Action -> 0 .. 2]
    /\ submits \in 0 .. MaxSubmit /\ submitted \in BOOLEAN
    /\ calls \in [Call -> CallState]
    /\ told \subseteq Version /\ excused \subseteq Action

Init ==
    /\ up = FALSE /\ head = 0 /\ shown = None
    /\ staged = [n \in Note |-> None]
    /\ ledger = [a \in Action |-> "absent"] /\ comments = [a \in Action |-> 0]
    /\ submits = 0 /\ submitted = FALSE
    /\ calls = [c \in Call |-> Idle] /\ told = {} /\ excused = {}

-----------------------------------------------------------------------------
(* Runs and the pull request *)

\* handle_review: a review that was submitted is not repeated.
Start ==
    /\ ~up /\ ~submitted /\ up' = TRUE
    /\ UNCHANGED <<submits, submitted, pr, staged, posts, calls, told>>

\* The run ends, or dies in the middle of its calls.
Exit ==
    /\ up /\ up' = FALSE
    /\ calls' = [c \in Call |-> Idle]
    /\ UNCHANGED <<submits, submitted, pr, staged, posts, told>>

AuthorPushes ==
    /\ head < MaxHead /\ head' = head + 1
    /\ UNCHANGED <<run, shown, staged, posts, calls, told>>

-----------------------------------------------------------------------------
(* Calls *)

At(c, step) == calls[c].step = step
Go(c, step) == calls' = [calls EXCEPT ![c].step = step]
End(c) == calls' = [calls EXCEPT ![c] = Idle]

\* fetch_pr records the head whose diff it shows.
FetchPr ==
    /\ up /\ shown' = head /\ shown # head
    /\ UNCHANGED <<run, head, staged, posts, calls, told>>

Live(m) == {n \in Note : <<n, m[n]>> \in Version}
Deleted(ns) == [n \in Note |-> IF n \in ns THEN Gone ELSE staged[n]]

\* pr_review_comment: a new row, its line in the diff as it is now.
Stage ==
    /\ up
    /\ \E v \in Version :
          /\ staged[v[1]] = None /\ \A m \in 1 .. v[1] - 1 : staged[m] # None
          /\ <<v[1], v[2], head>> \in Anchored
          /\ staged' = [staged EXCEPT ![v[1]] = v[2]]
    /\ UNCHANGED <<run, pr, posts, calls, told>>

\* update_staged_pr_review_comment
UpdateStaged ==
    /\ up
    /\ \E v \in Version :
          /\ v[1] \in Live(staged) /\ staged[v[1]] # v[2]
          /\ <<v[1], v[2], head>> \in Anchored
          /\ staged' = [staged EXCEPT ![v[1]] = v[2]]
    /\ UNCHANGED <<run, pr, posts, calls, told>>

\* unstage_pr_review_comment
Unstage ==
    /\ up
    /\ \E n \in Live(staged) : staged' = Deleted({n})
    /\ UNCHANGED <<run, pr, posts, calls, told>>

\* clear_staged_pr_review_comments
ClearAll ==
    /\ up /\ Live(staged) # {} /\ staged' = Deleted(Live(staged))
    /\ UNCHANGED <<run, pr, posts, calls, told>>

\* submit_pr_review: the head must still be the one shown (no recorded head, no
\* check), then the rows are read.
Submit(c) ==
    /\ up /\ calls[c] = Idle /\ shown \in {None, head}
    /\ submits < MaxSubmit /\ submits' = submits + 1
    /\ calls' = [calls EXCEPT ![c].step = "filter", ![c].notes = staged]
    /\ UNCHANGED <<up, submitted, pr, staged, posts, told>>

\* A whole review is refused for one line outside the diff.
Anchorable(c, notes) == {n \in notes : <<n, calls[c].notes[n], head>> \in Anchored}

\* What anchors in today's diff goes inline, the rest into the body; when the
\* diff cannot be read everything goes inline.
FilterAnchors(c) ==
    LET mine == Live(calls[c].notes) IN
    /\ At(c, "filter")
    /\ \E inline \in {Anchorable(c, mine), mine} :
          calls' = [calls EXCEPT ![c].step = "post", ![c].todo = inline]
    /\ UNCHANGED <<run, pr, staged, posts, told>>

\* Mutant: the findings that do not anchor are dropped.
CarriedInline(c) == {<<n, calls[c].notes[n]>> : n \in Live(calls[c].notes) \cap calls[c].todo}
\* The findings the review's body carries, inline ones included.
Carried(c) == {<<n, calls[c].notes[n]>> : n \in Live(calls[c].notes)}
Settled(c) == [Idle EXCEPT !.step = "clear", !.notes = calls[c].notes]
InBody(c) == {p \in Carried(c) : p[1] \notin calls[c].todo}

\* GitHub refuses the whole review for one line outside the diff, and for
\* reasons of its own (422, 500): then comments replace it, the summary first.
\* Any other error ends the call, also when the review did land.
PostReview(c) ==
    /\ At(c, "post")
    /\ \/ /\ Anchorable(c, calls[c].todo) = calls[c].todo
          /\ told' = told \cup Carried(c)
          /\ calls' \in {[calls EXCEPT ![c] = k] : k \in {Settled(c), Idle}}
       \/ /\ \E f \in Footer :
                calls' = [calls EXCEPT ![c].step = "look", ![c].now = <<f, InBody(c)>>]
          /\ UNCHANGED told
       \/ End(c) /\ UNCHANGED told
    /\ UNCHANGED <<run, pr, staged, posts>>

-----------------------------------------------------------------------------
(* _post_comment_idempotent, for each comment of the fallback in turn *)

\* Mutant: the fallback reads each row when its turn comes.
NextRow(c) ==
    IF calls[c].todo = {} THEN Settled(c)
    ELSE LET n == CHOOSE n \in calls[c].todo : \A m \in calls[c].todo : n <= m IN
         [calls[c] EXCEPT !.step = "look", !.now = <<n, staged[n]>>, !.todo = @ \ {n}]
\* The next finding in the order of the rows, or the end of the fallback.
NextComment(c) ==
    IF calls[c].todo = {} THEN Settled(c)
    ELSE LET n == CHOOSE n \in calls[c].todo : \A m \in calls[c].todo : n <= m IN
         [calls[c] EXCEPT !.step = "look", !.now = <<n, calls[c].notes[n]>>, !.todo = @ \ {n}]

\* Mutant: an unsettled attempt is sent again without looking at the thread.
LookNoReconcile(c) ==
    LET a == calls[c].now IN
    /\ At(c, "look")
    /\ calls' = [calls EXCEPT ![c] =
           IF ledger[a] = "done" THEN NextComment(c)
           ELSE [calls[c] EXCEPT !.step = "begin", !.at = comments[a]]]
    /\ UNCHANGED <<run, pr, staged, posts, told>>
Look(c) ==
    LET a == calls[c].now IN
    /\ At(c, "look")
    /\ calls' = [calls EXCEPT ![c] =
           CASE ledger[a] = "done" -> NextComment(c)
             [] ledger[a] = "absent" -> [calls[c] EXCEPT !.step = "begin", !.at = comments[a]]
             [] OTHER -> [calls[c] EXCEPT !.step = "reconcile", !.at = comments[a]]]
    /\ UNCHANGED <<run, pr, staged, posts, told>>

\* An unsettled attempt may have landed: the thread is searched for its text.
\* A thread that cannot be read counts as empty.
Reconcile(c) ==
    LET a == calls[c].now IN
    /\ At(c, "reconcile")
    /\ \/ /\ comments[a] > 0
          /\ ledger' = [ledger EXCEPT ![a] = "done"]
          /\ calls' = [calls EXCEPT ![c] = NextComment(c)]
          /\ UNCHANGED excused
       \/ /\ Go(c, "begin")
          /\ excused' = excused \cup {x \in {a} : comments[a] > 0}
          /\ UNCHANGED ledger
    /\ UNCHANGED <<run, pr, staged, comments, told>>

BeginEffect(c) ==
    LET a == calls[c].now IN
    /\ At(c, "begin")
    /\ ledger' = [ledger EXCEPT ![a] = "pending"]
    /\ excused' = excused \cup {x \in {a} :
           \/ comments[a] # calls[c].at
           \/ \E d \in Call \ {c} : calls[d].now = a /\ At(d, "send")}
    /\ calls' = [calls EXCEPT ![c].step = "send", ![c].at = None]
    /\ UNCHANGED <<run, pr, staged, comments, told>>

\* A request lands once, or twice when the client sent it again on a timeout.
Land(a, k) ==
    /\ comments' = [comments EXCEPT ![a] = IF @ + k > 2 THEN 2 ELSE @ + k]
    /\ told' = told \cup (IF a \in Version THEN {a} ELSE a[2])
    /\ excused' = excused \cup {x \in {a} : k > 1}

\* Answered; or not answered, landed or not: an error of GitHub's marks the row,
\* one of the transport's does not.
SendComment(c) ==
    LET a == calls[c].now IN
    /\ At(c, "send")
    /\ \/ (Land(a, 1) \/ Land(a, 2)) /\ Go(c, "finish") /\ UNCHANGED ledger
       \/ /\ Land(a, 1) \/ UNCHANGED <<comments, told, excused>>
          /\ \E s \in {"failed", "pending"} : ledger' = [ledger EXCEPT ![a] = s]
          /\ End(c)
    /\ UNCHANGED <<run, pr, staged>>

FinishEffect(c) ==
    /\ At(c, "finish")
    /\ ledger' = [ledger EXCEPT ![calls[c].now] = "done"]
    /\ calls' = [calls EXCEPT ![c] = NextComment(c)]
    /\ UNCHANGED <<run, pr, staged, comments, excused, told>>

\* The rows go, whatever they are by then; then the audit row says submitted.
ClearStaged(c) ==
    /\ At(c, "clear")
    /\ staged' = Deleted(Live(staged))
    /\ calls' = [calls EXCEPT ![c] = [Idle EXCEPT !.step = "audit"]]
    /\ UNCHANGED <<run, pr, posts, told>>
Audit(c) ==
    /\ At(c, "audit")
    /\ submitted' = TRUE /\ End(c)
    /\ UNCHANGED <<up, submits, pr, staged, posts, told>>

Step(c) ==
    \/ Submit(c) \/ FilterAnchors(c) \/ PostReview(c) \/ Look(c) \/ Reconcile(c) \/ BeginEffect(c)
    \/ SendComment(c) \/ FinishEffect(c) \/ ClearStaged(c) \/ Audit(c)
Next ==
    \/ Start \/ Exit \/ AuthorPushes \/ FetchPr \/ Stage \/ UpdateStaged \/ Unstage \/ ClearAll
    \/ \E c \in Call : Step(c)

Spec == Init /\ [][Next]_vars

-----------------------------------------------------------------------------
(* Properties *)

\* The rows a submission deletes are findings GitHub has, inline, in the body or
\* as a comment, across refusals, failed attempts and restarts; unless they
\* were staged or updated after the submission had read them.
ClearedWasTold ==
    [][\A c \in Call :
          At(c, "clear") /\ calls'[c].step = "audit" =>
              \A n \in Live(staged) :
                  staged[n] = calls[c].notes[n] => <<n, staged[n]>> \in told]_vars

\* The ledger keeps a comment from being posted twice over lost answers,
\* refusals and crashes, unless the thread could not be read, the client had
\* sent the request again, or two calls were posting it at once.
PostedOnce == \A a \in Action \ excused : comments[a] <= 1

=============================================================================

------------------------- MODULE ReviewPostsProofs -------------------------
(* That a submission deletes only findings GitHub has and that the ledger     *)
(* keeps a comment from standing twice, for any findings, heads, footers,     *)
(* calls and runs.  The invariant says what the ledger and a call know of the *)
(* thread: what is said of a comment that was begun, looked up or answered,   *)
(* and which findings a call still has to post.                               *)
EXTENDS ReviewPosts, WellFoundedInduction, TLAPS

-----------------------------------------------------------------------------
(* The invariant *)

\* The findings a comment tells of: itself, or those a summary lists.
Says(a) == IF a \in Version THEN {a} ELSE a[2]

\* The steps of a call that posts a comment.
Posting == {"look", "reconcile", "begin", "send", "finish"}

\* The findings of a snapshot that are in a set, as versions.
Listed(m, ns) == {<<n, m[n]>> : n \in ns}

\* What a call has posted, or is posting, of the snapshot it read, when GitHub
\* has the findings in t.
Covers(q, t) ==
    /\ q.todo \subseteq Live(q.notes)
    /\ q.step = "post" => Listed(q.notes, Live(q.notes) \ q.todo) \subseteq Movable
    /\ q.step \in Posting =>
          /\ q.now \in Action
          /\ Listed(q.notes, Live(q.notes) \ q.todo) \subseteq t \cup Says(q.now)
    /\ q.step = "finish" => Says(q.now) \subseteq t
    /\ q.step = "clear" => Listed(q.notes, Live(q.notes)) \subseteq t

\* What a call knows of the thread and the ledger: a count that was true when it
\* looked, and that nothing stands there when it sends.
Knows(q, count, entry, exc) ==
    /\ q.step \in {"reconcile", "begin"} => q.at \in 0 .. count[q.now]
    /\ q.step = "begin" /\ q.now \notin exc => q.at = 0
    /\ q.step = "send" => entry[q.now] # "absent" /\ (q.now \in exc \/ count[q.now] = 0)

CallsOK ==
    \A c \in Call : Covers(calls[c], told) /\ Knows(calls[c], comments, ledger, excused)

\* What stands on the thread, or is settled, GitHub has; nothing stands that was
\* never begun.
LedgerOK ==
    \A a \in Action :
        /\ comments[a] > 0 \/ ledger[a] = "done" => Says(a) \subseteq told
        /\ ledger[a] = "absent" => comments[a] = 0

\* Two calls send a comment at once only when that is on record.
Alone ==
    \A c, d \in Call :
        c # d /\ At(c, "send") /\ At(d, "send") /\ calls[c].now = calls[d].now =>
            calls[c].now \in excused

IInv == TypeOK /\ CallsOK /\ LedgerOK /\ Alone /\ PostedOnce

-----------------------------------------------------------------------------
(* The operators of the model *)

\* A set of rows has a first one.
LEMMA Least ==
    ASSUME NEW S \in SUBSET Nat, S # {}
    PROVE  \E n \in S : \A m \in S : n <= m
<1> DEFINE R == {ss \in Nat \X Nat : ss[1] < ss[2]}
<1>1. R = OpToRel(<, Nat)
  BY DEF OpToRel
<1>2. IsWellFoundedOn(R, Nat)
  BY <1>1, NatLessThanWellFounded
<1> HIDE DEF R
<1>3. PICK x \in S : \A y \in S : <<y, x>> \notin R
  BY <1>2, WFMin
<1>4. \A y \in S : ~(y < x)
  BY <1>3 DEF R
<1> QED BY <1>4

\* The findings are numbers, and versions are of findings.
LEMMA Versions ==
    /\ Note \subseteq Nat /\ Movable \subseteq Version
    /\ \A v \in Version : v = <<v[1], v[2]>> /\ v[1] \in Note /\ v[2] \in Nat \ {0}
    /\ MaxHead \in Nat /\ MaxSubmit \in Nat
BY ReviewAssumption DEF Note, Movable

\* What a live row lists is a version.
LEMMA LiveVersions ==
    ASSUME NEW m, NEW ns, ns \subseteq Live(m)
    PROVE  Listed(m, ns) \subseteq Version /\ ns \subseteq Note
BY DEF Listed, Live

\* A comment tells of versions.
LEMMA SaysVersions ==
    ASSUME NEW a \in Action
    PROVE  Says(a) \subseteq Version
<1>1. CASE a \in Version
  BY <1>1 DEF Says
<1>2. CASE a \notin Version
  <2>1. a[2] \subseteq Movable
    BY <1>2 DEF Action, Summary
  <2> QED BY <1>2, <2>1, Versions DEF Says
<1> QED BY <1>1, <1>2

\* A version tells of itself, a summary of what it lists.
LEMMA SaysSummary ==
    ASSUME NEW f \in Footer, NEW S \in SUBSET Movable
    PROVE  <<f, S>> \in Action /\ Says(<<f, S>>) = S
<1>1. <<f, S>> \notin Version
  <2>1. f \notin Note
    BY Versions, ReviewAssumption
  <2> QED BY <2>1, Versions
<1> QED BY <1>1 DEF Says, Action, Summary

\* The next state of a call of the fallback, from its own.
NextOf(q) ==
    IF q.todo = {} THEN [Idle EXCEPT !.step = "clear", !.notes = q.notes]
    ELSE LET n == CHOOSE n \in q.todo : \A m \in q.todo : n <= m IN
         [q EXCEPT !.step = "look", !.now = <<n, q.notes[n]>>, !.todo = @ \ {n}]

\* It is what NextComment makes of the call.
LEMMA NextIs ==
    ASSUME NEW c
    PROVE  NextComment(c) = NextOf(calls[c])
BY DEF NextComment, NextOf, Settled

\* The fallback goes on with a finding that is left, or ends.
LEMMA NextMade ==
    ASSUME NEW q \in CallState
    PROVE  \/ q.todo = {} /\ NextOf(q) = [Idle EXCEPT !.step = "clear", !.notes = q.notes]
           \/ \E n \in q.todo :
                 NextOf(q) = [q EXCEPT !.step = "look", !.now = <<n, q.notes[n]>>, !.todo = @ \ {n}]
<1>1. CASE q.todo = {}
  BY <1>1 DEF NextOf
<1>2. CASE q.todo # {}
  <2>1. q.todo \in SUBSET Nat
    BY Versions DEF CallState
  <2>2. \E n \in q.todo : \A m \in q.todo : n <= m
    BY <1>2, <2>1, Least
  <2> QED BY <1>2, <2>2 DEF NextOf
<1> QED BY <1>1, <1>2

\* It covers the findings when the comment it comes from is there.
LEMMA NextFine ==
    ASSUME NEW q \in CallState, NEW t, q.todo \subseteq Live(q.notes),
           Listed(q.notes, Live(q.notes) \ q.todo) \subseteq t
    PROVE  /\ NextOf(q) \in CallState /\ Covers(NextOf(q), t)
           /\ NextOf(q).step \in {"look", "clear"}
<1>1. CASE q.todo = {} /\ NextOf(q) = [Idle EXCEPT !.step = "clear", !.notes = q.notes]
  <2>1. PICK s : s = NextOf(q)
    OBVIOUS
  <2>2. s \in CallState /\ s.step = "clear" /\ s.notes = q.notes /\ s.todo = {}
    BY <1>1, <2>1 DEF Idle, CallState
  <2>3. Listed(s.notes, Live(s.notes)) \subseteq t
    BY <1>1, <2>2
  <2> QED BY <2>1, <2>2, <2>3 DEF Covers, Posting
<1>2. ASSUME NEW n \in q.todo,
             NextOf(q) = [q EXCEPT !.step = "look", !.now = <<n, q.notes[n]>>, !.todo = @ \ {n}]
      PROVE  /\ NextOf(q) \in CallState /\ Covers(NextOf(q), t)
             /\ NextOf(q).step \in {"look", "clear"}
  <2>1. PICK s : s = NextOf(q)
    OBVIOUS
  <2>2. <<n, q.notes[n]>> \in Version
    BY DEF Live
  <2>3. /\ s \in CallState /\ s.step = "look" /\ s.notes = q.notes /\ s.todo = q.todo \ {n}
        /\ s.now = <<n, q.notes[n]>>
    BY <1>2, <2>1, <2>2 DEF CallState, Action
  <2>4. Says(s.now) = {<<n, q.notes[n]>>} /\ s.now \in Action
    BY <2>2, <2>3 DEF Says, Action
  <2>5. Listed(s.notes, Live(s.notes) \ s.todo) \subseteq t \cup Says(s.now)
    BY <2>3, <2>4 DEF Listed
  <2> QED BY <2>1, <2>3, <2>4, <2>5 DEF Covers, Posting
<1> QED BY <1>1, <1>2, NextMade

-----------------------------------------------------------------------------
(* Steps of a call *)

\* The thread, the ledger and what is known of them only grow.
Grows ==
    /\ told \subseteq told' /\ excused \subseteq excused'
    /\ \A a \in Action : comments[a] <= comments'[a]
    /\ \A a \in Action : ledger[a] # "absent" => ledger'[a] # "absent"

\* What the invariant asks of the state a step gives a call.
Fine(c, s) ==
    /\ s \in CallState /\ Covers(s, told') /\ Knows(s, comments', ledger', excused')
    /\ s.step = "send" =>
          \A d \in Call \ {c} : At(d, "send") /\ calls[d].now = s.now => s.now \in excused'

\* A call that is over.
LEMMA IdleFine ==
    ASSUME NEW c
    PROVE  Fine(c, Idle)
<1>1. Idle.todo = {} /\ Idle.step = "idle"
  BY DEF Idle
<1>2. Idle \in CallState
  BY DEF Idle, CallState, Snapshot
<1> QED BY <1>1, <1>2 DEF Fine, Covers, Knows, Posting

\* The parts of the type that the steps of a call touch.
PostsType ==
    /\ ledger \in [Action -> {"absent", "pending", "failed", "done"}]
    /\ comments \in [Action -> 0 .. 2]
    /\ told \subseteq Version /\ excused \subseteq Action

\* Where nothing is sent or settled, the thread and the ledger stay.
LEMMA SameGrows ==
    ASSUME PostsType, UNCHANGED <<posts, told>>
    PROVE  Grows /\ PostsType'
<1>1. \A a \in Action : comments[a] \in Nat
  BY DEF PostsType
<1> QED BY <1>1 DEF Grows, PostsType, posts

\* What a step of a call does to it, and to the thread.
StepFine(c) ==
    /\ Grows /\ PostsType'
    /\ \E s : calls' = [calls EXCEPT ![c] = s] /\ Fine(c, s)

\* The start of a submission and the choice of its inline findings.
LEMMA SubmitFine ==
    ASSUME IInv, NEW c \in Call, Submit(c) \/ FilterAnchors(c)
    PROVE  StepFine(c)
<1>1. PICK q : q = calls[c]
  OBVIOUS
<1>2. q \in CallState /\ staged \in Snapshot /\ head \in Sha /\ calls \in [Call -> CallState]
  BY <1>1 DEF IInv, TypeOK
<1>3. Grows /\ PostsType'
  BY SameGrows DEF IInv, TypeOK, PostsType, Submit, FilterAnchors, posts
<1>4. CASE Submit(c)
  <2>1. PICK s : s = [q EXCEPT !.step = "filter", !.notes = staged]
    OBVIOUS
  <2>2. s \in CallState /\ s.step = "filter" /\ s.todo = {}
    <3>1. q.todo = {}
      BY <1>1, <1>4 DEF Submit, Idle
    <3> QED BY <1>2, <2>1, <3>1 DEF CallState
  <2>3. Fine(c, s)
    BY <2>2 DEF Fine, Covers, Knows, Posting
  <2>4. calls' = [calls EXCEPT ![c] = s]
    BY <1>1, <1>4, <2>1 DEF Submit
  <2> QED BY <1>3, <2>3, <2>4 DEF StepFine
<1>5. CASE FilterAnchors(c)
  <2> DEFINE mine == Live(q.notes)
  <2>1. PICK inline \in {Anchorable(c, mine), mine} :
           calls' = [calls EXCEPT ![c] = [q EXCEPT !.step = "post", !.todo = inline]]
    BY <1>1, <1>5 DEF FilterAnchors
  <2>2. PICK s : s = [q EXCEPT !.step = "post", !.todo = inline]
    OBVIOUS
  <2>3. inline \subseteq mine
    BY <2>1 DEF Anchorable
  <2>4. inline \subseteq Note
    BY <2>3 DEF Live
  <2>5. s \in CallState /\ s.step = "post" /\ s.todo = inline /\ s.notes = q.notes
    BY <1>2, <2>2, <2>4 DEF CallState
  <2>6. Listed(q.notes, mine \ inline) \subseteq Movable
    <3>1. \A n \in mine \ inline : <<n, q.notes[n], head>> \notin Anchored
      BY <1>1, <2>1 DEF Anchorable
    <3>2. \A n \in mine : <<n, q.notes[n]>> \in Version
      BY DEF Live
    <3> QED BY <1>2, <3>1, <3>2 DEF Listed, Movable
  <2>7. Fine(c, s)
    BY <2>3, <2>5, <2>6 DEF Fine, Covers, Knows, Posting
  <2> QED BY <1>3, <2>1, <2>2, <2>7 DEF StepFine
<1> QED BY <1>4, <1>5

\* The review, or what replaces it.
LEMMA PostFine ==
    ASSUME IInv, NEW c \in Call, PostReview(c)
    PROVE  StepFine(c)
<1>1. PICK q : q = calls[c]
  OBVIOUS
<1>2. /\ q \in CallState /\ calls \in [Call -> CallState] /\ Covers(q, told) /\ PostsType
      /\ q.step = "post"
  BY <1>1 DEF IInv, TypeOK, CallsOK, PostsType, PostReview, At
<1>3. Carried(c) = Listed(q.notes, Live(q.notes)) /\ Carried(c) \subseteq Version
  BY <1>1, LiveVersions DEF Carried, Listed
<1>4. Grows /\ PostsType'
  <2>1. \A a \in Action : comments[a] \in Nat
    BY <1>2 DEF PostsType
  <2> QED BY <1>2, <1>3, <2>1 DEF PostReview, Grows, PostsType, posts
<1>5. CASE calls' = [calls EXCEPT ![c] = Idle]
  BY <1>4, <1>5, IdleFine DEF StepFine
<1>6. CASE told' = told \cup Carried(c) /\ calls' = [calls EXCEPT ![c] = Settled(c)]
  <2>1. PICK s : s = [Idle EXCEPT !.step = "clear", !.notes = q.notes]
    OBVIOUS
  <2>2. s \in CallState /\ s.step = "clear" /\ s.notes = q.notes /\ s.todo = {}
    BY <1>2, <2>1 DEF Idle, CallState
  <2>3. Fine(c, s)
    BY <1>3, <1>6, <2>2 DEF Fine, Covers, Knows, Posting
  <2> QED BY <1>1, <1>4, <1>6, <2>1, <2>3 DEF StepFine, Settled
<1>7. ASSUME NEW f \in Footer, told' = told,
             calls' = [calls EXCEPT ![c].step = "look", ![c].now = <<f, InBody(c)>>]
      PROVE  StepFine(c)
  <2>1. PICK a, s : a = <<f, InBody(c)>> /\ s = [q EXCEPT !.step = "look", !.now = a]
    OBVIOUS
  <2>2. InBody(c) = Listed(q.notes, Live(q.notes) \ q.todo)
    BY <1>1 DEF InBody, Carried, Listed
  <2>3. a \in Action /\ Says(a) = InBody(c)
    BY <1>2, <2>1, <2>2, SaysSummary DEF Covers
  <2>4. /\ s \in CallState /\ s.step = "look" /\ s.now = a /\ s.notes = q.notes
        /\ s.todo = q.todo
    BY <1>2, <2>1, <2>3 DEF CallState
  <2>5. Fine(c, s)
    BY <1>2, <2>2, <2>3, <2>4 DEF Fine, Covers, Knows, Posting
  <2> QED BY <1>1, <1>2, <1>4, <1>7, <2>1, <2>5 DEF StepFine
<1> QED BY <1>5, <1>6, <1>7 DEF PostReview, End

\* What the invariant says of a call at a comment, and of the comment.
LEMMA AtComment ==
    ASSUME IInv, NEW c \in Call, NEW q, q = calls[c], q.step \in Posting
    PROVE  /\ q \in CallState /\ calls \in [Call -> CallState] /\ PostsType
           /\ Covers(q, told) /\ Knows(q, comments, ledger, excused)
           /\ q.now \in Action /\ Says(q.now) \subseteq Version
           /\ comments[q.now] \in 0 .. 2
           /\ comments[q.now] > 0 \/ ledger[q.now] = "done" => Says(q.now) \subseteq told
           /\ ledger[q.now] = "absent" => comments[q.now] = 0
<1>1. /\ q \in CallState /\ calls \in [Call -> CallState] /\ PostsType
      /\ Covers(q, told) /\ Knows(q, comments, ledger, excused)
  BY DEF IInv, TypeOK, CallsOK, PostsType
<1>2. q.now \in Action
  BY <1>1 DEF Covers
<1> QED BY <1>1, <1>2, SaysVersions DEF IInv, LedgerOK, PostsType

\* The ledger is looked up, or the thread.
LEMMA LookFine ==
    ASSUME IInv, NEW c \in Call, Look(c) \/ Reconcile(c)
    PROVE  StepFine(c)
<1>1. PICK q, a : q = calls[c] /\ a = q.now
  OBVIOUS
<1>2. /\ q \in CallState /\ calls \in [Call -> CallState] /\ PostsType
      /\ Covers(q, told) /\ Knows(q, comments, ledger, excused)
      /\ a \in Action /\ Says(a) \subseteq Version /\ comments[a] \in 0 .. 2
      /\ comments[a] > 0 \/ ledger[a] = "done" => Says(a) \subseteq told
      /\ ledger[a] = "absent" => comments[a] = 0
      /\ q.step \in Posting /\ q.step \in {"look", "reconcile"}
  BY <1>1, AtComment DEF Look, Reconcile, At, Posting
<1>3. /\ q.todo \subseteq Live(q.notes)
      /\ Listed(q.notes, Live(q.notes) \ q.todo) \subseteq told \cup Says(a)
  BY <1>1, <1>2 DEF Covers
<1>4. told' = told /\ comments' = comments
  BY DEF Look, Reconcile, posts
<1>5. Grows /\ PostsType'
  <2>1. CASE Look(c)
    BY <1>2, <2>1, SameGrows DEF Look, posts
  <2>2. CASE Reconcile(c)
    <3>1. \A x \in Action : comments[x] \in Nat
      BY <1>2 DEF PostsType
    <3> QED BY <1>1, <1>2, <1>4, <2>2, <3>1 DEF Reconcile, Grows, PostsType
  <2> QED BY <2>1, <2>2
<1>6. CASE Says(a) \subseteq told /\ calls' = [calls EXCEPT ![c] = NextComment(c)]
  <2>1. PICK s : s = NextOf(q)
    OBVIOUS
  <2>2. s \in CallState /\ Covers(s, told) /\ s.step \in {"look", "clear"}
    BY <1>2, <1>3, <1>6, <2>1, NextFine
  <2>3. Fine(c, s)
    BY <1>4, <2>2 DEF Fine, Knows
  <2> QED BY <1>1, <1>5, <1>6, <2>1, <2>3, NextIs DEF StepFine
<1>7. ASSUME NEW step \in {"begin", "reconcile"}, NEW at \in {0, 1, 2}, at <= comments[a],
             step = "begin" /\ a \notin excused' => at = 0,
             calls' = [calls EXCEPT ![c] = [q EXCEPT !.step = step, !.at = at]]
      PROVE  StepFine(c)
  <2>1. PICK s : s = [q EXCEPT !.step = step, !.at = at]
    OBVIOUS
  <2>2. /\ s \in CallState /\ s.step = step /\ s.at = at /\ s.now = a /\ s.notes = q.notes
        /\ s.todo = q.todo
    BY <1>1, <1>2, <1>7, <2>1 DEF CallState
  <2>3. Covers(s, told')
    BY <1>2, <1>3, <1>4, <1>7, <2>2 DEF Covers, Posting
  <2>4. Knows(s, comments', ledger', excused')
    BY <1>2, <1>4, <1>7, <2>2 DEF Knows
  <2>5. Fine(c, s)
    BY <2>2, <2>3, <2>4 DEF Fine
  <2> QED BY <1>5, <1>7, <2>1, <2>5 DEF StepFine
<1>8. CASE Look(c)
  <2>1. CASE ledger[a] = "done"
    BY <1>1, <1>2, <1>6, <1>8, <2>1 DEF Look
  <2> PICK k : k = comments[a]
    OBVIOUS
  <2>k. k \in {0, 1, 2} /\ k <= comments[a]
    BY <1>2
  <2>2. CASE ledger[a] = "absent"
    <3>1. calls' = [calls EXCEPT ![c] = [q EXCEPT !.step = "begin", !.at = k]]
      BY <1>1, <1>8, <2>2 DEF Look
    <3>2. k = 0
      BY <1>2, <2>2
    <3> QED BY <1>7, <2>k, <3>1, <3>2
  <2>3. CASE ledger[a] \notin {"done", "absent"}
    <3>1. calls' = [calls EXCEPT ![c] = [q EXCEPT !.step = "reconcile", !.at = k]]
      BY <1>1, <1>8, <2>3 DEF Look
    <3> QED BY <1>7, <2>k, <3>1
  <2> QED BY <2>1, <2>2, <2>3
<1>9. CASE Reconcile(c)
  <2>1. CASE comments[a] > 0 /\ calls' = [calls EXCEPT ![c] = NextComment(c)]
    BY <1>2, <1>6, <2>1
  <2>2. CASE Go(c, "begin") /\ excused' = excused \cup {x \in {a} : comments[a] > 0}
    <3>1. q.at \in 0 .. comments[a]
      BY <1>1, <1>9 DEF Reconcile, At, IInv, CallsOK, Knows
    <3>2. q.at \in {0, 1, 2} /\ q.at <= comments[a]
      BY <1>2, <3>1
    <3>3. a \notin excused' => q.at = 0
      BY <1>2, <2>2, <3>2
    <3>4. [q EXCEPT !.step = "begin"] = [q EXCEPT !.step = "begin", !.at = q.at]
      BY <1>2 DEF CallState
    <3>5. calls' = [calls EXCEPT ![c] = [q EXCEPT !.step = "begin", !.at = q.at]]
      BY <1>1, <1>2, <2>2, <3>4 DEF Go
    <3> QED BY <1>7, <3>2, <3>3, <3>5
  <2> QED BY <1>1, <1>9, <2>1, <2>2 DEF Reconcile
<1> QED BY <1>8, <1>9

\* A comment is begun: nothing stands there, or that is on record.
LEMMA BeginFine ==
    ASSUME IInv, NEW c \in Call, BeginEffect(c)
    PROVE  StepFine(c)
<1>1. PICK q, a : q = calls[c] /\ a = q.now
  OBVIOUS
<1>2. /\ q \in CallState /\ calls \in [Call -> CallState] /\ PostsType
      /\ Covers(q, told) /\ Knows(q, comments, ledger, excused)
      /\ a \in Action /\ comments[a] \in 0 .. 2 /\ q.step = "begin"
  BY <1>1, AtComment DEF BeginEffect, At, Posting
<1>3. /\ ledger' = [ledger EXCEPT ![a] = "pending"] /\ told' = told /\ comments' = comments
      /\ calls' = [calls EXCEPT ![c] = [q EXCEPT !.step = "send", !.at = None]]
      /\ excused' = excused \cup {x \in {a} :
             \/ comments[a] # q.at
             \/ \E d \in Call \ {c} : calls[d].now = a /\ At(d, "send")}
  BY <1>1, <1>2 DEF BeginEffect
<1>4. Grows /\ PostsType'
  <2>1. \A x \in Action : comments[x] \in Nat
    BY <1>2 DEF PostsType
  <2> QED BY <1>2, <1>3, <2>1 DEF Grows, PostsType
<1>5. PICK s : s = [q EXCEPT !.step = "send", !.at = None]
  OBVIOUS
<1>6. /\ s \in CallState /\ s.step = "send" /\ s.now = a /\ s.notes = q.notes
      /\ s.todo = q.todo
  BY <1>1, <1>2, <1>5 DEF CallState
<1>7. Covers(s, told')
  BY <1>1, <1>2, <1>3, <1>6 DEF Covers, Posting
<1>8. a \in excused' \/ comments[a] = 0
  <2>1. a \notin excused => q.at = 0
    BY <1>1, <1>2 DEF Knows
  <2> QED BY <1>3, <2>1
<1>9. Knows(s, comments', ledger', excused')
  <2>1. ledger'[a] = "pending"
    BY <1>2, <1>3 DEF PostsType
  <2> QED BY <1>3, <1>6, <1>8, <2>1 DEF Knows
<1>10. \A d \in Call \ {c} : At(d, "send") /\ calls[d].now = a => a \in excused'
  BY <1>3
<1> QED BY <1>3, <1>4, <1>5, <1>6, <1>7, <1>9, <1>10 DEF StepFine, Fine

\* A comment that lands adds to the thread what it tells of, and to nothing else.
LEMMA Landed ==
    ASSUME PostsType, NEW a \in Action, NEW k \in {1, 2}, Land(a, k)
    PROVE  /\ told' = told \cup Says(a) /\ told' \subseteq Version
           /\ excused \subseteq excused' /\ excused' \subseteq Action
           /\ comments' \in [Action -> 0 .. 2]
           /\ \A x \in Action : comments[x] <= comments'[x]
           /\ \A x \in Action : x # a => comments'[x] = comments[x]
           /\ a \notin excused' => k = 1 /\ comments'[a] <= comments[a] + 1
<1>1. told' = told \cup Says(a) /\ told' \subseteq Version
  BY SaysVersions DEF Land, Says, PostsType
<1>2. /\ excused \subseteq excused' /\ excused' \subseteq Action
      /\ a \notin excused' => k = 1
  BY DEF Land, PostsType
<1>3. PICK n : n = IF comments[a] + k > 2 THEN 2 ELSE comments[a] + k
  OBVIOUS
<1>4. comments[a] \in 0 .. 2 /\ n \in 0 .. 2 /\ comments[a] <= n /\ n <= comments[a] + k
  BY <1>3 DEF PostsType
<1>5. comments' = [comments EXCEPT ![a] = n]
  BY <1>3 DEF Land
<1>6. \A x \in Action : comments[x] \in 0 .. 2
  BY DEF PostsType
<1> QED BY <1>1, <1>2, <1>4, <1>5, <1>6 DEF PostsType

\* A comment is sent, answered or not.
LEMMA SendFine ==
    ASSUME IInv, NEW c \in Call, SendComment(c)
    PROVE  StepFine(c)
<1>1. PICK q, a : q = calls[c] /\ a = q.now
  OBVIOUS
<1>2. /\ q \in CallState /\ calls \in [Call -> CallState] /\ PostsType
      /\ Covers(q, told) /\ a \in Action /\ q.step = "send"
  BY <1>1, AtComment DEF SendComment, At, Posting
<1>3. /\ told \subseteq told' /\ told' \subseteq Version
      /\ excused \subseteq excused' /\ excused' \subseteq Action
      /\ comments' \in [Action -> 0 .. 2]
      /\ \A x \in Action : comments[x] <= comments'[x]
  <2>1. \A x \in Action : comments[x] \in Nat
    BY <1>2 DEF PostsType
  <2>2. CASE UNCHANGED <<comments, told, excused>>
    BY <1>2, <2>1, <2>2 DEF PostsType
  <2>3. CASE Land(a, 1) \/ Land(a, 2)
    BY <1>2, <2>3, Landed
  <2> QED BY <1>1, <2>2, <2>3 DEF SendComment
<1>4. /\ ledger' \in [Action -> {"absent", "pending", "failed", "done"}]
      /\ \A x \in Action : ledger[x] # "absent" => ledger'[x] # "absent"
  BY <1>1, <1>2 DEF SendComment, PostsType
<1>5. Grows /\ PostsType'
  BY <1>3, <1>4 DEF Grows, PostsType
<1>6. CASE calls' = [calls EXCEPT ![c] = Idle]
  BY <1>5, <1>6, IdleFine DEF StepFine
<1>7. CASE (Land(a, 1) \/ Land(a, 2)) /\ calls' = [calls EXCEPT ![c].step = "finish"]
  <2>1. PICK s : s = [q EXCEPT !.step = "finish"]
    OBVIOUS
  <2>2. /\ s \in CallState /\ s.step = "finish" /\ s.now = a /\ s.notes = q.notes
        /\ s.todo = q.todo
    BY <1>1, <1>2, <2>1 DEF CallState
  <2>3. told' = told \cup Says(a)
    BY <1>2, <1>7, Landed
  <2>4. Covers(s, told')
    BY <1>1, <1>2, <2>2, <2>3 DEF Covers, Posting
  <2>5. Fine(c, s)
    BY <2>2, <2>4 DEF Fine, Knows
  <2> QED BY <1>1, <1>2, <1>5, <1>7, <2>1, <2>5 DEF StepFine
<1> QED BY <1>1, <1>6, <1>7 DEF SendComment, Go, End

\* A comment is settled, the rows are deleted, the submission is on record.
LEMMA EndFine ==
    ASSUME IInv, NEW c \in Call, FinishEffect(c) \/ ClearStaged(c) \/ Audit(c)
    PROVE  StepFine(c)
<1>1. CASE FinishEffect(c)
  <2>1. PICK q, a, s : q = calls[c] /\ a = q.now /\ s = NextOf(q)
    OBVIOUS
  <2>2. /\ q \in CallState /\ calls \in [Call -> CallState] /\ PostsType
        /\ Covers(q, told) /\ a \in Action /\ q.step = "finish"
    BY <1>1, <2>1, AtComment DEF FinishEffect, At, Posting
  <2>3. Grows /\ PostsType'
    <3>1. \A x \in Action : comments[x] \in Nat
      BY <2>2 DEF PostsType
    <3> QED BY <1>1, <2>1, <2>2, <3>1 DEF FinishEffect, Grows, PostsType
  <2>4. s \in CallState /\ Covers(s, told) /\ s.step \in {"look", "clear"}
    BY <2>1, <2>2, NextFine DEF Covers, Posting
  <2>5. Fine(c, s)
    BY <1>1, <2>4 DEF FinishEffect, Fine, Knows
  <2>6. calls' = [calls EXCEPT ![c] = s]
    BY <1>1, <2>1, NextIs DEF FinishEffect
  <2> QED BY <2>3, <2>5, <2>6 DEF StepFine
<1>2. CASE ClearStaged(c)
  <2>1. PICK s : s = [Idle EXCEPT !.step = "audit"]
    OBVIOUS
  <2>2. s \in CallState /\ s.step = "audit" /\ s.todo = {}
    BY <2>1 DEF Idle, CallState, Snapshot
  <2>3. Fine(c, s)
    BY <2>2 DEF Fine, Covers, Knows, Posting
  <2>4. Grows /\ PostsType'
    BY <1>2, SameGrows DEF IInv, TypeOK, PostsType, ClearStaged
  <2> QED BY <1>2, <2>1, <2>3, <2>4 DEF StepFine, ClearStaged
<1>3. CASE Audit(c)
  <2>1. Grows /\ PostsType'
    BY <1>3, SameGrows DEF IInv, TypeOK, PostsType, Audit
  <2> QED BY <1>3, <2>1, IdleFine DEF StepFine, Audit, End
<1> QED BY <1>1, <1>2, <1>3

\* Every step of a call.
LEMMA CallStep ==
    ASSUME IInv, NEW c \in Call, Step(c)
    PROVE  StepFine(c)
BY SubmitFine, PostFine, LookFine, BeginFine, SendFine, EndFine DEF Step

-----------------------------------------------------------------------------
(* Steps of the system *)

\* The inductive invariant holds before the first call.
LEMMA InvInit == Init => IInv
<1> SUFFICES ASSUME Init PROVE IInv
  OBVIOUS
<1>1. TypeOK
  <2>1. Idle \in CallState
    BY DEF Idle, CallState, Snapshot
  <2>2. head \in Sha /\ submits \in 0 .. MaxSubmit
    BY Versions DEF Init, Sha
  <2>3. staged \in Snapshot
    BY DEF Init, Snapshot
  <2>4. calls \in [Call -> CallState]
    BY <2>1 DEF Init
  <2>5. PostsType
    BY DEF Init, PostsType
  <2>6. up \in BOOLEAN /\ submitted \in BOOLEAN /\ shown \in Sha \cup {None}
    BY DEF Init
  <2> QED BY <2>2, <2>3, <2>4, <2>5, <2>6 DEF PostsType, TypeOK
<1>2. CallsOK
  <2>1. \A c \in Call : calls[c] = Idle
    BY DEF Init
  <2>2. Idle.step = "idle" /\ Idle.todo = {}
    BY DEF Idle
  <2>3. Covers(Idle, told) /\ Knows(Idle, comments, ledger, excused)
    BY <2>2 DEF Covers, Knows, Posting
  <2> QED BY <2>1, <2>3 DEF CallsOK
<1>3. LedgerOK /\ PostedOnce
  BY DEF Init, LedgerOK, PostedOnce
<1>4. Alone
  BY DEF Init, Alone, At, Idle
<1> QED BY <1>1, <1>2, <1>3, <1>4 DEF IInv

\* The actions of the run, the author and the agent, which post nothing.
Quiet ==
    \/ Start \/ Exit \/ AuthorPushes \/ FetchPr \/ Stage \/ UpdateStaged \/ Unstage \/ ClearAll
    \/ UNCHANGED vars

\* They leave each call as it is, or end it, and the thread alone.
LEMMA QuietCalls ==
    ASSUME Quiet
    PROVE  /\ calls' = calls \/ calls' = [c \in Call |-> Idle]
           /\ UNCHANGED <<posts, told>>
BY DEF Quiet, Start, Exit, AuthorPushes, FetchPr, Stage, UpdateStaged, Unstage, ClearAll, vars,
       posts

\* Rows that are deleted leave a snapshot.
LEMMA DeletedType ==
    ASSUME staged \in Snapshot, NEW ns
    PROVE  Deleted(ns) \in Snapshot
BY DEF Snapshot, Deleted, Gone

\* A row that is set to one of its versions leaves a snapshot.
LEMMA StagedType ==
    ASSUME staged \in Snapshot, NEW v \in Version
    PROVE  [staged EXCEPT ![v[1]] = v[2]] \in Snapshot
<1>1. v[1] \in Note /\ v[2] \in Nat /\ <<v[1], v[2]>> \in Version
  BY Versions
<1> QED BY <1>1 DEF Snapshot

\* Every step keeps the types.
LEMMA TypeStep == IInv /\ [Next]_vars => TypeOK'
<1> SUFFICES ASSUME IInv, [Next]_vars PROVE TypeOK'
  OBVIOUS
<1>0. TypeOK /\ PostsType
  BY DEF IInv, TypeOK, PostsType
<1>1. PostsType' /\ calls' \in [Call -> CallState]
  <2>1. CASE Quiet
    <3>1. Idle \in CallState
      BY DEF Idle, CallState, Snapshot
    <3> QED BY <1>0, <2>1, <3>1, QuietCalls, SameGrows DEF TypeOK
  <2>2. ASSUME NEW c \in Call, Step(c) PROVE PostsType' /\ calls' \in [Call -> CallState]
    BY <1>0, <2>2, CallStep DEF StepFine, Fine, TypeOK
  <2> QED BY <2>1, <2>2 DEF Next, Quiet
<1>2. staged' \in Snapshot
  <2>1. CASE staged' = staged
    BY <1>0, <2>1 DEF TypeOK
  <2>2. CASE Stage \/ UpdateStaged
    <3>1. PICK v \in Version : staged' = [staged EXCEPT ![v[1]] = v[2]]
      BY <2>2 DEF Stage, UpdateStaged
    <3> QED BY <1>0, <3>1, StagedType DEF TypeOK
  <2>3. CASE Unstage \/ ClearAll
    BY <1>0, <2>3, DeletedType DEF Unstage, ClearAll, TypeOK
  <2>4. ASSUME NEW c \in Call, ClearStaged(c) PROVE staged' \in Snapshot
    BY <1>0, <2>4, DeletedType DEF ClearStaged, TypeOK
  <2> QED
    BY <2>1, <2>2, <2>3, <2>4
       DEF Next, Step, Start, Exit, AuthorPushes, FetchPr, Submit, FilterAnchors, PostReview, Look,
           Reconcile, BeginEffect, SendComment, FinishEffect, Audit, vars
<1>3. head' \in Sha /\ shown' \in Sha \cup {None}
  <2>1. CASE UNCHANGED <<head, shown>>
    BY <1>0, <2>1 DEF TypeOK
  <2>2. CASE AuthorPushes \/ FetchPr
    BY <1>0, <2>2, Versions DEF AuthorPushes, FetchPr, TypeOK, Sha
  <2> QED
    BY <2>1, <2>2
       DEF Next, Step, Start, Exit, Stage, UpdateStaged, Unstage, ClearAll, Submit, FilterAnchors,
           PostReview, Look, Reconcile, BeginEffect, SendComment, FinishEffect, ClearStaged, Audit,
           vars, pr
<1>4. up' \in BOOLEAN /\ submits' \in 0 .. MaxSubmit /\ submitted' \in BOOLEAN
  <2>1. CASE UNCHANGED <<up, submits, submitted>>
    BY <1>0, <2>1 DEF TypeOK
  <2>2. CASE Start \/ Exit
    BY <1>0, <2>2 DEF Start, Exit, TypeOK
  <2>3. ASSUME NEW c \in Call, Submit(c) \/ Audit(c)
        PROVE  up' \in BOOLEAN /\ submits' \in 0 .. MaxSubmit /\ submitted' \in BOOLEAN
    <3>1. up \in BOOLEAN /\ submits \in 0 .. MaxSubmit /\ submitted \in BOOLEAN
      BY <1>0 DEF TypeOK
    <3>2. CASE Submit(c)
      BY <3>1, <3>2, Versions DEF Submit
    <3>3. CASE Audit(c)
      BY <3>1, <3>3 DEF Audit
    <3> QED BY <2>3, <3>2, <3>3
  <2> QED
    BY <2>1, <2>2, <2>3
       DEF Next, Step, AuthorPushes, FetchPr, Stage, UpdateStaged, Unstage, ClearAll, FilterAnchors,
           PostReview, Look, Reconcile, BeginEffect, SendComment, FinishEffect, ClearStaged, vars,
           run
<1> QED BY <1>1, <1>2, <1>3, <1>4 DEF TypeOK, PostsType

\* What a call that is not the actor knows and covers stands.
LEMMA OtherStands ==
    ASSUME IInv, Grows, PostsType', NEW d \in Call,
           calls[d].step = "send" /\ comments'[calls[d].now] # comments[calls[d].now] =>
               calls[d].now \in excused'
    PROVE  /\ Covers(calls[d], told')
           /\ Knows(calls[d], comments', ledger', excused')
<1>1. PICK q : q = calls[d]
  OBVIOUS
<1>2. Covers(q, told) /\ Knows(q, comments, ledger, excused) /\ PostsType
  BY <1>1 DEF IInv, CallsOK, TypeOK, PostsType
<1>3. Covers(q, told')
  BY <1>2 DEF Grows, Covers
<1>4. Knows(q, comments', ledger', excused')
  <2>1. CASE q.step \notin Posting
    BY <2>1 DEF Knows, Posting
  <2>2. CASE q.step \in Posting
    <3>1. q.now \in Action
      BY <1>2, <2>2 DEF Covers
    <3>2. PICK m, n : m = comments[q.now] /\ n = comments'[q.now]
      OBVIOUS
    <3>3. m \in 0 .. 2 /\ m <= n /\ n \in 0 .. 2
      BY <1>2, <3>1, <3>2 DEF Grows, PostsType
    <3> QED BY <1>1, <1>2, <3>1, <3>2, <3>3 DEF Knows, Grows
  <2> QED BY <2>1, <2>2
<1> QED BY <1>1, <1>3, <1>4

\* A comment's count changes when some call sends it, and for no other comment.
LEMMA CountStep ==
    ASSUME IInv, NEW c \in Call, Step(c), NEW a \in Action, comments'[a] # comments[a]
    PROVE  /\ At(c, "send") /\ calls[c].now = a
           /\ Land(a, 1) \/ Land(a, 2)
<1>1. SendComment(c)
  BY DEF Step, Submit, FilterAnchors, PostReview, Look, Reconcile, BeginEffect, FinishEffect,
         ClearStaged, Audit, posts
<1>2. PICK q : q = calls[c]
  OBVIOUS
<1>3. q.now \in Action /\ PostsType
  BY <1>1, <1>2, AtComment DEF SendComment, At, Posting
<1>4. Land(q.now, 1) \/ Land(q.now, 2)
  BY <1>1, <1>2 DEF SendComment
<1>5. q.now = a
  BY <1>3, <1>4, Landed
<1> QED BY <1>1, <1>2, <1>4, <1>5 DEF SendComment

\* Every step keeps what each call knows of the ledger and of GitHub.
LEMMA CallsStep == IInv /\ [Next]_vars => CallsOK'
<1> SUFFICES ASSUME IInv, [Next]_vars, NEW d \in Call
             PROVE  Covers(calls'[d], told') /\ Knows(calls'[d], comments', ledger', excused')
  BY DEF CallsOK
<1>1. CASE Quiet
  <2>1. CASE calls'[d] = Idle
    BY <2>1, IdleFine DEF Fine
  <2>2. CASE calls'[d] = calls[d]
    <3>1. UNCHANGED <<posts, told>> /\ Grows /\ PostsType'
      BY <1>1, QuietCalls, SameGrows DEF IInv, TypeOK, PostsType
    <3> QED BY <2>2, <3>1, OtherStands DEF posts
  <2> QED BY <1>1, <2>1, <2>2, QuietCalls
<1>2. ASSUME NEW c \in Call, Step(c)
      PROVE  Covers(calls'[d], told') /\ Knows(calls'[d], comments', ledger', excused')
  <2>1. PICK s : calls' = [calls EXCEPT ![c] = s] /\ Fine(c, s)
    BY <1>2, CallStep DEF StepFine
  <2>2. Grows /\ PostsType' /\ calls \in [Call -> CallState]
    BY <1>2, CallStep DEF StepFine, IInv, TypeOK
  <2>3. CASE d = c
    BY <2>1, <2>2, <2>3 DEF Fine
  <2>4. CASE d # c
    <3>1. PICK q, p : q = calls[d] /\ p = calls[c]
      OBVIOUS
    <3>2. q.step = "send" /\ comments'[q.now] # comments[q.now] => q.now \in excused'
      <4>1. SUFFICES ASSUME q.step = "send", comments'[q.now] # comments[q.now]
                     PROVE  q.now \in excused'
        OBVIOUS
      <4>2. q.now \in Action
        BY <3>1, <4>1, AtComment DEF Posting
      <4>3. At(c, "send") /\ p.now = q.now /\ At(d, "send")
        BY <1>2, <3>1, <4>1, <4>2, CountStep DEF At
      <4>4. q.now \in excused
        BY <2>4, <3>1, <4>3 DEF IInv, Alone
      <4> QED BY <2>2, <4>4 DEF Grows
    <3>3. calls'[d] = calls[d]
      BY <2>1, <2>2, <2>4
    <3> QED BY <2>2, <3>1, <3>2, <3>3, OtherStands
  <2> QED BY <2>3, <2>4
<1> QED BY <1>1, <1>2 DEF Next, Quiet

\* Every step keeps the ledger true to what was posted.
LEMMA LedgerStep == IInv /\ [Next]_vars => LedgerOK'
<1> SUFFICES ASSUME IInv, [Next]_vars, NEW a \in Action
             PROVE  /\ comments'[a] > 0 \/ ledger'[a] = "done" => Says(a) \subseteq told'
                    /\ ledger'[a] = "absent" => comments'[a] = 0
  BY DEF LedgerOK
<1>1. /\ PostsType /\ comments[a] \in 0 .. 2
      /\ comments[a] > 0 \/ ledger[a] = "done" => Says(a) \subseteq told
      /\ ledger[a] = "absent" => comments[a] = 0
  BY DEF IInv, TypeOK, PostsType, LedgerOK
<1>2. CASE Quiet
  <2>1. ledger' = ledger /\ comments' = comments /\ told' = told
    BY <1>2, QuietCalls DEF posts
  <2> QED BY <1>1, <2>1
<1>3. ASSUME NEW c \in Call, Step(c)
      PROVE  /\ comments'[a] > 0 \/ ledger'[a] = "done" => Says(a) \subseteq told'
             /\ ledger'[a] = "absent" => comments'[a] = 0
  <2>1. Grows
    BY <1>3, CallStep DEF StepFine
  <2>2. CASE comments'[a] # comments[a]
    <3>1. PICK q : q = calls[c]
      OBVIOUS
    <3>2. q.step = "send" /\ q.now = a /\ (Land(a, 1) \/ Land(a, 2))
      BY <1>3, <2>2, <3>1, CountStep DEF At
    <3>3. ledger[a] # "absent"
      BY <3>1, <3>2, AtComment DEF Posting, Knows
    <3>4. told' = told \cup Says(a)
      BY <1>1, <3>2, Landed
    <3> QED BY <2>1, <3>3, <3>4 DEF Grows
  <2>3. CASE comments'[a] = comments[a]
    <3>1. ledger'[a] = "done" => ledger[a] = "done" \/ Says(a) \subseteq told
      <4>1. CASE ledger' = ledger
        BY <4>1
      <4>2. CASE Reconcile(c) \/ BeginEffect(c) \/ SendComment(c) \/ FinishEffect(c)
        <5>1. PICK q : q = calls[c]
          OBVIOUS
        <5>2. q.step \in Posting
          BY <4>2, <5>1 DEF Reconcile, BeginEffect, SendComment, FinishEffect, At, Posting
        <5>3. /\ q.now \in Action /\ comments[q.now] > 0 => Says(q.now) \subseteq told
              /\ q.step = "finish" => Says(q.now) \subseteq told
          BY <5>1, <5>2, AtComment DEF Covers
        <5>4. \/ ledger' = ledger
              \/ ledger' \in {[ledger EXCEPT ![q.now] = "pending"], [ledger EXCEPT ![q.now] = "failed"]}
              \/ /\ ledger' = [ledger EXCEPT ![q.now] = "done"]
                 /\ comments[q.now] > 0 \/ q.step = "finish"
          BY <4>2, <5>1 DEF Reconcile, BeginEffect, SendComment, FinishEffect, At
        <5> QED BY <1>1, <5>3, <5>4 DEF PostsType
      <4> QED
        BY <1>3, <4>1, <4>2
           DEF Step, Submit, FilterAnchors, PostReview, Look, ClearStaged, Audit, posts
    <3> QED BY <1>1, <2>1, <2>3, <3>1 DEF Grows
  <2> QED BY <2>2, <2>3
<1> QED BY <1>2, <1>3 DEF Next, Quiet

\* Every step keeps at most one call sending a finding.
LEMMA AloneStep == IInv /\ [Next]_vars => Alone'
<1> SUFFICES ASSUME IInv, [Next]_vars, NEW c \in Call, NEW d \in Call, c # d,
                    calls'[c].step = "send", calls'[d].step = "send",
                    calls'[c].now = calls'[d].now
             PROVE  calls'[c].now \in excused'
  BY DEF Alone, At
<1>1. CASE Quiet
  <2>1. calls' = calls /\ excused' = excused
    BY <1>1, QuietCalls DEF posts, Idle
  <2> QED BY <2>1 DEF IInv, Alone, At
<1>2. ASSUME NEW e \in Call, Step(e) PROVE calls'[c].now \in excused'
  <2>1. PICK s : calls' = [calls EXCEPT ![e] = s] /\ Fine(e, s)
    BY <1>2, CallStep DEF StepFine
  <2>2. Grows /\ calls \in [Call -> CallState]
    BY <1>2, CallStep DEF StepFine, IInv, TypeOK
  <2>3. CASE e = c
    BY <2>1, <2>2, <2>3 DEF Fine, At
  <2>4. CASE e = d
    BY <2>1, <2>2, <2>4 DEF Fine, At
  <2>5. CASE e # c /\ e # d
    <3>1. calls'[c] = calls[c] /\ calls'[d] = calls[d]
      BY <2>1, <2>2, <2>5
    <3> QED BY <2>2, <3>1 DEF IInv, Alone, At, Grows
  <2> QED BY <2>3, <2>4, <2>5
<1> QED BY <1>1, <1>2 DEF Next, Quiet

\* Every step keeps findings posted once, but for the excused ones.
LEMMA PostedStep == IInv /\ [Next]_vars => PostedOnce'
<1> SUFFICES ASSUME IInv, [Next]_vars, NEW a \in Action, a \notin excused'
             PROVE  comments'[a] <= 1
  BY DEF PostedOnce
<1>1. PostsType /\ (a \notin excused => comments[a] <= 1)
  BY DEF IInv, TypeOK, PostsType, PostedOnce
<1>2. CASE Quiet
  BY <1>1, <1>2, QuietCalls DEF posts
<1>3. ASSUME NEW c \in Call, Step(c) PROVE comments'[a] <= 1
  <2>1. a \notin excused
    BY <1>3, CallStep DEF StepFine, Grows
  <2>2. CASE comments'[a] # comments[a]
    <3>1. PICK q : q = calls[c]
      OBVIOUS
    <3>2. q.step = "send" /\ q.now = a /\ (Land(a, 1) \/ Land(a, 2))
      BY <1>3, <2>2, <3>1, CountStep DEF At
    <3>3. comments[a] = 0
      BY <2>1, <3>1, <3>2, AtComment DEF Posting, Knows
    <3>4. comments'[a] <= comments[a] + 1
      BY <1>1, <3>2, Landed
    <3> QED BY <3>3, <3>4
  <2> QED BY <1>1, <2>1, <2>2
<1> QED BY <1>2, <1>3 DEF Next, Quiet

-----------------------------------------------------------------------------
(* The theorems *)

\* Every step preserves the inductive invariant.
LEMMA InvStep == IInv /\ [Next]_vars => IInv'
BY TypeStep, CallsStep, LedgerStep, AloneStep, PostedStep DEF IInv

\* The inductive invariant holds in every reachable state.
THEOREM Invariance == Spec => []IInv
BY InvInit, InvStep, PTL DEF Spec

\* Every variable of the review keeps its type.
THEOREM TypeCorrect == Spec => []TypeOK
<1>1. IInv => TypeOK
  BY DEF IInv
<1> QED BY <1>1, Invariance, PTL

\* A comment stands once, but for the cases on record.
THEOREM PostedOnceAlways == Spec => []PostedOnce
<1>1. IInv => PostedOnce
  BY DEF IInv
<1> QED BY <1>1, Invariance, PTL

\* A call that clears the rows has told of each as it read it.
LEMMA ClearTold ==
    ASSUME IInv, NEW c \in Call, At(c, "clear"), NEW n \in Live(staged),
           staged[n] = calls[c].notes[n]
    PROVE  <<n, staged[n]>> \in told
<1>1. PICK q : q = calls[c]
  OBVIOUS
<1>2. Listed(q.notes, Live(q.notes)) \subseteq told
  BY <1>1 DEF IInv, CallsOK, Covers, At
<1>3. n \in Live(q.notes)
  BY <1>1 DEF Live
<1> QED BY <1>1, <1>2, <1>3 DEF Listed

\* The rows a submission deletes are findings GitHub has.
THEOREM ClearedAlways == Spec => ClearedWasTold
<1>1. IInv /\ [Next]_vars =>
         [\A c \in Call :
             At(c, "clear") /\ calls'[c].step = "audit" =>
                 \A n \in Live(staged) :
                     staged[n] = calls[c].notes[n] => <<n, staged[n]>> \in told]_vars
  BY ClearTold
<1> QED BY <1>1, Invariance, PTL DEF Spec, ClearedWasTold
=============================================================================

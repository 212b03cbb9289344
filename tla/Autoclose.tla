----------------------------- MODULE Autoclose -----------------------------
(***************************************************************************)
(* Closing answered questions (autoclose.py, `pending_closures` in db.py): *)
(* the worker posts an answer and schedules a close, webhooks cancel the   *)
(* schedule when somebody replies or closes the issue, and the scheduler   *)
(* claims what is due and settles the rows of its batch one by one, with   *)
(* two GitHub calls each.                                                  *)
(*                                                                         *)
(* A row's close_at is a number that grows with every schedule, so it also *)
(* names the schedule; time is reduced to `due`.  The claim's LIMIT of 50  *)
(* rows and the order within a batch are left out: a batch is a set.       *)
(***************************************************************************)
EXTENDS Naturals, FiniteSets

CONSTANTS
    Issue,
    MaxAnswers,     \* bound on the schedules of an issue
    MaxExits,       \* bound on process exits
    MaxOutages,     \* bound on connection errors that outlast the retries
    MayVanish,      \* whether issues are deleted on GitHub
    None

ASSUME NoneAssumption == None \notin Issue
ASSUME BoundsAssumption == MaxAnswers \in Nat /\ MaxExits \in Nat /\ MaxOutages \in Nat
ASSUME MayVanishAssumption == MayVanish \in BOOLEAN

VARIABLES
    \* pending_closures
    row, reason, comment, closeAt, due,
    \* GitHub: the issues, the author's downvotes, webhooks on their way
    github, votes, inbox,
    \* the worker thread between gh_post_comment's call and its upsert
    posted, unscheduled,
    \* the scheduler
    up, batch, seen, current, step,
    exits, outages,
    \* history: when the replies to the answer in hand were delivered
    heard

table == <<row, reason, comment, closeAt, due>>
hub == <<github, votes, inbox>>
worker == <<posted, unscheduled>>
scheduler == <<up, batch, seen, current, step>>
env == <<exits, outages>>
vars == <<table, hub, worker, scheduler, env, heard>>

Final == {"closed", "cancelled"}
RowState == {"none", "pending", "claimed"} \cup Final
\* When a reply can be delivered: between the answer and its schedule, while
\* a tick holds the row, and at any other time.
Window == {"early", "held", "open"}
Reason == {"none", "user_replied", "externally_closed", "author_downvoted", "already_closed"}

TypeOK ==
    /\ row \in [Issue -> RowState]
    /\ reason \in [Issue -> Reason]
    /\ comment \in [Issue -> 0 .. MaxAnswers]
    /\ closeAt \in [Issue -> 0 .. MaxAnswers]
    /\ due \in [Issue -> BOOLEAN]
    /\ github \in [Issue -> {"open", "closed", "gone"}]
    /\ votes \in [Issue -> SUBSET (1 .. MaxAnswers)]
    /\ inbox \in [Issue -> SUBSET {"answer", "reply", "closed"}]
    /\ posted \in [Issue -> 0 .. MaxAnswers]
    /\ unscheduled \in [Issue -> BOOLEAN]
    /\ up \in BOOLEAN
    /\ batch \subseteq Issue
    /\ seen \in [Issue -> [comment : 0 .. MaxAnswers, closeAt : 0 .. MaxAnswers]]
    /\ current \in Issue \cup {None}
    /\ step \in {"idle", "reactions", "close", "closed", "gone"}
    /\ exits \in 0 .. MaxExits
    /\ outages \in 0 .. MaxOutages
    /\ heard \in [Issue -> SUBSET Window]

Init ==
    /\ row = [i \in Issue |-> "none"]
    /\ reason = [i \in Issue |-> "none"]
    /\ comment = [i \in Issue |-> 0]
    /\ closeAt = [i \in Issue |-> 0]
    /\ due = [i \in Issue |-> FALSE]
    /\ github = [i \in Issue |-> "open"]
    /\ votes = [i \in Issue |-> {}]
    /\ inbox = [i \in Issue |-> {}]
    /\ posted = [i \in Issue |-> 0]
    /\ unscheduled = [i \in Issue |-> FALSE]
    /\ up = TRUE
    /\ batch = {}
    /\ seen = [i \in Issue |-> [comment |-> 0, closeAt |-> 0]]
    /\ current = None
    /\ step = "idle"
    /\ exits = 0
    /\ outages = 0
    /\ heard = [i \in Issue |-> {}]

-----------------------------------------------------------------------------
(* The worker answers a question. *)

\* GitHub takes the comment; a body posted before is found by the ledger and
\* not posted again, but it is scheduled again.
PostAnswer(i) ==
    /\ up /\ ~unscheduled[i] /\ closeAt[i] < MaxAnswers /\ github[i] # "gone"
    /\ unscheduled' = [unscheduled EXCEPT ![i] = TRUE]
    /\ \/ /\ posted[i] < MaxAnswers
          /\ posted' = [posted EXCEPT ![i] = @ + 1]
          /\ inbox' = [inbox EXCEPT ![i] = @ \cup {"answer"}]
       \/ /\ posted[i] > 0
          /\ UNCHANGED <<posted, inbox>>
    /\ heard' = [heard EXCEPT ![i] = @ \ {"early"}]
    /\ UNCHANGED <<table, github, votes, scheduler, env>>

\* upsert_pending_closure: the row becomes a live schedule whatever it was.
Schedule(i) ==
    /\ up /\ unscheduled[i]
    /\ unscheduled' = [unscheduled EXCEPT ![i] = FALSE]
    /\ row' = [row EXCEPT ![i] = "pending"]
    /\ reason' = [reason EXCEPT ![i] = "none"]
    /\ comment' = [comment EXCEPT ![i] = posted[i]]
    /\ closeAt' = [closeAt EXCEPT ![i] = @ + 1]
    /\ due' = [due EXCEPT ![i] = FALSE]
    /\ heard' = [heard EXCEPT ![i] = @ \cap {"early"}]
    /\ UNCHANGED <<hub, posted, scheduler, env>>

CloseAtPasses(i) ==
    /\ row[i] = "pending" /\ ~due[i]
    /\ due' = [due EXCEPT ![i] = TRUE]
    /\ UNCHANGED <<row, reason, comment, closeAt, hub, worker, scheduler, env, heard>>

-----------------------------------------------------------------------------
(* People on GitHub. *)

Reply(i) ==
    /\ posted[i] > 0
    /\ "reply" \notin inbox[i]
    /\ github[i] # "gone"
    /\ inbox' = [inbox EXCEPT ![i] = @ \cup {"reply"}]
    /\ UNCHANGED <<table, github, votes, worker, scheduler, env, heard>>

Downvote(i) ==
    /\ \E c \in 1 .. posted[i] :
          c \notin votes[i] /\ votes' = [votes EXCEPT ![i] = @ \cup {c}]
    /\ UNCHANGED <<table, github, inbox, worker, scheduler, env, heard>>

\* The author or a maintainer closes the issue.
CloseByHand(i) ==
    /\ github[i] = "open"
    /\ github' = [github EXCEPT ![i] = "closed"]
    /\ inbox' = [inbox EXCEPT ![i] = @ \cup {"closed"}]
    /\ UNCHANGED <<table, votes, worker, scheduler, env, heard>>

\* Deleted, with its comments: the webhook of that cancels no schedule.
Vanish(i) ==
    /\ MayVanish
    /\ github[i] # "gone"
    /\ github' = [github EXCEPT ![i] = "gone"]
    /\ UNCHANGED <<table, votes, inbox, worker, scheduler, env, heard>>

\* Mutant: a cancel that also takes rows a tick has claimed.
CancelClaimedToo(i, why) ==
    IF row[i] \in {"pending", "claimed"}
      THEN /\ row' = [row EXCEPT ![i] = "cancelled"]
           /\ reason' = [reason EXCEPT ![i] = why]
      ELSE UNCHANGED <<row, reason>>

\* cancel_pending_closure: a no-op unless the row is pending.
CancelPending(i, why) ==
    IF row[i] = "pending"
      THEN /\ row' = [row EXCEPT ![i] = "cancelled"]
           /\ reason' = [reason EXCEPT ![i] = why]
      ELSE UNCHANGED <<row, reason>>

\* A newer answer was scheduled since the tick claimed the row.
Superseded(i) == seen[i].closeAt # closeAt[i]

\* The tick is settling the schedule the row holds now.
Held(i) == i \in batch /\ ~Superseded(i)

\* The windows a reply delivered now falls in.
WindowsNow(i) ==
    {IF Held(i) THEN "held" ELSE "open"} \cup (IF unscheduled[i] THEN {"early"} ELSE {})

\* issue_comment.created, whoever wrote it, and issues.closed.
Webhook(i) ==
    /\ up
    /\ \E kind \in inbox[i] :
          /\ inbox' = [inbox EXCEPT ![i] = @ \ {kind}]
          /\ CancelPending(i, IF kind = "closed" THEN "externally_closed" ELSE "user_replied")
          /\ heard' = [heard EXCEPT ![i] = IF kind = "reply" THEN @ \cup WindowsNow(i) ELSE @]
    /\ UNCHANGED <<comment, closeAt, due, github, votes, worker, scheduler, env>>

-----------------------------------------------------------------------------
(* AutocloseScheduler.tick. *)

DueRows == {i \in Issue : row[i] = "pending" /\ due[i]}

\* claim_due_closures: one transaction flips every due row and returns it.
Tick ==
    /\ up /\ batch = {} /\ DueRows # {}
    /\ batch' = DueRows
    /\ row' = [i \in Issue |-> IF i \in DueRows THEN "claimed" ELSE row[i]]
    /\ seen' = [i \in Issue |->
                   IF i \in DueRows THEN [comment |-> comment[i], closeAt |-> closeAt[i]]
                                    ELSE seen[i]]
    /\ UNCHANGED <<reason, comment, closeAt, due, hub, worker, up, current, step, env, heard>>

\* _process_row is entered for the next row of the batch.
AskReactions(i) ==
    /\ up /\ step = "idle" /\ i \in batch
    /\ current' = i
    /\ step' = "reactions"
    /\ UNCHANGED <<table, hub, worker, up, batch, seen, env, heard>>

RowSettled(i) ==
    /\ batch' = batch \ {i}
    /\ current' = None
    /\ step' = "idle"
    /\ UNCHANGED <<up, seen>>

\* finalize_closure writes whatever state the row is in.
Finalize(i, st, why) ==
    /\ row' = [row EXCEPT ![i] = st]
    /\ reason' = [reason EXCEPT ![i] = why]
    /\ RowSettled(i)
    /\ UNCHANGED <<comment, closeAt, due>>

\* list_comment_reactions answers: keep the issue open, or ask for the close.
\* (A comment that is gone is a GitHubError, see below.)
ReactionsArrive(i) ==
    /\ step = "reactions" /\ current = i /\ github[i] # "gone"
    /\ IF seen[i].comment \in votes[i]
          THEN Finalize(i, "cancelled", "author_downvoted")
          ELSE /\ step' = "close"
               /\ UNCHANGED <<table, up, batch, seen, current>>
    /\ UNCHANGED <<hub, worker, env, heard>>

\* GitHub carries out the PATCH; closing a closed issue changes nothing.
CloseTakesEffect(i) ==
    /\ step = "close" /\ current = i
    /\ IF github[i] = "gone"
          THEN step' = "gone" /\ UNCHANGED github
          ELSE step' = "closed" /\ github' = [github EXCEPT ![i] = "closed"]
    /\ inbox' = [inbox EXCEPT ![i] = IF github[i] = "open" THEN @ \cup {"closed"} ELSE @]
    /\ UNCHANGED <<table, votes, worker, up, batch, seen, current, env, heard>>

\* The answer is back: closed, or 404.
CloseAnswered(i) ==
    /\ current = i
    /\ \/ step = "closed" /\ Finalize(i, "closed", "none")
       \/ step = "gone" /\ Finalize(i, "cancelled", "already_closed")
    /\ UNCHANGED <<hub, worker, env, heard>>

\* Mutant: a GitHub error settles the row's turn and leaves it claimed.
GitHubErrorForgets(i) ==
    /\ current = i /\ step \in {"reactions", "close", "closed"}
    /\ RowSettled(i)
    /\ UNCHANGED <<table, hub, worker, env, heard>>

\* Mutant: the row goes back to a state the table does not know.
GitHubErrorsQueued(i) ==
    /\ current = i /\ step \in {"reactions", "close", "closed"}
    /\ row' = [row EXCEPT ![i] = IF @ = "claimed" THEN "queued" ELSE @]
    /\ RowSettled(i)
    /\ UNCHANGED <<reason, comment, closeAt, due, hub, worker, env, heard>>

\* Mutant: an error puts the row back whatever became of it meanwhile.
GitHubErrorsRevive(i) ==
    /\ current = i /\ step \in {"reactions", "close", "closed"}
    /\ row' = [row EXCEPT ![i] = "pending"]
    /\ RowSettled(i)
    /\ UNCHANGED <<reason, comment, closeAt, due, hub, worker, env, heard>>

\* A GitHubError from either call, a 404 of the first one included, before or
\* after the PATCH took effect: requeue_claimed_closure, which only moves a
\* row that is still claimed.
GitHubErrors(i) ==
    /\ current = i /\ step \in {"reactions", "close", "closed"}
    /\ row' = [row EXCEPT ![i] = IF @ = "claimed" THEN "pending" ELSE @]
    /\ RowSettled(i)
    /\ UNCHANGED <<reason, comment, closeAt, due, hub, worker, env, heard>>

TickOver ==
    /\ batch' = {}
    /\ current' = None
    /\ step' = "idle"

\* A connection error that outlasts the retries of the client is an httpx
\* error, not a GitHubError: it leaves the tick, and `_run` logs it.
ConnectionFails ==
    /\ current # None
    /\ outages < MaxOutages
    /\ outages' = outages + 1
    /\ TickOver
    /\ UNCHANGED <<table, hub, worker, up, seen, exits, heard>>

\* The process exits; the worker's unscheduled answer is never scheduled.
Exit ==
    /\ up
    /\ exits < MaxExits
    /\ exits' = exits + 1
    /\ up' = FALSE
    /\ TickOver
    /\ unscheduled' = [i \in Issue |-> FALSE]
    /\ UNCHANGED <<table, hub, posted, seen, outages, heard>>

Start ==
    /\ ~up
    /\ up' = TRUE
    /\ UNCHANGED <<table, hub, worker, batch, seen, current, step, env, heard>>

-----------------------------------------------------------------------------
People(i) == Reply(i) \/ Downvote(i) \/ CloseByHand(i) \/ Vanish(i)

Settling(i) == ReactionsArrive(i) \/ CloseTakesEffect(i) \/ CloseAnswered(i)

Next ==
    \/ \E i \in Issue :
          \/ PostAnswer(i) \/ Schedule(i) \/ CloseAtPasses(i) \/ People(i)
          \/ Webhook(i) \/ AskReactions(i) \/ Settling(i) \/ GitHubErrors(i)
    \/ Tick \/ ConnectionFails \/ Exit \/ Start

Spec == Init /\ [][Next]_vars

(***************************************************************************)
(* The loop ticks every scan_seconds and takes its rows in turn; close_at  *)
(* passes; the container is restarted; GitHub answers every call and does  *)
(* not answer with an error for ever, unless the comment is gone.          *)
(***************************************************************************)
Fairness ==
    /\ WF_vars(Tick)
    /\ WF_vars(Start)
    /\ \A i \in Issue :
          /\ WF_vars(CloseAtPasses(i))
          /\ SF_vars(AskReactions(i))
          /\ SF_vars(ReactionsArrive(i))
          /\ SF_vars(CloseTakesEffect(i))
          /\ SF_vars(CloseAnswered(i))
          /\ WF_vars(GitHubErrors(i) /\ github[i] = "gone")

FairSpec == Spec /\ Fairness

-----------------------------------------------------------------------------
(* Properties. *)

\* What the tick holds is claimed, so nobody else settles it; the one way out
\* is an answer scheduled in the meantime.
HeldRowsClaimed == \A i \in batch : row[i] = "claimed" \/ Superseded(i)

\* A schedule is resolved once: a cancelled or closed row changes again only
\* with a new schedule, or because the tick held an older schedule of it.
ResolvedOnce ==
    [][\A i \in Issue :
          row[i] \in Final /\ <<row', reason'>> # <<row, reason>>
              => \/ row'[i] = row[i] /\ reason'[i] = reason[i]
                 \/ closeAt'[i] # closeAt[i]
                 \/ i \in batch /\ Superseded(i)]_vars

\* Once a reply is delivered while an answer's schedule is stored and no tick
\* holds it, no tick ever closes the issue on that schedule, whatever errors,
\* re-claims, late settlements and exits follow.  A reply in one of the other
\* windows, before the schedule is stored or while a tick holds the row, does
\* not keep the issue open.
EngagedStaysOpen ==
    [][\A i \in Issue :
          step = "close" /\ step' = "closed" /\ current = i
              => "open" \notin heard[i] \/ Superseded(i)]_vars

\* What leaves a claimed row behind for good, or has it retried for ever: the
\* process exits or an error leaves a tick, or the issue is deleted.
Disturbed(i) == exits > 0 \/ outages > 0 \/ github[i] = "gone"

\* Every schedule ends in `closed` or `cancelled`, across errors of GitHub,
\* webhooks in any order and answers scheduled meanwhile, unless disturbed.
UndisturbedScheduleResolves ==
    \A i \in Issue : row[i] = "pending" ~> row[i] \in Final \/ Disturbed(i)

-----------------------------------------------------------------------------
(* What the documentation says and the code does not do. *)

\* Only a person's comment cancels as `user_replied`.
OnlyPeopleCancel ==
    [][\A i \in Issue :
          reason[i] # "user_replied" /\ reason'[i] = "user_replied"
              => "reply" \in inbox[i] \ inbox'[i]]_vars
=============================================================================

# carter-omp: a verification project

carter-omp is an orchestrator that runs a coding agent on GitHub issues. Webhooks become rows
of a SQLite table, a dispatcher claims the rows one issue at a time, a handler checks out a
worktree and starts the agent, and the agent acts on GitHub through tools. Around that core
run background loops that close answered questions, mirror the issue list, take up work that
died and delete the worktrees of settled work.

This directory holds TLA+ models of the parts of that program whose correctness depends on
the order in which things happen, the TLC runs that check them on small instances, and the
TLAPS proofs that some of their properties hold for every size. `PROJECT.json` lists the
runs, the theorems, the hazards each property is for and, definition by definition, the
source lines it stands for.

## 1. The system

All paths below are relative to `src/src/carter_omp/`.

| component | state | operations | how it interacts |
|---|---|---|---|
| events table and dispatcher (`queue.py`, `db.py`, `slot_pool.py`, `cancellation.py`) | table `events` (state, attempts, available_at, last_error); in memory `_inflight`, `_cancel_hooks`, `_cancelled`, `_shutdown_cancelled`, slot pool | record, claim, bounce, retry, requeue, mark, cancel, stop, start | fed by ingress, starts handlers as tasks; each run owns a worker thread |
| HTTP ingress and operator API (`server.py`, `manual_triage.py`, `cli.py`) | rate limit window, `submissions` | webhook, replay, trigger, cancel, list | writes the tables from the event loop and, for the CLI, from another process |
| agent runner (`worker.py`) | the agent process, its prompt loop and diagnosis | run_task: spawn, arm cancel, prompts, reminders, hard timeout, reclaim | a thread beside the event loop; marks its own event on a diagnosis |
| task handlers (`tasks.py`) | table `issues`, table `releases` | triage, comment, review, pr_conversation, release_ci, cleanup | upsert the issue, check out the worktree, run the agent |
| redispatch and workspace reaper (`queue.py`, `db.py`, `sandbox.py`) | none of their own | sweep of stranded issues, sweep of settled worktrees, prune of skipped rows | read tables, act some awaits later |
| question auto-close (`autoclose.py`, `db.py`, `host_tools.py`) | table `pending_closures` | schedule, cancel, claim, close, requeue | tool schedules, webhooks cancel, a loop settles through GitHub |
| issue index (`issue_index.py`, `db.py`) | table `issue_index` and its watermark | webhook ingest, paged sync, prune, search | prune abandons rows of `issues` |
| release sentinel (`tasks.py`, `db.py`, `host_tools.py`) | table `releases` | CI conclusions, rounds, retag | workflow webhooks are events like any other |
| host tools and ledger (`host_tools.py`, `verification.py`, `db.py`) | tables `side_effects`, `pr_sources`, verification receipts | comment, push, PR, review, record, finish tools | called by the agent over RPC, on the worker's thread |
| routing and authorization (`github_events.py`, `authz.py`, `pragmas.py`) | none | route, authorize_event | decide what a webhook becomes |
| sandbox (`sandbox.py`, `git_ops.py`) | mirror clones, worktrees, session directories | ensure, rename, remove | locks per repository |
| natives cache (`natives_cache.py`) | directory of build outputs | lookup, populate, capture, gc | shared by concurrent runs, flock |
| GitHub proxy (`proxy/`, `proxy_client.py`, `proxy_hmac.py`, `run_token.py`, `app_auth.py`) | cached installation tokens | signed requests, retried by the client | second process between orchestrator and GitHub |
| GitHub client, persona, capabilities, organisation tools, config, logging, dashboard | none that matters here | parsing, formatting, read-only views | |

What makes it hard: one event loop with many tasks that give way at every `await`; worker
threads beside it that share memory with it; a database written by three kinds of process;
GitHub, whose webhooks come late, twice or not at all and whose listings change while they
are read; and a container that may die between any two writes.

What makes it correct, per component:

- *queue*: never two runs of an issue at once; no accepted delivery is lost; a running row is
  owned by somebody; retries end; a cancel lands; slots are neither lost nor handed out twice.
- *auto-close*: a question is closed only if nobody objected in time; every schedule resolves,
  once.
- *index*: what the watermark has passed is in the index; what is abandoned is gone.
- *lifecycle*: what died is taken up again or settled, within the cap; a worktree goes once
  its issue is settled, and not before.
- *release sentinel*: one active release per repository, rounds bounded, no verdict for a
  commit the tag has left.
- *host tools*: a post happens once across retries; nothing is published unverified.
- *routing*: only those who may queue work do.

## 2. The modules

| module | stands for | composed of |
|---|---|---|
| `KeyedWork` | what the queue promises: one handler per key, nothing pending is lost | - |
| `EventQueue` | the table, the pool, worker threads, stop and restart | implements `KeyedWork` |
| `Autoclose` | `pending_closures`, scheduler, GitHub, people | - |
| `IndexSync` | the index, the sync and prune walks, GitHub's listing | - |
| `IssueLifecycle` | handlers, `issues`, worktree, both sweeps, retention, restarts | takes its attempts' outcomes from `EventQueue`, its deletions from `IndexSync` and the webhook |
| `ReleaseSentinel` | `handle_release_ci`, the `releases` table, calls of `release_retag`, GitHub's commits, tags and workflows | one verdict at a time, as `EventQueue` promises for one key |
| `AgentRun` | `run_task` from claim to settlement: turns, reminders, what kills them, the diagnosis; the natives cache | the queue of `EventQueue` reduced to one row; its `agent` in detail |
| `Publication` | gates, receipts, guarded push, `gh_open_pr`, `classify_issue` on one worktree, with the pool's refs and GitHub | one run at a time, as `EventQueue` promises for one key |
| `ReviewPosts` | the staged review, `submit_pr_review`, the comment ledger, the retrying client | one run at a time |
| `Authority` | routing, the handlers that resolve a pull request, `ensure_workspace`, the run's token, what the proxy grants | one event per key, as `EventQueue` promises |
| `EventQueueProofs`, `IssueLifecycleProofs`, `ReleaseSentinelProofs`, `AuthorityProofs`, `PublicationProofs`, `ReviewPostsProofs`, `AgentRunProofs` | theorems | extend their module |
| `PollingProofs` | theorems about `IndexSync` and `Autoclose`, the two loops that poll GitHub | extends both, which share no names |
| `MC...` | instances | extend their module |

Conventions. One action per stretch of code that no other actor can interrupt: a SQLite
transaction, or what the event loop runs between two awaits. Definitions whose comment begins
with "Mutant" are plausible bugs; they are used to show that each property can fail, and are
no part of any specification.

### EventQueue

A delivery's row is `state`, `attempts` (saturating one above the retry budget, the only bound
it is compared with), `delayed` (available_at lies ahead) and `lastError`; `older` keeps the
order of received_at. The pool is `mode` (`up`; `draining` and `killing` within
`WorkerPool.stop`; `down`), `dispatcher` with the row it has `claimed`, `inflight`, one `task`
per delivery and one `agent` (worker thread) per delivery, the cancel bookkeeping `hooks`,
`cancelled`, `shutCancelled`, and what a stop command has read and not yet cancelled
(`toRead`, `toCancel`).

| code | actions |
|---|---|
| webhook, `enqueue_manual`, replay, trigger | `Deliver`, `StopWebhook`, `EnqueueManual`, `Retry` |
| `claim_next_event`, `_claim_next_unique` | `Claim`, `Admit`, `Bounce` |
| an exception of the loop | `DispatcherDies` |
| `_run_event`, `_dispatch`, `_dispatch_and_mark` | `TakeSlot`, `HandleStop`, `DispatchReturns`, `DispatchRaises`, `ReleaseKey` |
| `run_task` on its thread, `_arm_cancel` | `SpawnAgent`, `ReadCancelled`, `StoreHook`, `AgentEnds`, `RecordDiagnosis` |
| `/api/cancel`, `cancel_running_for_issue` | `ApiCancel`, `ReadRunning`, `StopCancels` |
| `stop`, process exit, `start` | `BeginStop`, `DrainTimeout`, `SkipFinished`, `InterruptByHook`, `InterruptTask`, `Exit`, `Start` |
| time, retention | `BackoffElapses`, `PruneSkipped` |

`Claim` and what follows it are two steps because `_claim_next_unique` runs the claim in a
thread and only then looks at `_inflight`; both run under `_inflight_lock`, so `ReleaseKey`
waits. A claim thread that outlives the cancelled dispatcher is a `Claim` before `BeginStop`
whose row nobody admits. `PruneSkipped` does not take a row between its requeue and its run:
retention counts in days.

`KeyedWork` knows only a status per delivery. The refinement map is
`status` in `EventQueue`: a delivery is *handling* while its task or its thread lives, whatever
its row says, *settled* when the row is inactive, *pending* otherwise.

### Autoclose

`row`, `reason`, `comment`, `closeAt` and `due` are columns of `pending_closures`; `github`,
`votes` and `inbox` are GitHub and the webhooks on their way. `posted` and `unscheduled` are the
worker between the comment it posted and the row it stores. The scheduler's `batch` is what
`claim_due_closures` returned, `seen` the row as it was then, `current` and `step` where
`_process_row` is between its two calls. Answers (`PostAnswer`, `Schedule`), people (`Reply`,
`Downvote`, `CloseByHand`, `Vanish`), the ingress hook (`Webhook`), the tick (`Tick`,
`AskReactions`, `ReactionsArrive`, `CloseTakesEffect`, `CloseAnswered`), errors
(`GitHubErrors`, `ConnectionFails`) and the process (`Exit`, `Start`) are the actions.

The history `heard` keeps the windows in which replies were delivered: `early`, between the answer and the
row its schedule is stored in; `held`, while a tick holds the row; `open` at any other time. In the first
two `cancel_pending_closure` finds no pending row of that answer and does nothing.

### IndexSync

`life` and `updated` are GitHub's issues, `index`, `ledger` and `watermark` the tables, and
`phase` ... `keep` the local variables of `tick`, `sync_repo` and `prune_repo`. GitHub
evaluates a page (`FetchPage`) and the loop works on it later (`NextPage`, `EndSync`,
`PruneNextPage`, `EndPrune`), so people act in between. The history variable `unseen` collects
issues a change has moved from before the walk to behind it; `skipped` what such a walk passed
over; `late` rows that a late webhook has set back.

### IssueLifecycle

`rows[k]` are the events of issue `k` in rowid order, `state[k]` is `issues.state`, `older` the
order of `updated_at`, `run[k]` where the handler of the running row is. Columns are reduced to
what the sweeps compare: whether the attempts are spent, whether `last_error` is that of a
cancel, a permanent or a transient failure, whether the row is within the redispatch window.
The sweep keeps its candidates with the number of redispatches it counted when it ran the query
(`ListStranded`), and then abandons (`SweepAbandons`) or looks again (`SweepLooks`) and re-queues
(`Requeue`); the reaper lists (`ListAbandoned`), subtracts active keys (`FilterActive`) and
removes worktrees one by one (`Reap`, `ReapFails`). Both work on what they have read while
handlers (`Claim` ... `RetryLater`), people and the retention loop go on.

### ReleaseSentinel

`rel` is the `releases` table and `older` the order of `updated_at` among active rows; `inbox` holds
the stored verdicts, all under the key `<repo>#release`, so that one handler runs at a time. `made`,
`subject`, `main`, `tagAt` and `ci` are GitHub: commits, what they say they release, the default
branch, the tags, and what each workflow concluded. `at`, `event` and `active` are the handler.

A call of `release_retag` is a record of `calls` and not part of the handler, because it is not: the
RPC client runs every tool call on a daemon thread (`vendor/omp-rpc/src/omp_rpc/client.py:1678`),
`_tool_execute` looks at its cancellation only before it starts (`host_tools.py:491`), and neither a
hard timeout nor a cancel stops the thread. Only a process exit does.

| code | actions |
|---|---|
| people and workflows on GitHub | `CutRelease`, `PushToMain`, `MoveTag`, `Conclude`, `Rerun` |
| `handle_release_ci` up to its verdict | `Claim`, `ReadTag`, `Create`, `Supersede`, `SkipTerminal` |
| its branches | `JudgeSuccess`, `ReadRuns`, `ReadRelease`, `JudgeFailure`, `JudgeIgnored`, `JudgeActionRequired` |
| a round | `PrepareWorkspace`, `Abort`, `EndTurn`, `EndRound` |
| `release_retag`, `push_release` | `CheckTag`, `Push`, `PushFails`, `RecordSha`, `RecordState` |
| retry or final failure of the event, process exit and restart | `HandlerFails`, `Exit` |

Simplifications: equal verdicts in the queue are one, and so are equal calls of which none has pushed;
tags move to new commits only; whether a GitHub Release is published is read nondeterministically;
between `Create` and the verdict, where the handler has no `await` and goes by the row it has read, no
call writes; a push whose worktree is reset under it is refused. A verdict gets here only under the
legacy routing policy and with the sentinel enabled: the strict `route` queues no `workflow_run`.

### AgentRun

`row` is the delivery's row of `events` with its outcome, `pc` where the attempt is, `run` the
attempt's locals (`tools_called`, the `AbortController`, what the watch and the timer fired,
reminders used, how the last turn stopped), `agent` the omp process. `maxReminders` is the setting, any number
up to the bound `MaxReminders`; with 0, which switches reminders off, the loop and both final checks are skipped. `work` and `natives` are the
worktree as far as the probe for unpublished work and the cache see it, `cache` the repository's
entries, oldest first.

| code | actions |
|---|---|
| `_run_event`, `ensure_workspace`, `_run_rpc_blocking` | `Claim`, `Prepare`, `StartClient` |
| `_drive_turn` | `GiveUp`, `Remind`, `EndDrive`, `Examine` |
| `run_task` after the thread, `_dispatch_and_mark`, `_run_event` | `Capture`, `RecordAbort`, `Settle` |
| the agent and its tools | `Edit`, `CommitFiles`, `BeginBuild`, `EndBuild`, `Clean`, `Classify`, `CompleteTerminal`, `AbortTask`, `AbortLate`, `EndTurn` |
| other threads | `Stall` (`_AgentActivityWatch`), `HardStop`, `Cancel` |
| other runs, the process | `OtherCaptures`, `Restart` |

The three that kill the agent may strike at any point from the start of the client to the reading of
what fired, between two reminders included. `Probes` is what `inspect_dirty_state` may say of a
worktree: the truth, or `clean` because git failed, or `dirty` because it raised. A version stands for
everything `compute_key` hashes; an artifact is that of a version, or `torn` while a build runs.
Every capture
ends with a collection; the gc loop, which has the same caps, therefore finds nothing to do and is no
action. Label changes, telemetry and the text of prompts are left out. No finished row is queued again here:
what an operator's retry does to one is in `EventQueue`.

### Publication

`head`, `work` and `wsBranch` are the worktree, `row` the issue's row, `remote` and `prs` GitHub,
`tracking` the remote-tracking refs of the clone pool that every worktree of the repository shares,
`receipts` the table, `calls` the tool calls in flight, each on its own thread. A commit is its tree,
the pushes of other people it contains and the form of its message and author.

| code | actions |
|---|---|
| `gh_push_branch`, `gh_open_pr` | `Publish`, `Fix`, `Amend`, `RunPhase`, `RecordReceipt`, `RequireReceipt`, `Normalise`, `Inspect` |
| `git_ops.push` | `Probe`, `Send` |
| the rest of `gh_open_pr` | `Create` (reads the branch), `Open` (GitHub acts), `Settle` |
| `classify_issue`, `revise_issue_assessment` | `Classify`, `Rename` (git), `Name` (the row), `Label`, `Revise` |
| the agent's shell | `Agent` |
| runs of this issue, of others, and people | `Start`, `Exit`, `PoolFetch`, `PeerPush` |

A deployment is a record of `Setup`: the bun gates or a policy's commands, the phases it requires,
`SKIP_CHECKS`, a maintainer's directive. Gates are predicates on trees, the formatter a function on
them. The formatter, its amend and each phase are steps of their own, with the shell and the other call between
them; the commands of one phase are one step, whose verdict is arbitrary once somebody moved the files since the
gates began. The commands of `bun run fix`'s amend, and of one inspection, are a step each as well.
An answer that is lost after GitHub acted is a disjunct of `Send` and of `Open`. `Exit` ends
the calls with the run; that a tool thread may outlive its turn is modelled for `release_retag` only.

### ReviewPosts

`staged` are the rows of `pr_review_comments`, `ledger` the rows of `side_effects`, `comments` how often
each comment stands on the thread. `calls` are submissions in flight: the rows they have read, what
GitHub still has to get, the comment at hand. `Stage`, `UpdateStaged`, `Unstage` and `ClearAll` are
the staging tools, `Submit`, `FilterAnchors`, `PostReview`, `ClearStaged` and `Audit` the submission,
`Look`, `Reconcile`, `BeginEffect`, `SendComment` and `FinishEffect` are `_post_comment_idempotent` for
each comment that replaces a refused review. `AuthorPushes` moves lines out of the diff, `FetchPr`
shows the agent the new head. A finding is a number, with a version for what its row says, and
`Anchored` is which version lies in which head's diff. A finding is staged only if it anchors: a file without
a patch is refused too (`_anchor_rejection`, `host_tools.py:3337`), so the branch that calls a staged finding
"unverified" (`host_tools.py:3228`) is never taken.

### Authority

`rows` is the `issues` table (branch and pull request of a number), `refs` the local branches of the pool,
`tree` the checkout of each workspace, `runs` the run of each key with what its handler read and the
token it holds. `Route` is `authorize_event` and the strict `route`; `Begin` is `triage_issue`,
`handle_comment`, `review_pr`, `handle_review` or `handle_pr_conversation` up to the workspace, with
`ResolveRow` for the three ways a pull request is traced to its issue; `Prepare` is `ensure_workspace`
and `_attach_run_token`. `MayWrite`, `MayOpen` and `MayPush` are the proxy's decisions. The run then acts
(`Commit`, `OpenPr`, `Rename`, `SubmitReview`), and each refresh of its token may fail. A branch
`carter-omp/<hex>/<slug>` is the number it was made for and which of two slugs, since that is what
`_require_run_branch` compares.

## 3. The runs

Every run ends by exhausting its state space; deadlock is not checked because a system with no
delivery, no due row and no budget left rests.

| run | asks | bounds, and why they are enough |
|---|---|---|
| `queue_serial` | safety of the queue and the refinement of `KeyedWork` | two deliveries of one issue, one of another, one slot, one retry, one operator command or process exit, a dispatcher that may die. Serialization relates two deliveries of a key; the third competes for the slot |
| `queue_live` | every pending delivery runs, every delivery settles, cancels land | a webhook, a manual triage and a stop of one issue, one retry, one command or exit, fairness |
| `autoclose_races` | single resolution, engagement, liveness | one issue with two answers (one held by the tick, one scheduled over it), any number of GitHub errors, an exit, two outages, deletion. Rows of different issues meet only in the batch, which is processed row by row |
| `index_walks` | what the watermark passes, what the prune removes, liveness | three issues, pages of one, three pages: the smallest budget in which a walk can be hit before, on and behind its page; a clock skew as large as the overlap allows |
| `lifecycle_sweeps` | the cap, what the sweep may touch, nothing stranded, worktrees go | one issue, one webhook of any kind, retries, one exit. Issues meet only in the limits of the two queries (section 4) |
| `publication_gates` | what is published, whose commits are lost, one pull request | two calls, five acts of the agent, one push of somebody else, two runs, four deployments, three trees of which one fails its tests and one wants formatting. Five acts are a commit, the classification, a publication and two more in its way. Two calls are what can interleave on one worktree, the second run is the retry after a lost answer, one person's push is what a lease protects |
| `review_once` | comments twice, findings lost | two findings, one with two versions, two calls, two submissions over all runs, one push. A submission's fallback has a summary and at most two comments; the second submission is the overlapping or the repeated one |
| `authority_grants` | what a token grants | an issue, a person's pull request (in a fork or not) and one pull request of the bot's, a person who may trigger and one who may not, three triggers: the first makes the work, the second and third meet it from both sides |
| `agent_ends` | what a run's end makes of its delivery, liveness | one delivery of one of three kinds (one whose terminal tool depends on the classification, one that may run in a read-only worktree, one that always does), no reminder or one, one retry, one restart, two versions of the natives and a cache of one |
| `release_rounds` | rounds, supersession, terminal rows, the decision of every release | two releases, two workflows, three commits, one round, and one rerun, exception or exit. Two releases are what supersession relates, two workflows what a success waits for; three commits are a release, its fix or its successor, and one pushed beside it; with one round the cap is met by the first fix that fails |

Two more runs must *fail*: each refutes a sentence of the repository, quoted in its finding.

- `autoclose_own_answer`: the webhook of the bot's own answer cancels the schedule of that answer.
- `agent_stale_natives`: an aborted run is captured into the natives cache, its build half done.

### What the properties say

*EventQueue.* `OneRunPerKey`: two deliveries of an issue never have a task or a live agent at
once; `_inflight` and the `NOT EXISTS` clause of the claim each cover a window the other leaves
(a row may be terminal while its thread still captures caches; a bounced row is running while
another holds the key). `AgentsWithinSlots` is about the slots; `Implements` is the refinement, under
which a pending delivery settles only by being handled and a restart loses none.
`EveryPendingRuns`, `EveryDeliverySettles` and `CancelLands` are the liveness counterparts.

*Autoclose.* `EngagedStaysOpen` says that a reply to a stored schedule which no tick holds is never
forgotten: whatever errors, re-claims, late settlements and exits follow, no tick closes the issue on that
schedule. It says nothing of a reply in the two other windows, where the issue may be closed on it (section
4). It and `ResolvedOnce` hold but for rows that a newer answer superseded while the tick held them, an
exception the code makes by design of `upsert_pending_closure`. `UndisturbedScheduleResolves` excludes
issues that were deleted, exits and outages, and the next section says why.

*IndexSync.* `WatermarkCovers` and `ChangesAreIndexed` hold but for `skipped` and `late` rows,
`AbandonedIsGone` but for issues the listing moved past the walk. The exceptions are the
findings and hazards of the component, not conveniences: without them TLC finds the races.

*IssueLifecycle.* `RedispatchBounded` is the cap across sweeps, restarts and prunes;
`SweepActsOnStranded` says the sweep acts on an issue only if it is stranded or something
happened to it since the query; `StrandedMoves` and `AbandonedReaped` are what the two loops are
there for.

*ReleaseSentinel.* `OneRoundPerFailure` relates the counter to the commits it was counted for, across
retries, exits and the several verdicts of one commit. `OneActiveRelease` is what `get_active_release`
takes for granted, `VerdictsDecide` that no order of
verdicts leaves a release undecided once everything is handled, `TerminalIsFinal` that no verdict
reopens a release. Their exceptions are what the code does: `late`, a call of `release_retag` that has
written after its turn; `torn`, an exit between `upsert_release` and the supersession it calls for; a
verdict that failed for good; and, in `VerdictsDecide`, commits with a cancelled workflow (section 4).

*AgentRun.* `DoneIsFinished` relates what the queue writes last to everything that happened in the
attempt: no kill, no abort and, where reminders are enabled, the terminal tool reached and nothing left
unpublished. The diagnosis that enforces it is written by another thread and before the run returns.
With `maxReminders` 0 there is no such diagnosis, and a run that did nothing is done. `AbortStands` is the converse
for an abort: whatever else fires, the delivery is neither retried nor done. `RunSettles` is
liveness with an agent that may fall silent for good. `EntriesMatchTheirKey` is what the cache's
comment claims and the code does not keep.

*Publication.* `PublishedIsVerified` follows a tree from the first phase to the last and through the formatter's amend, the
receipt and the message rewrite to the push. `PeerLossNeedsFetch` says what the forced push with a
lease does guarantee: a person's commit is overwritten only after some run has fetched it.
`OnePrOnItsBranch` relates the worktree's branch to the pull request across renames and lost answers.
Their exceptions are the windows of section 4: somebody else moved HEAD or the files between the start of the
first phase and the inspection, or HEAD after `git_ops.push` had compared it (`intact`); a rename
that did not know of a request on its way or of an open pull request (`blind`). Between the inspection and the
comparison nothing is exempt: there the property rests on the comparison.

*ReviewPosts.* `PostedOnce` is the ledger's promise; `excused` collects the comments that were sent over an
unread thread, a repeated request or an overlapping call. `ClearedWasTold` says that the rows a
submission deletes reached GitHub in some form, whatever was refused on the way.

*Authority.* `Confined`: whatever a run asks for, the proxy grants it writes on its own piece of work
only. `OwnPushGranted` is the other side: a run that may push is not refused its own checkout, however
the branch was renamed and whichever of its tokens is in force. The two together pin the proxy's
branch rule, which is neither "the token's branch" nor "any branch of the bot's".

### Fairness

`ReleaseSentinel`, `Publication`, `ReviewPosts` and `Authority` have safety properties only and assume no
fairness. In `AgentRun` the driver is weakly fair: its own steps need nobody, and `prompt_and_wait`
returns after its timeout (`GiveUp`) whether or not the agent does anything; the agent, its killers and
the environment are not fair at all. In the other modules the event loop runs every ready task (weak
fairness of its steps), `asyncio.Lock` and
`asyncio.Queue` wake their waiters in order (strong fairness of `TakeSlot` and `ReleaseKey`,
which are enabled again and again rather than always), the hard timeout ends an agent's turn,
`stop` is bounded by its timeouts, and the container's restart policy starts the process again.
The loops' timers go off for ever (`Tick`, `SyncStep`, `SweepStep`, `ReaperStep`). GitHub answers
every call; that it does not answer with an error for ever is strong fairness of the successful
step in `Autoclose` and `<>[](phase # "failed")` in `IndexSync`, where no tick with any failure
could be asked to make progress. Webhooks are never assumed to arrive.

## 4. Races the runs include and no run is about

The first nine were seen as counterexamples of these models, to a property that says what the quoted
sentence says. The properties the runs do check hold in spite of them or name them as exceptions.

- An operator's retry of a run that was just diagnosed as failed is overwritten with `done`
  (`queue.py:746`, whose comment at 734 says "Do not overwrite diagnosis with success"): the worker writes the diagnosis
  while its run is still ending, `/api/trigger` accepts the `failed` row and answers "queued", and
  `_dispatch_and_mark` then sees a row that is not inactive.
- `Autoclose`: `_process_row` requeues on `GitHubError` only. A connection error that outlasts the client's
  retries leaves the rest of the batch `claimed`, a state nothing resets, although `autoclose.py:46`
  says "A failed close requeues the row to `pending` so the next tick retries". An exit does the same.
- `Autoclose`: a reply that is delivered between the answer and the upsert of its schedule (`db.py:2328`) finds no
  row to cancel; the schedule is then stored as if nobody had replied, and its tick closes the issue. A reply that
  comes while a tick holds the row cancels nothing either: that tick closes the issue, or an error puts the row back
  (`db.py:2412`) and the next tick does, though `server.py:523` says the closure is cancelled "the moment any human
  signal arrives" and `db.py:2433` leaves the row to "the scheduler tick that owns it to finalize".
- `IndexSync`: an issue that is edited (or deleted) behind the walk shifts another one off its page; the
  watermark passes that one and it is not indexed until somebody touches it. `issue_index.py:36`
  says a raced update is never permanently skipped; the overlap covers the issue that was updated,
  not the one that was shifted. The same shift makes the prune drop a live issue's row.
- `IssueLifecycle`: `abandoned_issues` returns the 500 rows with the smallest `updated_at`, and reaping leaves the row as it
  is. Once that many issues are abandoned, one that is abandoned later is never reaped.
- `IssueLifecycle`: the reaper reads the active keys once and removes worktrees one after the other; a
  run that was stored, claimed and checked out in between loses its worktree. `sandbox.py:1596`
  says "an active run is never touched".
- `Publication`: the lease of the forced push is the tracking ref, which all worktrees of the pool share.
  Another issue's fetch refreshes it, and a commit a person pushed to the pull request's branch after this
  run's own fetch is overwritten, though `git_ops.py:896` says the push "never clobbers work the bot didn't see".
- `Authority`: the queue serializes on the key a webhook was routed to, and the handler resolves the pull
  request again. After `gh_open_pr` lost its answer, the PR's webhooks queue under the PR's number and
  resolve to the issue's row: two runs work in one workspace (`README.md:50`: "per-issue serialization").
- `Authority`: a review of a person's pull request re-points the workspace at its head. Where a mention had
  put the bot on a branch there, its commits are detached or reset (`tasks.py:1062`: "local
  commits must survive").
- `_arm_cancel` reads the cancel set and stores the hook in two steps (`ReadCancelled`,
  `StoreHook`). A cancel between them kills nothing; the agent runs to its end and `CancelLands`
  holds because the outcome is overridden then.
- `task.cancel()` in `stop` ends the task and not its thread. The agent may outlive the task and,
  with it, its slot; `AgentsWithinSlots` is therefore stated up to the timeout of the drain.
- A cancel that is pending when `stop` begins is forgotten; its row is queued at the next start.
- A bounced row keeps the attempt the claim counted.
- An exception of SQLite ends the dispatch loop; ingress goes on accepting. `DispatcherDies` is in
  `queue_serial`; no liveness is claimed after it.
- A stop command reads the running rows in a thread and cancels them later. A delivery that has
  ended and started again meanwhile is cancelled as well.
- `Autoclose`: the 404 for reactions of a deleted comment is retried at every tick.
- `IssueLifecycle`: a candidate past the cap is abandoned without a second look, so a comment that
  arrived since the query is answered as one on a finalized issue.
- `IssueLifecycle`: orphans past the cap are "abandoned" without a row in `issues`, which changes
  nothing; they stay in the list until the window closes over them.
- `IssueLifecycle` with `Cap = 2`: a redispatched row that a handler skipped is pruned, the count
  falls, the next delivery id collides with an existing one, `record_event` ignores it, and the
  issue stays stranded. `StrandedMoves` fails for that instance and holds for the default cap of
  one, which is the one checked. `RedispatchBounded` is proved for every cap.
- `carter-omp stop` stores the stop as an ordinary event of the issue (`manual_triage.py:186`), which
  waits for the run it should end; `server.py:567` says why a webhook's stop is handled at ingress.
  The help text promises no more, and `EveryPendingRuns` says the stop is reached in the end.
- `ReleaseSentinel`: a success judged while another workflow runs leaves the decision to that one's
  verdict; if that one is then cancelled its verdict is ignored, and the release waits for ever.
  `tests/test_tasks_release.py:235` expects that a cancelled run does not block green, and has the
  verdicts in the other order.
- `ReleaseSentinel`: which of two releases is superseded depends on `updated_at` and on the verdict at
  hand, not on versions. A verdict of a release that is terminal supersedes the one that is awaited.
- `ReleaseSentinel`: between `get_tag_sha` and the forced push of the tag, a person who moves only the
  tag is overwritten; one who moves the branch makes the atomic push fail.
- `ReleaseSentinel`: `release_retag` looks at the prefix of the commit's subject and not at the version
  behind it. A fix whose subject names another release has verdicts that are for that one.
- `AgentRun`: the watch on silence (900 s by default) kills a run whose host tool legitimately runs longer;
  the tool's thread goes on and may publish while the retry runs. The retry's `tools_called` is
  empty, so a reply that was posted before the kill is demanded and posted again.
- `AgentRun`: the hard timer is armed once, while every reminder gets a turn with a full timeout of its own.
- `AgentRun`: an abort is recorded after the capture and the removal of the label; an exit in between runs the
  aborted task again. So does an `abort_task` that signals after its turn was given up. `AbortStands` exempts
  both, though the docstring says "nothing auto-retries".
- `AgentRun`: after a completion reminder in a read-only review worktree the last probe has no guard for
  `review_mode` (`worker.py:723`); the delivered reply is marked as failed over leftovers.
- `AgentRun`: a triage that ends without having classified needs no reminder and is marked resolved.
- `AgentRun`: deliveries that failed by exception have no outcome, cancelled ones only when the handler returned.
- `AgentRun`: with `CARTER_OMP_TASK_COMPLETION_MAX_REMINDERS=0` (`config.py:313`, "Set to 0 to disable") not only the
  reminders but also the two checks after them are skipped (`worker.py:612`, 699, 722): a run that reached no
  terminal tool and left dirty work is marked `done`. `DoneIsFinished` is conditional there.
- `Publication`: the phases are up to an hour each, one after the other, and the inspection comes after the last. A
  commit made in between by the agent's shell or by another tool call is pushed, without having passed the
  earlier phases, if the worktree is clean by then; so is one made after `git_ops.push` compared HEAD, whose refspec
  is `HEAD`. With a policy and no bun gates, nothing asks for a clean worktree before the phases run.
- `Publication`: `gh_open_pr` reads the branch when it makes its request. A `classify_issue` that renames the branch
  while that request, or its answer, is on the way finds no pull request in the row, and the request opens
  one for the old name.
- `Publication`: a push that succeeded and whose answer was lost leaves the tracking ref behind; the retries
  of that run are refused by the lease until a fetch.
- `Publication`: a policy that requires a phase, with `SKIP_CHECKS`, may push and never open a pull request: the receipt is empty.
- `Publication`: labels GitHub rejects after the rename leave a branch that is renamed and an issue that is not classified.
- `ReviewPosts`: the footer is part of the text the ledger hashes; a retry with other figures in it is
  another comment. The review's own POST is not in the ledger: one that landed and whose answer was
  lost may be posted again.
- `ReviewPosts`: `clear_staged_review_comments` deletes by issue, with the rows another call staged or updated
  since the submission read them.
- `ReviewPosts`: the head may move between the check and the POST, and findings staged against the old head
  survive a new `fetch_pr`; the filter then moves those that do not anchor into the body.
- `Authority`: a label or an assignment on the bot's own pull request is queued and skipped, because the
  handler looks for the number in `payload["issue"]` (`tasks.py:985`); `docs/triggers.md:95` has it resume.
- `Authority`: a later `review_pr` trigger of a pull request that was reviewed once ends at once, as done.
- `Authority`: a mention on a reviewed pull request of a person writes that number over the PR the row had.
- `Authority`: a row that has a PR and no branch takes the PR's head ref without asking whose repository it is in.

## 5. The proofs

All theorems are for any sets, limits and budgets under the named assumptions on the constants. These
say that a null value is no value of the program's (`NoneAssumption`), that bounds are naturals, zero included
(no reminder, no retry, no exit; only the cap of the natives cache is positive, as `natives_cache.py:266` makes it), and
what the constants stand for: the numbers of issues, of people's pull requests and of the bot's are
disjoint (GitHub numbers them in one sequence), a formatter leaves what it has formatted, a footer
is not mistaken for a finding, a release has a workflow that checks it. Without the last, nobody would ever
hear of a release and `VerdictsDecide` would be false; the runs evaluate all of them.

Each module's `IInv` (`SyncInv` for `IndexSync`, whose names do not clash with those of `Autoclose`) was
model-checked as an invariant of its run's instance before it was proved, `SyncInv` also with pages of two and
without an overlap. The proof
that a step preserves it has one lemma per action or family of actions.

*EventQueueProofs.* `IInv` is `TypeOK`, `Ownership` (what is accounted for by whom) and `OneRunPerKey`. `OneRunPerKey` is not inductive by itself: a task starts when its key is not in
`_inflight`, so what must be known is that whoever is busy has its key there (`KeysHeld`), that the
dispatcher holds a row exactly while it checks it (`ClaimHeld`), that a live agent has a task
(`AgentsOwned`) except while tasks are cut short, and that then nothing new is admitted
(`OnlyStopInterrupts`). `Serialization` follows. `OneRunningRow` needs that only a claim makes a row
running (`OnlyClaimRuns`), `SlotBound` that whoever takes a slot finds one (`SlotsHeld`).
`QueueImplementsKeyedWork` maps each step to one of `KeyedWork` or to a stutter; it needs what rows
are in hand (`RowsInHand`), and the guard of `Handle` is serialization again.

*PollingProofs, IndexSync.* `WatermarkCovers` and `AbandonedIsGone` are about what a walk has dealt with
when it ends; the rest of `SyncInv` is about the walk half-way, while the listing moves under it.
`CoveredInv` says that whatever is behind the walk by position is on record as unseen, or is in the answer at hand
in the version GitHub has, or was worked on (its row is right or set back; the prune keeps it), or lies past the last
page of the budget and is newer than all that was returned. `AheadInv` says that of everything before the
walk: a change gives an issue the newest time there is, and lowers the ranks of others or leaves them
(`RanksFall`), so what is before the walk now was before it already or has just been changed. This is why a
sync that stops at its budget may set the watermark to the last time it saw. Times are compared
by `ClockInv` (no time is from the future, no two issues have one; the host's clock is ahead by
`Skew` at most, which the overlap absorbs) and `WalkInv` (rows of an answer are versions GitHub had, none older than
`since`). A walk may take a short page for the end because positions are a bijection onto `1 .. n`
(`ListingFinite`, `RankOrder`), so that every page before the last has an issue in each of its places
(`FullPage`). `AbandonedIsGone` is `CoveredInv` at the last step of a complete enumeration (`Enumerated`) with
`HookInv`, that a `deleted` webhook tells the truth, and `LedgerInv`, that what is tracked was there.
`BudgetAssumption` is not used: it is what liveness needs.

*PollingProofs, Autoclose.* `IInv` adds to the types that a tick works on a row of its batch and has read a
schedule no newer than the table's (`TickInv`), that a row a newer answer superseded while a tick holds it
is not claimed (`FreshInv`, so that the tick's error cannot put it back), and that a row with a reply no
tick kept from it is not pending, and claimed only where a tick was broken off (`HeardInv`). `ResolvesOnce`
and `EngagedOpen` are action properties of it.

*IssueLifecycleProofs.* `RedispatchBounded` counts rows. What is inductive is not the count but the
ids: those of redispatches lie in `1 .. Cap` and are distinct (`IdsInv`), and what the sweep is about
to re-queue had fewer than `Cap` when it was counted (`FoundInv`). A new row takes the id after that
count and only if no row has it; a prune frees one; everything else keeps rows in place (`SameIds`).
That a set of rows with distinct ids out of `1 .. Cap` has at most `Cap` members is the injection
theorem of the library. The count the sweep carries may be stale; the argument does not use it.

`SweepsAreOfStranded` is about the time between the query and the act: of every issue the sweep still
has on its list, the last event that is not noise is as dead as the query found it and nothing is
queued (`Died`), or something happened to it since (`TodoInv`). An issue is on the list once, so
that re-queueing one does not touch the rest. Webhooks, commands and handlers put their issue into `moved`; a
prune takes only noise (`PruneKeepsDied`) and time changes only what is recent (`AgeKeepsDied`). What
the sweep calls the latest event is a `CHOOSE` of a greatest index, which exists because a nonempty bounded
set of naturals has a greatest element (`Greatest`, by well-foundedness).

*ReleaseSentinelProofs.* For any finite set of releases, any workflows, commits and rounds. `IInv` adds
to the types and to `RepairIsTended`: no commit a row, a verdict or a call names lies in the future
(`Known`), the handler's row is the one its step needs (`Serving`), active rows are one unless `torn`,
`late` or about to be superseded (`Single`), a commit a round was spent on is not at a tag
whose row could start another (`Fresh`), a call past its push has moved the tag (`Moved`), and rounds
are the commits in `bumped` (`Counted`). `Counted` needs `Fresh`: a round begins at a commit that is not
in `bumped`, because a row leaves `fixing` for a terminal state, or for `awaiting_ci` once the tag is at
a new commit, unless the call was late. `TypeCorrect`, `RoundsAreCounted`, `OneIsActive`,
`RepairsAreTended` and `DecidedIsFinal` follow.

`VerdictsAreDecisive` turns a statement about an empty queue into one about every state. Of a release
that is not decided, the verdict of each workflow that blocks it is still open, waiting or at hand, and
if all have passed then one that says so is (`Owed`): a handler that lets go of a verdict has
either decided the release, or found the tag elsewhere, or found another workflow that has not
passed and whose verdict is therefore still owed. A turn of the agent leaves its release decided, under repair or with the tag
moved on (`Left`), which is what settles the verdict that began the round. With nothing open and
every workflow finished, nothing can be owed, and the release is decided.

*AuthorityProofs.* Everything the orchestrator stores belongs to one *piece of work*, that of
the number it is stored under: an issue with the pull requests of its branch, or a person's pull request
with the branch the bot has there. `Of(n, b)` says that a branch is of `n`'s work, and that a person's head
branch goes with that very pull request. `IInv` says it of the rows of `issues` (`RowOK`), of the checkouts
(`TreeOK`), of queued events (`EventOK`), of what a handler has read (`PlanOK`) and of its token (`TokenOK`).
`Confined` then compares what the proxy lets through with a token that is of the run's work;
`OwnPushGranted` needs in addition that token and checkout differ by a rename at most, which the
proxy forgives, and that a review does not re-point a person's pull request while a run that may push
works under its number (`NotReviewed`): the review queues under that number too, one run at a time. The rest
of the invariant is why the lookups keep to the work: `find_issue_by_pr`,
`find_issue_by_branch` and the title's branch each return a row of the same work, or none.

*PublicationProofs.* `CallOK` says what a call carries from its gates to its push: as long as nobody
overtook it (`intact`), the phases it has run passed on the files as they are (`Verified`, with the phases
still to run taken out), after the inspection on the inspected commit and after the comparison on the one at
HEAD (`VerdictOK`); what it inspected and its lease were fetched. `Fetched` says that all the worktree and
the shared pool hold was fetched, `PrsThere` that a pull request has a branch on GitHub, and `OnePr` that
those open and those asked for are on the worktree's branch, or a rename was blind. `PublishedAlways` is
`CallOK` at the step `send`. `PeerLossAlways` is the lease: a push replaces what the tracking ref held,
which was fetched.

*ReviewPostsProofs.* `Covers` says of each submission which findings of its snapshot GitHub has: all but
those still to do, or the comment at hand says them, and at the end all. A summary says the findings it
lists (`Says`), which is why a comment that was sent, or that the ledger has as done, tells of them
(`LedgerOK`). `Knows` is what a call has learnt: a count that was true when it looked, and that a comment it
is about to send does not stand there. Two calls send the same comment at once only when that is on record
(`Alone`), since the second finds a ledger row that is no longer absent. `PostedOnce` is inductive with
these, and `ClearedAlways` is `Covers` at the step `clear`.

*AgentRunProofs.* `RowOK` pays for attempts with retries and restarts, which is what bounds them;
`AbortOK` says at which places an abort may have been heard, that it has killed the agent in its turn, and
that it reaches the row before the run is settled; `FinishOK` that past the loop of reminders the attempt is
complete and published if reminders are enabled (`Seen`), ended by itself, and was neither stalled nor overdue, or the row
is failed already. `DoneAlways` and `AbortAlways` are action properties of it. Most of the work in
`TypeCorrect` is the cache: that a capture and its collection leave a sequence of at most `MaxEntries`
with distinct keys.

`OneRunningRowPerKey`, `RunningRowIsOwned`, `Ownership`, `HeldRowsClaimed` and `RepairIsTended` are proved and
are in no run: what the proof gives for every instance, a run on one would repeat.

Only model-checked: every liveness property, because the prover reasons about neither fairness nor
`ENABLED` (`EveryPendingRuns`, `EveryDeliverySettles`, `CancelLands`, `UndisturbedScheduleResolves`,
`StrandedMoves`, `AbandonedReaped`, `DeletedIsSettled`, `ChangesAreIndexed`, `RunSettles`), and the two
counterexamples. Every other property of a run, invariant or action property, is a theorem.

## 6. Not modelled yet

1. The queue's worker thread as the abstraction of `AgentRun`: a refinement of what `EventQueue` says of
   `agent` and `lastError` by the steps of a run.
2. Calls that outlive their turn in `Publication` and `ReviewPosts`, as `ReleaseSentinel` has them.
3. `Workspaces`: mirror clones, worktree locks and slot ownership of files; a `populate_workspace` that reads
   an entry while a gc removes it.
4. `Admission`: the rolling submission limit (`admit_submission`) and the browse cache.
5. `create_issue` and its search for duplicates, reactions, labels; the cache of installation tokens.

Left out for good: parsing of configuration, personas and prompts, logging, the dashboard (read-only),
the vendored RPC client (seen as the process that `run_task` owns), and FTS search.

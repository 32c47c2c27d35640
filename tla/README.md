# Sage: a TLA+ verification of its concurrent core

Sage is a learning and coding agent: a FastAPI backend that runs agent graphs
(LangGraph) on behalf of sessions, records everything a run says in a durable
journal, lets several processes serve one session one after the other or at the
same time, and keeps a knowledge platform, thread goals, a mastery ledger, MCP
sessions and a public, budget-limited agent beside it.

This directory specifies the four parts on which the rest relies.  The session
runtime: **who may write a session's event journal, when a run ends, what survives a
crash, and what a subscriber gets to see.**  The goal of a session: **which turn is
evaluated, which follow-up runs by itself, on which goal, and how evidence gets from
the journal to the mastery ledger.**  The ingestion of sources: **which worker may
touch an item, when a job ends, what is ingested once, and how a source moves from
one version to the next.**  And the pool of sessions with MCP servers: **who owns a
session that is being made, used or closed, and how it comes to its end.**  It holds TLA+ modules, TLC configurations and TLAPS
proofs.  `PROJECT.json` lists the components, the runs, the mutants that show each
property can fail, the source lines each definition stands for, the hazards and
the theorems.

Paths below are relative to the repository; line numbers are those of the modelled
commit.

---

## 1. Inventory

| component | state it keeps | operations | interacts with | what makes it correct |
|---|---|---|---|---|
| **Session event journal** `core/coding/persistence/session_event_journal.py` | one SQLite file per session: `session_events` (append-only, numbered), `active_run_lease` (at most one row), `run_fence_state`, thread-goal tables | begin, resume, append, end, release, recover, look-ups, goal and receipt transactions; each is one `BEGIN IMMEDIATE` transaction | called from worker threads of every process that serves the session | one lease, newest token; ended runs stay ended; a fenced-out owner never writes again |
| **Run coordinator** `core/coding/run_coordinator.py` | in memory, per process: active run and token, the consuming task, `_publish_lock`, `_state_lock`, subscriber queues | `start_run`, `start_existing_run`, `_consume`, `_persist`, `cancel`, `suspend_for_restart`, `recover_interrupted_runs`, `subscribe`, `_broadcast` | drives the agent stream, calls the journal through threads, is awaited by HTTP routes | a live run keeps its lease; cancelling ends the run; recovery touches neither live runs nor runs that wait; subscribers miss nothing |
| **Coding run registry** `api/coding_runs.py` | coordinators by session, capability health | hydrate, shutdown | creates and stops coordinators | a session is hydrated before it is used; shutdown preserves resumable approvals |
| **Agent stream, approval loop** `core/harness/event_adapter.py`, `api/coding.py` | graph checkpoint, pending interrupts | emits events, asks for approvals (several at a time), resumes on answers | feeds the coordinator's task | what it may say is the environment of the coordinator |
| **Thread goals, mastery outbox** (same journal; `core/harness/thread_goal.py`, `api/coding.py`, `core/learning/mastery.py`) | goal revisions, evaluations, reservations, deposits, receipts as rows; the ledger in another database; detached goal tasks in memory | goal edits, policy, clearing; post-turn evaluation, follow-up reservation and start; reconciliation when a session is opened; outbox drain | journal, run coordinator, a model, mastery ledger | a turn is evaluated once, a follow-up starts once and within its limit, no evaluation undoes an edit, evidence is delivered once and acknowledged |
| **Knowledge jobs** `core/knowledge/jobs/` | jobs, items, idempotency keys, leases, sync plans; Redis stream and markers | claim, heartbeat, stage, complete, fail, retry, cancel, recover, reconcile, enqueue | one worker loop per process, Redis, knowledge store, users' requests | a job agrees with its items and its plan; every job ends; a revision is ingested once; the source moves one version at a time |
| Source proposals `core/knowledge/source_proposals/` | proposal rows | claim, apply, approve, fail, reject | knowledge jobs | no proposal is applied twice |
| Knowledge store, index, parsing, retrieval | files, FTS rows, vectors | sync, search | knowledge jobs | data transformation, ranking |
| Approval manager `core/coding/tool_executor/approval.py` | requests, events, scoped grants | request, resolve, time out | tools and HTTP routes (threads) | an answer is used once, before its timeout |
| **MCP session pool** `core/harness/mcp_session_pool.py` and manager | owner tasks, sessions in use by recency, sessions being made; catalog cache | get, close a session / a scope / a revision / the pool; discover, invalidate | runs, archiving, configuration changes, external server processes | no session without an owner, none beyond the capacity or after closing; calls return |
| Memory store | documents with revisions | optimistic writes | several processes | no lost update |
| Task DAG (`sage_harness`) | node states | schedule, propagate failure | subagents | no node waits for ever |
| Public agent | daily token budget, rate limits, package registry | reserve, commit, release; stage, promote | anonymous requests | the budget is not exceeded; a crash leaves the registry usable |
| Runtime, engine, tools | per run | model calls, tools | the stream | sequential inside one run |
| Cloud workspaces, auth, providers; publication, ledger; database models; frontend, evals, scripts | | | | request handlers, tables, user interface, deployment |

What is hard here: several processes share one SQLite file without sharing a lock;
a write runs in a thread that outlives the task that asked for it (asyncio cancels
the waiting, not the thread); a shielded write keeps the publish lock while its
task is already unwinding; a process may die between any two transactions and its
pid may be reused; approvals outlive processes; a subscriber's queue drops events;
and rows are written by code that never broadcasts.  In the knowledge jobs two
stores that know nothing of each other, the database and the Redis stream, are kept
in step by a worker that may die, fail or lose its acknowledgement at any step, while
users cancel and retry what it holds; and jobs that never meet share idempotency
keys and the version of a source.  `hazards` in `PROJECT.json`
places each of these at a line, with the property that covers it or the planned
module that will.

---

## 2. Modules

```
SingleWriterLog            what the journal promises            (abstract)
      ^  refined by
RunJournal                 the journal's transactions           MCRunJournal
      ^  extended by
RunCoordinator             processes, coordinators, crashes     MCRunCoordinator
RunJournalProofs           theorems about RunJournal            (TLAPS)
RunCoordinatorProofs       theorems about RunCoordinator        (TLAPS)
RunApprovalProofs          theorems about waiting and answers   (TLAPS)

EventFeed                  what a subscriber is promised        (abstract)
      ^  refined by
EventSubscription          subscribe, _persist, _broadcast      MCEventSubscription
EventSubscriptionProofs    theorems about EventSubscription     (TLAPS)

KnowledgeJobs              the job repository's transactions
      ^  extended by
KnowledgeWorker            service, queue, worker, crashes      MCKnowledgeWorker
KnowledgeJobsProofs        theorems about KnowledgeJobs         (TLAPS)
KnowledgeWorkerProofs      theorems about KnowledgeWorker       (TLAPS)

Outbox                     what an outbox promises              (abstract)
      ^  refined by
ThreadGoal                 goals, evaluations, follow-ups       MCThreadGoal
ThreadGoalProofs           theorems about ThreadGoal            (TLAPS)

McpSessionPool             sessions with MCP servers
McpSessionPoolProofs       theorems about McpSessionPool        (TLAPS)
```

### SingleWriterLog
An append-only log shared by the runs of a session: at most one run is being
written; each time a run gains the right to write a new epoch starts and what is
written in its name carries that epoch; an ended run never gains the log again.
No database, lease table or process appears in it.

### RunJournal
The state is the three tables: `log` (`session_events`), `leases`
(`active_run_lease`), `nextToken` (`run_fence_state`).  Every operation of the code
opens `BEGIN IMMEDIATE`, so it is one atomic step; an operation that raises rolls
back, so it is simply not enabled.  Rows keep the run, the kind as far as a guard
reads it (started / work / approval / result / terminal / receipt) and what they
are about (an approval, an ending status).  The `token` of a row is a *history
variable*: the table has no such column and no guard reads it; it lets the
properties say which credentials a row was written with.

| code | here |
|---|---|
| `begin_run`, `resume_run` | `BeginRun`, `ResumeRun`, both through `TakeLease` (`_allocate_fencing_token` + INSERT) |
| `append` with / without credentials | `AppendOwned`, `AppendUnowned` |
| `append_terminal_once` | `TerminalOnceUnowned` |
| `append_terminal_and_release` | `FinishOwned`, `FinishUnowned` |
| `release_run_lease`, `recover_run_lease` | `ReleaseRunLease`, `RecoverRunLease` |
| `append_mastery_deposit_receipt` | `AppendReceipt` |
| `_assert_run_lease` | `HoldsLease` (with credentials), `MayWriteUnowned` (without) |
| `recoverable_approval`, `_has_unresolved_approval`, `unfinished_run_ids` | `RecoverableApprovals`, `HasUnresolvedApproval`, `UnfinishedRunIds` |

The two notions of "unresolved approval" are deliberately kept apart, because the
code computes them differently: `recoverable_approval` scans forward from each
request, `_has_unresolved_approval` keeps one pending slot.

`JournalSpec` is the journal **against arbitrary callers**: an owned call may
present any owner and any token ever given out, at any time.  Calls without
credentials are restricted to those the code makes: rows of a run nobody has begun
(a rejected input, thread-goal rows), the receipt of an ended run, the interruption
of an unowned run, and recovery.  The partial unique index on terminal rows is not
needed by any of this and is not modelled: the properties hold without it.

### RunCoordinator
Extends the journal with process slots.  `Owner = Proc \X 1..MaxStart`: a lease names
a pid and a start time, and `_process_identity` compares both, so a reused pid is a
different owner.  One coordinator per process and session, hydrated once per
application instance.  State per process: `active` and `token`
(`_active_run_id`, `_active_fencing_token`), `task` (where `start_run` or the
consuming task is), `wanted` (the run about to be taken), `threads` (transactions
handed to `asyncio.to_thread` and not yet executed), `caller` (the `cancel` or
`suspend_for_restart` in progress), `hydration` (where `recover_interrupted_runs` is).

How the hard parts of the code are rendered:

* `_persist` takes `_publish_lock`, hands the transaction to a thread and waits for
  it *shielded*.  `StreamEvent`/`StreamTerminal` put the write in `threads`,
  `PersistEvent`/`PersistEnding`/`LeaseLost` are the thread's transaction.  If the
  task is cancelled meanwhile (`Deliver`, `Abandon`), the write stays, with the lock or
  in the queue for it, and nobody waits for it.  The queue is not empty when a run is
  resumed while a write abandoned by the task before is still in its thread, since
  `resume_run` does not take the lock.  The implied endings (`StreamEnds`) are not
  shielded: their lock is given up, and the write is dropped (it was queued, or the
  thread had not started) or goes on.
* The cancelled task's cleanup (`Cleanups`) is a release for a suspension, an ending
  for a cancellation, the latter possibly after audit events.  The ending waits for
  `_publish_lock`; the release does not take it.
* `cancel` looks whether the run is still leased, and then ends it itself
  (`AfterTask`, `CallerEnds`): two steps.  `start_run` looks for resumable approvals,
  then begins: two steps.  `recover_interrupted_runs` recovers the lease, lists
  unfinished runs, looks for a resumable approval of each, and interrupts it: a step
  per transaction.
* A shutdown's suspension reaches the task only after its first step, because
  `suspend_for_restart` follows an awaited lookup; a cancellation may come before it,
  in which case the task's body never runs (`Deliver` in state "created").
* An owner whose process identity cannot be determined makes recovery raise: no step.

The stream is environment, modelled from `event_adapter._values` and the approval
loop of `api/coding.py`: it asks for approvals, several in parallel; once one is
answered the graph runs again and asks again for those still pending; checkpoint
events may follow a request; it never ends normally while an approval is pending,
but may fail at any time.

### EventSubscription, EventFeed
`EventFeed` promises each subscriber every row from where it starts, in order, once,
and without end.  `EventSubscription` is the code: `Persist` takes the lock and
commits, `Broadcast` or `BroadcastLost` (the task was cancelled between the commit
and the broadcast) follows; `WriteElsewhere` is any row committed by another process,
by an abandoned thread, or by a route that bypasses the coordinator; a terminal that
already exists is returned with its old number.  A subscriber registers in two steps
(high-water mark, queue), replays pages, receives from a queue that drops its oldest
event when full, notices gaps, polls when idle.  Rows are their numbers: the journal
numbers them without gaps and deletes none.

### KnowledgeJobs
The database of `core/knowledge/jobs/repository.py`: `item` (items with what the
external parse table says of them), `job`, `key` (idempotency), `plan` (sync plans)
and `version` (the source's watermark).  Every transaction locks the job's row first,
so it is one atomic step; one that raises is not enabled.

| code | here |
|---|---|
| `create_sync_plan`, `create_job` | `CreateSyncPlan`, `CreateJob` |
| `claim_item`, `heartbeat`, `start_*` | `ClaimItem`, `Heartbeat`, `StartStage` |
| `claim_idempotency` | `KeyOutcome` (the answer), `ClaimIdempotency` (the effect) |
| `defer_external_parse`, `mark_external_parse_terminal` | `DeferExternalParse`, `MarkExternalParseTerminal` |
| `complete_item` with and without `skipped`, `fail_item`, `cancel_claimed_item` | `SkipItem`, `CompleteItem`, `FailItem`, `CancelClaimedItem` |
| `cancel_job`, `retry_item` | `CancelJob`, `RetryItem` |
| `recover_expired_leases` | `RecoverExpiredLeases` |
| `_refresh_job` and `_finalize_sync_plan`, the tail of all these | `StatusAfter`, `Refresh` |
| time going by | `TimePasses`, `TicketExpires` |

What the model abstracts.  There is one source.  A plan's id is the hash of its
content and a plan has one job at most, so a plan, its job and their items are named
in advance and *appear* when they are created.  Watermark, adapter checkpoint and
adapter version, always compared together, are one version number; a plan without
changes may leave it or move it, because only its checkpoint may have moved.  A point
in time is a Boolean, *has it passed*.  `JobsSpec` lets any worker call anything on
any item at any time; what the service adds is which calls it makes, and when.

### KnowledgeWorker
The service (`service.py`) and its queue (`queue.py`) on top of the repository: one
process, one worker loop in it, a new `worker_id` per incarnation, a Redis stream that
outlives them.  `at` and `cur` say where the loop is and with which item; `stream`,
`unacked` and `recovered` count the messages nobody has read, those read and left
behind, and those reclaimed by this worker (`XAUTOCLAIM`); `marker` is the
deduplication key that `publish` sets and `acknowledge` removes, `publishing` the
items somebody has found ready and is about to publish.

The path of a message through `_process_message` is a step per call: claim, look for
a cancellation, take the key, fetch, parse (which may hand the item to a remote parser
and let go of it), understand, apply, finish.  Users' requests come between any two
of them.  Any call may raise (`Raise`), for a while or for good (`_is_retryable`: the
places `fail` and `reject`), `fail_item` then decides; when that fails too, the
message is acknowledged and the lease stays (`GiveUp`); when the claim or the
acknowledgement fails, the message stays (`LeaveMessage`).  A crash leaves all
messages in hand unacknowledged.  Reconciliation reclaims messages, recovers expired
leases and publishes what is ready, as does the start of a process.

The lease of the item in hand does not run out: heartbeats keep it, and only the
worker itself looks for expired leases, between two items.  One worker per process and
one process are what `api/main.py` starts and what `service.py:106` relies on ("P2.2-A
deliberately runs one worker").

### ThreadGoal, Outbox
The rows of one session's journal that goals are about, seen by several processes.
`log` holds them in sequence order; each journal transaction is one step.  A goal is a
record of what decides a follow-up: its revision, whether it is bound to a learning
goal, its status, its policy and the two loop counters; `edit`, the revision of the
user's last change, is a *history variable* that lets a property say "between two
changes".  `lease` is the journal's lease, abridged: here a process that lives keeps
it, because what can happen to it otherwise is RunCoordinator's matter.

| code | here |
|---|---|
| `upsert`, `configure_continuation`, `evaluate`, `clear` with `append_thread_goal`, `clear_thread_goal` | `Upsert`, `Configure`, `CheckByHand`, `Clear` through `Change` |
| `receiver` of the websocket: read the goal, begin the run, or record a rejected input | `ReceiveMessage`, `BeginMessage`, `RejectMessage` and `CloseRejected` |
| the run: its first event, its ending, the done callback | `TypeMessage`, `EndRun` (which spawns a goal task) |
| `resume_coding_session` | `Open` (hydration, and a reconciliation task) |
| `_post_turn_goal_followup`, `evaluate_post_turn`, `append_thread_goal_post_turn` | `Judge`, then `Evaluate`, `EvaluatedAlready` or `EvaluationRefused`; `Willing` and `Judged` are the decision and the new goal |
| `_drain_mastery_outbox`, `record_many`, `append_mastery_deposit_receipt` | `ReadDeposits`, `RecordEvidence` or `LedgerFails`, `Acknowledge` |
| `_reconcile_goal_followup`, `_start_pending_goal_followup` | `Look`, `ReadPending`, `BeginFollowup` or `FollowupRefused` |
| `pending_thread_goal_followup`, `_assert_pending_thread_goal_followup` | `Pending`, `MayFollow`: what is looked up is not quite what is checked later |

A goal task reads, waits for a model, writes and goes on, and any number of other
steps come between; `Slot` bounds the tasks under way.  The first reads of
`_post_turn_goal_followup` and the `_current_at` at the head of `evaluate_post_turn` are
one step, `Judge`, because the second reading must find the revision of the first.  A
rejected input writes its message and its ending in separate transactions (two steps;
the row between them, which no guard reads, is left out).  What the model says is any
of what the code tells apart.  Evaluations, reservations and receipts have
deterministic event ids; here they are named by run and revision.

`Outbox` says what the journal's deposits, the ledger and the receipts amount to:
delivered at most once, never without having been offered, acknowledged only when
delivered.

### McpSessionPool
One process, one event loop, the pool's calls and the owner tasks as its tasks: a step
is what one of them does between two awaits.  `owner` is the owner tasks with their
`ready` future and what they were told (`close_event`, or `cancel`); `entries` is the
`OrderedDict` as a sequence (`Popped` is what is left of it when some owners are popped,
in the same order), `inflight` the sessions being made, `call` what each call
of the pool waits for.  The server is outside: it may never answer, refuse, or die.

| code | here |
|---|---|
| `get_session` up to its first await | `GetSession`: `Take`, `Join` or `Make` |
| after `owner.ready` | `Register`, `Reject` (closed meanwhile), `MakingFails`, `Joined` |
| its `except BaseException` | `GiveUp`, `MakingFails` |
| `_shutdown_owner`, `_close_owners`, `_wait_owner` | `Stopping` and `Shutting`, `Advance`, `ShutDown` |
| `close_session`, `close_scope`, `invalidate_revision`, `aclose` | `CloseSession`, `CloseScope`, `InvalidateRevision`, `Close`, through `CloseOwners` |
| `_run_session` | `Starts`, `Initialized`, `OpenFails`, `Dies`, `Closes`, `Left`; `NeverStarts` for a task cancelled before it ran |
| a timeout around a call, or the cancellation of its run | `Interrupt` |

Two things asyncio does are essential here and are in the model: a task that is
cancelled before its first step never runs its body, so its `ready` future is never
set; and `_wait_owner` suppresses the cancellation of whoever waits in it, so a timeout
that falls there ends the wait and not the call.

---

## 3. Runs

| run | instance | size | shows |
|---|---|---|---|
| `journal` | 2 runs, 2 owners, 1 approval, 4 rows, tokens to 4 | 81 723 states | one current lease, runs end for good, tokens never go back, refinement of `SingleWriterLog`, all against stale callers |
| `coordinator` | 2 process slots with 2 incarnations, 2 runs, 1 approval, 3 rows, tokens to 3 | 1 036 877 states | a live run keeps its lease; `cancel` ends the run; recovery spares live runs and runs that wait for an approval; an approval is answered once; every journal call is a step of `JournalSpec` |
| `coordinator_liveness` | the same with 1 run and 2 rows, under `FairSpec`, without symmetry | 124 416 states | a dead owner's lease is recovered, a cancellation takes effect, an abandoned run is closed |
| `subscription` | 1 subscriber, queue 2, page 2, 5 rows | 30 397 states | refinement of `EventFeed` (safety and liveness); a gap can always be repaired |
| `knowledge_worker` | 2 jobs with an item each, one key for both, 2 incarnations of the worker, 1 trouble, 2 attempts | 1 087 353 states | jobs agree with items and plans, a revision is ingested once, the worker keeps its item, markers stand for messages, the source moves one version at a time |
| `knowledge_liveness` | 1 job with an item, 3 incarnations, 3 troubles, under `FairSpec`, without symmetry | 222 169 states | every job that is not parked ends; the service makes only calls `JobsSpec` has |
| `thread_goal` | 2 processes, 2 goal tasks at once, a bound goal with automatic follow-ups (limit 1), 1 more edit, 1 message, 1 crash, 5 judgements | 316 902 states | a turn is evaluated once and its follow-up starts once, on the goal its evaluation wrote; the limit holds between two edits; no evaluation undoes an edit; the run under way works on the current goal; refinement of `Outbox` |
| `thread_goal_liveness` | the same with 1 process and no further edit, under `FairSpec`, without symmetry | 15 455 states | the last turn is evaluated, reservations settle, evidence is delivered and acknowledged, crashes notwithstanding |
| `mcp_pool` | 1 chat, 2 servers, 2 calls at once, capacity 1, 2 sessions made, under `FairSpec` | 37 150 states | no session is left to itself; the capacity holds; a session in use is not on its way out, and nothing enters a closed pool; calls return; removed sessions end |

**Bounds and why they are enough.** The journal's guards depend on the existence of rows
of a run, on the current lease and on equality of tokens; two runs and two owners give
every race between a fenced-out and a current owner, and four tokens allow a lease to be
taken, lost, retaken and lost again, and taken a third time.  In the coordinator two
processes with two incarnations give concurrent owners, a crash, pid reuse and recovery
by the other process or by the restarted one; tokens to 3 let a lease be taken, lost,
retaken and lost again, so that writes of the first taker meet the second.  The row
bound only stops the *stream* from asking or saying more; answers and endings are always
possible, so with two rows each run can still start, ask, be answered and end.
Subscribers do not interact except through the lock, so one is enough; a queue of 2,
pages of 2 and 5 rows give dropped events, several pages and gaps longer than a page.  A
crash is bounded by `MaxStart` (the last incarnation is not killed), tokens by
`MaxToken`, rows by `MaxRows`/`MaxRow`.  `CHECK_DEADLOCK FALSE` is set wherever these
bounds, or simply everything having ended, let the system stop.

In the knowledge jobs the guards read an item, its job, its key and its plan; jobs
meet only in a key and in the version, so two jobs with an item each and one key are
the smallest instance with every such meeting, and the theorems below do not depend
on it.  `MaxTroubles` bounds crashes, failures that cannot be recorded, lost
acknowledgements, expired markers and manual retries together: one of them with two
jobs, three with one job (a crash after an unrecorded failure after a lost
acknowledgement, say).  Other failures, cancellations and the remote parser are not
bounded.  The last incarnation is not killed.  A marker may expire at any time, however many
messages its item has (the code gives it an hour, `queue.py:43`, whatever the queue
holds); since expiries count among the troubles, an item has at most `MaxTroubles + 1`
messages in the model, where the code has no bound.  With two attempts an item is
retried by itself and then given up.

For goals the guards compare one revision, one lease and the order of rows; two tasks
of two processes racing with one edit, one message and one crash meet every pair of
them between any two steps of a task.  `Histories` starts a behaviour from the journal
of a user who has set a goal and a policy, so that the bound on edits is spent on the
races.  With a limit of one follow-up the streak that stops a loop without progress
(two turns) is reached only by an edit in between; the limit itself is reached in every
behaviour.  `Judgements` picks five of the twelve answers a model may
give: each verdict, with and without progress and evidence.  `Revs` only says which
deposits `Outbox` may be about.  `ThreadGoalProofs` does without any of these bounds.  In the pool two
servers contend for a capacity of one, so every registration after the first evicts; a
second chat would only add keys.  `MaxOwners` bounds the sessions made: the second may
be made for the same key while the first is being closed, evicted or given up.

Symmetry over runs, processes, approvals, files and task slots is used in safety runs
only.

**Fairness** (`RunCoordinator.Fairness`): worker threads run, the event loop serves
ready tasks and callers, recovery proceeds, and a process slot is eventually booted
again.  These are what asyncio, the thread pool and the supervisor provide.
Nothing is asked of users, of the agent stream or of crashes: the stream may stay
silent for ever.  In `EventSubscription` only the generators are fair; no broadcast
need ever happen, polling alone must suffice.  In `KnowledgeWorker` the process is
started again, the loop goes on, what is to be published is published, time passes,
and a loop that comes to its top again and again reconciles again and again (`_run`
does so whenever `poll_seconds` have gone by; hence strong fairness).  Nothing is asked
of users or of failures: an item whose attempts all fail becomes a dead letter, which
ends its job too.  In `ThreadGoal` the event loop runs the goal tasks, a run comes to an
end, and users come back: a session that is not being shown is opened again.  That is
the only remedy the code has for a task lost in a crash, and the liveness properties
say that it suffices.  The ledger may fail any number of times but not for ever
(strong fairness of `RecordEvidence`).  In `McpSessionPool` the event loop runs what is
ready, a context that is exited is exited in the end, and calls have timeouts
(`asyncio.wait_for` around discovery and tool calls); servers owe nothing.

### Disagreements between the code and what it says

Each of these runs checks one property and TLC finds it violated; `findings` in
`PROJECT.json` quotes the statement.

| run | property | what happens |
|---|---|---|
| `parallel_approvals` | `ApprovalsSurvive` | with two approvals asked for in parallel, answering the later one clears the single slot of `_has_unresolved_approval`; after a crash recovery interrupts the run although the other approval is pending |
| `stuck_cancellation` | `CancelsEnd` | `defer_external_parse` does not look at `cancel_requested`: the item of a cancelled job starts to wait after the waiting items were cancelled; nobody may claim it and nobody recovers it, and the job stays in `cancelling` |
| `followup_after_message` | `FollowupYieldsToUser` | a run of the user's that begins and fails before its first event leaves no `user` row, by which alone the code knows that the user has sent a message: the follow-up reserved before it still runs |

`ApprovalsSurvive` also appears in the `coordinator` run, where it holds: **for one
approval** recovery keeps its promise, and `OneApprovalSurvives` proves so; with two it
does not.  `WaitingRunsSurvive` draws the line exactly: a run is safe as long as all its
requests are for the same approval, whatever other runs ask for.  Likewise
`JobsEnd` is stated for jobs that are not parked in the state `stuck_cancellation`
shows, and is checked with that exception.

Four more were seen while modelling, and are in the modules as the code has them,
without a run of their own:

* `recover_interrupted_runs` looks for an approval and interrupts in a later
  transaction; with two approvals a run that is resumed, asks again and is released in
  between is interrupted: `ApprovalsSurvive` fails this way too, in an instance larger
  than `parallel_approvals`.
* A request that is repeated after another answer leaves its first row "unresolved" for
  good: `recoverable_approval` then offers an approval that has been answered.
* A suspension that reaches the task while it writes its error ending, which is not
  shielded, returns True with the lease still held.
* Cancelling an item that has taken its idempotency key leaves the key in `processing`;
  another job's item with that key is busy, hence a dead letter, at every retry.

---

## 4. Proofs

`RunJournalProofs` proves, for any sets of runs, owners and approvals, from
`JournalAssumption` alone (`NoRun` is not a run, `Nothing` is not an approval):

| theorem | statement |
|---|---|
| `JournalTypeCorrect` | `JournalSpec => []JournalTypeOK` |
| `LeaseAlwaysCurrent` | `JournalSpec => []LeaseIsCurrent` |
| `RunsEndForGood` | `JournalSpec => []EndedForGood` |
| `FencingTokensOrdered` | `JournalSpec => []TokensInOrder` |
| `JournalImplementsLog` | `JournalSpec => ImplementsSingleWriterLog` |

The argument.  None of the invariants is inductive alone.  `EndedForGood` is
broken by a write to a run that has ended, which `_assert_run_lease` admits whenever
the presented lease is in the table; so one needs `LeaseIsCurrent`, that a leased
run has not ended.  That in turn needs the table to hold at most one lease.
`TokensInOrder` needs that no row carries a token newer than the lease's and that a
row with the lease's own token belongs to the leased run.  `JournalInv`, the
conjunction of these with the types and with `ReceiptsOfEnded` (a receipt is only
written of an ended run), is inductive (`JournalInvariant`): its step has one case
per transaction and, under it, one step per conjunct it can disturb; rows appended
at the end of the log are handled by a few lemmas about `Append`.  The refinement is
then one case per transaction: it maps to `Gain`, `Write`, `Yield`, `End`, `Remark`
or a stutter.

`RunCoordinatorProofs` proves, for any process slots, runs and approvals and any values
of the bounds, from `JournalAssumption` and `CoordinatorAssumption` (owners are pairs of
a slot and a start time; the bounds are numbers):

| theorem | statement |
|---|---|
| `CoordinatorTypeCorrect` | `Spec => []TypeOK` |
| `LiveRunsKeepTheirLease` | `Spec => []StreamKeepsLease` |
| `CancelEndsTheRun` | `Spec => []CancelledRunEnded` |
| `RecoverySparesTheLiving` | `Spec => LiveRunsNotInterrupted` |
| `CoordinatorImplementsJournal` | `Spec => ImplementsJournal` |
| `CoordinatorsNeverWriteStale` | `Spec => [](LeaseIsCurrent /\ EndedForGood /\ TokensInOrder)` |

The invariant is local to a process, but for one part.  `LocalInv(p)` says what the
program points of p say about p's own variables: of the transactions handed to threads
at most one is waited for, in the active run's name and with its token; those that
nobody waits for carry tokens the coordinator does not use any more; a caller that has
its task back holds a token that whatever came after does not have.  This last is what
keeps a late ending written by `cancel` from ending the *next* run.  `LeaseKnown(p)` is the part
about the journal: at each program point the run is leased to this incarnation with this
token, or has ended.  It is disturbed by others only through the journal, and there
only by recovery, which takes leases of owners that do not live, and by calls with other
tokens; so the proof first shows that a step of p leaves the other processes' variables
alone (`OthersUntouched`) and asks of the journal one of the calls in `JournalCall(p)`.
That every such call is a step of `JournalSpec` is then the refinement, and carries the
five journal theorems over to the processes for every value of the constants.
`OneProcessStreams` is a corollary without a run: since a lease has one holder, two
processes never consume runs of the session at once.

`RunApprovalProofs` goes on from there, with the same assumptions and no others:

| theorem | statement |
|---|---|
| `WaitingRunsSurvive` | `Spec => SingleApprovalsSurvive`, for any number of approvals |
| `OneApprovalSurvives` | `(\A a, b \in Approval : a = b) => (Spec => ApprovalsSurvive)` |
| `ReleasedRunsResumable` | `Spec => ReleasedResumable` |
| `AnswersLoggedOnce` | `Spec => []AnsweredOnce`, for any number of approvals |

The first two are about what a hydration found in one transaction and relies on in a later
one.  `ApprovalInv` (lemma `ApprovalInvariant`) adds to `CoordInv` what remains true of a
run between the two, which is less than what was looked for.  The run that `start_run` is
about to begin has no row, and no other process has chosen it (`StartsNew`).  The one that
`start_existing_run` is about to resume has asked for an approval, which may have been
answered elsewhere since (`ResumesAsked`).  A run that a hydration has listed has ended, or
has asked for an approval, or is not leased, and one it is about to interrupt has ended,
has an answered approval, or has neither asked nor is leased (`HydratesParked`: `Parked`,
`Settled`).  Not kept is what `start_run` looks for first, that no other run waits for a
resumable approval (`run_coordinator.py:101`): another process may suspend a run between
this look and `begin_run`.  Nor is it kept that the approval found by
`start_existing_run` is still to be answered.
`HydratesParked` is what excludes that a run listed as unfinished is taken by another process,
which asks for an approval, dies, and leaves the run waiting when the old hydration gets to
it: to take the run somebody must find an approval to resume it with, so it had asked
before, and if all its requests are for one approval, the one it waits for is the one the
hydration saw answered.  `recover_run_lease` itself decides in one transaction; there one
needs that the last request of the run (`LastRequest`, a greatest element, hence the
well-foundedness of the numbers) is the one it waits for (`WaitingIsSeen`).  With two
approvals both arguments break, and both failures are among the disagreements above.

`ReleasedRunsResumable` compares the two ways of looking for an approval: whenever the
single slot of `_has_unresolved_approval` holds one, the forward scan of
`recoverable_approval` finds it, so that a run is not kept from its ending without
anything to resume it with.  The converse is what fails with two approvals.

`AnswersLoggedOnce` needs no bound on the approvals.  The log alone does not exclude a
second answer, for nothing in the journal compares a result with those it has.  What does
is that of all the transactions that wait in worker threads, those of cancelled tasks
included, at most one would be let through with an answer, and its approval has none yet
(`AnswerInv`).  A stream that hands out an answer has no older one that still counts, since
what nobody waits for carries a token that is no longer the lease's (`StreamAnswers`); a
cancelled task leaves behind the answer it was waiting for and no copy of it
(`DeliveredAnswers`); no transaction regains a lease it had lost (`LeaseHeldBefore`).  The
lemmas are about single steps: what a step may append to the log (`RowWritten`,
`RequestWritten`, `AnswerWritten`) and hand to threads (`AnswersFrom`).

`EventSubscriptionProofs` proves, for any subscribers, queue and page sizes and number of
rows, from `SubscriptionAssumption` (both sizes are positive):

| theorem | statement |
|---|---|
| `SubscriptionTypeCorrect` | `Spec => []TypeOK` |
| `EveryGapIsRepairable` | `Spec => []GapsRepairable` |
| `SubscriptionFollowsFeed` | `Spec => Feed!FeedInit /\ [][Feed!FeedNext]_(Feed!feedVars)`, the safety part of `ImplementsFeed` |

The invariant says that whatever is announced (queued, about to be broadcast, or a
target) has been committed, and that a page holds the rows just after the cursor.  A gap
then has its target in the journal and beyond the cursor, so that the page read for it
is not empty (`PageRead`).

`KnowledgeJobsProofs` proves, for any jobs, items, keys and workers, any number of
attempts and arbitrary callers, from `JobsAssumption`:

| theorem | statement |
|---|---|
| `JobsTypeCorrect` | `JobsSpec => []JobsTypeOK` |
| `JobsAlwaysSettled` | `JobsSpec => []JobsSettled` |
| `SourceMovesSerially` | `JobsSpec => SyncsSerial` |

`JobsSettled` is broken by a transaction that moves an item of a job whose plan is
already over, for `_finalize_sync_plan` then leaves the plan alone while the job's
status changes.  `JobsInv` therefore adds that the items of a plan that is over are
final (`PlanOver`), so that no worker holds one, and that a completed or conflicting
plan has no dead letter, so that none can be retried; a cancelled plan's job is being
cancelled, which refuses retries.  `SyncsSerial` adds that only jobs being cancelled
have cancelled items (`CancelledForCause`).  The argument then has two halves:
`RefreshKeeps`, that `_refresh_job` and `_finalize_sync_plan` keep the invariant
whenever they find the plan open, and a lemma per group of operations that they do.
It is here that one sees why a job which completed with errors can be retried, and one
that ended in a conflict cannot: its items are all ingested, nothing is left to retry.

`KnowledgeWorkerProofs` proves, for any jobs, items, keys and attempts and any number of
incarnations and troubles, from `JobsAssumption` and `WorkerAssumption` (incarnations
are numbered from 1 without gaps):

| theorem | statement |
|---|---|
| `WorkerTypeCorrect` | `Spec => []TypeOK` |
| `ItemsStayWithTheirWorker` | `Spec => []WorkerKeepsItem` |
| `RevisionsIngestedOnce` | `Spec => []IngestedOnce` |
| `MarkersStandForMessages` | `Spec => []MarkedIsQueued` |
| `WorkerImplementsJobs` | `Spec => ImplementsJobs` |
| `ServiceSettlesJobs` | `Spec => []JobsSettled /\ SyncsSerial` |

`IngestedOnce` follows from a stronger fact about the keys (`KeysWon`): a completed item
has completed its key and owns it, and an item at a place behind the key owns a key
that is not completed.  Requests cannot break it, for they touch neither keys nor items in
hand (`RequestFacts`); neither can `fail_item`, which settles only a key of its own
(`SettleFacts`).  The markers need a count: a marked item has at
least one message and at most one more than the troubles so far, an unmarked one at most
as many as the troubles (`Marked`): nothing but the expiry of a marker lets a message be
published beside another.  Expired
leases are recovered when the worker has nothing in hand, hence `WorkerKeepsItem`; with a
second worker in the process it would fail here.  Each step of the service is a call
that `JobsSpec` has (`EveryStepIsACall`): the one thing to show is that a worker about to
cancel an item still finds the job being cancelled (`ItemHeld`).

`ThreadGoalProofs` proves, for any processes, tasks, limits, answers of the model,
messages, edits and crashes, from `GoalAssumption`, `NoGoalAssumption` (the absence of a
goal is not one) and `HistoryAssumption` (a behaviour starts from changes of the goal,
each of which wrote the next revision; TLC evaluates it for the histories of the runs):

| theorem | statement |
|---|---|
| `GoalTypes` | `Spec => []TypeOK` |
| `TurnsAreJudgedOnce` | `Spec => []TurnsOnce` |
| `NoEditIsLost` | `Spec => []NoLostEdit` |
| `RunsWorkOnTheGoal` | `Spec => []RunsOnCurrentGoal` |
| `FollowupsAreBounded` | `Spec => []FollowupsBounded` |
| `GoalImplementsOutbox` | `Revs = Nat => (Spec => ImplementsOutbox)` |

Everything hangs on the revision.  What a message's receiver or a task has read of the
goal may be old when it writes; the invariant (`InboxOK`, `TaskOK`) says that then the
revision has moved on, and that as long as it has not, what was read is the goal.  So the
comparison of revisions in the writing transaction is enough.  The rows carry the rest
(`LogInv`).  Revisions of goal rows ascend one by one; an evaluation's is the one after
the revision its run froze, and a run freezes once, so that two evaluations of a run
would be the same row.  A follow-up goes by the revision of the evaluation that reserved
it.  The limit needs one thing more: an evaluation that reserves has counted one
follow-up more than every goal row since the same change of the user's (`MadeBy`).  The
follow-ups of one change therefore have different counts between 1 and the limit, and
there are no more of them than that; nothing about the order of their runs is needed.
`StartedOK` (a run that was started has ended or is leased) is why a reservation found
pending twice starts one run.  The proof has a lemma per action, and two for what one
more row does to the rows (`AppendOtherInv`, `AppendGoalRowInv`).

`McpSessionPoolProofs` proves, for any chats, servers and calls, any capacity and number
of sessions made, from `PoolAssumption` (there is a chat and a server; the capacity and
the number of owners are positive):

| theorem | statement |
|---|---|
| `PoolTyped` | `Spec => []TypeOK` |
| `PoolKeepsCoherent` | `Spec => []PoolCoherent` |
| `NoSessionLeftAlone` | `Spec => []SessionsOwned` |
| `KeysHaveOneSession` | `Spec => []OneSessionPerKey` |
| `UsableSessionsLeftOpen` | `Spec => []UsableKept` |

The invariant `PoolInv` adds to these what a call may rely on while it waits.  The session
a call makes is awaited by that call alone and not yet in use (`OneMaker`), so that
registering it puts it into the pool once.  A session in use, or in `_inflight` with its
maker still waiting, has not been told to stop and is on no call's list (`UsableKept`):
this is why the check of `_inflight` after the await (`StillCurrent`) suffices, for every
close takes the owners it will stop out of both dictionaries first.  A call that shuts
down a list has told its first owner (`CallsShaped`), a failed future is that of an owner
at its end (`FailedAtEnd`), and nothing refers to an owner that is not made yet
(`OnlyMade`).  The pool's operations change who is responsible for a session; a lemma
states once what such a change must satisfy (`ReleasesKeeps`), and each operation but the
making and the registering of a session, which have proofs of their own, is shown to be an
instance of it.  What owner tasks and the server do is another (`OwnerMovesKeeps`).

What popping leaves in the pool is a recursive function, `Kept`.  That it returns the
right elements, none twice, and fewer than there were is proved by induction
(`KeptFacts`).  The library's induction theorems cannot be used here, but a set of numbers
that is not empty has a least element (`LeastElement`, from `WFMin` and
`NatLessThanWellFounded`), and induction over sets of numbers follows (`Induction`); that
the recursion has a solution at all is proved the same way (`RecursionSolved`).

**Only model-checked:** all liveness, since fairness and ENABLED are out of the prover's
reach: `OrphansRecovered`, `CancelTakesEffect`, `NoRunLeftBehind`, `JobsEnd`,
`TurnsJudged`, `ReservationsSettle`, `DepositsAcknowledged`, `CallsReturn`,
`RemovedSessionsEnd` and the liveness part of `ImplementsFeed`.  `ApprovalsSurvive` is
proved for one approval, for which alone it holds.  Every other property of a passing run
is the statement of a theorem.  `JobsSpec` restricts its callers in one thing: an
item is cancelled by its worker only after the worker has seen that the job is being
cancelled; `WorkerImplementsJobs` is that the service keeps to it.

---

## 5. Not modelled, and why

* In the journal: file permissions and hardening, schema migration, payload
  validation and redaction, `turn_context_plans`, and `acquire_run_lease`, which has no
  caller.
* Around thread goals: what the evaluating model is shown and how its answer is parsed,
  `prepare_continue` (it only reads), goal changes while an approval is parked, the
  ledger's invalidations and projections, the limit of a hundred deposits per drain.
* In the MCP pool: callers on several event loops (the branches of `get_session` and
  `_shutdown_owner` for a foreign loop), several revisions of a configuration (a key is a
  chat and a server); the manager's catalog cache and the tool bindings.
* In the knowledge jobs: scan cursors, scan status and diagnostics of a source, parser
  progress and the event table; the content of sources and the manifest (planned); the
  store's own effects (proposals, pages), which `complete_item` only refers to; the
  order in which Redis delivers messages (any is allowed); several sources.
* In the coordinator's surroundings: the capability-health observer, prompt
  assembly, the routes' HTTP behaviour.  One `cancel` or `suspend` at a time per
  process (a bound).
* Components with status `not_modelled` in `PROJECT.json`, each with its reason.

## 6. Plan

In this order:

1. **KnowledgeSync**: the content of a source, the manifest and the plans computed
   from it, over `KnowledgeJobs`: that the manifest says what was ingested.  A plan's
   id is its content and a completed key answers "duplicate" for ever, so a scan after
   a cancellation, or a revision that returns, deserves a look; so does the number of
   attempts, which recovery does not bound.
2. **Source proposals**, **ApprovalManager**, **McpManager** (catalog cache against
   invalidation, over `McpSessionPool`), **MemoryStore** (optimistic revisions).
3. **PublicBudget** (numeric edges, day change), **PackageRegistry** (crash between
   two files), **TaskDag** (termination).
4. Theorems: the safety invariants of the modules above.  Of the present ones, what
   liveness needs of safety: that a step of the helpful process is always possible where
   the fairness is used (a cancellation's cleanup is runnable, a pool call's list is
   shut down in order).

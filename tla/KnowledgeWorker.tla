---------------------------- MODULE KnowledgeWorker ----------------------------
(***************************************************************************)
(* The knowledge job service: one worker loop per process, on top of the    *)
(* job repository and a Redis stream that delivers item ids.  The stream is *)
(* only a hint; the repository is the authority on what is to be done.      *)
(*                                                                         *)
(* The worker takes one message at a time and leaves its item in one of     *)
(* many ways; requests of users arrive between any two of its steps.  The   *)
(* process crashes and starts again as a new worker.                        *)
(***************************************************************************)
EXTENDS KnowledgeJobs

CONSTANTS
  MaxTroubles  \* bound: crashes, failed calls of the worker that leave something
               \* behind, expired markers and dead letters retried, together

ASSUME WorkerAssumption ==
  /\ Worker \subseteq Nat \ {0} /\ \A w \in Worker : 1 .. w \subseteq Worker
  /\ NoWorker = 0
  /\ MaxTroubles \in Nat

VARIABLES
  up,         \* the process runs
  worker,     \* its worker_id: the number of the incarnation
  at,         \* where the worker loop is
  cur,        \* the item whose message it is processing
  stream,     \* stream[i]: messages for i that nobody has read
  unacked,    \* unacked[i]: messages for i read and left behind
  recovered,  \* recovered[i]: those of them that this worker has reclaimed
  marker,     \* marker[i]: the deduplication marker of i is set
  publishing, \* items found ready (or retried), about to be published
  troubles

queueVars  == <<stream, unacked, recovered, marker, publishing>>
workerVars == <<up, worker, at, cur, troubles>>
vars == <<jobsVars, queueVars, workerVars>>

\* Places at which the worker has an item.  fail and reject: an exception is being
\* handled, one that is worth a retry and one that is not.
Working == {"check", "cancel", "key", "skip", "fetch", "parse", "parsed",
            "understand", "apply", "fail", "reject"}
Place == {"down", "reconcile", "enqueue", "top", "read", "got", "ack"} \union Working

Messages(i) == stream[i] + unacked[i] + recovered[i] + (IF cur = i THEN 1 ELSE 0)

\* An item has one message, and one more for every marker of it that has expired.
MessageCount == 0 .. MaxTroubles + 1

TypeOK ==
  /\ JobsTypeOK
  /\ up \in BOOLEAN /\ worker \in Worker \union {NoWorker}
  /\ at \in Place /\ cur \in Item \union {NoItem}
  /\ stream \in [Item -> MessageCount] /\ unacked \in [Item -> MessageCount]
  /\ recovered \in [Item -> MessageCount] /\ \A i \in Item : Messages(i) \in MessageCount
  /\ marker \in [Item -> BOOLEAN] /\ publishing \subseteq Item
  /\ troubles \in 0 .. MaxTroubles

Init ==
  /\ JobsInit
  /\ up = FALSE /\ worker = NoWorker /\ at = "down" /\ cur = NoItem
  /\ stream = [i \in Item |-> 0] /\ unacked = [i \in Item |-> 0]
  /\ recovered = [i \in Item |-> 0]
  /\ marker = [i \in Item |-> FALSE] /\ publishing = {}
  /\ troubles = 0

Goto(place) == at' = place /\ UNCHANGED <<up, worker, cur, troubles>>

Trouble == troubles < MaxTroubles /\ troubles' = troubles + 1

ReadyItems == {i \in Item : Ready(i)}

------------------------------------------------------------------------------
(* The process *)

\* A new worker prepares: expired leases, unacknowledged messages, ready items.
Boot ==
  /\ ~up /\ worker + 1 \in Worker
  /\ up' = TRUE /\ worker' = worker + 1 /\ at' = "reconcile"
  /\ UNCHANGED <<jobsVars, queueVars, cur, troubles>>

\* The last incarnation is not killed (bound).
Crash ==
  /\ up /\ worker + 1 \in Worker /\ Trouble
  /\ up' = FALSE /\ at' = "down" /\ cur' = NoItem /\ publishing' = {}
  /\ unacked' = [i \in Item |-> unacked[i] + recovered[i] + (IF cur = i THEN 1 ELSE 0)]
  /\ recovered' = [i \in Item |-> 0]
  /\ UNCHANGED <<jobsVars, stream, marker, worker>>

------------------------------------------------------------------------------
(* The queue *)

\* Mutant of Publish: published whether the marker is set or not.
Publish_Always(i) ==
  /\ i \in publishing
  /\ publishing' = publishing \ {i}
  /\ marker' = [marker EXCEPT ![i] = TRUE]
  /\ stream' = [stream EXCEPT ![i] = @ + 1]
  /\ UNCHANGED <<jobsVars, workerVars, unacked, recovered>>

Publish(i) ==
  /\ i \in publishing
  /\ publishing' = publishing \ {i}
  /\ marker' = [marker EXCEPT ![i] = TRUE]
  /\ stream' = [stream EXCEPT ![i] = IF marker[i] THEN @ ELSE @ + 1]
  /\ UNCHANGED <<jobsVars, workerVars, unacked, recovered>>

\* A marker lives for an hour, its message as long as the backlog lasts, and so do the
\* duplicates that are published meanwhile.
MarkerExpires(i) ==
  /\ marker[i] /\ Trouble
  /\ marker' = [marker EXCEPT ![i] = FALSE]
  /\ UNCHANGED <<jobsVars, stream, unacked, recovered, publishing, up, worker, at, cur>>

------------------------------------------------------------------------------
(* The loop *)

\* Mutant of Reconcile: expired leases are not looked for.
Reconcile_MessagesOnly ==
  /\ at = "reconcile"
  /\ recovered' = [i \in Item |-> recovered[i] + unacked[i]] /\ unacked' = [i \in Item |-> 0]
  /\ Goto("enqueue")
  /\ UNCHANGED <<jobsVars, stream, marker, publishing>>

\* reconcile, and prepare: reclaim the messages left behind, unless some of the last
\* ones are still to be processed, recover expired leases, publish what is ready.
Reconcile ==
  /\ at = "reconcile"
  /\ RecoverExpiredLeases
  /\ \/ /\ \A i \in Item : recovered[i] = 0
        /\ recovered' = unacked /\ unacked' = [i \in Item |-> 0]
     \/ /\ \E i \in Item : recovered[i] > 0
        /\ UNCHANGED <<recovered, unacked>>
  /\ Goto("enqueue")
  /\ UNCHANGED <<stream, marker, publishing>>

EnqueueReady ==
  /\ at = "enqueue"
  /\ publishing' = publishing \union ReadyItems
  /\ Goto("read")
  /\ UNCHANGED <<jobsVars, stream, unacked, recovered, marker>>

\* Time for another reconciliation, or straight to the next message.
Reconciles == at = "top" /\ Goto("reconcile") /\ UNCHANGED <<jobsVars, queueVars>>
GoesOn     == at = "top" /\ Goto("read") /\ UNCHANGED <<jobsVars, queueVars>>

\* run_once: a message that was left behind and reclaimed comes first.
Read(i) ==
  /\ at = "read"
  /\ \/ /\ recovered[i] > 0
        /\ recovered' = [recovered EXCEPT ![i] = @ - 1] /\ UNCHANGED stream
     \/ /\ \A k \in Item : recovered[k] = 0
        /\ stream[i] > 0
        /\ stream' = [stream EXCEPT ![i] = @ - 1] /\ UNCHANGED recovered
  /\ at' = "got" /\ cur' = i
  /\ UNCHANGED <<jobsVars, unacked, marker, publishing, up, worker, troubles>>

NothingToRead ==
  /\ at = "read" /\ \A i \in Item : stream[i] = 0 /\ recovered[i] = 0
  /\ Goto("top")
  /\ UNCHANGED <<jobsVars, queueVars>>

Claim ==
  /\ at = "got"
  /\ \/ ClaimItem(cur, worker) /\ Goto("check")
     \/ ~Ready(cur) /\ Goto("ack") /\ UNCHANGED jobsVars
  /\ UNCHANGED queueVars

\* Mutant of Acknowledge: the marker is left to expire.
Acknowledge_KeepMarker ==
  /\ at = "ack"
  /\ at' = "top" /\ cur' = NoItem
  /\ UNCHANGED <<jobsVars, marker, stream, unacked, recovered, publishing, up, worker, troubles>>

Acknowledge ==
  /\ at = "ack"
  /\ marker' = [marker EXCEPT ![cur] = FALSE]
  /\ at' = "top" /\ cur' = NoItem
  /\ UNCHANGED <<jobsVars, stream, unacked, recovered, publishing, up, worker, troubles>>

\* claim_item, the heartbeat awaited at the end or the acknowledgement itself
\* fails: the message stays unacknowledged.
LeaveMessage ==
  /\ at \in {"got", "ack"} /\ Trouble
  /\ unacked' = [unacked EXCEPT ![cur] = @ + 1]
  /\ at' = "top" /\ cur' = NoItem
  /\ UNCHANGED <<jobsVars, stream, recovered, marker, publishing, up, worker>>

------------------------------------------------------------------------------
(* _process_message, once the item is claimed *)

CheckCancel ==
  /\ at = "check"
  /\ Goto(IF Cancelled(cur) THEN "cancel" ELSE "key")
  /\ UNCHANGED <<jobsVars, queueVars>>

CancelItem ==
  /\ at = "cancel"
  /\ CancelClaimedItem(cur, worker)
  /\ Goto("ack")
  /\ UNCHANGED queueVars

TakeKey ==
  /\ at = "key"
  /\ Goto(CASE KeyOutcome(cur) = "acquired"  -> "fetch"
            [] KeyOutcome(cur) = "duplicate" -> "skip"
            [] KeyOutcome(cur) = "busy"      -> "reject")
  /\ ClaimIdempotency(cur)
  /\ UNCHANGED queueVars

Skip ==
  /\ at = "skip"
  /\ SkipItem(cur, worker)
  /\ Goto("ack")
  /\ UNCHANGED queueVars

\* A stage begins, or is refused because the job is being cancelled.
Stage(from, stage, to) ==
  /\ at = from
  /\ \/ StartStage(cur, worker, stage) /\ Goto(to)
     \/ Cancelled(cur) /\ Goto("reject") /\ UNCHANGED jobsVars
  /\ UNCHANGED queueVars

\* A deleted source is retracted without parsing.
Retract    == Stage("fetch", "applying", "apply")
Parse      == Stage("fetch", "parsing", "parse")
Understand ==
  \/ /\ at = "parse" /\ item[cur].ticket \notin {"active", "late"}
     /\ Stage("parse", "understanding", "understand")
  \/ Stage("parsed", "understanding", "understand")
Apply      == Stage("understand", "applying", "apply")

\* The remote parser wants more time, and may still have it: the worker is freed.
\* (A ticket that another adapter takes over from is still one ticket.)
Defer ==
  /\ at = "parse" /\ item[cur].ticket # "late"
  /\ DeferExternalParse(cur, worker)
  /\ Goto("ack")
  /\ UNCHANGED queueVars

\* The remote parse is over: completed, failed, timed out or replaced by the local one.
EndTicketOfItem ==
  /\ at = "parse" /\ item[cur].ticket \in {"active", "late"}
  /\ MarkExternalParseTerminal(cur, worker)
  /\ Goto("parsed")
  /\ UNCHANGED queueVars

\* Mutant of Finish: the item is completed, its job and its key are not looked after.
Finish_Uncommitted ==
  /\ at = "apply"
  /\ Holds(cur, worker)
  /\ item' = With(cur, Freed(item[cur], "completed"))
  /\ Goto("ack")
  /\ UNCHANGED <<queueVars, job, key, plan, version>>

Finish ==
  /\ at = "apply"
  /\ CompleteItem(cur, worker)
  /\ Goto("ack")
  /\ UNCHANGED queueVars

\* Any call may fail for a while; fetching, parsing and the store may fail for good.
Raise ==
  /\ \/ at \in Working \ {"fail", "reject"} /\ Goto("fail")
     \/ at \in {"fetch", "parse", "parsed", "understand", "apply"} /\ Goto("reject")
  /\ UNCHANGED <<jobsVars, queueVars>>

Fail ==
  /\ at \in {"fail", "reject"}
  /\ FailItem(cur, worker, at = "fail")
  /\ Goto("ack")
  /\ UNCHANGED queueVars

\* The failure cannot be recorded either: the message goes, the lease stays.  (A
\* worker that is stopped leaves its item the same way, and then its process.)
GiveUp ==
  /\ at \in {"fail", "reject"} /\ Trouble
  /\ at' = "ack"
  /\ UNCHANGED <<jobsVars, queueVars, up, worker, cur>>

------------------------------------------------------------------------------
(* Requests *)

PreviewSync(j) == up /\ CreateSyncPlan(j) /\ UNCHANGED <<queueVars, workerVars>>

StartBatch(j) == up /\ CreateJob(j) /\ UNCHANGED <<queueVars, workerVars>>

\* What is ready by the time create_batch comes to publish it, for a job that is
\* new or not.
EnqueueBatch ==
  /\ up /\ \E j \in Job : job[j].status # "none"
  /\ publishing' = publishing \union ReadyItems
  /\ UNCHANGED <<jobsVars, workerVars, stream, unacked, recovered, marker>>

Cancel(j) == up /\ CancelJob(j) /\ UNCHANGED <<queueVars, workerVars>>

Retry(i) ==
  /\ up /\ Trouble
  /\ RetryItem(i)
  /\ publishing' = publishing \union {i}
  /\ UNCHANGED <<stream, unacked, recovered, marker, up, worker, at, cur>>

------------------------------------------------------------------------------

Loop ==
  \/ Reconcile \/ EnqueueReady \/ GoesOn \/ NothingToRead \/ Claim \/ Acknowledge
  \/ \E i \in Item : Read(i)
  \/ CheckCancel \/ CancelItem \/ TakeKey \/ Skip
  \/ Retract \/ Parse \/ Understand \/ Apply \/ Defer \/ EndTicketOfItem \/ Finish \/ Fail

\* The lease of the item in hand is kept alive by heartbeats.  (It would not matter
\* if it ran out: only the worker itself looks for expired leases, between items.)
Expires(i) ==
  /\ ~(at \in Working /\ cur = i)
  /\ TimePasses(i)
  /\ UNCHANGED <<queueVars, workerVars>>

Overdue(i) == TicketExpires(i) /\ UNCHANGED <<queueVars, workerVars>>

Environment ==
  \/ Crash \/ Raise \/ GiveUp \/ LeaveMessage
  \/ \E i \in Item : MarkerExpires(i) \/ Retry(i)
  \/ \E j \in Job : PreviewSync(j) \/ StartBatch(j) \/ Cancel(j)
  \/ EnqueueBatch

Next == Boot \/ Reconciles \/ Loop \/ Environment
        \/ \E i \in Item : Publish(i) \/ Expires(i) \/ Overdue(i)

Spec == Init /\ [][Next]_vars

\* The process is started again, its loop goes on and reconciles now and then,
\* what is to be published is published, and time passes.
Fairness ==
  /\ WF_vars(Boot) /\ WF_vars(Loop) /\ SF_vars(Reconciles)
  /\ \A i \in Item : WF_vars(Publish(i)) /\ WF_vars(Expires(i)) /\ WF_vars(Overdue(i))

FairSpec == Spec /\ Fairness

------------------------------------------------------------------------------
(* Properties *)

\* The item a worker works on stays its own, whatever users, retries, recovery
\* and duplicate messages do meanwhile: no call of it is refused for its lease.
WorkerKeepsItem == at \in Working => Holds(cur, worker)

\* A source revision is ingested once: of the items that share a key at most one
\* is completed, the others are skipped or fail.
IngestedOnce ==
  \A a, b \in Item :
    KeyOf[a] = KeyOf[b] /\ item[a].status = "completed" /\ item[b].status = "completed" => a = b

\* A marker never stands for a message that is gone, so that nothing keeps a ready
\* item out of the queue.
MarkedIsQueued == \A i \in Item : marker[i] => Messages(i) > 0

\* A job that was cancelled while one of its items was handed to a remote parser.
Parked(j) == job[j].cancel /\ \E i \in Items(j) : item[i].status = "external_wait"

\* Every job ends, crashes and faults notwithstanding, unless it is parked.
JobsEnd ==
  \A j \in Job :
    job[j].status \notin JobFinal \union {"none"} ~> job[j].status \in JobFinal \/ Parked(j)

\* A job that is being cancelled ends up cancelled.
CancelsEnd == \A j \in Job : job[j].status = "cancelling" ~> job[j].status = "cancelled"

\* Whatever the worker and the requests do, the repository sees no call that JobsSpec
\* does not have.  (JobsSpec, written so that TLC tries the stuttering step first.)
ImplementsJobs == JobsInit /\ [][UNCHANGED jobsVars \/ JobsNext]_vars
=============================================================================

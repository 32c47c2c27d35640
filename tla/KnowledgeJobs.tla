----------------------------- MODULE KnowledgeJobs -----------------------------
(***************************************************************************)
(* The knowledge job repository: sync plans, ingestion jobs, their items    *)
(* and the idempotency keys, in one database.  Each operation locks the job *)
(* row first and is one transaction, hence one atomic step; one that raises *)
(* rolls back and is not enabled.                                           *)
(*                                                                         *)
(* One source.  A plan is named by its content, so a plan and the only job  *)
(* it can have share a name, and the items of a job are known in advance.   *)
(* Watermark, adapter checkpoint and adapter version, which plans are       *)
(* compared with as a whole, are one version number.  Of a point in time    *)
(* (next_attempt_at, lease_expires_at) only whether it has passed is kept.  *)
(*                                                                         *)
(* JobsSpec lets any worker call almost anything at any time.               *)
(***************************************************************************)
EXTENDS Naturals, FiniteSets

CONSTANTS Job, Item, Key, Worker,
          JobOf,        \* the job of an item
          KeyOf,        \* its idempotency key: path, revision and pipeline version
          MaxAttempts,  \* max_attempts
          NoItem, NoWorker

ASSUME JobsAssumption ==
  /\ JobOf \in [Item -> Job]
  /\ KeyOf \in [Item -> Key]
  /\ MaxAttempts \in Nat \ {0}
  /\ NoItem \notin Item
  /\ NoWorker \notin Worker

VARIABLES
  item,    \* knowledge_ingest_items, with the external parse record as ticket
  job,     \* knowledge_ingest_jobs
  key,     \* knowledge_idempotency
  plan,    \* knowledge_sync_plans
  version  \* knowledge_source_sync

jobsVars == <<item, job, key, plan, version>>

Waiting  == {"queued", "retry_wait", "external_wait"}
Active   == {"claimed", "parsing", "understanding", "applying"}
Final    == {"completed", "skipped", "cancelled", "dead_letter"}
JobFinal == {"completed", "completed_with_errors", "cancelled"}
PlanFinal == {"completed", "cancelled", "conflict"}

\* due: the retry time, or the lease, has run out.  ticket: what is known of the
\* remote parse; late means its total wait limit has passed.
ItemRow == [status : {"none"} \union Waiting \union Active \union Final,
            attempts : Nat, owner : Worker \union {NoWorker}, due : BOOLEAN,
            ticket : {"none", "active", "late", "ended"}]
JobRow  == [status : {"none", "queued", "running", "cancelling"} \union JobFinal,
            cancel : BOOLEAN]
KeyRow  == [status : {"none", "processing", "completed", "failed"},
            owner : Item \union {NoItem}]
PlanRow == [status : {"none", "planned", "running", "retryable"} \union PlanFinal,
            base : Nat]

JobsTypeOK ==
  /\ item \in [Item -> ItemRow]
  /\ job \in [Job -> JobRow]
  /\ key \in [Key -> KeyRow]
  /\ plan \in [Job -> PlanRow]
  /\ version \in Nat

JobsInit ==
  /\ item = [i \in Item |-> [status |-> "none", attempts |-> 0, owner |-> NoWorker,
                             due |-> FALSE, ticket |-> "none"]]
  /\ job = [j \in Job |-> [status |-> "none", cancel |-> FALSE]]
  /\ key = [k \in Key |-> [status |-> "none", owner |-> NoItem]]
  /\ plan = [j \in Job |-> [status |-> "none", base |-> 0]]
  /\ version = 0

------------------------------------------------------------------------------
(* Queries *)

Items(j) == {i \in Item : JobOf[i] = j}
Cancelled(i) == job[JobOf[i]].cancel

\* _require_lease
Holds(i, w) == item[i].owner = w /\ item[i].status \in Active

Ready(i) ==
  /\ ~Cancelled(i)
  /\ \/ item[i].status = "queued"
     \/ item[i].status \in {"retry_wait", "external_wait"} /\ item[i].due

\* Mutant of KeyOutcome: a key in processing does not stop another item.
KeyOutcome_NeverBusy(i) == IF key[KeyOf[i]].status = "completed" THEN "duplicate" ELSE "acquired"

\* What claim_idempotency answers.
KeyOutcome(i) ==
  LET k == key[KeyOf[i]] IN
  CASE k.status = "completed"                                     -> "duplicate"
    [] k.status # "completed" /\ k.owner = i                      -> "acquired"
    [] k.status \in {"none", "failed"} /\ k.owner # i             -> "acquired"
    [] k.status = "processing" /\ k.owner # i                     -> "busy"

------------------------------------------------------------------------------
(* _refresh_job and _finalize_sync_plan: the tail of every transaction that *)
(* may settle a job.  rows: the items as the transaction leaves them.       *)

StatusAfter(j, rows, cancel) ==
  LET settled == \A i \in Items(j) : rows[i].status \in Final
      failed  == \E i \in Items(j) : rows[i].status = "dead_letter"
      over    == IF failed THEN "completed_with_errors" ELSE "completed"
  IN  IF cancel THEN (IF settled THEN "cancelled" ELSE "cancelling")
                ELSE (IF settled THEN over ELSE "running")

SetJob(j, status, cancel) == job' = [job EXCEPT ![j] = [status |-> status, cancel |-> cancel]]
SetPlan(j, status) == plan' = [plan EXCEPT ![j].status = status]

\* Mutant of Refresh: a plan is committed whatever became of its base.
Refresh_Blind(j, rows, cancel) ==
  LET status == StatusAfter(j, rows, cancel) IN
  /\ item' = rows
  /\ SetJob(j, status, cancel)
  /\ IF status = "completed"
       THEN SetPlan(j, "completed") /\ version' = plan[j].base + 1
       ELSE /\ UNCHANGED version
            /\ IF status \in JobFinal
                 THEN SetPlan(j, IF status = "cancelled" THEN "cancelled" ELSE "retryable")
                 ELSE UNCHANGED plan

\* A plan without changes may leave the source as it was, or move its checkpoint.
Refresh(j, rows, cancel) ==
  LET status == StatusAfter(j, rows, cancel)
      open   == status \in JobFinal /\ plan[j].status \notin PlanFinal
  IN
  /\ item' = rows
  /\ \/ /\ ~open
        /\ SetJob(j, status, cancel) /\ UNCHANGED <<plan, version>>
     \/ /\ open /\ status = "completed" /\ version = plan[j].base
        /\ SetJob(j, status, cancel) /\ SetPlan(j, "completed")
        /\ version' \in {version + 1} \union (IF Items(j) = {} THEN {version} ELSE {})
     \/ /\ open /\ status = "completed" /\ version # plan[j].base
        /\ SetJob(j, "completed_with_errors", cancel) /\ SetPlan(j, "conflict")
        /\ UNCHANGED version
     \/ /\ open /\ status # "completed"
        /\ SetJob(j, status, cancel)
        /\ SetPlan(j, IF status = "cancelled" THEN "cancelled" ELSE "retryable")
        /\ UNCHANGED version

With(i, row) == [item EXCEPT ![i] = row]
RefreshItem(i, row) == Refresh(JobOf[i], With(i, row), Cancelled(i))

Freed(row, status) ==
  [row EXCEPT !.status = status, !.owner = NoWorker, !.due = FALSE]

EndTicket(row) == [row EXCEPT !.ticket = IF @ = "none" THEN @ ELSE "ended"]

------------------------------------------------------------------------------
(* Plans and jobs *)

\* A plan that exists is returned as it is; a source that has moved on since it
\* was scanned refuses.
CreateSyncPlan(j) ==
  /\ plan[j].status = "none"
  /\ plan' = [plan EXCEPT ![j] = [status |-> "planned", base |-> version]]
  /\ UNCHANGED <<item, job, key, version>>

\* A job that exists is returned as it is.
CreateJob(j) ==
  /\ plan[j].status = "planned" /\ version = plan[j].base
  /\ IF Items(j) = {}
       THEN Refresh(j, item, FALSE)
       ELSE /\ SetPlan(j, "running")
            /\ SetJob(j, "queued", FALSE)
            /\ item' = [i \in Item |->
                 IF i \in Items(j) THEN [item[i] EXCEPT !.status = "queued"] ELSE item[i]]
            /\ UNCHANGED version
  /\ UNCHANGED key

\* Mutant of CancelJob: items in the hands of a worker are cancelled as well.
CancelJob_Active(j) ==
  /\ job[j].status \notin JobFinal \union {"none"}
  /\ LET rows == [i \in Item |->
           IF i \in Items(j) /\ item[i].status \notin Final
             THEN EndTicket(Freed(item[i], "cancelled")) ELSE item[i]]
     IN  Refresh(j, rows, TRUE)
  /\ UNCHANGED key

CancelJob(j) ==
  /\ job[j].status \notin JobFinal \union {"none"}
  /\ LET rows == [i \in Item |->
           IF i \in Items(j) /\ item[i].status \in Waiting
             THEN EndTicket(Freed(item[i], "cancelled")) ELSE item[i]]
     IN  Refresh(j, rows, TRUE)
  /\ UNCHANGED key

\* Only dead letters, with a fresh count of attempts and no ticket.
RetryItem(i) ==
  /\ ~Cancelled(i) /\ item[i].status = "dead_letter"
  /\ RefreshItem(i, [status |-> "retry_wait", attempts |-> 0, owner |-> NoWorker,
                     due |-> TRUE, ticket |-> "none"])
  /\ UNCHANGED key

------------------------------------------------------------------------------
(* A worker and its item *)

ClaimItem(i, w) ==
  /\ Ready(i)
  /\ item' = With(i, [item[i] EXCEPT
       !.status = "claimed", !.owner = w, !.due = FALSE,
       !.attempts = IF item[i].status = "external_wait" THEN @ ELSE @ + 1])
  /\ SetJob(JobOf[i], "running", FALSE)
  /\ UNCHANGED <<key, plan, version>>

Heartbeat(i, w) ==
  /\ Holds(i, w)
  /\ item' = With(i, [item[i] EXCEPT !.due = FALSE])
  /\ UNCHANGED <<job, key, plan, version>>

\* start_parsing, start_understanding, start_applying
StartStage(i, w, stage) ==
  /\ Holds(i, w) /\ ~Cancelled(i)
  /\ item' = With(i, [item[i] EXCEPT !.status = stage])
  /\ UNCHANGED <<job, key, plan, version>>

\* claim_idempotency: an absent or a failed key of another item is taken.
ClaimIdempotency(i) ==
  /\ key' = [key EXCEPT ![KeyOf[i]] =
       IF @.status \in {"none", "failed"} /\ @.owner # i
         THEN [status |-> "processing", owner |-> i] ELSE @]
  /\ UNCHANGED <<item, job, plan, version>>

DeferExternalParse(i, w) ==
  /\ Holds(i, w) /\ item[i].status = "parsing"
  /\ RefreshItem(i, [Freed(item[i], "external_wait") EXCEPT !.ticket = "active"])
  /\ UNCHANGED key

MarkExternalParseTerminal(i, w) ==
  /\ Holds(i, w)
  /\ item' = With(i, EndTicket(item[i]))
  /\ UNCHANGED <<job, key, plan, version>>

\* The key is settled only if the item still owns it.
SettleKey(i, status) ==
  key' = [key EXCEPT ![KeyOf[i]].status = IF key[KeyOf[i]].owner = i THEN status ELSE @]

CompleteItem(i, w) ==
  /\ Holds(i, w)
  /\ RefreshItem(i, Freed(item[i], "completed"))
  /\ SettleKey(i, "completed")

SkipItem(i, w) ==
  /\ Holds(i, w)
  /\ RefreshItem(i, Freed(item[i], "skipped"))
  /\ UNCHANGED key

FailItem(i, w, retryable) ==
  /\ Holds(i, w)
  /\ \/ /\ Cancelled(i)
        /\ RefreshItem(i, EndTicket(Freed(item[i], "cancelled")))
        /\ SettleKey(i, "failed")
     \/ /\ ~Cancelled(i) /\ retryable /\ item[i].attempts < MaxAttempts
        /\ RefreshItem(i, Freed(item[i], "retry_wait"))
        /\ UNCHANGED key
     \/ /\ ~Cancelled(i) /\ ~(retryable /\ item[i].attempts < MaxAttempts)
        /\ RefreshItem(i, EndTicket(Freed(item[i], "dead_letter")))
        /\ SettleKey(i, "failed")

\* Mutant of CancelClaimedItem: the job is not refreshed.
CancelClaimedItem_NoRefresh(i, w) ==
  /\ Holds(i, w)
  /\ item' = With(i, EndTicket(Freed(item[i], "cancelled")))
  /\ UNCHANGED <<job, key, plan, version>>

CancelClaimedItem(i, w) ==
  /\ Holds(i, w)
  /\ RefreshItem(i, EndTicket(Freed(item[i], "cancelled")))
  /\ UNCHANGED key

------------------------------------------------------------------------------
(* Time and recovery *)

\* A retry time or a lease passes.
TimePasses(i) ==
  /\ item[i].status \in Active \union {"retry_wait", "external_wait"} /\ ~item[i].due
  /\ item' = With(i, [item[i] EXCEPT !.due = TRUE])
  /\ UNCHANGED <<job, key, plan, version>>

\* The total wait limit of a remote parse passes.
TicketExpires(i) ==
  /\ item[i].ticket = "active"
  /\ item' = With(i, [item[i] EXCEPT !.ticket = "late"])
  /\ UNCHANGED <<job, key, plan, version>>

Expired == {i \in Item : item[i].status \in Active /\ item[i].due}

\* One transaction for all of them.  A recovered item is final only if its job is
\* being cancelled, so no plan can be committed here.
RecoverExpiredLeases ==
  LET rows == [i \in Item |->
        IF i \notin Expired THEN item[i]
        ELSE IF Cancelled(i) THEN Freed(item[i], "cancelled")
        ELSE [Freed(item[i], "retry_wait") EXCEPT !.due = TRUE]]
      touched == {JobOf[i] : i \in Expired}
      after(j) == StatusAfter(j, rows, job[j].cancel)
  IN  /\ item' = rows
      /\ job' = [j \in Job |-> IF j \in touched THEN [job[j] EXCEPT !.status = after(j)] ELSE job[j]]
      /\ plan' = [j \in Job |-> IF j \in touched /\ after(j) = "cancelled"
                                  THEN [plan[j] EXCEPT !.status = "cancelled"] ELSE plan[j]]
      /\ UNCHANGED <<key, version>>

------------------------------------------------------------------------------
(* Whatever workers and users do.  A worker cancels an item only when it has *)
(* seen that the job is being cancelled, which is for good.                  *)

WorkerCall(i, w) ==
  \/ ClaimItem(i, w) \/ Heartbeat(i, w)
  \/ \E stage \in {"parsing", "understanding", "applying"} : StartStage(i, w, stage)
  \/ DeferExternalParse(i, w) \/ MarkExternalParseTerminal(i, w)
  \/ CompleteItem(i, w) \/ SkipItem(i, w)
  \/ Cancelled(i) /\ CancelClaimedItem(i, w)
  \/ \E retryable \in BOOLEAN : FailItem(i, w, retryable)

JobsNext ==
  \/ \E j \in Job : CreateSyncPlan(j) \/ CreateJob(j) \/ CancelJob(j)
  \/ \E i \in Item : RetryItem(i) \/ ClaimIdempotency(i) \/ TimePasses(i) \/ TicketExpires(i)
  \/ \E i \in Item, w \in Worker : WorkerCall(i, w)
  \/ RecoverExpiredLeases

JobsSpec == JobsInit /\ [][JobsNext]_jobsVars

------------------------------------------------------------------------------
(* Properties *)

\* A job's status agrees with its items and with its plan, though ten different
\* transactions move items: it is final exactly when its items are, and it
\* succeeds, or is cancelled, together with its plan.
JobsSettled ==
  \A j \in Job :
    /\ job[j].status # "none" =>
         (job[j].status \in JobFinal <=> \A i \in Items(j) : item[i].status \in Final)
    /\ job[j].status = "completed" <=> plan[j].status = "completed"
    /\ job[j].status = "cancelled" <=> plan[j].status = "cancelled"

Commits(j) == plan[j].status # "completed" /\ plan'[j].status = "completed"

MovesByPlan ==
  /\ version' # version => version' = version + 1 /\ \E j \in Job : Commits(j)
  /\ \A j \in Job : Commits(j) =>
       /\ plan[j].base = version
       /\ \A i \in Items(j) : item'[i].status \in {"completed", "skipped"}

\* The source moves one version at a time, each time by a plan; and a plan is
\* committed only on the version it was based on and with every item ingested, so
\* that of two plans drawn up against the same version, with changes, at most one is.
SyncsSerial == [][MovesByPlan]_jobsVars
=============================================================================

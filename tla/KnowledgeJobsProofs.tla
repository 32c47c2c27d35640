-------------------------- MODULE KnowledgeJobsProofs --------------------------
(***************************************************************************)
(* Theorems about the job repository, for any jobs, items, keys and workers *)
(* and any number of attempts, against any callers.                         *)
(***************************************************************************)
EXTENDS KnowledgeJobs, TLAPS

(* The inductive invariant.  JobsSettled needs that a transaction which moves *)
(* an item of a job finds its plan open: an open item has an open plan, and a  *)
(* plan that is over has no dead letter to be retried, unless it was           *)
(* cancelled.  SyncsSerial needs that only jobs being cancelled have cancelled *)
(* items.                                                                      *)

Begun(j) ==
  /\ job[j].status = "none" <=> plan[j].status \in {"none", "planned"}
  /\ \A i \in Items(j) : item[i].status = "none" <=> job[j].status = "none"

Settled(j) ==
  /\ job[j].status # "none" =>
       (job[j].status \in JobFinal <=> \A i \in Items(j) : item[i].status \in Final)
  /\ job[j].status = "completed" <=> plan[j].status = "completed"
  /\ job[j].status = "cancelled" <=> plan[j].status = "cancelled"

PlanOver(j) ==
  /\ plan[j].status \in PlanFinal => \A i \in Items(j) : item[i].status \in Final
  /\ plan[j].status \in {"completed", "conflict"} =>
       \A i \in Items(j) : item[i].status # "dead_letter"
  /\ plan[j].status = "cancelled" => job[j].cancel

CancelledForCause(j) ==
  ~job[j].cancel => \A i \in Items(j) : item[i].status # "cancelled"

JobInv(j) == Begun(j) /\ Settled(j) /\ PlanOver(j) /\ CancelledForCause(j)

JobsInv == JobsTypeOK /\ \A j \in Job : JobInv(j)

------------------------------------------------------------------------------
(* Rows *)

ItemStatus == {"none"} \union Waiting \union Active \union Final

LEMMA RowFacts ==
  ASSUME NEW row \in ItemRow, NEW status \in ItemStatus
  PROVE  /\ Freed(row, status) \in ItemRow
         /\ Freed(row, status).status = status
         /\ EndTicket(row) \in ItemRow
         /\ EndTicket(row).status = row.status
  BY DEF Freed, EndTicket, ItemRow, ItemStatus

LEMMA SetPlanType ==
  ASSUME plan \in [Job -> PlanRow], NEW j \in Job, NEW status, SetPlan(j, status),
         status \in PlanFinal \union {"running", "retryable"}
  PROVE  /\ plan' \in [Job -> PlanRow]
         /\ plan'[j].status = status /\ plan'[j].base = plan[j].base
  <1>1. [plan[j] EXCEPT !.status = status] \in PlanRow
    BY DEF PlanRow
  <1> QED BY <1>1 DEF SetPlan, PlanRow

\* What _refresh_job makes of the counts.
LEMMA StatusFacts ==
  ASSUME NEW j, NEW rows, NEW cancel \in BOOLEAN,
         NEW status, status = StatusAfter(j, rows, cancel)
  PROVE  /\ status \in {"running", "cancelling", "completed", "completed_with_errors", "cancelled"}
         /\ status \in JobFinal <=> \A i \in Items(j) : rows[i].status \in Final
         /\ status = "completed" =>
              ~cancel /\ \A i \in Items(j) : rows[i].status # "dead_letter"
         /\ status = "cancelled" => cancel
  BY DEF StatusAfter, JobFinal

------------------------------------------------------------------------------
(* Steps of one item *)

\* An item that has begun and is not over belongs to a job and a plan that are not
\* over either.
LEMMA OpenItem ==
  ASSUME JobsInv, NEW i \in Item, item[i].status \notin Final \union {"none"}
  PROVE  /\ JobOf[i] \in Job /\ i \in Items(JobOf[i])
         /\ job[JobOf[i]].status \notin JobFinal \union {"none"}
         /\ plan[JobOf[i]].status \notin PlanFinal \union {"none", "planned"}
  <1>1. JobOf[i] \in Job /\ i \in Items(JobOf[i])
    BY JobsAssumption DEF Items
  <1> QED BY <1>1 DEF JobsInv, JobInv, Begun, Settled, PlanOver

\* A step of one item that neither begins nor ends it, and the status of its job
\* at most from one that is not final to running.
LEMMA ItemMoves ==
  ASSUME JobsInv, NEW i \in Item, NEW row \in ItemRow,
         item' = With(i, row),
         \/ row.status = item[i].status
         \/ {row.status, item[i].status} \cap (Final \union {"none"}) = {},
         \/ job' = job
         \/ /\ SetJob(JobOf[i], "running", job[JobOf[i]].cancel)
            /\ item[i].status \notin Final \union {"none"},
         plan' = plan, version' = version, key' \in [Key -> KeyRow]
  PROVE  JobsInv'
  <1>1. \A k \in Item : item'[k] = IF k = i THEN row ELSE item[k]
    BY DEF With, JobsInv, JobsTypeOK
  <1>2. \A k \in Item :
          /\ item'[k].status = "none" <=> item[k].status = "none"
          /\ item'[k].status \in Final <=> item[k].status \in Final
          /\ item'[k].status \in Final => item'[k].status = item[k].status
    BY <1>1
  <1>3. JobOf[i] \in Job
    BY JobsAssumption
  <1>4. JobsTypeOK'
    BY <1>3 DEF JobsInv, JobsTypeOK, With, SetJob, JobRow
  <1>5. ASSUME NEW j \in Job
        PROVE  /\ job'[j].cancel = job[j].cancel
               /\ \/ job'[j].status = job[j].status
                  \/ /\ job'[j].status = "running"
                     /\ job[j].status \notin JobFinal \union {"none"}
                     /\ plan[j].status \notin PlanFinal \union {"none", "planned"}
    BY <1>3, OpenItem DEF JobsInv, JobsTypeOK, SetJob
  <1>6. ASSUME NEW j \in Job PROVE JobInv(j)'
    <2>1. Items(j)' = Items(j) /\ \A k \in Items(j) : k \in Item
      BY DEF Items
    <2>2. JobInv(j)
      BY DEF JobsInv
    <2>3. Begun(j)'
      BY <1>2, <1>5, <2>1, <2>2 DEF JobInv, Begun
    <2>4. Settled(j)'
      BY <1>2, <1>5, <2>1, <2>2 DEF JobInv, Settled, JobFinal, PlanFinal
    <2>5. PlanOver(j)'
      BY <1>2, <1>5, <2>1, <2>2 DEF JobInv, PlanOver, Final
    <2>6. CancelledForCause(j)'
      BY <1>2, <1>5, <2>1, <2>2 DEF JobInv, CancelledForCause, Final
    <2> QED BY <2>3, <2>4, <2>5, <2>6 DEF JobInv
  <1> QED BY <1>4, <1>6 DEF JobsInv

------------------------------------------------------------------------------
(* The tail of the transactions *)

\* Refresh keeps the invariant when it finds the plan of the job open, whatever has
\* become of the items of that job; and if it moves the version, it commits the plan.
LEMMA RefreshKeeps ==
  ASSUME JobsInv, NEW j \in Job, NEW rows \in [Item -> ItemRow], NEW cancel \in BOOLEAN,
         Refresh(j, rows, cancel), key' \in [Key -> KeyRow],
         plan[j].status \notin PlanFinal \union {"none"},
         plan[j].status = "planned" => Items(j) = {},
         \A i \in Items(j) : rows[i].status # "none",
         ~cancel => \A i \in Items(j) : rows[i].status # "cancelled",
         \A i \in Item \ Items(j) : rows[i] = item[i]
  PROVE  JobsInv' /\ MovesByPlan
  <1> DEFINE status == StatusAfter(j, rows, cancel)
  <1>1. /\ status \in {"running", "cancelling", "completed", "completed_with_errors", "cancelled"}
        /\ status \in JobFinal <=> \A i \in Items(j) : rows[i].status \in Final
        /\ status = "completed" =>
             ~cancel /\ \A i \in Items(j) : rows[i].status # "dead_letter"
        /\ status = "cancelled" => cancel
    BY StatusFacts
  <1> HIDE DEF status
  <1>2. /\ item' = rows
        /\ \/ /\ status \notin JobFinal
              /\ SetJob(j, status, cancel) /\ plan' = plan /\ version' = version
           \/ /\ status = "completed" /\ version = plan[j].base
              /\ SetJob(j, status, cancel) /\ SetPlan(j, "completed")
              /\ version' \in {version, version + 1}
           \/ /\ status = "completed" /\ version # plan[j].base
              /\ SetJob(j, "completed_with_errors", cancel) /\ SetPlan(j, "conflict")
              /\ version' = version
           \/ /\ status \in JobFinal /\ status # "completed"
              /\ SetJob(j, status, cancel)
              /\ SetPlan(j, IF status = "cancelled" THEN "cancelled" ELSE "retryable")
              /\ version' = version
    BY DEF Refresh, status
  <1>3. JobsTypeOK /\ \A k \in Job : JobInv(k)
    BY DEF JobsInv
  <1>4. JobsTypeOK'
    <2>1. job' \in [Job -> JobRow]
      BY <1>1, <1>2, <1>3 DEF JobsTypeOK, SetJob, JobRow, JobFinal
    <2>2. \A new : SetPlan(j, new) /\ new \in PlanFinal \union {"retryable"} => plan' \in [Job -> PlanRow]
      BY <1>3, SetPlanType DEF JobsTypeOK
    <2>3. plan' \in [Job -> PlanRow]
      BY <1>2, <1>3, <2>2 DEF JobsTypeOK, PlanFinal
    <2>4. plan[j].base \in Nat /\ version' \in Nat
      BY <1>2, <1>3 DEF JobsTypeOK, PlanRow
    <2> QED BY <1>2, <2>1, <2>3, <2>4 DEF JobsTypeOK
  <1>5. ASSUME NEW k \in Job, k # j
        PROVE  JobInv(k)'
    <2>1. /\ Items(k)' = Items(k)
          /\ \A i \in Items(k) : item'[i] = item[i]
      BY <1>2, <1>5 DEF Items
    <2>2. job'[k] = job[k] /\ plan'[k] = plan[k]
      BY <1>2, <1>3, <1>5 DEF SetJob, SetPlan, JobsTypeOK
    <2> QED BY <1>3, <2>1, <2>2 DEF JobInv, Begun, Settled, PlanOver, CancelledForCause
  <1>6. Items(j)' = Items(j) /\ \A i \in Items(j) : i \in Item
    BY DEF Items
  <1>7. /\ job'[j].cancel = cancel
        /\ \/ /\ status \notin JobFinal /\ job'[j].status = status
              /\ plan'[j] = plan[j]
           \/ /\ status = "completed"
              /\ job'[j].status = "completed" /\ plan'[j].status = "completed"
           \/ /\ status = "completed"
              /\ job'[j].status = "completed_with_errors" /\ plan'[j].status = "conflict"
           \/ /\ status = "completed_with_errors"
              /\ job'[j].status = "completed_with_errors" /\ plan'[j].status = "retryable"
           \/ /\ status = "cancelled"
              /\ job'[j].status = "cancelled" /\ plan'[j].status = "cancelled"
    BY <1>1, <1>2, <1>3 DEF SetJob, SetPlan, JobsTypeOK, JobRow, PlanRow, JobFinal
  <1>8. JobInv(j)'
    <2>1. Begun(j)'
      BY <1>1, <1>2, <1>6, <1>7 DEF Begun, JobFinal, PlanFinal
    <2>2. Settled(j)'
      BY <1>1, <1>2, <1>6, <1>7 DEF Settled, JobFinal, PlanFinal
    <2>3. PlanOver(j)'
      BY <1>1, <1>2, <1>6, <1>7 DEF PlanOver, JobFinal, PlanFinal
    <2>4. CancelledForCause(j)'
      BY <1>2, <1>6, <1>7 DEF CancelledForCause
    <2> QED BY <2>1, <2>2, <2>3, <2>4 DEF JobInv
  <1>9. MovesByPlan
    <2>1. \A k \in Job : k # j => plan'[k] = plan[k]
      BY <1>2, <1>3 DEF SetPlan, JobsTypeOK
    <2>2. ASSUME Commits(j)
          PROVE  status = "completed" /\ plan[j].base = version
      BY <1>2, <1>3, <1>7, <2>2 DEF Commits, SetPlan, JobsTypeOK, PlanRow, JobFinal
    <2>3. ASSUME status = "completed"
          PROVE  \A i \in Items(j) : item'[i].status \in {"completed", "skipped"}
      BY <1>1, <1>2, <2>3 DEF JobFinal, Final
    <2>4. ASSUME version' # version
          PROVE  version' = version + 1 /\ Commits(j)
      <3>1. /\ version' = version + 1 /\ SetPlan(j, "completed")
        BY <1>2, <2>4
      <3>2. plan'[j].status = "completed"
        BY <1>3, <3>1 DEF SetPlan, JobsTypeOK, PlanRow
      <3> QED BY <3>1, <3>2 DEF Commits, PlanFinal
    <2> QED BY <2>1, <2>2, <2>3, <2>4 DEF MovesByPlan, Commits
  <1> QED BY <1>4, <1>5, <1>8, <1>9 DEF JobsInv

\* A transaction on one item: it is open, or a dead letter that is retried.
LEMMA RefreshItemKeeps ==
  ASSUME JobsInv, NEW i \in Item, NEW row \in ItemRow, RefreshItem(i, row),
         key' \in [Key -> KeyRow],
         \/ item[i].status \notin Final \union {"none"}
         \/ item[i].status = "dead_letter" /\ ~Cancelled(i),
         row.status # "none",
         row.status = "cancelled" => Cancelled(i)
  PROVE  JobsInv' /\ MovesByPlan
  <1> DEFINE j == JobOf[i]
             rows == With(i, row)
  <1>1. j \in Job /\ i \in Items(j) /\ \A k \in Items(j) : k \in Item
    BY JobsAssumption DEF Items
  <1>2. /\ JobsTypeOK /\ Begun(j) /\ PlanOver(j) /\ Settled(j) /\ CancelledForCause(j)
        /\ job[j].cancel \in BOOLEAN
    BY <1>1 DEF JobsInv, JobInv, JobsTypeOK, JobRow
  <1>3. /\ rows \in [Item -> ItemRow]
        /\ rows[i] = row
        /\ \A k \in Item : k # i => rows[k] = item[k]
    BY <1>2 DEF With, JobsTypeOK
  <1>4. plan[j].status \notin PlanFinal \union {"none", "planned"}
    BY <1>1, <1>2 DEF Begun, PlanOver, PlanFinal, Final, Cancelled
  <1>5. \A k \in Items(j) : rows[k].status # "none"
    BY <1>1, <1>2, <1>3, <1>4 DEF Begun
  <1>6. ~job[j].cancel => \A k \in Items(j) : rows[k].status # "cancelled"
    BY <1>1, <1>2, <1>3 DEF CancelledForCause, Cancelled
  <1>7. \A k \in Item \ Items(j) : rows[k] = item[k]
    BY <1>1, <1>3
  <1>8. Refresh(j, rows, job[j].cancel)
    BY DEF RefreshItem, Cancelled
  <1> HIDE DEF j, rows
  <1> QED BY <1>1, <1>2, <1>3, <1>4, <1>5, <1>6, <1>7, <1>8, RefreshKeeps

------------------------------------------------------------------------------
(* The operations *)

LEMMA KeyTypes ==
  ASSUME JobsTypeOK, NEW i \in Item
  PROVE  /\ \A status \in {"completed", "failed"} :
               SettleKey(i, status) => key' \in [Key -> KeyRow]
         /\ ClaimIdempotency(i) => key' \in [Key -> KeyRow]
         /\ UNCHANGED key => key' \in [Key -> KeyRow]
  <1>1. KeyOf[i] \in Key /\ key \in [Key -> KeyRow] /\ key[KeyOf[i]] \in KeyRow
    BY JobsAssumption DEF JobsTypeOK
  <1>2. ASSUME NEW status \in {"completed", "failed"}, SettleKey(i, status)
        PROVE  key' \in [Key -> KeyRow]
    <2> DEFINE row == [key[KeyOf[i]] EXCEPT !.status =
                         IF key[KeyOf[i]].owner = i THEN status ELSE @]
    <2>1. row \in KeyRow
      BY <1>1 DEF KeyRow
    <2>2. key' = [key EXCEPT ![KeyOf[i]] = row]
      BY <1>2 DEF SettleKey
    <2> HIDE DEF row
    <2> QED BY <1>1, <2>1, <2>2
  <1>3. ASSUME ClaimIdempotency(i)
        PROVE  key' \in [Key -> KeyRow]
    <2>1. [status |-> "processing", owner |-> i] \in KeyRow
      BY DEF KeyRow
    <2> QED BY <1>1, <1>3, <2>1 DEF ClaimIdempotency
  <1> QED BY <1>1, <1>2, <1>3

\* Plans and jobs.
LEMMA PlanStep ==
  ASSUME JobsInv, NEW j \in Job, CreateSyncPlan(j)
  PROVE  JobsInv' /\ MovesByPlan
  <1>1. /\ \A k \in Job : k # j => plan'[k] = plan[k]
        /\ plan[j].status = "none" /\ plan'[j].status = "planned"
        /\ plan' \in [Job -> PlanRow]
    BY DEF CreateSyncPlan, JobsInv, JobsTypeOK, PlanRow
  <1>2. ASSUME NEW k \in Job PROVE JobInv(k)'
    <2>1. JobInv(k)
      BY DEF JobsInv
    <2> QED BY <1>1, <2>1 DEF CreateSyncPlan, JobInv, Begun, Settled, PlanOver,
                              CancelledForCause, Items, PlanFinal
  <1> QED BY <1>1, <1>2 DEF CreateSyncPlan, JobsInv, JobsTypeOK, MovesByPlan, Commits

LEMMA CreateStep ==
  ASSUME JobsInv, NEW j \in Job, CreateJob(j)
  PROVE  JobsInv' /\ MovesByPlan
  <1>1. /\ JobsTypeOK /\ JobInv(j)
        /\ plan[j].status = "planned" /\ job[j].status = "none"
        /\ key' = key /\ \A i \in Items(j) : i \in Item /\ item[i].status = "none"
    BY DEF JobsInv, JobInv, Begun, CreateJob, Items
  <1>2. CASE Items(j) = {}
    <2>1. Refresh(j, item, FALSE)
      BY <1>2 DEF CreateJob
    <2>2. item \in [Item -> ItemRow] /\ key' \in [Key -> KeyRow]
      BY <1>1 DEF JobsTypeOK
    <2> QED BY <1>1, <1>2, <2>1, <2>2, RefreshKeeps DEF PlanFinal
  <1>3. CASE Items(j) # {}
    <2>1. /\ SetPlan(j, "running") /\ SetJob(j, "queued", FALSE) /\ version' = version
          /\ item' = [i \in Item |->
               IF i \in Items(j) THEN [item[i] EXCEPT !.status = "queued"] ELSE item[i]]
      BY <1>3 DEF CreateJob
    <2>2. \A i \in Item : [item[i] EXCEPT !.status = "queued"] \in ItemRow
      BY <1>1 DEF JobsTypeOK, ItemRow, Waiting
    <2>3. item' \in [Item -> ItemRow]
      BY <1>1, <2>1, <2>2 DEF JobsTypeOK
    <2>4. \A i \in Item : i \in Items(j) => item'[i].status = "queued"
      BY <1>1, <2>1 DEF JobsTypeOK, ItemRow
    <2>5. \A i \in Item : i \notin Items(j) => item'[i] = item[i]
      BY <2>1
    <2>6. plan' \in [Job -> PlanRow] /\ plan'[j].status = "running"
      BY <1>1, <2>1, SetPlanType DEF JobsTypeOK
    <2>7. job' \in [Job -> JobRow] /\ job'[j].status = "queued"
      BY <1>1, <2>1 DEF JobsTypeOK, SetJob, JobRow
    <2>8. JobInv(j)'
      BY <1>1, <1>3, <2>4, <2>6, <2>7
      DEF JobInv, Begun, Settled, PlanOver, CancelledForCause, Items, JobFinal, PlanFinal, Final
    <2>9. ASSUME NEW k \in Job, k # j PROVE JobInv(k)'
      <3>1. JobInv(k) /\ job'[k] = job[k] /\ plan'[k] = plan[k]
        BY <1>1, <2>1, <2>9 DEF JobsInv, SetJob, SetPlan, JobsTypeOK
      <3>2. Items(k)' = Items(k) /\ \A i \in Items(k) : item'[i] = item[i]
        BY <2>5, <2>9 DEF Items
      <3> QED BY <3>1, <3>2 DEF JobInv, Begun, Settled, PlanOver, CancelledForCause
    <2>10. MovesByPlan
      BY <1>1, <2>1, <2>6 DEF MovesByPlan, Commits, SetPlan, JobsTypeOK
    <2> QED BY <1>1, <2>1, <2>3, <2>6, <2>7, <2>8, <2>9, <2>10 DEF JobsInv, JobsTypeOK
  <1> QED BY <1>2, <1>3

LEMMA CancelStep ==
  ASSUME JobsInv, NEW j \in Job, CancelJob(j)
  PROVE  JobsInv' /\ MovesByPlan
  <1> DEFINE rows == [i \in Item |->
               IF i \in Items(j) /\ item[i].status \in Waiting
                 THEN EndTicket(Freed(item[i], "cancelled")) ELSE item[i]]
  <1>1. /\ JobsTypeOK /\ JobInv(j) /\ key' \in [Key -> KeyRow]
        /\ job[j].status \notin JobFinal \union {"none"}
        /\ Refresh(j, rows, TRUE)
    BY DEF JobsInv, JobsTypeOK, CancelJob
  <1>2. ASSUME NEW i \in Item
        PROVE  /\ EndTicket(Freed(item[i], "cancelled")) \in ItemRow
               /\ EndTicket(Freed(item[i], "cancelled")).status = "cancelled"
    BY <1>1, RowFacts DEF JobsTypeOK, ItemStatus, Final
  <1>3. rows \in [Item -> ItemRow]
    BY <1>1, <1>2 DEF JobsTypeOK
  <1>4. \A i \in Item : i \in Items(j) => rows[i].status # "none"
    BY <1>1, <1>2 DEF JobInv, Begun
  <1>5. \A i \in Item : i \notin Items(j) => rows[i] = item[i]
    OBVIOUS
  <1>6. plan[j].status \notin PlanFinal \union {"none", "planned"}
    BY <1>1 DEF JobInv, Begun, Settled, PlanOver, PlanFinal
  <1>7. \A i \in Items(j) : i \in Item
    BY DEF Items
  <1> HIDE DEF rows
  <1> QED BY <1>1, <1>3, <1>4, <1>5, <1>6, <1>7, RefreshKeeps

LEMMA RetryStep ==
  ASSUME JobsInv, NEW i \in Item, RetryItem(i)
  PROVE  JobsInv' /\ MovesByPlan
  <1> DEFINE row == [status |-> "retry_wait", attempts |-> 0, owner |-> NoWorker,
                     due |-> TRUE, ticket |-> "none"]
  <1>1. row \in ItemRow /\ row.status = "retry_wait"
    BY DEF ItemRow, Waiting
  <1>2. /\ RefreshItem(i, row) /\ key' \in [Key -> KeyRow]
        /\ item[i].status = "dead_letter" /\ ~Cancelled(i)
    BY DEF RetryItem, JobsInv, JobsTypeOK
  <1> HIDE DEF row
  <1> QED BY <1>1, <1>2, RefreshItemKeeps

\* Neither the version nor a plan changes.
LEMMA StandsStill == version' = version /\ plan' = plan => MovesByPlan
  BY DEF MovesByPlan, Commits

LEMMA ClaimStep ==
  ASSUME JobsInv, NEW i \in Item, NEW w \in Worker, ClaimItem(i, w)
  PROVE  JobsInv' /\ MovesByPlan
  <1> DEFINE row == [item[i] EXCEPT
               !.status = "claimed", !.owner = w, !.due = FALSE,
               !.attempts = IF item[i].status = "external_wait" THEN @ ELSE @ + 1]
  <1>1. item[i] \in ItemRow /\ key' \in [Key -> KeyRow]
    BY DEF JobsInv, JobsTypeOK, ClaimItem
  <1>2. row \in ItemRow /\ row.status = "claimed"
    <2>1. (IF item[i].status = "external_wait"
             THEN item[i].attempts ELSE item[i].attempts + 1) \in Nat
      BY <1>1 DEF ItemRow
    <2>2. row = [[[[item[i] EXCEPT !.status = "claimed"] EXCEPT !.owner = w]
                   EXCEPT !.due = FALSE]
                   EXCEPT !.attempts = IF item[i].status = "external_wait"
                                         THEN item[i].attempts ELSE item[i].attempts + 1]
      BY <1>1 DEF ItemRow
    <2> QED BY <1>1, <2>1, <2>2 DEF ItemRow, Active
  <1>3. /\ item' = With(i, row) /\ plan' = plan /\ version' = version
        /\ SetJob(JobOf[i], "running", FALSE)
    BY DEF ClaimItem
  <1>4. item[i].status \notin Final \union {"none"} /\ ~Cancelled(i)
    BY DEF ClaimItem, Ready, Final
  <1>5. job[JobOf[i]].cancel = FALSE
    BY <1>4, JobsAssumption DEF Cancelled, JobsInv, JobsTypeOK, JobRow
  <1>6. {row.status, item[i].status} \cap (Final \union {"none"}) = {}
    BY <1>2, <1>4 DEF Final
  <1> HIDE DEF row
  <1> QED BY <1>1, <1>2, <1>3, <1>4, <1>5, <1>6, ItemMoves, StandsStill

\* A step that changes an item in hand, or any item's clock or ticket, and no job.
LEMMA QuietStep ==
  ASSUME JobsInv, NEW i \in Item, NEW row \in ItemRow,
         item' = With(i, row), UNCHANGED <<job, key, plan, version>>,
         \/ row.status = item[i].status
         \/ {row.status, item[i].status} \subseteq Active
  PROVE  JobsInv' /\ MovesByPlan
  <1>1. key' \in [Key -> KeyRow]
    BY DEF JobsInv, JobsTypeOK
  <1>2. \/ row.status = item[i].status
        \/ {row.status, item[i].status} \cap (Final \union {"none"}) = {}
    BY DEF Active, Final
  <1> QED BY <1>1, <1>2, ItemMoves, StandsStill

LEMMA QuietSteps ==
  ASSUME JobsInv, NEW i \in Item,
         \/ \E w \in Worker : Heartbeat(i, w)
         \/ \E w \in Worker, stage \in {"parsing", "understanding", "applying"} :
              StartStage(i, w, stage)
         \/ \E w \in Worker : MarkExternalParseTerminal(i, w)
         \/ TimePasses(i) \/ TicketExpires(i)
  PROVE  JobsInv' /\ MovesByPlan
  <1>1. item[i] \in ItemRow
    BY DEF JobsInv, JobsTypeOK
  <1>2. ASSUME NEW w \in Worker, Heartbeat(i, w) PROVE JobsInv' /\ MovesByPlan
    <2>1. [item[i] EXCEPT !.due = FALSE] \in ItemRow
      BY <1>1 DEF ItemRow
    <2>2. [item[i] EXCEPT !.due = FALSE].status = item[i].status
      BY <1>1 DEF ItemRow
    <2> QED BY <1>2, <2>1, <2>2, QuietStep DEF Heartbeat
  <1>3. ASSUME NEW w \in Worker, NEW stage \in {"parsing", "understanding", "applying"},
               StartStage(i, w, stage)
        PROVE  JobsInv' /\ MovesByPlan
    <2>1. [item[i] EXCEPT !.status = stage] \in ItemRow
      BY <1>1 DEF ItemRow, Active
    <2>2. [item[i] EXCEPT !.status = stage].status \in Active /\ item[i].status \in Active
      BY <1>1, <1>3 DEF ItemRow, Active, StartStage, Holds
    <2> QED BY <1>3, <2>1, <2>2, QuietStep DEF StartStage
  <1>4. ASSUME NEW w \in Worker, MarkExternalParseTerminal(i, w) PROVE JobsInv' /\ MovesByPlan
    <2>1. EndTicket(item[i]) \in ItemRow /\ EndTicket(item[i]).status = item[i].status
      BY <1>1, RowFacts DEF ItemStatus
    <2> QED BY <1>4, <2>1, QuietStep DEF MarkExternalParseTerminal
  <1>5. ASSUME TimePasses(i) PROVE JobsInv' /\ MovesByPlan
    <2>1. [item[i] EXCEPT !.due = TRUE] \in ItemRow
      BY <1>1 DEF ItemRow
    <2>2. [item[i] EXCEPT !.due = TRUE].status = item[i].status
      BY <1>1 DEF ItemRow
    <2> QED BY <1>5, <2>1, <2>2, QuietStep DEF TimePasses
  <1>6. ASSUME TicketExpires(i) PROVE JobsInv' /\ MovesByPlan
    <2>1. [item[i] EXCEPT !.ticket = "late"] \in ItemRow
      BY <1>1 DEF ItemRow
    <2>2. [item[i] EXCEPT !.ticket = "late"].status = item[i].status
      BY <1>1 DEF ItemRow
    <2> QED BY <1>6, <2>1, <2>2, QuietStep DEF TicketExpires
  <1> QED BY <1>2, <1>3, <1>4, <1>5, <1>6

\* A worker lets go of its item.
LEMMA LetGo ==
  ASSUME JobsInv, NEW i \in Item, NEW w \in Worker,
         \/ DeferExternalParse(i, w) \/ CompleteItem(i, w) \/ SkipItem(i, w)
         \/ Cancelled(i) /\ CancelClaimedItem(i, w)
         \/ \E retryable \in BOOLEAN : FailItem(i, w, retryable)
  PROVE  JobsInv' /\ MovesByPlan
  <1>1. /\ JobsTypeOK /\ item[i] \in ItemRow
        /\ item[i].status \notin Final \union {"none"}
    BY DEF JobsInv, JobsTypeOK, Holds, Active, Final, DeferExternalParse, CompleteItem,
           SkipItem, CancelClaimedItem, FailItem
  <1>2. \A status \in ItemStatus :
          LET row == Freed(item[i], status) IN
          /\ row \in ItemRow /\ row.status = status
          /\ EndTicket(row) \in ItemRow /\ EndTicket(row).status = status
    BY <1>1, RowFacts
  <1>3. ASSUME NEW status \in {"completed", "skipped", "retry_wait"},
               RefreshItem(i, Freed(item[i], status)), key' \in [Key -> KeyRow]
        PROVE  JobsInv' /\ MovesByPlan
    <2>1. status \in ItemStatus
      BY DEF ItemStatus, Waiting, Final
    <2> QED BY <1>1, <1>2, <1>3, <2>1, RefreshItemKeeps
  <1>4. ASSUME NEW status \in {"cancelled", "dead_letter"},
               RefreshItem(i, EndTicket(Freed(item[i], status))), key' \in [Key -> KeyRow],
               status = "cancelled" => Cancelled(i)
        PROVE  JobsInv' /\ MovesByPlan
    <2>1. status \in ItemStatus
      BY DEF ItemStatus, Final
    <2> QED BY <1>1, <1>2, <1>4, <2>1, RefreshItemKeeps
  <1>5. CASE DeferExternalParse(i, w)
    <2> DEFINE row == [Freed(item[i], "external_wait") EXCEPT !.ticket = "active"]
    <2>1. "external_wait" \in ItemStatus
      BY DEF ItemStatus, Waiting
    <2>2. Freed(item[i], "external_wait") \in ItemRow
          /\ Freed(item[i], "external_wait").status = "external_wait"
      BY <1>2, <2>1
    <2>3. row \in ItemRow /\ row.status = "external_wait"
      BY <2>2 DEF ItemRow
    <2>4. RefreshItem(i, row) /\ key' \in [Key -> KeyRow]
      BY <1>1, <1>5, KeyTypes DEF DeferExternalParse
    <2> HIDE DEF row
    <2> QED BY <1>1, <2>3, <2>4, RefreshItemKeeps
  <1>6. CASE CompleteItem(i, w)
    BY <1>1, <1>3, <1>6, KeyTypes DEF CompleteItem
  <1>7. CASE SkipItem(i, w)
    BY <1>1, <1>3, <1>7, KeyTypes DEF SkipItem
  <1>8. CASE Cancelled(i) /\ CancelClaimedItem(i, w)
    BY <1>1, <1>4, <1>8, KeyTypes DEF CancelClaimedItem
  <1>9. ASSUME NEW retryable \in BOOLEAN, FailItem(i, w, retryable)
        PROVE  JobsInv' /\ MovesByPlan
    <2>1. \/ /\ Cancelled(i) /\ RefreshItem(i, EndTicket(Freed(item[i], "cancelled")))
             /\ SettleKey(i, "failed")
          \/ RefreshItem(i, Freed(item[i], "retry_wait")) /\ UNCHANGED key
          \/ /\ RefreshItem(i, EndTicket(Freed(item[i], "dead_letter")))
             /\ SettleKey(i, "failed")
      BY <1>9 DEF FailItem
    <2> QED BY <1>1, <1>3, <1>4, <2>1, KeyTypes
  <1> QED BY <1>5, <1>6, <1>7, <1>8, <1>9

LEMMA RecoverStep ==
  ASSUME JobsInv, RecoverExpiredLeases
  PROVE  JobsInv' /\ MovesByPlan
  <1> DEFINE row(i) == IF i \notin Expired THEN item[i]
                       ELSE IF Cancelled(i) THEN Freed(item[i], "cancelled")
                       ELSE [Freed(item[i], "retry_wait") EXCEPT !.due = TRUE]
             rows == [i \in Item |-> row(i)]
             touched == {JobOf[i] : i \in Expired}
             after(j) == StatusAfter(j, rows, job[j].cancel)
  <1>1. /\ item' = rows
        /\ job' = [j \in Job |-> IF j \in touched
                                   THEN [job[j] EXCEPT !.status = after(j)] ELSE job[j]]
        /\ plan' = [j \in Job |-> IF j \in touched /\ after(j) = "cancelled"
                                   THEN [plan[j] EXCEPT !.status = "cancelled"] ELSE plan[j]]
        /\ key' = key /\ version' = version
    BY DEF RecoverExpiredLeases
  <1>2. JobsTypeOK /\ \A j \in Job : JobInv(j) /\ job[j].cancel \in BOOLEAN
    BY DEF JobsInv, JobsTypeOK, JobRow
  <1>3. ASSUME NEW i \in Item
        PROVE  /\ row(i) \in ItemRow
               /\ i \notin Expired => row(i) = item[i]
               /\ i \in Expired /\ Cancelled(i) => row(i).status = "cancelled"
               /\ i \in Expired /\ ~Cancelled(i) => row(i).status = "retry_wait"
    <2>1. item[i] \in ItemRow
      BY <1>2 DEF JobsTypeOK
    <2>2. "cancelled" \in ItemStatus /\ "retry_wait" \in ItemStatus
      BY DEF ItemStatus, Final, Waiting
    <2>3. /\ Freed(item[i], "cancelled") \in ItemRow
          /\ Freed(item[i], "cancelled").status = "cancelled"
          /\ Freed(item[i], "retry_wait") \in ItemRow
          /\ Freed(item[i], "retry_wait").status = "retry_wait"
      BY <2>1, <2>2, RowFacts
    <2>4. /\ [Freed(item[i], "retry_wait") EXCEPT !.due = TRUE] \in ItemRow
          /\ [Freed(item[i], "retry_wait") EXCEPT !.due = TRUE].status = "retry_wait"
      BY <2>3 DEF ItemRow
    <2> QED BY <2>1, <2>3, <2>4
  <1>4. \A i \in Item : item'[i] = row(i)
    BY <1>1
  <1>5. item' \in [Item -> ItemRow]
    BY <1>1, <1>3
  <1>6. ASSUME NEW i \in Expired
        PROVE  /\ i \in Item /\ item[i].status \notin Final \union {"none"}
               /\ JobOf[i] \in Job /\ i \in Items(JobOf[i])
               /\ job[JobOf[i]].status \notin JobFinal \union {"none"}
               /\ plan[JobOf[i]].status \notin PlanFinal \union {"none", "planned"}
    <2>1. i \in Item /\ item[i].status \notin Final \union {"none"}
      BY DEF Expired, Active, Final
    <2> QED BY <2>1, OpenItem
  <1> HIDE DEF row, rows
  <1>7. ASSUME NEW j \in touched
        PROVE  /\ j \in Job /\ \E i \in Expired : i \in Items(j) /\ JobOf[i] = j
               /\ job[j].status \notin JobFinal \union {"none"}
               /\ plan[j].status \notin PlanFinal \union {"none", "planned"}
    BY <1>6
  <1> HIDE DEF touched
  <1>8. ASSUME NEW j \in touched
        PROVE  /\ after(j) \in {"running", "cancelling", "cancelled"}
               /\ after(j) = "cancelled" => job[j].cancel
               /\ after(j) \in JobFinal <=> \A i \in Items(j) : rows[i].status \in Final
    <2>1. /\ after(j) \in {"running", "cancelling", "completed", "completed_with_errors", "cancelled"}
          /\ after(j) \in JobFinal <=> \A i \in Items(j) : rows[i].status \in Final
          /\ after(j) = "cancelled" => job[j].cancel
      BY <1>2, <1>7, StatusFacts
    <2>2. CASE job[j].cancel
      BY <2>1, <2>2 DEF StatusAfter
    <2>3. CASE ~job[j].cancel
      <3>1. PICK i \in Expired : i \in Items(j) /\ JobOf[i] = j
        BY <1>7
      <3>2. rows[i].status = "retry_wait"
        BY <1>1, <1>3, <1>4, <1>6, <2>3, <3>1 DEF Cancelled
      <3>3. after(j) \notin JobFinal
        BY <2>1, <3>1, <3>2 DEF Final
      <3> QED BY <2>1, <3>3 DEF JobFinal
    <2> QED BY <2>2, <2>3
  <1> HIDE DEF after
  <1>9. job' \in [Job -> JobRow] /\ plan' \in [Job -> PlanRow]
    <2>1. ASSUME NEW j \in Job
          PROVE  /\ job[j] \in JobRow /\ plan[j] \in PlanRow
                 /\ [plan[j] EXCEPT !.status = "cancelled"] \in PlanRow
                 /\ j \in touched => [job[j] EXCEPT !.status = after(j)] \in JobRow
      BY <1>2, <1>8 DEF JobsTypeOK, JobRow, PlanRow, JobFinal, PlanFinal
    <2> QED BY <1>1, <2>1
  <1>10. ASSUME NEW j \in Job PROVE JobInv(j)'
    <2>1. Items(j)' = Items(j) /\ \A i \in Items(j) : i \in Item /\ JobOf[i] = j
      BY DEF Items
    <2>2. CASE j \notin touched
      <3>1. job'[j] = job[j] /\ plan'[j] = plan[j]
        BY <1>1, <2>2
      <3>2. \A i \in Items(j) : item'[i] = item[i]
        BY <1>3, <1>4, <2>1, <2>2 DEF touched
      <3> QED BY <1>2, <2>1, <3>1, <3>2
              DEF JobInv, Begun, Settled, PlanOver, CancelledForCause
    <2>3. CASE j \in touched
      <3>1. /\ job'[j].status = after(j) /\ job'[j].cancel = job[j].cancel
            /\ IF after(j) = "cancelled" THEN plan'[j].status = "cancelled"
                                         ELSE plan'[j] = plan[j]
        BY <1>1, <1>2, <2>3 DEF JobsTypeOK, JobRow, PlanRow
      <3>2. \A i \in Items(j) :
              /\ item'[i].status # "none"
              /\ item'[i].status = "cancelled" => item[i].status = "cancelled" \/ job[j].cancel
        BY <1>2, <1>3, <1>4, <1>7, <2>1, <2>3 DEF JobInv, Begun, Cancelled
      <3>3. Begun(j)'
        BY <1>7, <1>8, <2>1, <2>3, <3>1, <3>2 DEF Begun
      <3>4. Settled(j)'
        BY <1>1, <1>7, <1>8, <2>1, <2>3, <3>1 DEF Settled, JobFinal, PlanFinal
      <3>5. PlanOver(j)'
        BY <1>1, <1>7, <1>8, <2>1, <2>3, <3>1 DEF PlanOver, JobFinal, PlanFinal
      <3>6. CancelledForCause(j)'
        BY <1>2, <2>1, <3>1, <3>2 DEF JobInv, CancelledForCause
      <3> QED BY <3>3, <3>4, <3>5, <3>6 DEF JobInv
    <2> QED BY <2>2, <2>3
  <1>11. MovesByPlan
    BY <1>1, <1>2 DEF MovesByPlan, Commits, JobsTypeOK, PlanRow
  <1> QED BY <1>1, <1>2, <1>5, <1>9, <1>10, <1>11 DEF JobsInv, JobsTypeOK

------------------------------------------------------------------------------
(* Theorems *)

LEMMA InitInv == JobsInit => JobsInv
  <1> SUFFICES ASSUME JobsInit PROVE JobsInv
    OBVIOUS
  <1>1. JobsTypeOK
    BY DEF JobsInit, JobsTypeOK, ItemRow, JobRow, KeyRow, PlanRow
  <1>2. ASSUME NEW j \in Job PROVE JobInv(j)
    BY DEF JobsInit, JobInv, Begun, Settled, PlanOver, CancelledForCause, Items,
           JobFinal, PlanFinal
  <1> QED BY <1>1, <1>2 DEF JobsInv

LEMMA NextInv ==
  ASSUME JobsInv, [JobsNext]_jobsVars
  PROVE  JobsInv' /\ MovesByPlan
  <1>1. CASE UNCHANGED jobsVars
    BY <1>1 DEF jobsVars, JobsInv, JobsTypeOK, JobInv, Begun, Settled, PlanOver,
                CancelledForCause, Items, MovesByPlan, Commits
  <1>2. ASSUME NEW j \in Job, CreateSyncPlan(j) \/ CreateJob(j) \/ CancelJob(j)
        PROVE  JobsInv' /\ MovesByPlan
    BY <1>2, PlanStep, CreateStep, CancelStep
  <1>3. ASSUME NEW i \in Item, ClaimIdempotency(i)
        PROVE  JobsInv' /\ MovesByPlan
    <2>1. UNCHANGED <<item, job, plan, version>> /\ key' \in [Key -> KeyRow]
      BY <1>3, KeyTypes DEF ClaimIdempotency, JobsInv
    <2> QED BY <2>1, StandsStill DEF JobsInv, JobsTypeOK, JobInv, Begun, Settled, PlanOver,
                                     CancelledForCause, Items
  <1>4. ASSUME NEW i \in Item, RetryItem(i) \/ TimePasses(i) \/ TicketExpires(i)
        PROVE  JobsInv' /\ MovesByPlan
    BY <1>4, RetryStep, QuietSteps
  <1>5. ASSUME NEW i \in Item, NEW w \in Worker, WorkerCall(i, w)
        PROVE  JobsInv' /\ MovesByPlan
    BY <1>5, ClaimStep, QuietSteps, LetGo DEF WorkerCall
  <1>6. CASE RecoverExpiredLeases
    BY <1>6, RecoverStep
  <1> QED BY <1>1, <1>2, <1>3, <1>4, <1>5, <1>6 DEF JobsNext

LEMMA JobsInvariant == JobsSpec => []JobsInv
  BY InitInv, NextInv, PTL DEF JobsSpec

\* The tables keep their types.
THEOREM JobsTypeCorrect == JobsSpec => []JobsTypeOK
  <1>1. JobsInv => JobsTypeOK
    BY DEF JobsInv
  <1> QED BY <1>1, JobsInvariant, PTL

\* Whatever workers and users call, and whenever leases run out, a job is final
\* exactly when its items are, and succeeds or is cancelled together with its plan.
THEOREM JobsAlwaysSettled == JobsSpec => []JobsSettled
  <1>1. JobsInv => JobsSettled
    BY DEF JobsInv, JobInv, Settled, JobsSettled
  <1> QED BY <1>1, JobsInvariant, PTL

\* The source moves one version at a time and by a plan, and a plan is committed only
\* on the version it was based on, with every item ingested.
THEOREM SourceMovesSerially == JobsSpec => SyncsSerial
  <1>1. JobsInv /\ [JobsNext]_jobsVars => [MovesByPlan]_jobsVars
    BY NextInv
  <1> QED BY <1>1, JobsInvariant, PTL DEF JobsSpec, SyncsSerial
=============================================================================

------------------------- MODULE KnowledgeWorkerProofs -------------------------
(***************************************************************************)
(* Theorems about the knowledge job service, for any jobs, items, keys,     *)
(* attempts and troubles, and any number of incarnations of the worker.     *)
(***************************************************************************)
EXTENDS KnowledgeWorker, KnowledgeJobsProofs

(* The inductive invariant, over the repository's.                            *)

\* Places at which the worker has a message, and places behind the key.
InHand == {"got", "ack"} \union Working
Keyed  == {"fetch", "parse", "parsed", "understand", "apply"}

PlaceKnown ==
  /\ up \in BOOLEAN /\ worker \in Worker \union {NoWorker}
  /\ at \in Place /\ troubles \in 0 .. MaxTroubles
  /\ up <=> at # "down"
  /\ up => worker \in Worker
  /\ IF at \in InHand THEN cur \in Item ELSE cur = NoItem

\* The item in hand is the worker's; it is cancelled only for cause.
ItemHeld ==
  /\ at \in Working => Holds(cur, worker)
  /\ at = "cancel" => Cancelled(cur)

\* An item that is being ingested owns its key, and one that has been ingested has
\* completed it.
KeysWon ==
  /\ at \in Keyed => key[KeyOf[cur]].owner = cur /\ key[KeyOf[cur]].status # "completed"
  /\ \A a \in Item : item[a].status = "completed" =>
       key[KeyOf[a]] = [status |-> "completed", owner |-> a]

\* A marker that is set stands for a message; one that has expired, a trouble, may have left
\* a message without a marker.  These are all the messages there are.
Bounded(marked, n, t) ==
  IF marked THEN 1 <= n /\ n <= t + 1 ELSE n <= t

Marked(i) == Bounded(marker[i], Messages(i), troubles)

QueueKnown ==
  /\ stream \in [Item -> Nat] /\ unacked \in [Item -> Nat] /\ recovered \in [Item -> Nat]
  /\ marker \in [Item -> BOOLEAN] /\ publishing \subseteq Item
  /\ \A i \in Item : Marked(i)

WorkerInv == JobsInv /\ PlaceKnown /\ ItemHeld /\ KeysWon /\ QueueKnown

------------------------------------------------------------------------------
(* What the repository's transactions do to items in hand, to ingested items   *)
(* and to cancelled jobs.                                                      *)


------------------------------------------------------------------------------
(* What the repository's transactions do to items in hand, to ingested items   *)
(* and to cancelled jobs.                                                      *)

LEMMA RefreshSets ==
  ASSUME JobsTypeOK, NEW j \in Job, NEW rows, NEW cancel, Refresh(j, rows, cancel)
  PROVE  /\ item' = rows
         /\ job'[j].cancel = cancel
         /\ \A k \in Job \ {j} : job'[k] = job[k]
  BY DEF Refresh, SetJob, JobsTypeOK

\* A request leaves items in hand and ingested items alone, ingests nothing, and
\* cancels for good.
LEMMA RequestFacts ==
  ASSUME JobsInv,
         \/ \E j \in Job : CreateSyncPlan(j) \/ CreateJob(j) \/ CancelJob(j)
         \/ \E i \in Item : RetryItem(i)
  PROVE  /\ key' = key
         /\ \A i \in Item : item[i].status \in Active \union {"completed"} => item'[i] = item[i]
         /\ \A i \in Item : item'[i].status = "completed" => item[i].status = "completed"
         /\ \A i \in Item : item[i].status \in Active /\ Cancelled(i) => Cancelled(i)'
  <1> USE DEF Waiting, Active, Final
  <1>0. JobsTypeOK /\ \A i \in Item : JobOf[i] \in Job
    BY JobsAssumption DEF JobsInv
  <1>1. CASE \E j \in Job : CreateSyncPlan(j)
    BY <1>1 DEF CreateSyncPlan, Cancelled
  <1>2. ASSUME NEW j \in Job, CreateJob(j)
        PROVE  /\ key' = key
               /\ \A i \in Item : item[i].status \in Active \union {"completed"} => item'[i] = item[i]
               /\ \A i \in Item : item'[i].status = "completed" => item[i].status = "completed"
               /\ \A i \in Item : item[i].status \in Active /\ Cancelled(i) => Cancelled(i)'
    <2>1. key' = key /\ plan[j].status = "planned"
      BY <1>2 DEF CreateJob
    <2>2. \A i \in Items(j) : item[i].status = "none"
      BY <2>1 DEF JobsInv, JobInv, Begun
    <2>3. \A k \in Job \ {j} : job'[k] = job[k]
      BY <1>0, <1>2, RefreshSets DEF CreateJob, SetJob, JobsTypeOK
    <2>4. \A i \in Item : item'[i] = item[i] \/ (i \in Items(j) /\ item'[i].status = "queued")
      <3>1. CASE Items(j) = {}
        BY <1>0, <1>2, <3>1, RefreshSets DEF CreateJob
      <3>2. CASE Items(j) # {}
        <4>1. \A i \in Item : [item[i] EXCEPT !.status = "queued"].status = "queued"
          BY <1>0 DEF JobsTypeOK, ItemRow
        <4> QED BY <1>2, <3>2, <4>1 DEF CreateJob
      <3> QED BY <3>1, <3>2
    <2>5. \A i \in Item : item[i].status # "none" => JobOf[i] # j
      BY <2>2 DEF Items
    <2> QED BY <1>0, <2>1, <2>2, <2>3, <2>4, <2>5 DEF Cancelled, Items
  <1>3. ASSUME NEW j \in Job, CancelJob(j)
        PROVE  /\ key' = key
               /\ \A i \in Item : item[i].status \in Active \union {"completed"} => item'[i] = item[i]
               /\ \A i \in Item : item'[i].status = "completed" => item[i].status = "completed"
               /\ \A i \in Item : item[i].status \in Active /\ Cancelled(i) => Cancelled(i)'
    <2> DEFINE rows == [i \in Item |->
                 IF i \in Items(j) /\ item[i].status \in Waiting
                   THEN EndTicket(Freed(item[i], "cancelled")) ELSE item[i]]
    <2>1. Refresh(j, rows, TRUE) /\ key' = key
      BY <1>3 DEF CancelJob
    <2>2. \A i \in Item : EndTicket(Freed(item[i], "cancelled")).status = "cancelled"
      BY <1>0, RowFacts DEF JobsTypeOK, ItemStatus
    <2>3. item' = rows /\ job'[j].cancel /\ \A k \in Job \ {j} : job'[k] = job[k]
      BY <1>0, <2>1, RefreshSets
    <2>4. \A i \in Item : item'[i] = item[i] \/ /\ item[i].status \in Waiting
                                                /\ item'[i].status = "cancelled"
      BY <2>2, <2>3
    <2> HIDE DEF rows
    <2> QED BY <1>0, <2>1, <2>3, <2>4 DEF Cancelled
  <1>4. ASSUME NEW k \in Item, RetryItem(k)
        PROVE  /\ key' = key
               /\ \A i \in Item : item[i].status \in Active \union {"completed"} => item'[i] = item[i]
               /\ \A i \in Item : item'[i].status = "completed" => item[i].status = "completed"
               /\ \A i \in Item : item[i].status \in Active /\ Cancelled(i) => Cancelled(i)'
    <2> DEFINE row == [status |-> "retry_wait", attempts |-> 0, owner |-> NoWorker,
                       due |-> TRUE, ticket |-> "none"]
    <2>1. /\ Refresh(JobOf[k], With(k, row), Cancelled(k)) /\ key' = key
          /\ item[k].status = "dead_letter"
      BY <1>4 DEF RetryItem, RefreshItem
    <2>2. /\ item' = With(k, row) /\ job'[JobOf[k]].cancel = job[JobOf[k]].cancel
          /\ \A j \in Job \ {JobOf[k]} : job'[j] = job[j]
      BY <1>0, <2>1, RefreshSets DEF Cancelled
    <2>3. \A i \in Item : item'[i] = IF i = k THEN row ELSE item[i]
      BY <1>0, <2>2 DEF With, JobsTypeOK
    <2>4. row.status = "retry_wait"
      OBVIOUS
    <2> HIDE DEF row
    <2> QED BY <1>0, <2>1, <2>2, <2>3, <2>4 DEF Cancelled
  <1> QED BY <1>1, <1>2, <1>3, <1>4

\* A worker's transaction touches no other item, and leaves the keys alone but for
\* the item's own.
LEMMA WorkerFacts ==
  ASSUME JobsInv, NEW i \in Item, NEW row \in ItemRow, RefreshItem(i, row)
  PROVE  item'[i] = row /\ \A a \in Item \ {i} : item'[a] = item[a]
  <1>1. JobsTypeOK /\ JobOf[i] \in Job
    BY JobsAssumption DEF JobsInv
  <1>2. item' = With(i, row)
    BY <1>1, RefreshSets DEF RefreshItem
  <1> QED BY <1>1, <1>2 DEF With, JobsTypeOK

LEMMA RowTypes ==
  ASSUME JobsInv, NEW i \in Item
  PROVE  \A status \in Waiting \union Final :
           LET row == Freed(item[i], status) IN
           /\ row \in ItemRow /\ row.status = status
           /\ EndTicket(row) \in ItemRow /\ EndTicket(row).status = status
           /\ [row EXCEPT !.ticket = "active"] \in ItemRow
           /\ [row EXCEPT !.ticket = "active"].status = status
  <1> SUFFICES ASSUME NEW status \in Waiting \union Final
               PROVE  LET row == Freed(item[i], status) IN
                      /\ row \in ItemRow /\ row.status = status
                      /\ EndTicket(row) \in ItemRow /\ EndTicket(row).status = status
                      /\ [row EXCEPT !.ticket = "active"] \in ItemRow
                      /\ [row EXCEPT !.ticket = "active"].status = status
    OBVIOUS
  <1> DEFINE row == Freed(item[i], status)
  <1>1. item[i] \in ItemRow /\ status \in ItemStatus
    BY DEF JobsInv, JobsTypeOK, ItemStatus
  <1>2. row \in ItemRow /\ row.status = status
    BY <1>1, RowFacts
  <1>3. EndTicket(row) \in ItemRow /\ EndTicket(row).status = status
    BY <1>1, <1>2, RowFacts
  <1> HIDE DEF row
  <1>4. [row EXCEPT !.ticket = "active"] \in ItemRow /\ [row EXCEPT !.ticket = "active"].status = status
    BY <1>2 DEF ItemRow
  <1> QED BY <1>2, <1>3, <1>4 DEF row

\* Recovery ingests nothing and settles no key.
LEMMA RecoveryFacts ==
  ASSUME JobsInv, RecoverExpiredLeases
  PROVE  /\ key' = key
         /\ \A i \in Item : item'[i].status = "completed" => item[i].status = "completed"
  <1> DEFINE row(i) == IF i \notin Expired THEN item[i]
                       ELSE IF Cancelled(i) THEN Freed(item[i], "cancelled")
                       ELSE [Freed(item[i], "retry_wait") EXCEPT !.due = TRUE]
             rows == [i \in Item |-> row(i)]
  <1>1. item' = rows /\ key' = key
    BY DEF RecoverExpiredLeases
  <1>2. ASSUME NEW i \in Item
        PROVE  row(i) = item[i] \/ row(i).status \in {"cancelled", "retry_wait"}
    <2>1. item[i] \in ItemRow /\ {"cancelled", "retry_wait"} \subseteq ItemStatus
      BY DEF JobsInv, JobsTypeOK, ItemStatus, Waiting, Final
    <2>2. /\ Freed(item[i], "cancelled").status = "cancelled"
          /\ Freed(item[i], "retry_wait") \in ItemRow
          /\ Freed(item[i], "retry_wait").status = "retry_wait"
      BY <2>1, RowFacts
    <2>3. [Freed(item[i], "retry_wait") EXCEPT !.due = TRUE].status = "retry_wait"
      BY <2>2 DEF ItemRow
    <2> QED BY <2>2, <2>3
  <1> HIDE DEF row
  <1> QED BY <1>1, <1>2

------------------------------------------------------------------------------
(* The service calls the repository, and in no way that JobsSpec does not have. *)

\* Steps that do not call the repository.
QuietNext ==
  \/ Boot \/ Crash \/ Reconciles \/ EnqueueReady \/ GoesOn \/ NothingToRead \/ Acknowledge
  \/ LeaveMessage \/ CheckCancel \/ Raise \/ GiveUp \/ EnqueueBatch
  \/ \E i \in Item : Read(i) \/ Publish(i) \/ MarkerExpires(i)

\* Transactions of the worker on the item in hand.
ItemNext ==
  \/ Claim \/ CancelItem \/ TakeKey \/ Skip \/ Retract \/ Parse \/ Understand \/ Apply
  \/ Defer \/ EndTicketOfItem \/ Finish \/ Fail

\* Requests of users.
RequestNext ==
  \/ \E j \in Job : PreviewSync(j) \/ StartBatch(j) \/ Cancel(j)
  \/ \E i \in Item : Retry(i)

TimeNext == \E i \in Item : Expires(i) \/ Overdue(i)

LEMMA NextIs == Next <=> QuietNext \/ ItemNext \/ Reconcile \/ RequestNext \/ TimeNext
  BY DEF Next, Loop, Environment, QuietNext, ItemNext, RequestNext, TimeNext

LEMMA InTheHand ==
  ASSUME WorkerInv, at \in InHand
  PROVE  cur \in Item /\ worker \in Worker /\ up
  BY DEF WorkerInv, PlaceKnown, InHand, Working

LEMMA QuietCalls == QuietNext => UNCHANGED jobsVars
  BY DEF QuietNext, Boot, Crash, Reconciles, EnqueueReady, GoesOn, NothingToRead, Acknowledge,
         LeaveMessage, CheckCancel, Raise, GiveUp, EnqueueBatch, Read, Publish, MarkerExpires

LEMMA ItemCalls == WorkerInv /\ ItemNext => UNCHANGED jobsVars \/ JobsNext
  <1> SUFFICES ASSUME WorkerInv, ItemNext PROVE UNCHANGED jobsVars \/ JobsNext
    OBVIOUS
  <1>1. at \in InHand
    BY DEF ItemNext, Claim, CancelItem, TakeKey, Skip, Retract, Parse, Understand, Apply, Stage,
           Defer, EndTicketOfItem, Finish, Fail, InHand, Working
  <1>2. cur \in Item /\ worker \in Worker
    BY <1>1, InTheHand
  <1>3. CASE Claim
    BY <1>2, <1>3 DEF Claim, JobsNext, WorkerCall
  <1>4. CASE CancelItem
    <2>1. Cancelled(cur) /\ CancelClaimedItem(cur, worker)
      BY <1>4 DEF CancelItem, WorkerInv, ItemHeld
    <2> QED BY <1>2, <2>1 DEF JobsNext, WorkerCall
  <1>5. CASE TakeKey
    BY <1>2, <1>5 DEF TakeKey, JobsNext
  <1>6. CASE Skip
    BY <1>2, <1>6 DEF Skip, JobsNext, WorkerCall
  <1>7. CASE Retract \/ Parse \/ Understand \/ Apply
    <2>1. ASSUME NEW from, NEW to, NEW stage \in {"parsing", "understanding", "applying"},
                 Stage(from, stage, to)
          PROVE  UNCHANGED jobsVars \/ JobsNext
      BY <1>2, <2>1 DEF Stage, JobsNext, WorkerCall
    <2> QED BY <1>7, <2>1 DEF Retract, Parse, Understand, Apply
  <1>8. CASE Defer \/ EndTicketOfItem \/ Finish
    BY <1>2, <1>8 DEF Defer, EndTicketOfItem, Finish, JobsNext, WorkerCall
  <1>9. CASE Fail
    <2>1. FailItem(cur, worker, at = "fail") /\ (at = "fail") \in BOOLEAN
      BY <1>9 DEF Fail
    <2> HIDE DEF ItemNext
    <2>2. \E retryable \in BOOLEAN : FailItem(cur, worker, retryable)
      BY <2>1
    <2> QED BY <1>2, <2>2 DEF JobsNext, WorkerCall
  <1> QED BY <1>3, <1>4, <1>5, <1>6, <1>7, <1>8, <1>9 DEF ItemNext

LEMMA EveryStepIsACall == WorkerInv /\ [Next]_vars => UNCHANGED jobsVars \/ JobsNext
  <1>1. UNCHANGED vars => UNCHANGED jobsVars
    BY DEF vars
  <1>2. Reconcile => JobsNext
    BY DEF Reconcile, JobsNext
  <1>3. RequestNext => JobsNext
    BY DEF RequestNext, PreviewSync, StartBatch, Cancel, Retry, JobsNext
  <1>4. TimeNext => JobsNext
    BY DEF TimeNext, Expires, Overdue, JobsNext
  <1> QED BY <1>1, <1>2, <1>3, <1>4, NextIs, QuietCalls, ItemCalls

\* The tables stay settled, and the source moves by plan.
LEMMA TablesKept == WorkerInv /\ [Next]_vars => JobsInv' /\ MovesByPlan
  BY EveryStepIsACall, NextInv DEF WorkerInv

------------------------------------------------------------------------------
(* The queue *)

\* What becomes of the messages and the marker of one item is what counts.
LEMMA QueueChecked ==
  ASSUME stream' \in [Item -> Nat], unacked' \in [Item -> Nat], recovered' \in [Item -> Nat],
         marker' \in [Item -> BOOLEAN], publishing' \subseteq Item,
         \A i \in Item :
           LET n == stream'[i] + unacked'[i] + recovered'[i] + (IF cur' = i THEN 1 ELSE 0) IN
           Bounded(marker'[i], n, troubles')
  PROVE  QueueKnown'
  BY DEF QueueKnown, Marked, Messages

\* The counts of an item as numbers that a step adds to.
LEMMA Counts ==
  ASSUME WorkerInv, NEW i \in Item
  PROVE  /\ stream[i] \in Nat /\ unacked[i] \in Nat /\ recovered[i] \in Nat
         /\ marker[i] \in BOOLEAN /\ troubles \in Nat
         /\ LET n == stream[i] + unacked[i] + recovered[i] + (IF cur = i THEN 1 ELSE 0) IN
            Bounded(marker[i], n, troubles)
  BY WorkerAssumption DEF WorkerInv, PlaceKnown, QueueKnown, Marked, Messages

\* Steps that touch no message and no marker, but may meet with trouble.
LEMMA SameQueue ==
  ASSUME WorkerInv, UNCHANGED <<stream, unacked, recovered, marker, cur>>, publishing' \subseteq Item,
         troubles' \in {troubles, troubles + 1}
  PROVE  QueueKnown'
  <1>1. /\ stream' \in [Item -> Nat] /\ unacked' \in [Item -> Nat] /\ recovered' \in [Item -> Nat]
        /\ marker' \in [Item -> BOOLEAN]
    BY DEF WorkerInv, QueueKnown
  <1>2. ASSUME NEW k \in Item
        PROVE  LET n == stream'[k] + unacked'[k] + recovered'[k] + (IF cur' = k THEN 1 ELSE 0) IN
               Bounded(marker'[k], n, troubles')
    BY Counts DEF Bounded
  <1> QED BY <1>1, <1>2, QueueChecked

LEMMA QueueKept == WorkerInv /\ QuietNext => QueueKnown'
  <1> SUFFICES ASSUME WorkerInv, QuietNext PROVE QueueKnown'
    OBVIOUS
  <1>1. /\ stream \in [Item -> Nat] /\ unacked \in [Item -> Nat] /\ recovered \in [Item -> Nat]
        /\ marker \in [Item -> BOOLEAN] /\ publishing \subseteq Item
        /\ NoItem \notin Item /\ troubles \in Nat
    BY JobsAssumption, WorkerAssumption DEF WorkerInv, QueueKnown, PlaceKnown
  <1>2. CASE Boot \/ Reconciles \/ GoesOn \/ NothingToRead \/ CheckCancel \/ Raise \/ GiveUp
    BY <1>1, <1>2, SameQueue
       DEF Boot, Reconciles, GoesOn, NothingToRead, CheckCancel, Raise, GiveUp, Goto, Trouble, queueVars
  <1>3. CASE Crash
    <2>1. /\ stream' \in [Item -> Nat] /\ unacked' \in [Item -> Nat] /\ recovered' \in [Item -> Nat]
          /\ marker' \in [Item -> BOOLEAN] /\ publishing' \subseteq Item
      BY <1>1, <1>3, Counts DEF Crash
    <2>2. ASSUME NEW k \in Item
          PROVE  LET n == stream'[k] + unacked'[k] + recovered'[k] + (IF cur' = k THEN 1 ELSE 0) IN
                 Bounded(marker'[k], n, troubles')
      BY <1>1, <1>3, Counts DEF Crash, Trouble, Bounded
    <2> QED BY <2>1, <2>2, QueueChecked
  <1>4. CASE EnqueueReady \/ EnqueueBatch
    <2>1. /\ UNCHANGED <<stream, unacked, recovered, marker, cur, troubles>>
          /\ publishing' \subseteq Item
      BY <1>1, <1>4 DEF EnqueueReady, EnqueueBatch, Goto, workerVars, ReadyItems
    <2> QED BY <2>1, SameQueue
  <1>5. CASE Acknowledge
    <2>1. cur \in Item
      BY <1>5, InTheHand DEF Acknowledge, InHand
    <2>2. /\ stream' \in [Item -> Nat] /\ unacked' \in [Item -> Nat] /\ recovered' \in [Item -> Nat]
          /\ marker' \in [Item -> BOOLEAN] /\ publishing' \subseteq Item
      BY <1>1, <1>5, <2>1, Counts DEF Acknowledge
    <2>3. ASSUME NEW k \in Item
          PROVE  LET n == stream'[k] + unacked'[k] + recovered'[k] + (IF cur' = k THEN 1 ELSE 0) IN
                 Bounded(marker'[k], n, troubles')
      BY <1>1, <1>5, <2>1, Counts DEF Acknowledge, Bounded
    <2> QED BY <2>2, <2>3, QueueChecked
  <1>6. CASE LeaveMessage
    <2>1. cur \in Item
      BY <1>6, InTheHand DEF LeaveMessage, InHand
    <2>2. /\ stream' \in [Item -> Nat] /\ unacked' \in [Item -> Nat] /\ recovered' \in [Item -> Nat]
          /\ marker' \in [Item -> BOOLEAN] /\ publishing' \subseteq Item
      BY <1>1, <1>6, <2>1, Counts DEF LeaveMessage
    <2>3. ASSUME NEW k \in Item
          PROVE  LET n == stream'[k] + unacked'[k] + recovered'[k] + (IF cur' = k THEN 1 ELSE 0) IN
                 Bounded(marker'[k], n, troubles')
      BY <1>1, <1>6, <2>1, Counts DEF LeaveMessage, Trouble, Bounded
    <2> QED BY <2>2, <2>3, QueueChecked
  <1>7. ASSUME NEW i \in Item, Read(i) PROVE QueueKnown'
    <2>1. cur = NoItem
      BY <1>7 DEF Read, WorkerInv, PlaceKnown, InHand, Working
    <2>2. /\ stream' \in [Item -> Nat] /\ unacked' \in [Item -> Nat] /\ recovered' \in [Item -> Nat]
          /\ marker' \in [Item -> BOOLEAN] /\ publishing' \subseteq Item
      BY <1>1, <1>7, <2>1, Counts DEF Read
    <2>3. ASSUME NEW k \in Item
          PROVE  LET n == stream'[k] + unacked'[k] + recovered'[k] + (IF cur' = k THEN 1 ELSE 0) IN
                 Bounded(marker'[k], n, troubles')
      <3>1. /\ stream'[k] + recovered'[k] + (IF k = i THEN 1 ELSE 0) = stream[k] + recovered[k]
            /\ unacked'[k] = unacked[k] /\ marker'[k] = marker[k] /\ cur' = i
        BY <1>1, <1>7 DEF Read
      <3>2. cur # k
        BY <1>1, <2>1
      <3>3. /\ stream[k] \in Nat /\ unacked[k] \in Nat /\ recovered[k] \in Nat
            /\ stream'[k] \in Nat /\ recovered'[k] \in Nat
            /\ LET n == stream[k] + unacked[k] + recovered[k] IN
               Bounded(marker[k], n, troubles)
        BY <2>2, <3>2, Counts
      <3>4. troubles' = troubles
        BY <1>7 DEF Read
      <3> QED BY <1>1, <3>1, <3>3, <3>4 DEF Bounded
    <2> QED BY <2>2, <2>3, QueueChecked
  <1>8. ASSUME NEW i \in Item, Publish(i) PROVE QueueKnown'
    <2>1. /\ stream' \in [Item -> Nat] /\ unacked' \in [Item -> Nat] /\ recovered' \in [Item -> Nat]
          /\ marker' \in [Item -> BOOLEAN] /\ publishing' \subseteq Item
      BY <1>1, <1>8, Counts DEF Publish, workerVars
    <2>2. ASSUME NEW k \in Item
          PROVE  LET n == stream'[k] + unacked'[k] + recovered'[k] + (IF cur' = k THEN 1 ELSE 0) IN
                 Bounded(marker'[k], n, troubles')
      BY <1>1, <1>8, Counts DEF Publish, Bounded, workerVars
    <2> QED BY <2>1, <2>2, QueueChecked
  <1>9. ASSUME NEW i \in Item, MarkerExpires(i) PROVE QueueKnown'
    <2>1. /\ stream' \in [Item -> Nat] /\ unacked' \in [Item -> Nat] /\ recovered' \in [Item -> Nat]
          /\ marker' \in [Item -> BOOLEAN] /\ publishing' \subseteq Item
      BY <1>1, <1>9, Counts DEF MarkerExpires
    <2>2. ASSUME NEW k \in Item
          PROVE  LET n == stream'[k] + unacked'[k] + recovered'[k] + (IF cur' = k THEN 1 ELSE 0) IN
                 Bounded(marker'[k], n, troubles')
      BY <1>1, <1>9, Counts DEF MarkerExpires, Trouble, Bounded
    <2> QED BY <2>1, <2>2, QueueChecked
  <1> QED BY <1>2, <1>3, <1>4, <1>5, <1>6, <1>7, <1>8, <1>9 DEF QuietNext

------------------------------------------------------------------------------
(* Steps that do not call the repository *)

LEMMA QuietPlace == WorkerInv /\ QuietNext => PlaceKnown'
  <1> SUFFICES ASSUME WorkerInv, QuietNext PROVE PlaceKnown'
    OBVIOUS
  <1>1. PlaceKnown /\ NoItem \notin Item /\ troubles \in 0 .. MaxTroubles /\ MaxTroubles \in Nat
    BY JobsAssumption, WorkerAssumption DEF WorkerInv, PlaceKnown
  <1>2. CASE Boot
    BY <1>1, <1>2 DEF Boot, PlaceKnown, InHand, Working, Place
  <1>3. CASE Crash
    <2>1. /\ up' = FALSE /\ at' = "down" /\ cur' = NoItem /\ worker' = worker
          /\ troubles < MaxTroubles /\ troubles' = troubles + 1
      BY <1>3 DEF Crash, Trouble
    <2>2. troubles' \in 0 .. MaxTroubles
      BY <1>1, <2>1
    <2>3. worker' \in Worker \union {NoWorker}
      BY <1>1, <2>1 DEF PlaceKnown
    <2>4. at' \in Place /\ at' \notin InHand
      BY <2>1 DEF Place, InHand, Working
    <2> QED BY <2>1, <2>2, <2>3, <2>4 DEF PlaceKnown
  <1>4. CASE Reconciles \/ EnqueueReady \/ GoesOn \/ NothingToRead
    BY <1>1, <1>4 DEF Reconciles, EnqueueReady, GoesOn, NothingToRead, Goto, PlaceKnown, InHand,
                      Working, Place
  <1>5. CASE Acknowledge \/ LeaveMessage
    BY <1>1, <1>5 DEF Acknowledge, LeaveMessage, Trouble, PlaceKnown, InHand, Working, Place
  <1>6. CASE CheckCancel \/ Raise \/ GiveUp
    BY <1>1, <1>6 DEF CheckCancel, Raise, GiveUp, Goto, Trouble, PlaceKnown, InHand, Working, Place
  <1>7. CASE EnqueueBatch \/ \E i \in Item : Publish(i) \/ MarkerExpires(i)
    BY <1>1, <1>7 DEF EnqueueBatch, Publish, MarkerExpires, Trouble, workerVars, PlaceKnown
  <1>8. CASE \E i \in Item : Read(i)
    BY <1>1, <1>8 DEF Read, PlaceKnown, InHand, Working, Place
  <1> QED BY <1>2, <1>3, <1>4, <1>5, <1>6, <1>7, <1>8 DEF QuietNext

\* Without a call, the worker stays where it is in its item, goes on to look for a
\* cancellation, or has come to the end of it.
LEMMA QuietKeeps == WorkerInv /\ QuietNext => ItemHeld' /\ KeysWon'
  <1> SUFFICES ASSUME WorkerInv, QuietNext PROVE ItemHeld' /\ KeysWon'
    OBVIOUS
  <1>1. UNCHANGED jobsVars
    BY QuietCalls
  <1>2. \/ at' \notin Working
        \/ at' = at /\ UNCHANGED <<cur, worker>>
        \/ /\ at \in Working /\ UNCHANGED <<cur, worker>>
           /\ at' \in {"key", "fail", "reject"} \/ (at' = "cancel" /\ Cancelled(cur))
    BY DEF QuietNext, Boot, Crash, Reconciles, EnqueueReady, GoesOn, NothingToRead, Acknowledge,
           LeaveMessage, CheckCancel, Raise, GiveUp, EnqueueBatch, Read, Publish, MarkerExpires,
           Goto, workerVars, Working
  <1>3. ItemHeld'
    BY <1>1, <1>2 DEF WorkerInv, ItemHeld, Holds, Cancelled, jobsVars, Working
  <1>4. KeysWon'
    BY <1>1, <1>2 DEF WorkerInv, KeysWon, jobsVars, Keyed, Working
  <1> QED BY <1>3, <1>4

------------------------------------------------------------------------------
(* The key of an item *)

LEMMA KeyOutcomes ==
  ASSUME WorkerInv, NEW i \in Item
  PROVE  LET k == key[KeyOf[i]] IN
         \/ KeyOutcome(i) = "duplicate"
         \/ KeyOutcome(i) = "busy"
         \/ KeyOutcome(i) = "acquired" /\ k.status # "completed" /\ k.owner = i
         \/ KeyOutcome(i) = "acquired" /\ k.status \in {"none", "failed"} /\ k.owner # i
  <1>1. KeyOf[i] \in Key /\ key[KeyOf[i]] \in KeyRow
    BY JobsAssumption DEF WorkerInv, JobsInv, JobsTypeOK
  <1>2. key[KeyOf[i]].status \in {"none", "processing", "completed", "failed"}
    BY <1>1 DEF KeyRow
  <1> QED BY <1>2 DEF KeyOutcome

\* Settling a key changes nothing unless the item owns it.
LEMMA SettleFacts ==
  ASSUME JobsInv, NEW i \in Item, NEW status, SettleKey(i, status)
  PROVE  /\ \A k \in Key : key[k].owner # i => key'[k] = key[k]
         /\ key[KeyOf[i]].owner = i => key'[KeyOf[i]] = [status |-> status, owner |-> i]
  <1>1. /\ KeyOf[i] \in Key /\ key \in [Key -> KeyRow]
        /\ \A k \in Key : key[k] = [status |-> key[k].status, owner |-> key[k].owner]
    BY JobsAssumption DEF JobsInv, JobsTypeOK, KeyRow
  <1>2. /\ \A k \in Key \ {KeyOf[i]} : key'[k] = key[k]
        /\ key'[KeyOf[i]] = [key[KeyOf[i]] EXCEPT !.status =
                               IF key[KeyOf[i]].owner = i THEN status ELSE @]
    BY <1>1 DEF SettleKey
  <1>3. \A s : [key[KeyOf[i]] EXCEPT !.status = s] = [status |-> s, owner |-> key[KeyOf[i]].owner]
    BY <1>1 DEF KeyRow
  <1>4. key[KeyOf[i]].owner # i => key'[KeyOf[i]] = key[KeyOf[i]]
    BY <1>1, <1>2, <1>3
  <1>5. key[KeyOf[i]].owner = i => key'[KeyOf[i]] = [status |-> status, owner |-> i]
    BY <1>2, <1>3
  <1> QED BY <1>2, <1>4, <1>5

\* Items that have been ingested keep their keys, if the item in hand changes no
\* key of another and is completed, if at all, with its own.
LEMMA KeysKept ==
  ASSUME WorkerInv, NEW i \in Item,
         \A a \in Item \ {i} : item'[a] = item[a],
         \A k \in Key : key[k].owner # i => key'[k] = key[k],
         item'[i].status = "completed" => key'[KeyOf[i]] = [status |-> "completed", owner |-> i]
  PROVE  \A a \in Item : item'[a].status = "completed" =>
           key'[KeyOf[a]] = [status |-> "completed", owner |-> a]
  <1> SUFFICES ASSUME NEW a \in Item, a # i, item[a].status = "completed"
               PROVE  key'[KeyOf[a]] = [status |-> "completed", owner |-> a]
    OBVIOUS
  <1>1. KeyOf[a] \in Key /\ key[KeyOf[a]] = [status |-> "completed", owner |-> a]
    BY JobsAssumption DEF WorkerInv, KeysWon
  <1> QED BY <1>1

------------------------------------------------------------------------------
(* Transactions of the worker on the item in hand *)

LEMMA ItemPlace == WorkerInv /\ ItemNext => QueueKnown' /\ PlaceKnown' /\ UNCHANGED <<cur, worker>>
  <1> SUFFICES ASSUME WorkerInv, ItemNext
               PROVE  QueueKnown' /\ PlaceKnown' /\ UNCHANGED <<cur, worker>>
    OBVIOUS
  <1>1. CASE TakeKey
    <2>1. cur \in Item
      BY <1>1, InTheHand DEF TakeKey, InHand, Working
    <2>2. /\ at = "key" /\ at' \in {"fetch", "skip", "reject"}
          /\ UNCHANGED <<up, worker, cur, troubles>> /\ UNCHANGED queueVars
      BY <1>1, <2>1, KeyOutcomes DEF TakeKey, Goto
    <2> QED BY <2>2, SameQueue
           DEF WorkerInv, PlaceKnown, QueueKnown, InHand, Working, Place, queueVars
  <1>2. CASE ~TakeKey
    <2>1. /\ at \in InHand /\ at' \in InHand
          /\ UNCHANGED <<up, worker, cur, troubles>> /\ UNCHANGED queueVars
      BY <1>2 DEF ItemNext, Claim, CancelItem, Skip, Retract, Parse, Understand, Apply, Stage,
             Defer, EndTicketOfItem, Finish, Fail, Goto, InHand, Working
    <2> QED BY <2>1, SameQueue
           DEF WorkerInv, PlaceKnown, QueueKnown, InHand, Working, Place, queueVars
  <1> QED BY <1>1, <1>2

LEMMA ClaimKeeps == WorkerInv /\ Claim => ItemHeld' /\ KeysWon'
  <1> SUFFICES ASSUME WorkerInv, Claim PROVE ItemHeld' /\ KeysWon'
    OBVIOUS
  <1>1. cur \in Item /\ worker \in Worker /\ UNCHANGED <<cur, worker>>
    BY InTheHand, ItemPlace DEF Claim, ItemNext, InHand
  <1>2. CASE ~Ready(cur) /\ Goto("ack") /\ UNCHANGED jobsVars
    BY <1>2 DEF Goto, WorkerInv, ItemHeld, KeysWon, jobsVars, Working, Keyed
  <1>3. CASE ClaimItem(cur, worker) /\ Goto("check")
    <2> DEFINE row == [item[cur] EXCEPT
                         !.status = "claimed", !.owner = worker, !.due = FALSE,
                         !.attempts = IF item[cur].status = "external_wait" THEN @ ELSE @ + 1]
    <2>1. item[cur] \in ItemRow
      BY <1>1 DEF WorkerInv, JobsInv, JobsTypeOK
    <2>2. row.status = "claimed" /\ row.owner = worker
      BY <2>1 DEF ItemRow
    <2>3. item' = With(cur, row) /\ key' = key /\ at' = "check"
      BY <1>3 DEF ClaimItem, Goto
    <2> HIDE DEF row
    <2>4. item'[cur] = row /\ \A a \in Item \ {cur} : item'[a] = item[a]
      BY <1>1, <2>3 DEF With, WorkerInv, JobsInv, JobsTypeOK
    <2>5. ItemHeld'
      BY <1>1, <2>2, <2>3, <2>4 DEF ItemHeld, Holds, Active
    <2>6. KeysWon'
      BY <1>1, <2>2, <2>3, <2>4, KeysKept DEF KeysWon, Keyed
    <2> QED BY <2>5, <2>6
  <1> QED BY <1>2, <1>3 DEF Claim

LEMMA TakeKeyKeeps == WorkerInv /\ TakeKey => ItemHeld' /\ KeysWon'
  <1> SUFFICES ASSUME WorkerInv, TakeKey PROVE ItemHeld' /\ KeysWon'
    OBVIOUS
  <1>1. cur \in Item /\ worker \in Worker /\ UNCHANGED <<cur, worker>>
    BY InTheHand, ItemPlace DEF TakeKey, ItemNext, InHand, Working
  <1>2. KeyOf[cur] \in Key /\ key \in [Key -> KeyRow] /\ \A a \in Item : KeyOf[a] \in Key
    BY <1>1, JobsAssumption DEF WorkerInv, JobsInv, JobsTypeOK
  <1>3. /\ at = "key" /\ at' \in {"fetch", "skip", "reject"}
        /\ at' = "fetch" => KeyOutcome(cur) = "acquired"
        /\ UNCHANGED <<item, job>>
    BY <1>1, KeyOutcomes DEF TakeKey, Goto, ClaimIdempotency
  <1>4. /\ \A k \in Key \ {KeyOf[cur]} : key'[k] = key[k]
        /\ key'[KeyOf[cur]] =
             IF key[KeyOf[cur]].status \in {"none", "failed"} /\ key[KeyOf[cur]].owner # cur
               THEN [status |-> "processing", owner |-> cur] ELSE key[KeyOf[cur]]
    BY <1>2 DEF TakeKey, ClaimIdempotency
  <1>5. ItemHeld'
    BY <1>1, <1>3 DEF WorkerInv, ItemHeld, Holds, Working
  <1>6. at' = "fetch" => key'[KeyOf[cur]].owner = cur /\ key'[KeyOf[cur]].status # "completed"
    BY <1>1, <1>3, <1>4, KeyOutcomes
  <1>7. \A a \in Item : item[a].status = "completed" => key'[KeyOf[a]] = key[KeyOf[a]]
    <2> SUFFICES ASSUME NEW a \in Item, item[a].status = "completed"
                 PROVE  key'[KeyOf[a]] = key[KeyOf[a]]
      OBVIOUS
    <2>1. key[KeyOf[a]] = [status |-> "completed", owner |-> a]
      BY DEF WorkerInv, KeysWon
    <2>2. key[KeyOf[a]].status = "completed"
      BY <2>1
    <2> QED BY <1>2, <1>4, <2>2
  <1>8. KeysWon'
    BY <1>1, <1>3, <1>6, <1>7 DEF WorkerInv, KeysWon, Keyed
  <1> QED BY <1>5, <1>8

LEMMA StageKeeps ==
  ASSUME WorkerInv, NEW from, NEW to, NEW stage \in {"parsing", "understanding", "applying"},
         Stage(from, stage, to), from \in Keyed, to \in Keyed
  PROVE  ItemHeld' /\ KeysWon'
  <1>1. at \in InHand /\ at \in Keyed /\ UNCHANGED <<cur, worker>>
    BY DEF Stage, Goto, InHand, Working, Keyed
  <1>2. cur \in Item /\ worker \in Worker
    BY <1>1, InTheHand
  <1>3. CASE Cancelled(cur) /\ Goto("reject") /\ UNCHANGED jobsVars
    BY <1>1, <1>3 DEF Goto, WorkerInv, ItemHeld, KeysWon, Holds, jobsVars, Working, Keyed
  <1>4. CASE StartStage(cur, worker, stage) /\ Goto(to)
    <2> DEFINE row == [item[cur] EXCEPT !.status = stage]
    <2>1. item[cur] \in ItemRow
      BY <1>2 DEF WorkerInv, JobsInv, JobsTypeOK
    <2>2. row.status = stage /\ row.owner = item[cur].owner
      BY <2>1 DEF ItemRow
    <2>3. /\ item' = With(cur, row) /\ key' = key /\ at' = to
          /\ item[cur].owner = worker
      BY <1>4 DEF StartStage, Goto, Holds
    <2> HIDE DEF row
    <2>4. item'[cur] = row /\ \A a \in Item \ {cur} : item'[a] = item[a]
      BY <1>2, <2>3 DEF With, WorkerInv, JobsInv, JobsTypeOK
    <2>5. ItemHeld'
      BY <1>1, <2>2, <2>3, <2>4 DEF ItemHeld, Holds, Active, Keyed
    <2>6. \A a \in Item : item'[a].status = "completed" =>
            key'[KeyOf[a]] = [status |-> "completed", owner |-> a]
      BY <1>2, <2>2, <2>3, <2>4, KeysKept
    <2>7. KeysWon'
      BY <1>1, <2>3, <2>6 DEF WorkerInv, KeysWon
    <2> QED BY <2>5, <2>7
  <1> QED BY <1>3, <1>4 DEF Stage

LEMMA EndTicketKeeps == WorkerInv /\ EndTicketOfItem => ItemHeld' /\ KeysWon'
  <1> SUFFICES ASSUME WorkerInv, EndTicketOfItem PROVE ItemHeld' /\ KeysWon'
    OBVIOUS
  <1>1. cur \in Item /\ worker \in Worker /\ UNCHANGED <<cur, worker>>
    BY InTheHand, ItemPlace DEF EndTicketOfItem, ItemNext, InHand, Working
  <1> DEFINE row == EndTicket(item[cur])
  <1>2. item[cur] \in ItemRow
    BY <1>1 DEF WorkerInv, JobsInv, JobsTypeOK
  <1>3. row.status = item[cur].status /\ row.owner = item[cur].owner
    BY <1>2 DEF ItemRow, EndTicket
  <1>4. /\ item' = With(cur, row) /\ key' = key /\ at = "parse" /\ at' = "parsed"
        /\ Holds(cur, worker)
    BY DEF EndTicketOfItem, MarkExternalParseTerminal, Goto
  <1> HIDE DEF row
  <1>5. item'[cur] = row /\ \A a \in Item \ {cur} : item'[a] = item[a]
    BY <1>1, <1>4 DEF With, WorkerInv, JobsInv, JobsTypeOK
  <1>6. ItemHeld'
    BY <1>1, <1>3, <1>4, <1>5 DEF ItemHeld, Holds
  <1>7. \A a \in Item : item'[a].status = item[a].status
    BY <1>3, <1>5
  <1>8. KeysWon'
    BY <1>1, <1>4, <1>7 DEF WorkerInv, KeysWon, Keyed
  <1> QED BY <1>6, <1>8

\* The worker lets its item go: what remains is that an item is completed with its key.
LEMMA LetGoKeeps ==
  ASSUME WorkerInv, cur \in Item, cur' = cur, at' = "ack",
         NEW row \in ItemRow, RefreshItem(cur, row),
         \A k \in Key : key[k].owner # cur => key'[k] = key[k],
         row.status = "completed" => key'[KeyOf[cur]] = [status |-> "completed", owner |-> cur]
  PROVE  ItemHeld' /\ KeysWon'
  <1>1. item'[cur] = row /\ \A a \in Item \ {cur} : item'[a] = item[a]
    BY WorkerFacts DEF WorkerInv
  <1>2. \A a \in Item : item'[a].status = "completed" =>
          key'[KeyOf[a]] = [status |-> "completed", owner |-> a]
    BY <1>1, KeysKept
  <1> QED BY <1>2 DEF ItemHeld, KeysWon, Working, Keyed

LEMMA EndKeeps == WorkerInv /\ (CancelItem \/ Skip \/ Defer \/ Finish \/ Fail) => ItemHeld' /\ KeysWon'
  <1> SUFFICES ASSUME WorkerInv, CancelItem \/ Skip \/ Defer \/ Finish \/ Fail
               PROVE  ItemHeld' /\ KeysWon'
    OBVIOUS
  <1>1. at' = "ack" /\ at \in Working
    BY DEF CancelItem, Skip, Defer, Finish, Fail, Goto, Working
  <1>2. cur \in Item /\ JobsInv
    BY <1>1, InTheHand DEF InHand, WorkerInv
  <1>3. cur' = cur
    BY DEF CancelItem, Skip, Defer, Finish, Fail, Goto
  <1>4. \A status \in Waiting \union Final :
          LET row == Freed(item[cur], status) IN
          /\ row \in ItemRow /\ row.status = status
          /\ EndTicket(row) \in ItemRow /\ EndTicket(row).status = status
          /\ [row EXCEPT !.ticket = "active"] \in ItemRow
          /\ [row EXCEPT !.ticket = "active"].status = status
    BY <1>2, RowTypes
  <1>5. {"cancelled", "skipped", "completed", "dead_letter"} \subseteq Waiting \union Final
        /\ {"external_wait", "retry_wait"} \subseteq Waiting \union Final
    BY DEF Waiting, Final
  <1>6. \A status \in {"failed"} : SettleKey(cur, status) =>
          \A k \in Key : key[k].owner # cur => key'[k] = key[k]
    BY <1>2, SettleFacts
  <1>7. CASE CancelItem
    <2> DEFINE row == EndTicket(Freed(item[cur], "cancelled"))
    <2>1. RefreshItem(cur, row) /\ key' = key
      BY <1>7 DEF CancelItem, CancelClaimedItem
    <2>2. row \in ItemRow /\ row.status = "cancelled"
      BY <1>4, <1>5
    <2> HIDE DEF row
    <2> QED BY <1>1, <1>2, <1>3, <2>1, <2>2, LetGoKeeps
  <1>8. CASE Skip
    <2> DEFINE row == Freed(item[cur], "skipped")
    <2>1. RefreshItem(cur, row) /\ key' = key
      BY <1>8 DEF Skip, SkipItem
    <2>2. row \in ItemRow /\ row.status = "skipped"
      BY <1>4, <1>5
    <2> HIDE DEF row
    <2> QED BY <1>1, <1>2, <1>3, <2>1, <2>2, LetGoKeeps
  <1>9. CASE Defer
    <2> DEFINE row == [Freed(item[cur], "external_wait") EXCEPT !.ticket = "active"]
    <2>1. RefreshItem(cur, row) /\ key' = key
      BY <1>9 DEF Defer, DeferExternalParse
    <2>2. row \in ItemRow /\ row.status = "external_wait"
      BY <1>4, <1>5
    <2> HIDE DEF row
    <2> QED BY <1>1, <1>2, <1>3, <2>1, <2>2, LetGoKeeps
  <1>10. CASE Finish
    <2> DEFINE row == Freed(item[cur], "completed")
    <2>1. RefreshItem(cur, row) /\ SettleKey(cur, "completed") /\ at = "apply"
      BY <1>10 DEF Finish, CompleteItem
    <2>2. row \in ItemRow /\ row.status = "completed"
      BY <1>4, <1>5
    <2>3. key[KeyOf[cur]].owner = cur
      BY <2>1 DEF WorkerInv, KeysWon, Keyed
    <2>4. /\ \A k \in Key : key[k].owner # cur => key'[k] = key[k]
          /\ key'[KeyOf[cur]] = [status |-> "completed", owner |-> cur]
      BY <1>2, <2>1, <2>3, SettleFacts
    <2> HIDE DEF row
    <2> QED BY <1>1, <1>2, <1>3, <2>1, <2>2, <2>4, LetGoKeeps
  <1>11. CASE Fail
    <2>1. FailItem(cur, worker, at = "fail")
      BY <1>11 DEF Fail
    <2> DEFINE ended(status) == EndTicket(Freed(item[cur], status))
               waiting == Freed(item[cur], "retry_wait")
    <2>2. \/ RefreshItem(cur, ended("cancelled")) /\ SettleKey(cur, "failed")
          \/ RefreshItem(cur, waiting) /\ key' = key
          \/ RefreshItem(cur, ended("dead_letter")) /\ SettleKey(cur, "failed")
      BY <2>1 DEF FailItem
    <2>3. /\ waiting \in ItemRow /\ waiting.status = "retry_wait"
          /\ ended("cancelled") \in ItemRow /\ ended("cancelled").status = "cancelled"
          /\ ended("dead_letter") \in ItemRow /\ ended("dead_letter").status = "dead_letter"
      BY <1>4, <1>5
    <2> HIDE DEF ended, waiting
    <2>4. PICK row \in {waiting, ended("cancelled"), ended("dead_letter")} :
            RefreshItem(cur, row) /\ (key' = key \/ SettleKey(cur, "failed"))
      BY <2>2
    <2> QED BY <1>1, <1>2, <1>3, <1>6, <2>3, <2>4, LetGoKeeps
  <1> QED BY <1>7, <1>8, <1>9, <1>10, <1>11

LEMMA ItemKeeps == WorkerInv /\ ItemNext => ItemHeld' /\ KeysWon'
  <1>1. ASSUME WorkerInv, Retract \/ Parse \/ Understand \/ Apply PROVE ItemHeld' /\ KeysWon'
    BY <1>1, StageKeeps DEF Retract, Parse, Understand, Apply, Keyed
  <1> QED BY <1>1, ClaimKeeps, TakeKeyKeeps, EndTicketKeeps, EndKeeps DEF ItemNext

------------------------------------------------------------------------------
(* Recovery, requests and time *)

\* The worker looks for expired leases between two items.
LEMMA ReconcileKeeps == WorkerInv /\ Reconcile => PlaceKnown' /\ ItemHeld' /\ KeysWon' /\ QueueKnown'
  <1> SUFFICES ASSUME WorkerInv, Reconcile
               PROVE  PlaceKnown' /\ ItemHeld' /\ KeysWon' /\ QueueKnown'
    OBVIOUS
  <1>1. /\ at = "reconcile" /\ at' = "enqueue" /\ RecoverExpiredLeases
        /\ UNCHANGED <<up, worker, cur, troubles, stream, marker, publishing>>
    BY DEF Reconcile, Goto
  <1>2. PlaceKnown'
    BY <1>1 DEF WorkerInv, PlaceKnown, InHand, Working, Place
  <1>3. ItemHeld'
    BY <1>1 DEF ItemHeld, Working
  <1>4. KeysWon'
    <2>1. /\ key' = key
          /\ \A i \in Item : item'[i].status = "completed" => item[i].status = "completed"
      BY <1>1, RecoveryFacts DEF WorkerInv
    <2>2. \A a \in Item : item[a].status = "completed" =>
            key[KeyOf[a]] = [status |-> "completed", owner |-> a]
      BY DEF WorkerInv, KeysWon
    <2>3. \A a \in Item : item'[a].status = "completed" =>
            key'[KeyOf[a]] = [status |-> "completed", owner |-> a]
      BY <2>1, <2>2
    <2> QED BY <1>1, <2>3 DEF KeysWon, Keyed
  <1>5. QueueKnown'
    <2>1. /\ stream \in [Item -> Nat] /\ unacked \in [Item -> Nat] /\ recovered \in [Item -> Nat]
          /\ marker \in [Item -> BOOLEAN] /\ publishing \subseteq Item
      BY DEF WorkerInv, QueueKnown
    <2>2. CASE UNCHANGED <<recovered, unacked>>
      BY <1>1, <2>1, <2>2, SameQueue DEF queueVars
    <2>3. CASE /\ \A i \in Item : recovered[i] = 0
               /\ recovered' = unacked /\ unacked' = [i \in Item |-> 0]
      <3>1. /\ stream' \in [Item -> Nat] /\ unacked' \in [Item -> Nat] /\ recovered' \in [Item -> Nat]
            /\ marker' \in [Item -> BOOLEAN] /\ publishing' \subseteq Item
        BY <1>1, <2>1, <2>3
      <3>2. ASSUME NEW k \in Item
            PROVE  LET n == stream'[k] + unacked'[k] + recovered'[k] + (IF cur' = k THEN 1 ELSE 0) IN
                   Bounded(marker'[k], n, troubles')
        BY <1>1, <2>3, Counts
      <3> QED BY <3>1, <3>2, QueueChecked
    <2> QED BY <2>2, <2>3 DEF Reconcile
  <1> QED BY <1>2, <1>3, <1>4, <1>5

\* A request takes no item out of the worker's hands.
LEMMA RequestKeeps == WorkerInv /\ RequestNext => PlaceKnown' /\ ItemHeld' /\ KeysWon' /\ QueueKnown'
  <1> SUFFICES ASSUME WorkerInv, RequestNext
               PROVE  PlaceKnown' /\ ItemHeld' /\ KeysWon' /\ QueueKnown'
    OBVIOUS
  <1>1. /\ UNCHANGED <<up, worker, at, cur, stream, unacked, recovered, marker>>
        /\ publishing' \subseteq Item
        /\ \/ troubles' = troubles
           \/ troubles < MaxTroubles /\ troubles' = troubles + 1
    BY DEF RequestNext, PreviewSync, StartBatch, Cancel, Retry, Trouble, queueVars, workerVars,
           WorkerInv, QueueKnown
  <1>2. PlaceKnown'
    <2>1. PlaceKnown /\ MaxTroubles \in Nat
      BY WorkerAssumption DEF WorkerInv
    <2>2. troubles' \in 0 .. MaxTroubles
      BY <1>1, <2>1 DEF PlaceKnown
    <2> QED BY <1>1, <2>1, <2>2 DEF PlaceKnown
  <1>3. /\ key' = key
        /\ \A i \in Item : item[i].status \in Active \union {"completed"} => item'[i] = item[i]
        /\ \A i \in Item : item'[i].status = "completed" => item[i].status = "completed"
        /\ \A i \in Item : item[i].status \in Active /\ Cancelled(i) => Cancelled(i)'
    <2>1. \/ \E j \in Job : CreateSyncPlan(j) \/ CreateJob(j) \/ CancelJob(j)
          \/ \E i \in Item : RetryItem(i)
      BY DEF RequestNext, PreviewSync, StartBatch, Cancel, Retry
    <2> QED BY <2>1, RequestFacts DEF WorkerInv
  <1>4. at \in Working => cur \in Item
    BY InTheHand DEF InHand
  <1>5. ItemHeld'
    BY <1>1, <1>3, <1>4 DEF WorkerInv, ItemHeld, Holds, Cancelled, Working
  <1>6. KeysWon'
    <2>1. \A a \in Item : item[a].status = "completed" =>
            key[KeyOf[a]] = [status |-> "completed", owner |-> a]
      BY DEF WorkerInv, KeysWon
    <2>2. \A a \in Item : item'[a].status = "completed" =>
            key'[KeyOf[a]] = [status |-> "completed", owner |-> a]
      BY <1>3, <2>1
    <2> QED BY <1>1, <1>3, <2>2 DEF WorkerInv, KeysWon
  <1>7. QueueKnown'
    BY <1>1, SameQueue
  <1> QED BY <1>2, <1>5, <1>6, <1>7

LEMMA TimeKeeps == WorkerInv /\ TimeNext => PlaceKnown' /\ ItemHeld' /\ KeysWon' /\ QueueKnown'
  <1> SUFFICES ASSUME WorkerInv, NEW i \in Item, Expires(i) \/ Overdue(i)
               PROVE  PlaceKnown' /\ ItemHeld' /\ KeysWon' /\ QueueKnown'
    BY DEF TimeNext
  <1>1. UNCHANGED <<job, key>> /\ UNCHANGED queueVars /\ UNCHANGED workerVars
    BY DEF Expires, Overdue, TimePasses, TicketExpires
  <1>2. item[i] \in ItemRow
    BY DEF WorkerInv, JobsInv, JobsTypeOK
  <1>3. /\ [item[i] EXCEPT !.due = TRUE].status = item[i].status
        /\ [item[i] EXCEPT !.due = TRUE].owner = item[i].owner
        /\ [item[i] EXCEPT !.ticket = "late"].status = item[i].status
        /\ [item[i] EXCEPT !.ticket = "late"].owner = item[i].owner
    BY <1>2 DEF ItemRow
  <1>4. \A a \in Item : item'[a].status = item[a].status /\ item'[a].owner = item[a].owner
    BY <1>3 DEF Expires, Overdue, TimePasses, TicketExpires, With, WorkerInv, JobsInv, JobsTypeOK
  <1>5. PlaceKnown' /\ QueueKnown'
    BY <1>1, SameQueue DEF WorkerInv, PlaceKnown, QueueKnown, workerVars, queueVars
  <1>6. at \in Working => cur \in Item
    BY InTheHand DEF InHand
  <1>7. ItemHeld'
    BY <1>1, <1>4, <1>6 DEF WorkerInv, ItemHeld, Holds, Cancelled, workerVars, Working
  <1>8. KeysWon'
    BY <1>1, <1>4 DEF WorkerInv, KeysWon, workerVars
  <1> QED BY <1>5, <1>7, <1>8

------------------------------------------------------------------------------
(* Theorems *)

LEMMA WorkerInit == Init => WorkerInv
  <1> SUFFICES ASSUME Init PROVE WorkerInv
    OBVIOUS
  <1>1. JobsInv
    BY InitInv DEF Init
  <1>2. PlaceKnown
    <2>1. /\ up = FALSE /\ worker = NoWorker /\ at = "down" /\ cur = NoItem
          /\ troubles = 0 /\ MaxTroubles \in Nat
      BY WorkerAssumption DEF Init
    <2>2. at \in Place /\ at \notin InHand /\ troubles \in 0 .. MaxTroubles
      BY <2>1 DEF Place, InHand, Working
    <2> QED BY <2>1, <2>2 DEF PlaceKnown
  <1>3. ItemHeld
    BY DEF Init, ItemHeld, Working
  <1>4. KeysWon
    BY DEF Init, JobsInit, KeysWon, Keyed
  <1>5. QueueKnown
    BY JobsAssumption DEF Init, QueueKnown, Marked, Messages, Bounded
  <1> QED BY <1>1, <1>2, <1>3, <1>4, <1>5 DEF WorkerInv

LEMMA WorkerNext == WorkerInv /\ [Next]_vars => WorkerInv'
  <1> SUFFICES ASSUME WorkerInv, [Next]_vars PROVE WorkerInv'
    OBVIOUS
  <1>1. JobsInv'
    BY TablesKept
  <1>2. CASE UNCHANGED vars
    <2>1. UNCHANGED <<queueVars, cur>> /\ UNCHANGED jobsVars /\ UNCHANGED workerVars
      BY <1>2 DEF vars, workerVars
    <2> QED BY <1>1, <2>1, SameQueue
            DEF WorkerInv, PlaceKnown, QueueKnown, ItemHeld, KeysWon, Holds, Cancelled, jobsVars,
                workerVars, queueVars
  <1>3. CASE Next
    <2>1. PlaceKnown' /\ ItemHeld' /\ KeysWon' /\ QueueKnown'
      BY <1>3, NextIs, QueueKept, QuietPlace, QuietKeeps, ItemPlace, ItemKeeps, ReconcileKeeps,
         RequestKeeps, TimeKeeps
    <2> QED BY <1>1, <2>1 DEF WorkerInv
  <1> QED BY <1>2, <1>3

LEMMA WorkerInvariant == Spec => []WorkerInv
  BY WorkerInit, WorkerNext, PTL DEF Spec

\* The variables keep their types; in particular an item has no more messages than one and
\* the troubles so far: only a marker that expires before its message lets one be published
\* beside another.
THEOREM WorkerTypeCorrect == Spec => []TypeOK
  <1>1. WorkerInv => TypeOK
    <2> SUFFICES ASSUME WorkerInv PROVE TypeOK
      OBVIOUS
    <2>1. ASSUME NEW i \in Item
          PROVE  /\ stream[i] \in MessageCount /\ unacked[i] \in MessageCount
                 /\ recovered[i] \in MessageCount /\ Messages(i) \in MessageCount
      <3>1. troubles \in Nat /\ troubles <= MaxTroubles /\ MaxTroubles \in Nat
        BY WorkerAssumption DEF WorkerInv, PlaceKnown
      <3> QED BY <3>1, Counts DEF Bounded, Messages, MessageCount
    <2>2. cur \in Item \union {NoItem}
      BY DEF WorkerInv, PlaceKnown
    <2> QED BY <2>1, <2>2 DEF WorkerInv, JobsInv, PlaceKnown, QueueKnown, TypeOK
  <1> QED BY <1>1, WorkerInvariant, PTL

\* Whatever users, retries, recovery and duplicate messages do, the item a worker
\* works on stays its own, so that none of its calls is refused for its lease.
THEOREM ItemsStayWithTheirWorker == Spec => []WorkerKeepsItem
  <1>1. WorkerInv => WorkerKeepsItem
    BY DEF WorkerInv, ItemHeld, WorkerKeepsItem
  <1> QED BY <1>1, WorkerInvariant, PTL

\* Of the items that share an idempotency key at most one is ever completed.
THEOREM RevisionsIngestedOnce == Spec => []IngestedOnce
  <1>1. WorkerInv => IngestedOnce
    <2> SUFFICES ASSUME WorkerInv, NEW a \in Item, NEW b \in Item, KeyOf[a] = KeyOf[b],
                        item[a].status = "completed", item[b].status = "completed"
                 PROVE  a = b
      BY DEF IngestedOnce
    <2>1. /\ key[KeyOf[a]] = [status |-> "completed", owner |-> a]
          /\ key[KeyOf[b]] = [status |-> "completed", owner |-> b]
      BY DEF WorkerInv, KeysWon
    <2> QED BY <2>1
  <1> QED BY <1>1, WorkerInvariant, PTL

\* A deduplication marker never outlives its message in the queue.
THEOREM MarkersStandForMessages == Spec => []MarkedIsQueued
  <1>1. WorkerInv => MarkedIsQueued
    <2> SUFFICES ASSUME WorkerInv, NEW i \in Item, marker[i] PROVE Messages(i) > 0
      BY DEF MarkedIsQueued
    <2> QED BY Counts DEF Bounded, Messages
  <1> QED BY <1>1, WorkerInvariant, PTL

\* The service makes no call that JobsSpec does not have.
THEOREM WorkerImplementsJobs == Spec => ImplementsJobs
  <1>1. Init => JobsInit
    BY DEF Init
  <1>2. WorkerInv /\ [Next]_vars => [UNCHANGED jobsVars \/ JobsNext]_vars
    BY EveryStepIsACall
  <1> QED BY <1>1, <1>2, WorkerInvariant, PTL DEF Spec, ImplementsJobs

\* Hence the service's jobs agree with their items and plans, and its source moves
\* one committed plan at a time.
THEOREM ServiceSettlesJobs == Spec => []JobsSettled /\ SyncsSerial
  <1>1. WorkerInv => JobsSettled
    BY DEF WorkerInv, JobsInv, JobInv, Settled, JobsSettled
  <1>2. WorkerInv /\ [Next]_vars => [MovesByPlan]_jobsVars
    BY TablesKept
  <1> QED BY <1>1, <1>2, WorkerInvariant, PTL DEF Spec, SyncsSerial
=============================================================================

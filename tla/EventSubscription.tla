-------------------------- MODULE EventSubscription --------------------------
(***************************************************************************)
(* RunCoordinator.subscribe: history first, then live events, over bounded *)
(* queues that drop their oldest event, in a process that is not the only  *)
(* one to write the journal.                                               *)
(*                                                                         *)
(* A row is its sequence number: SQLite numbers the rows of the journal    *)
(* without gaps and none is ever deleted, so the journal is 1 .. durable.  *)
(***************************************************************************)
EXTENDS Naturals, Sequences, FiniteSetsExt

CONSTANTS
  Subscriber,  \* the subscribe() generators of one coordinator
  QueueSize,   \* subscriber_queue_size
  PageSize,    \* limit of one replay page
  MaxRow       \* bound: rows of the journal

ASSUME SubscriptionAssumption ==
  /\ QueueSize \in Nat \ {0} /\ PageSize \in Nat \ {0} /\ MaxRow \in Nat

VARIABLES
  durable,        \* latest_sequence of the journal
  lock,           \* who holds _publish_lock
  stored,         \* the row the holder of the lock is about to broadcast
  lastBroadcast,  \* _last_broadcast_sequence
  at,             \* at[s]: where the generator is
  cursor,         \* cursor[s]: the last row yielded
  target,         \* target[s]: the row it catches up to (high_water, then target)
  page,           \* page[s]: rows read from the journal and not yet yielded
  queue           \* queue[s]: its queue of live events

vars == <<durable, lock, stored, lastBroadcast, at, cursor, target, page, queue>>
journal == <<durable, lock, stored, lastBroadcast>>

Position == {"closed", "opening", "replay", "live", "polling", "repair", "failed"}
Subscribers == {s \in Subscriber : at[s] \notin {"closed", "opening"}}   \* _subscribers

TypeOK ==
  /\ durable \in 0 .. MaxRow
  /\ lock \in {"free", "writer"} \union Subscriber
  /\ stored \in 0 .. MaxRow /\ lastBroadcast \in 0 .. MaxRow
  /\ at \in [Subscriber -> Position]
  /\ cursor \in [Subscriber -> 0 .. MaxRow]
  /\ target \in [Subscriber -> 0 .. MaxRow]
  /\ \A s \in Subscriber : page[s] \in Seq(1 .. MaxRow) /\ Len(page[s]) <= PageSize
  /\ \A s \in Subscriber : queue[s] \in Seq(1 .. MaxRow) /\ Len(queue[s]) <= QueueSize

Init ==
  /\ durable = 0 /\ lock = "free" /\ stored = 0 /\ lastBroadcast = 0
  /\ at = [s \in Subscriber |-> "closed"]
  /\ cursor = [s \in Subscriber |-> 0]
  /\ target = [s \in Subscriber |-> 0]
  /\ page = [s \in Subscriber |-> <<>>]
  /\ queue = [s \in Subscriber |-> <<>>]

------------------------------------------------------------------------------
(* Writers *)

\* Another process, a thread nobody waits for, or a route that bypasses the
\* coordinator: committed without any broadcast here.
WriteElsewhere ==
  /\ durable < MaxRow
  /\ durable' = durable + 1
  /\ UNCHANGED <<lock, stored, lastBroadcast, at, cursor, target, page, queue>>

\* _persist, up to the commit: a new row, or the terminal row that the run
\* already has, whose number is an old one.
Persist ==
  /\ lock = "free"
  /\ \/ durable < MaxRow /\ durable' = durable + 1 /\ stored' = durable + 1
     \/ stored' \in 1 .. durable /\ UNCHANGED durable
  /\ lock' = "writer"
  /\ UNCHANGED <<lastBroadcast, at, cursor, target, page, queue>>

\* Mutant of Push: a full queue does not drop its oldest event.
Push_Unbounded(q, row) == Append(q, row)

Push(q, row) == Append(IF Len(q) = QueueSize THEN Tail(q) ELSE q, row)

\* _broadcast, once the observer has been served.
Broadcast ==
  /\ lock = "writer"
  /\ lock' = "free" /\ stored' = 0
  /\ IF stored <= lastBroadcast
       THEN UNCHANGED <<lastBroadcast, queue>>
       ELSE /\ lastBroadcast' = stored
            /\ queue' = [s \in Subscriber |->
                 IF s \in Subscribers THEN Push(queue[s], stored) ELSE queue[s]]
  /\ UNCHANGED <<durable, at, cursor, target, page>>

\* The task that persisted the row is cancelled before it broadcasts it.
BroadcastLost ==
  /\ lock = "writer"
  /\ lock' = "free" /\ stored' = 0
  /\ UNCHANGED <<durable, lastBroadcast, at, cursor, target, page, queue>>

------------------------------------------------------------------------------
(* subscribe(after) *)

Goto(s, where) == at' = [at EXCEPT ![s] = where]

\* Under the lock the high water is read ...
Subscribe(s, after) ==
  /\ at[s] = "closed" /\ lock = "free"
  /\ lock' = s
  /\ Goto(s, "opening")
  /\ cursor' = [cursor EXCEPT ![s] = after]
  /\ target' = [target EXCEPT ![s] = durable]
  /\ UNCHANGED <<durable, stored, lastBroadcast, page, queue>>

\* ... and then the queue registered.
Register(s) ==
  /\ at[s] = "opening"
  /\ lock' = "free"
  /\ Goto(s, "replay")
  /\ UNCHANGED <<durable, stored, lastBroadcast, cursor, target, page, queue>>

\* Mutant of Replay: the target itself is left out.
Replay_Exclusive(after, upto) ==
  [i \in 1 .. Min({PageSize, durable - after, upto - after - 1}) |-> after + i]

\* journal.replay(after) without the rows beyond the target
Replay(after, upto) ==
  [i \in 1 .. Min({PageSize, durable - after, upto - after}) |-> after + i]

\* Both loops that catch up: history up to high_water, a gap up to target.
CatchUp(s) ==
  /\ at[s] \in {"replay", "repair"} /\ page[s] = <<>>
  /\ IF cursor[s] >= target[s]
       THEN Goto(s, "live") /\ UNCHANGED page
       ELSE LET items == Replay(cursor[s], target[s]) IN
            /\ page' = [page EXCEPT ![s] = items]
            /\ IF items # <<>>
                 THEN UNCHANGED at
                 ELSE Goto(s, IF at[s] = "replay" THEN "live" ELSE "failed")
  /\ UNCHANGED <<journal, cursor, target, queue>>

YieldRow(s) ==
  /\ page[s] # <<>>
  /\ cursor' = [cursor EXCEPT ![s] = Head(page[s])]
  /\ page' = [page EXCEPT ![s] = Tail(@)]
  /\ UNCHANGED <<journal, at, target, queue>>

\* Mutant of Receive: gaps are not noticed.
Receive_Gaps(s) ==
  /\ at[s] = "live" /\ queue[s] # <<>>
  /\ queue' = [queue EXCEPT ![s] = Tail(@)]
  /\ LET row == Head(queue[s]) IN
     \/ row <= cursor[s] /\ UNCHANGED cursor
     \/ row > cursor[s] /\ cursor' = [cursor EXCEPT ![s] = row]
  /\ UNCHANGED <<journal, at, target, page>>

\* A live event: seen already, the next one, or one that reveals a gap.
Receive(s) ==
  /\ at[s] = "live" /\ queue[s] # <<>>
  /\ queue' = [queue EXCEPT ![s] = Tail(@)]
  /\ LET row == Head(queue[s]) IN
     \/ row <= cursor[s] /\ UNCHANGED <<at, cursor, target>>
     \/ /\ row = cursor[s] + 1
        /\ cursor' = [cursor EXCEPT ![s] = row]
        /\ UNCHANGED <<at, target>>
     \/ /\ row > cursor[s] + 1
        /\ target' = [target EXCEPT ![s] = row]
        /\ Goto(s, "repair")
        /\ UNCHANGED cursor
  /\ UNCHANGED <<journal, page>>

\* No event for poll_interval_seconds: look whether the journal has more.
Timeout(s) ==
  /\ at[s] = "live" /\ queue[s] = <<>>
  /\ Goto(s, "polling")
  /\ UNCHANGED <<journal, cursor, target, page, queue>>

Poll(s) ==
  /\ at[s] = "polling"
  /\ IF durable <= cursor[s]
       THEN Goto(s, "live") /\ UNCHANGED target
       ELSE Goto(s, "repair") /\ target' = [target EXCEPT ![s] = durable]
  /\ UNCHANGED <<journal, cursor, page, queue>>

\* The consumer closes the generator, wherever it is.
Unsubscribe(s) ==
  /\ at[s] # "closed"
  /\ lock' = IF at[s] = "opening" THEN "free" ELSE lock
  /\ Goto(s, "closed")
  /\ page' = [page EXCEPT ![s] = <<>>]
  /\ queue' = [queue EXCEPT ![s] = <<>>]
  /\ UNCHANGED <<durable, stored, lastBroadcast, cursor, target>>

------------------------------------------------------------------------------

Step(s) == Register(s) \/ CatchUp(s) \/ YieldRow(s) \/ Receive(s) \/ Timeout(s) \/ Poll(s)

Next ==
  \/ WriteElsewhere \/ Persist \/ Broadcast \/ BroadcastLost
  \/ \E s \in Subscriber :
       Step(s) \/ Unsubscribe(s) \/ \E after \in 0 .. MaxRow : Subscribe(s, after)

\* A generator whose consumer goes on asking goes on.  Nothing is asked of the
\* writers: no broadcast need ever happen.
Spec == Init /\ [][Next]_vars /\ \A s \in Subscriber : WF_vars(Step(s))

------------------------------------------------------------------------------
(* Properties *)

\* A row announced by a live event or by a poll is in the journal: the repair of
\* a gap never finds the journal short ("journal sequence gap could not be
\* repaired").
GapsRepairable == \A s \in Subscriber : at[s] # "failed"

\* Dropped and lost events, foreign rows and late terminals notwithstanding, each
\* subscriber sees every row from where it starts, in order, once, for ever.
Feed == INSTANCE EventFeed
          WITH rows <- durable, seen <- cursor, open <- {s \in Subscriber : at[s] # "closed"}

ImplementsFeed == Feed!FeedSpec
=============================================================================

------------------------ MODULE EventSubscriptionProofs ------------------------
(***************************************************************************)
(* Theorems about subscriptions, for any subscribers, queue and page sizes  *)
(* and any number of rows.                                                  *)
(***************************************************************************)
EXTENDS EventSubscription, Integers, SequenceTheorems, TLAPS

(* The inductive invariant: what is announced is in the journal, and a page  *)
(* continues where the subscriber is.                                        *)

CatchingUp == {"replay", "repair"}

\* Whatever a queue, the holder of the lock or a target announces has been committed.
Announced(s) ==
  /\ queue[s] \in Seq(1 .. durable) /\ Len(queue[s]) <= QueueSize
  /\ target[s] <= durable

\* A page holds the rows after the cursor, and is read out before anything else.
PageContinues(s) ==
  /\ page[s] \in Seq(1 .. durable) /\ Len(page[s]) <= PageSize
  /\ \A k \in 1 .. Len(page[s]) : page[s][k] = cursor[s] + k
  /\ page[s] # <<>> => at[s] \in CatchingUp

SubscriptionInv ==
  /\ TypeOK
  /\ stored <= durable
  /\ page \in [Subscriber -> Seq(Nat)] /\ queue \in [Subscriber -> Seq(Nat)]
  /\ \A s \in Subscriber : Announced(s) /\ PageContinues(s) /\ at[s] # "failed"

------------------------------------------------------------------------------
(* Sequences of row numbers *)

LEMMA MinOfThree ==
  ASSUME NEW a \in Int, NEW b \in Int, NEW c \in Int
  PROVE  LET m == Min({a, b, c}) IN m \in {a, b, c} /\ m <= a /\ m <= b /\ m <= c
  <1>1. \E x \in {a, b, c} : \A y \in {a, b, c} : x <= y
    <2>1. CASE a <= b /\ a <= c
      BY <2>1
    <2>2. CASE b <= a /\ b <= c
      BY <2>2
    <2>3. CASE c <= a /\ c <= b
      BY <2>3
    <2> QED BY <2>1, <2>2, <2>3
  <1> QED BY <1>1 DEF Min

LEMMA RowsStay ==
  ASSUME NEW n \in Nat, NEW m \in Nat, n <= m, NEW q \in Seq(1 .. n)
  PROVE  q \in Seq(1 .. m)
  OBVIOUS

\* A queue never outgrows its size.
LEMMA Pushed ==
  ASSUME NEW n \in Nat, NEW q \in Seq(1 .. n), Len(q) <= QueueSize, NEW row \in 1 .. n
  PROVE  Push(q, row) \in Seq(1 .. n) /\ Len(Push(q, row)) <= QueueSize
  <1>1. QueueSize \in Nat \ {0}
    BY SubscriptionAssumption
  <1>2. CASE Len(q) = QueueSize
    <2>1. q # <<>>
      BY <1>1, <1>2
    <2>2. Tail(q) \in Seq(1 .. n) /\ Len(Tail(q)) = QueueSize - 1
      BY <1>2, <2>1
    <2> QED BY <1>1, <1>2, <2>2 DEF Push
  <1>3. CASE Len(q) # QueueSize
    BY <1>1, <1>3 DEF Push
  <1> QED BY <1>2, <1>3

\* A page that is read while the target lies ahead is not empty.
LEMMA PageRead ==
  ASSUME SubscriptionInv, NEW s \in Subscriber, cursor[s] < target[s]
  PROVE  LET items == Replay(cursor[s], target[s]) IN
         /\ items \in Seq(1 .. durable) /\ items # <<>> /\ Len(items) <= PageSize
         /\ \A k \in 1 .. Len(items) : items[k] = cursor[s] + k
  <1> DEFINE n == Min({PageSize, durable - cursor[s], target[s] - cursor[s]})
  <1>1. /\ PageSize \in Nat \ {0} /\ durable \in Nat /\ cursor[s] \in Nat /\ target[s] \in Nat
        /\ target[s] <= durable
    BY SubscriptionAssumption DEF SubscriptionInv, TypeOK, Announced
  <1>2. /\ n \in {PageSize, durable - cursor[s], target[s] - cursor[s]}
        /\ n <= PageSize /\ n <= durable - cursor[s]
    <2> DEFINE b == durable - cursor[s]
               c == target[s] - cursor[s]
    <2>1. PageSize \in Int /\ b \in Int /\ c \in Int
      BY <1>1
    <2> HIDE DEF b, c
    <2>2. LET m == Min({PageSize, b, c}) IN m \in {PageSize, b, c} /\ m <= PageSize /\ m <= b
      BY <2>1, MinOfThree
    <2> QED BY <2>2 DEF b, c
  <1>3. Replay(cursor[s], target[s]) = [i \in 1 .. n |-> cursor[s] + i]
    BY DEF Replay
  <1> HIDE DEF n
  <1>4. n \in Nat /\ n > 0
    BY <1>1, <1>2
  <1> DEFINE items == [i \in 1 .. n |-> cursor[s] + i]
  <1>5. \A i \in 1 .. n : cursor[s] + i \in 1 .. durable
    BY <1>1, <1>2, <1>4
  <1>6. items \in Seq(1 .. durable) /\ Len(items) = n
    <2>1. items \in [1 .. n -> 1 .. durable]
      BY <1>5
    <2>2. items \in Seq(1 .. durable)
      BY <1>4, <2>1, SeqDef
    <2>3. DOMAIN items = 1 .. n
      BY <2>1
    <2> HIDE DEF items
    <2> QED BY <1>4, <2>2, <2>3, LenProperties
  <1>7. items # <<>>
    BY <1>4, <1>6
  <1>8. \A k \in 1 .. n : items[k] = cursor[s] + k
    OBVIOUS
  <1> HIDE DEF items
  <1> QED BY <1>2, <1>3, <1>6, <1>7, <1>8 DEF items

------------------------------------------------------------------------------
(* Writers *)

\* Rows that are added to the journal take nothing back.
LEMMA JournalGrows ==
  ASSUME SubscriptionInv, durable' \in {durable, durable + 1}, durable' <= MaxRow,
         stored' \in 0 .. durable', lastBroadcast' = lastBroadcast,
         lock' \in {"free", "writer"} \union Subscriber,
         UNCHANGED <<at, cursor, target, page, queue>>
  PROVE  SubscriptionInv'
  <1>1. durable \in Nat /\ durable' \in Nat /\ durable <= durable' /\ MaxRow \in Nat
    BY SubscriptionAssumption DEF SubscriptionInv, TypeOK
  <1>2. ASSUME NEW s \in Subscriber
        PROVE  Announced(s)' /\ PageContinues(s)' /\ at'[s] # "failed"
    <2>1. Announced(s) /\ PageContinues(s) /\ at[s] # "failed" /\ target[s] \in Nat
      BY DEF SubscriptionInv, TypeOK
    <2>2. queue[s] \in Seq(1 .. durable') /\ page[s] \in Seq(1 .. durable')
      BY <1>1, <2>1, RowsStay DEF Announced, PageContinues
    <2>3. target[s] <= durable'
      BY <1>1, <2>1 DEF Announced
    <2> QED BY <2>1, <2>2, <2>3 DEF Announced, PageContinues
  <1>3. TypeOK'
    BY <1>1 DEF SubscriptionInv, TypeOK
  <1>4. (page \in [Subscriber -> Seq(Nat)] /\ queue \in [Subscriber -> Seq(Nat)])'
    BY DEF SubscriptionInv
  <1> QED BY <1>1, <1>2, <1>3, <1>4 DEF SubscriptionInv

LEMMA WritersKeep ==
  ASSUME SubscriptionInv, WriteElsewhere \/ Persist \/ BroadcastLost
  PROVE  SubscriptionInv'
  <1>1. durable \in 0 .. MaxRow /\ stored \in 0 .. durable /\ MaxRow \in Nat
    BY SubscriptionAssumption DEF SubscriptionInv, TypeOK
  <1>2. lock \in {"free", "writer"} \union Subscriber
    BY DEF SubscriptionInv, TypeOK
  <1>3. /\ durable' \in {durable, durable + 1} /\ durable' <= MaxRow
        /\ stored' \in 0 .. durable' /\ lastBroadcast' = lastBroadcast
        /\ lock' \in {"free", "writer"} \union Subscriber
        /\ UNCHANGED <<at, cursor, target, page, queue>>
    BY <1>1, <1>2 DEF WriteElsewhere, Persist, BroadcastLost
  <1> QED BY <1>3, JournalGrows

LEMMA BroadcastKeeps ==
  ASSUME SubscriptionInv, Broadcast
  PROVE  SubscriptionInv'
  <1>1. durable \in Nat /\ stored \in 0 .. durable /\ lastBroadcast \in 0 .. MaxRow
        /\ durable <= MaxRow /\ MaxRow \in Nat
    BY SubscriptionAssumption DEF SubscriptionInv, TypeOK
  <1>2. CASE stored <= lastBroadcast
    <2>1. UNCHANGED <<durable, lastBroadcast, at, cursor, target, page, queue>>
          /\ stored' = 0 /\ lock' = "free"
      BY <1>2 DEF Broadcast
    <2> QED BY <1>1, <2>1, JournalGrows
  <1>3. CASE ~(stored <= lastBroadcast)
    <2>1. /\ stored' = 0 /\ lock' = "free" /\ lastBroadcast' = stored
          /\ UNCHANGED <<durable, at, cursor, target, page>>
          /\ queue' = [s \in Subscriber |->
                IF s \in Subscribers THEN Push(queue[s], stored) ELSE queue[s]]
      BY <1>3 DEF Broadcast
    <2>2. stored \in 1 .. durable
      BY <1>1, <1>3
    <2>3. ASSUME NEW s \in Subscriber
          PROVE  queue'[s] \in Seq(1 .. durable) /\ Len(queue'[s]) <= QueueSize
      <3>1. queue[s] \in Seq(1 .. durable) /\ Len(queue[s]) <= QueueSize
        BY DEF SubscriptionInv, Announced
      <3>2. Push(queue[s], stored) \in Seq(1 .. durable) /\ Len(Push(queue[s], stored)) <= QueueSize
        BY <1>1, <2>2, <3>1, Pushed
      <3> QED BY <2>1, <3>1, <3>2
    <2>4. queue' \in [Subscriber -> Seq(Nat)]
      <3>1. ASSUME NEW s \in Subscriber PROVE queue'[s] \in Seq(Nat)
        BY <1>1, <2>3, SeqMonotonic
      <3> QED BY <2>1, <3>1
    <2>5. ASSUME NEW s \in Subscriber
          PROVE  /\ Announced(s)' /\ PageContinues(s)' /\ at'[s] # "failed"
                 /\ queue'[s] \in Seq(1 .. MaxRow)
      BY <1>1, <2>1, <2>3, RowsStay DEF SubscriptionInv, Announced, PageContinues
    <2>6. TypeOK'
      BY <1>1, <2>1, <2>2, <2>3, <2>5 DEF SubscriptionInv, TypeOK
    <2> QED BY <1>1, <2>1, <2>4, <2>5, <2>6 DEF SubscriptionInv
  <1> QED BY <1>2, <1>3

------------------------------------------------------------------------------
(* Subscribers *)

\* A step of one subscriber leaves the others and the journal alone.
OnlyMoves(s) ==
  /\ UNCHANGED <<durable, stored, lastBroadcast>>
  /\ lock' \in {"free", "writer"} \union Subscriber
  /\ at' = [at EXCEPT ![s] = at'[s]] /\ cursor' = [cursor EXCEPT ![s] = cursor'[s]]
  /\ target' = [target EXCEPT ![s] = target'[s]]
  /\ page' = [page EXCEPT ![s] = page'[s]] /\ queue' = [queue EXCEPT ![s] = queue'[s]]

LEMMA OneMoves ==
  ASSUME SubscriptionInv, NEW s \in Subscriber, OnlyMoves(s),
         at'[s] \in Position \ {"failed"},
         cursor'[s] \in 0 .. MaxRow, target'[s] \in 0 .. durable,
         page'[s] \in Seq(1 .. durable), Len(page'[s]) <= PageSize,
         \A k \in 1 .. Len(page'[s]) : page'[s][k] = cursor'[s] + k,
         page'[s] # <<>> => at'[s] \in CatchingUp,
         queue'[s] \in Seq(1 .. durable), Len(queue'[s]) <= QueueSize
  PROVE  SubscriptionInv'
  <1>1. durable \in Nat /\ durable <= MaxRow /\ MaxRow \in Nat /\ durable' = durable
    BY SubscriptionAssumption DEF SubscriptionInv, TypeOK, OnlyMoves
  <1>2. /\ at \in [Subscriber -> Position] /\ cursor \in [Subscriber -> 0 .. MaxRow]
        /\ target \in [Subscriber -> 0 .. MaxRow]
        /\ page \in [Subscriber -> Seq(Nat)] /\ queue \in [Subscriber -> Seq(Nat)]
    BY DEF SubscriptionInv, TypeOK
  <1>3. page'[s] \in Seq(Nat) /\ queue'[s] \in Seq(Nat) /\ target'[s] \in 0 .. MaxRow
    BY <1>1, SeqMonotonic
  <1>4. /\ at' \in [Subscriber -> Position] /\ cursor' \in [Subscriber -> 0 .. MaxRow]
        /\ target' \in [Subscriber -> 0 .. MaxRow]
        /\ page' \in [Subscriber -> Seq(Nat)] /\ queue' \in [Subscriber -> Seq(Nat)]
    BY <1>2, <1>3 DEF OnlyMoves
  <1>5. ASSUME NEW a \in Subscriber
        PROVE  Announced(a)' /\ PageContinues(a)' /\ at'[a] # "failed"
    <2>1. CASE a = s
      BY <1>1, <2>1 DEF Announced, PageContinues
    <2>2. CASE a # s
      <3>1. /\ at'[a] = at[a] /\ cursor'[a] = cursor[a] /\ target'[a] = target[a]
            /\ page'[a] = page[a] /\ queue'[a] = queue[a]
        BY <1>2, <2>2 DEF OnlyMoves
      <3> QED BY <1>1, <3>1 DEF SubscriptionInv, Announced, PageContinues
    <2> QED BY <2>1, <2>2
  <1>6. \A a \in Subscriber : page'[a] \in Seq(1 .. MaxRow) /\ queue'[a] \in Seq(1 .. MaxRow)
    <2> TAKE a \in Subscriber
    <2>1. page'[a] \in Seq(1 .. durable) /\ queue'[a] \in Seq(1 .. durable)
      BY <1>1, <1>5 DEF Announced, PageContinues
    <2> QED BY <1>1, <2>1, RowsStay
  <1>7. TypeOK'
    BY <1>4, <1>5, <1>6 DEF SubscriptionInv, TypeOK, Announced, PageContinues, OnlyMoves
  <1> QED BY <1>1, <1>4, <1>5, <1>7 DEF SubscriptionInv, OnlyMoves

\* What is known of a subscriber.
LEMMA SubscriberFacts ==
  ASSUME SubscriptionInv, NEW s \in Subscriber
  PROVE  /\ durable \in Nat /\ durable <= MaxRow /\ MaxRow \in Nat
         /\ at[s] \in Position /\ at[s] # "failed"
         /\ cursor[s] \in 0 .. MaxRow /\ target[s] \in 0 .. durable
         /\ page[s] \in Seq(1 .. durable) /\ Len(page[s]) <= PageSize
         /\ \A k \in 1 .. Len(page[s]) : page[s][k] = cursor[s] + k
         /\ page[s] # <<>> => at[s] \in CatchingUp
         /\ queue[s] \in Seq(1 .. durable) /\ Len(queue[s]) <= QueueSize
         /\ lock \in {"free", "writer"} \union Subscriber
  BY SubscriptionAssumption DEF SubscriptionInv, TypeOK, Announced, PageContinues

LEMMA FunctionTypes ==
  ASSUME SubscriptionInv
  PROVE  /\ at \in [Subscriber -> Position] /\ cursor \in [Subscriber -> 0 .. MaxRow]
         /\ target \in [Subscriber -> 0 .. MaxRow]
         /\ page \in [Subscriber -> Seq(Nat)] /\ queue \in [Subscriber -> Seq(Nat)]
         /\ lock \in {"free", "writer"} \union Subscriber
  BY DEF SubscriptionInv, TypeOK

\* Every step of a subscriber moves only that one.
LEMMA StepsMoveOne ==
  ASSUME SubscriptionInv, NEW s \in Subscriber,
         Step(s) \/ Unsubscribe(s) \/ \E after \in 0 .. MaxRow : Subscribe(s, after)
  PROVE  OnlyMoves(s)
  <1> USE FunctionTypes
  <1>1. CASE \E after \in 0 .. MaxRow : Subscribe(s, after)
    BY <1>1 DEF Subscribe, Goto, OnlyMoves
  <1>2. CASE Register(s) \/ Timeout(s)
    BY <1>2 DEF Register, Timeout, Goto, OnlyMoves, journal
  <1>3. CASE CatchUp(s)
    <2>1. UNCHANGED journal /\ UNCHANGED <<cursor, target, queue>>
      BY <1>3 DEF CatchUp
    <2> DEFINE items == Replay(cursor[s], target[s])
    <2>2. \/ at' = at
          \/ at' = [at EXCEPT ![s] = "live"]
          \/ at' = [at EXCEPT ![s] = "failed"]
      BY <1>3 DEF CatchUp, Goto
    <2>3. page' = page \/ page' = [page EXCEPT ![s] = items]
      BY <1>3 DEF CatchUp
    <2> HIDE DEF items
    <2> QED BY <2>1, <2>2, <2>3 DEF OnlyMoves, journal
  <1>4. CASE YieldRow(s)
    BY <1>4 DEF YieldRow, OnlyMoves, journal
  <1>5. CASE Receive(s)
    BY <1>5 DEF Receive, Goto, OnlyMoves, journal
  <1>6. CASE Poll(s)
    BY <1>6 DEF Poll, Goto, OnlyMoves, journal
  <1>7. CASE Unsubscribe(s)
    BY <1>7 DEF Unsubscribe, Goto, OnlyMoves
  <1> QED BY <1>1, <1>2, <1>3, <1>4, <1>5, <1>6, <1>7 DEF Step

LEMMA NothingHeld ==
  /\ \A n \in Nat : <<>> \in Seq(1 .. n)
  /\ Len(<<>>) <= PageSize /\ Len(<<>>) <= QueueSize
  BY SubscriptionAssumption

LEMMA OpeningKeeps ==
  ASSUME SubscriptionInv, NEW s \in Subscriber, NEW after \in 0 .. MaxRow,
         Subscribe(s, after) \/ Register(s)
  PROVE  SubscriptionInv'
  <1>1. OnlyMoves(s) /\ page[s] = <<>> /\ UNCHANGED <<page, queue>>
    BY StepsMoveOne, SubscriberFacts DEF Subscribe, Register, Step, CatchingUp
  <1>2. /\ at'[s] \in {"opening", "replay"}
        /\ cursor'[s] \in {after, cursor[s]} /\ target'[s] \in {durable, target[s]}
    BY FunctionTypes DEF Subscribe, Register, Goto
  <1>3. at'[s] \in Position \ {"failed"}
    BY <1>2 DEF Position
  <1>4. cursor'[s] \in 0 .. MaxRow /\ target'[s] \in 0 .. durable
    BY <1>2, SubscriberFacts
  <1>5. \A k \in 1 .. Len(page'[s]) : FALSE
    BY <1>1, EmptySeq
  <1> QED BY <1>1, <1>3, <1>4, <1>5, SubscriberFacts, OneMoves

LEMMA CatchUpKeeps ==
  ASSUME SubscriptionInv, NEW s \in Subscriber, CatchUp(s)
  PROVE  SubscriptionInv' /\ UNCHANGED <<durable, cursor>> /\ at[s] # "closed" /\ at'[s] # "closed"
  <1> DEFINE items == Replay(cursor[s], target[s])
  <1>1. at[s] \in CatchingUp /\ page[s] = <<>> /\ {"live"} \union CatchingUp \subseteq Position \ {"failed"}
    BY DEF CatchUp, CatchingUp, Position
  <1>2. UNCHANGED journal /\ UNCHANGED <<cursor, target, queue>> /\ OnlyMoves(s)
    BY StepsMoveOne DEF CatchUp, Step
  <1>3. CASE cursor[s] >= target[s]
    <2>1. at'[s] = "live" /\ page' = page
      BY <1>3, FunctionTypes DEF CatchUp, Goto
    <2> QED BY <1>1, <1>2, <2>1, SubscriberFacts, OneMoves DEF journal, CatchingUp
  <1>4. CASE ~(cursor[s] >= target[s])
    <2>1. cursor[s] < target[s]
      BY <1>4, SubscriberFacts
    <2>2. /\ items \in Seq(1 .. durable) /\ items # <<>> /\ Len(items) <= PageSize
          /\ \A k \in 1 .. Len(items) : items[k] = cursor[s] + k
      BY <2>1, PageRead
    <2>3. page' = [page EXCEPT ![s] = items] /\ (items # <<>> => UNCHANGED at)
      BY <1>4 DEF CatchUp
    <2> HIDE DEF items
    <2>4. page'[s] = items /\ at' = at
      BY <2>2, <2>3, FunctionTypes
    <2> QED BY <1>1, <1>2, <2>2, <2>4, SubscriberFacts, OneMoves DEF journal, CatchingUp
  <1> QED BY <1>3, <1>4

LEMMA HeadAndTail ==
  ASSUME NEW n \in Nat, NEW q \in Seq(1 .. n), q # <<>>
  PROVE  /\ Head(q) = q[1] /\ Head(q) \in 1 .. n /\ Len(q) \in Nat \ {0}
         /\ Tail(q) \in Seq(1 .. n) /\ Len(Tail(q)) = Len(q) - 1
         /\ \A k \in 1 .. Len(q) - 1 : Tail(q)[k] = q[k + 1]
  BY EmptySeq, LenProperties, HeadTailProperties

\* The row that is yielded is the next one, and is in the journal.
LEMMA YieldKeeps ==
  ASSUME SubscriptionInv, NEW s \in Subscriber, YieldRow(s)
  PROVE  /\ SubscriptionInv'
         /\ cursor' = [cursor EXCEPT ![s] = cursor[s] + 1] /\ cursor[s] < durable
         /\ at[s] # "closed" /\ UNCHANGED <<durable, at>>
  <1> DEFINE p == page[s]
  <1>1. /\ p # <<>> /\ UNCHANGED journal /\ UNCHANGED <<at, target, queue>> /\ OnlyMoves(s)
        /\ cursor' = [cursor EXCEPT ![s] = Head(p)] /\ page' = [page EXCEPT ![s] = Tail(p)]
    BY StepsMoveOne DEF YieldRow, Step
  <1>2. /\ durable \in Nat /\ p \in Seq(1 .. durable) /\ Len(p) <= PageSize /\ PageSize \in Nat
        /\ \A k \in 1 .. Len(p) : p[k] = cursor[s] + k
        /\ cursor[s] \in Nat /\ durable <= MaxRow /\ at[s] \in CatchingUp
    BY <1>1, SubscriberFacts, SubscriptionAssumption
  <1>3. page'[s] = Tail(p) /\ cursor'[s] = Head(p)
    BY <1>1, FunctionTypes
  <1> HIDE DEF p
  <1>4. /\ Head(p) = p[1] /\ Head(p) \in 1 .. durable /\ Len(p) \in Nat \ {0}
        /\ Tail(p) \in Seq(1 .. durable) /\ Len(Tail(p)) = Len(p) - 1
        /\ \A k \in 1 .. Len(p) - 1 : Tail(p)[k] = p[k + 1]
    BY <1>1, <1>2, HeadAndTail
  <1>5. Head(p) = cursor[s] + 1
    BY <1>2, <1>4
  <1>6. \A k \in 1 .. Len(Tail(p)) : Tail(p)[k] = cursor[s] + 1 + k
    <2> SUFFICES ASSUME NEW k \in 1 .. Len(p) - 1
                 PROVE  Tail(p)[k] = cursor[s] + 1 + k
      BY <1>4
    <2>1. k + 1 \in 1 .. Len(p) /\ k \in Nat
      BY <1>4
    <2>2. Tail(p)[k] = p[k + 1] /\ p[k + 1] = cursor[s] + (k + 1)
      BY <1>2, <1>4, <2>1
    <2>3. cursor[s] \in Nat
      BY <1>2
    <2> QED BY <2>1, <2>2, <2>3
  <1>7. Len(Tail(p)) <= PageSize /\ cursor[s] + 1 \in 0 .. MaxRow /\ cursor[s] < durable
    BY <1>2, <1>4, <1>5, SubscriberFacts
  <1>8. SubscriptionInv'
    <2>1. /\ at'[s] = at[s] /\ at[s] \in Position \ {"failed"}
          /\ target'[s] = target[s] /\ target[s] \in 0 .. durable
          /\ queue'[s] = queue[s] /\ queue[s] \in Seq(1 .. durable) /\ Len(queue[s]) <= QueueSize
      BY <1>1, SubscriberFacts
    <2>2. cursor'[s] = cursor[s] + 1
      BY <1>3, <1>5
    <2>3. /\ page'[s] \in Seq(1 .. durable) /\ Len(page'[s]) <= PageSize
          /\ \A k \in 1 .. Len(page'[s]) : page'[s][k] = cursor'[s] + k
      BY <1>3, <1>4, <1>6, <1>7, <2>2
    <2> QED BY <1>1, <1>2, <1>7, <2>1, <2>2, <2>3, OneMoves
  <1> QED BY <1>1, <1>2, <1>5, <1>7, <1>8 DEF journal, CatchingUp

LEMMA ReceiveKeeps ==
  ASSUME SubscriptionInv, NEW s \in Subscriber, Receive(s)
  PROVE  /\ SubscriptionInv' /\ durable' = durable /\ at[s] # "closed" /\ at'[s] # "closed"
         /\ \/ cursor' = cursor
            \/ cursor' = [cursor EXCEPT ![s] = cursor[s] + 1] /\ cursor[s] < durable
  <1> DEFINE q == queue[s]
             row == Head(q)
  <1>1. /\ at[s] = "live" /\ q # <<>> /\ queue' = [queue EXCEPT ![s] = Tail(q)]
        /\ UNCHANGED journal /\ page' = page /\ OnlyMoves(s)
        /\ \/ UNCHANGED <<at, cursor, target>>
           \/ row = cursor[s] + 1 /\ cursor' = [cursor EXCEPT ![s] = row] /\ UNCHANGED <<at, target>>
           \/ /\ target' = [target EXCEPT ![s] = row] /\ at' = [at EXCEPT ![s] = "repair"]
              /\ cursor' = cursor
    BY StepsMoveOne DEF Receive, Goto, Step
  <1>2. durable \in Nat /\ q \in Seq(1 .. durable) /\ Len(q) <= QueueSize /\ QueueSize \in Nat
    BY SubscriberFacts, SubscriptionAssumption
  <1>3. queue'[s] = Tail(q) /\ page'[s] = <<>>
    BY <1>1, SubscriberFacts, FunctionTypes DEF CatchingUp
  <1>4. \/ at'[s] = "live" /\ cursor'[s] = cursor[s] /\ target'[s] = target[s]
        \/ at'[s] = "live" /\ cursor'[s] = row /\ target'[s] = target[s]
        \/ at'[s] = "repair" /\ cursor'[s] = cursor[s] /\ target'[s] = row
    BY <1>1, FunctionTypes
  <1> HIDE DEF q
  <1>5. row \in 1 .. durable /\ Tail(q) \in Seq(1 .. durable) /\ Len(Tail(q)) <= QueueSize
    BY <1>1, <1>2, HeadAndTail
  <1> HIDE DEF row
  <1>6. /\ at'[s] \in Position \ {"failed", "closed"}
        /\ cursor'[s] \in 0 .. MaxRow /\ target'[s] \in 0 .. durable
    BY <1>4, <1>5, SubscriberFacts DEF Position
  <1>7. /\ page'[s] \in Seq(1 .. durable) /\ Len(page'[s]) <= PageSize
        /\ \A k \in 1 .. Len(page'[s]) : FALSE
    BY <1>2, <1>3, NothingHeld, EmptySeq
  <1>8. SubscriptionInv'
    BY <1>1, <1>3, <1>5, <1>6, <1>7, OneMoves
  <1>9. row = cursor[s] + 1 => cursor[s] < durable
    BY <1>5, SubscriberFacts
  <1> QED BY <1>1, <1>6, <1>8, <1>9 DEF journal

LEMMA PollKeeps ==
  ASSUME SubscriptionInv, NEW s \in Subscriber, Timeout(s) \/ Poll(s)
  PROVE  SubscriptionInv'
  <1>1. OnlyMoves(s) /\ page[s] = <<>> /\ UNCHANGED <<page, queue, cursor>>
    BY StepsMoveOne, SubscriberFacts DEF Timeout, Poll, Step, CatchingUp
  <1>2. at'[s] \in {"polling", "live", "repair"} /\ target'[s] \in {durable, target[s]}
    BY FunctionTypes DEF Timeout, Poll, Goto
  <1>3. at'[s] \in Position \ {"failed"}
    BY <1>2 DEF Position
  <1>4. target'[s] \in 0 .. durable
    BY <1>2, SubscriberFacts
  <1> QED BY <1>1, <1>3, <1>4, SubscriberFacts, OneMoves

LEMMA UnsubscribeKeeps ==
  ASSUME SubscriptionInv, NEW s \in Subscriber, Unsubscribe(s)
  PROVE  SubscriptionInv'
  <1>1. /\ OnlyMoves(s) /\ UNCHANGED <<cursor, target>>
        /\ at'[s] = "closed" /\ page'[s] = <<>> /\ queue'[s] = <<>>
    BY StepsMoveOne, FunctionTypes DEF Unsubscribe, Goto
  <1>2. "closed" \in Position \ {"failed"} /\ \A k \in 1 .. Len(<<>>) : FALSE
    BY EmptySeq DEF Position
  <1> QED BY <1>1, <1>2, SubscriberFacts, NothingHeld, OneMoves

------------------------------------------------------------------------------
(* Theorems *)

LEMMA SubscriptionInit == Init => SubscriptionInv
  <1> SUFFICES ASSUME Init PROVE SubscriptionInv
    OBVIOUS
  <1>1. /\ MaxRow \in Nat /\ PageSize \in Nat /\ QueueSize \in Nat
        /\ \A S : <<>> \in Seq(S) /\ Len(<<>>) = 0
    BY SubscriptionAssumption, EmptySeq
  <1>2. TypeOK
    BY <1>1 DEF Init, TypeOK, Position
  <1>3. ASSUME NEW s \in Subscriber
        PROVE  Announced(s) /\ PageContinues(s) /\ at[s] # "failed"
    BY <1>1 DEF Init, Announced, PageContinues
  <1>4. page \in [Subscriber -> Seq(Nat)] /\ queue \in [Subscriber -> Seq(Nat)]
    BY <1>1 DEF Init
  <1>5. stored <= durable
    BY DEF Init
  <1> QED BY <1>2, <1>3, <1>4, <1>5 DEF SubscriptionInv

LEMMA SubscriptionStep == SubscriptionInv /\ [Next]_vars => SubscriptionInv'
  <1> SUFFICES ASSUME SubscriptionInv, [Next]_vars PROVE SubscriptionInv'
    OBVIOUS
  <1>1. CASE UNCHANGED vars
    BY <1>1 DEF vars, SubscriptionInv, TypeOK, Announced, PageContinues
  <1>2. CASE WriteElsewhere \/ Persist \/ Broadcast \/ BroadcastLost
    BY <1>2, WritersKeep, BroadcastKeeps
  <1>3. ASSUME NEW s \in Subscriber,
               Step(s) \/ Unsubscribe(s) \/ \E after \in 0 .. MaxRow : Subscribe(s, after)
        PROVE  SubscriptionInv'
    <2>1. CASE Register(s) \/ \E after \in 0 .. MaxRow : Subscribe(s, after)
      <3>1. 0 \in 0 .. MaxRow
        BY SubscriptionAssumption
      <3> QED BY <2>1, <3>1, OpeningKeeps
    <2>2. CASE CatchUp(s) \/ YieldRow(s) \/ Receive(s)
      BY <2>2, CatchUpKeeps, YieldKeeps, ReceiveKeeps
    <2>3. CASE Timeout(s) \/ Poll(s) \/ Unsubscribe(s)
      BY <2>3, PollKeeps, UnsubscribeKeeps
    <2> QED BY <1>3, <2>1, <2>2, <2>3 DEF Step
  <1> QED BY <1>1, <1>2, <1>3 DEF Next

LEMMA SafetyOf == Spec => Init /\ [][Next]_vars
  BY PTL DEF Spec

LEMMA SubscriptionInvariant == Spec => []SubscriptionInv
  BY SubscriptionInit, SubscriptionStep, SafetyOf, PTL

\* The variables keep their types; no queue and no page grows beyond its size.
THEOREM SubscriptionTypeCorrect == Spec => []TypeOK
  <1>1. SubscriptionInv => TypeOK
    BY DEF SubscriptionInv
  <1> QED BY <1>1, SubscriptionInvariant, PTL

\* Whatever is dropped, lost or written elsewhere, no gap that a subscriber notices
\* is one the journal cannot fill.
THEOREM EveryGapIsRepairable == Spec => []GapsRepairable
  <1>1. SubscriptionInv => GapsRepairable
    BY DEF SubscriptionInv, GapsRepairable
  <1> QED BY <1>1, SubscriptionInvariant, PTL

Listening == {s \in Subscriber : at[s] # "closed"}

LEMMA EveryStepOfTheFeed == SubscriptionInv /\ [Next]_vars => [Feed!FeedNext]_(Feed!feedVars)
  <1> USE DEF Feed!FeedNext, Feed!feedVars
  <1> SUFFICES ASSUME SubscriptionInv, [Next]_vars
               PROVE  [Feed!FeedNext]_(Feed!feedVars)
    OBVIOUS
  <1>1. CASE UNCHANGED vars
    BY <1>1 DEF vars
  <1>2. CASE WriteElsewhere \/ Persist
    BY <1>2 DEF WriteElsewhere, Persist, Feed!Grow
  <1>3. CASE Broadcast \/ BroadcastLost
    BY <1>3 DEF Broadcast, BroadcastLost
  <1>4. ASSUME NEW s \in Subscriber,
               UNCHANGED <<durable, cursor>>, at[s] # "closed", at'[s] # "closed",
               at' = [at EXCEPT ![s] = at'[s]]
        PROVE  UNCHANGED Feed!feedVars
    BY <1>4, FunctionTypes
  <1>5. ASSUME NEW s \in Subscriber, NEW after \in 0 .. MaxRow, Subscribe(s, after)
        PROVE  Feed!Open(s)
    BY <1>5, FunctionTypes DEF Subscribe, Goto, Feed!Open
  <1>6. ASSUME NEW s \in Subscriber, Unsubscribe(s)
        PROVE  Feed!Close(s)
    BY <1>6, FunctionTypes DEF Unsubscribe, Goto, Feed!Close
  <1>7. ASSUME NEW s \in Subscriber, Register(s) \/ Timeout(s) \/ Poll(s)
        PROVE  UNCHANGED Feed!feedVars
    <2>1. UNCHANGED <<durable, cursor>> /\ at[s] # "closed" /\ at'[s] # "closed"
      BY <1>7, FunctionTypes DEF Register, Timeout, Poll, Goto, journal
    <2> QED BY <1>4, <1>7, <2>1, StepsMoveOne DEF OnlyMoves, Step
  <1>8. ASSUME NEW s \in Subscriber, CatchUp(s)
        PROVE  UNCHANGED Feed!feedVars
    BY <1>4, <1>8, CatchUpKeeps, StepsMoveOne DEF OnlyMoves, Step
  <1>9. ASSUME NEW s \in Subscriber, YieldRow(s)
        PROVE  Feed!Advance(s)
    BY <1>9, YieldKeeps DEF Feed!Advance
  <1>10. ASSUME NEW s \in Subscriber, Receive(s)
         PROVE  Feed!Advance(s) \/ UNCHANGED Feed!feedVars
    <2>1. /\ durable' = durable /\ at[s] # "closed" /\ at'[s] # "closed"
          /\ at' = [at EXCEPT ![s] = at'[s]]
      BY <1>10, ReceiveKeeps, StepsMoveOne DEF OnlyMoves, Step
    <2>2. CASE cursor' = cursor
      BY <1>4, <2>1, <2>2
    <2>3. CASE cursor' = [cursor EXCEPT ![s] = cursor[s] + 1] /\ cursor[s] < durable
      <3>1. Listening' = Listening
        BY <2>1, FunctionTypes DEF Listening
      <3> QED BY <2>1, <2>3, <3>1 DEF Listening, Feed!Advance
    <2> QED BY <1>10, <2>2, <2>3, ReceiveKeeps
  <1> QED BY <1>1, <1>2, <1>3, <1>5, <1>6, <1>7, <1>8, <1>9, <1>10 DEF Next, Step

\* Each subscriber sees the journal's rows in order and once, without a gap: every
\* step is one of the feed's or changes nothing the feed knows.
THEOREM SubscriptionFollowsFeed ==
  Spec => Feed!FeedInit /\ [][Feed!FeedNext]_(Feed!feedVars)
  <1>1. Init => Feed!FeedInit
    BY DEF Init, Feed!FeedInit
  <1> QED BY <1>1, EveryStepOfTheFeed, SubscriptionInvariant, SafetyOf, PTL
=============================================================================

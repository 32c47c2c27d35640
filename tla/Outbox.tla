--------------------------------- MODULE Outbox ---------------------------------
(***************************************************************************)
(* What an outbox promises: nothing is delivered that was not offered,     *)
(* nothing is delivered twice or taken back, however often the delivery is *)
(* tried, and only what has been delivered is acknowledged.                *)
(***************************************************************************)
CONSTANT Item
VARIABLES offered, delivered, acknowledged

outboxVars == <<offered, delivered, acknowledged>>

OutboxInit == offered = {} /\ delivered = {} /\ acknowledged = {}

Offer(n) ==
  /\ n \notin offered
  /\ offered' = offered \union {n}
  /\ UNCHANGED <<delivered, acknowledged>>

Deliver(n) ==
  /\ n \in offered \ delivered
  /\ delivered' = delivered \union {n}
  /\ UNCHANGED <<offered, acknowledged>>

Acknowledge(n) ==
  /\ n \in delivered \ acknowledged
  /\ acknowledged' = acknowledged \union {n}
  /\ UNCHANGED <<offered, delivered>>

OutboxNext == \E n \in Item : Offer(n) \/ Deliver(n) \/ Acknowledge(n)

OutboxSpec == OutboxInit /\ [][OutboxNext]_outboxVars
=============================================================================

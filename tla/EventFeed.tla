------------------------------ MODULE EventFeed ------------------------------
(***************************************************************************)
(* What a subscriber of a session is promised: from where it starts, every *)
(* row of the journal, in order, once, and without end.                    *)
(* EventSubscription implements this specification.                        *)
(***************************************************************************)
EXTENDS Naturals

CONSTANT Subscriber

VARIABLES
  rows,   \* how many rows the journal has
  open,   \* the subscribers that listen
  seen    \* seen[s]: the sequence number s has come to

feedVars == <<rows, open, seen>>

FeedInit ==
  /\ rows = 0
  /\ open = {}
  /\ seen = [s \in Subscriber |-> 0]

Grow == rows' = rows + 1 /\ UNCHANGED <<open, seen>>

\* A subscriber may ask for rows the journal does not have yet.
Open(s) ==
  /\ s \notin open
  /\ open' = open \union {s}
  /\ seen'[s] \in Nat
  /\ \A other \in Subscriber \ {s} : seen'[other] = seen[other]
  /\ UNCHANGED rows

Advance(s) ==
  /\ s \in open /\ seen[s] < rows
  /\ seen' = [seen EXCEPT ![s] = @ + 1]
  /\ UNCHANGED <<rows, open>>

Close(s) ==
  /\ s \in open
  /\ open' = open \ {s}
  /\ UNCHANGED <<rows, seen>>

FeedNext == Grow \/ \E s \in Subscriber : Open(s) \/ Advance(s) \/ Close(s)

FeedSpec == FeedInit /\ [][FeedNext]_feedVars /\ \A s \in Subscriber : WF_feedVars(Advance(s))
=============================================================================

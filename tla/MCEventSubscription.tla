------------------------- MODULE MCEventSubscription -------------------------
(* Model-checking instances of EventSubscription. *)
EXTENDS EventSubscription
=============================================================================

--------------------------- MODULE MCRunCoordinator ---------------------------
(* Model-checking instances of RunCoordinator. *)
EXTENDS RunCoordinator, TLC

MCOwner == Proc \X (1 .. MaxStart)

MCSymmetry == Permutations(Run) \union Permutations(Proc)
=============================================================================

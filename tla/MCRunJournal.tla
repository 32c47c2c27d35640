----------------------------- MODULE MCRunJournal -----------------------------
(* Model-checking instance of RunJournal: the bounds are on the log and on   *)
(* the tokens, and every transaction may still be the last one.              *)
EXTENDS RunJournal, TLC

CONSTANTS MaxRows,   \* length of the log
          MaxToken   \* value of nextToken

MCNext ==
  /\ JournalNext
  /\ Len(log') <= MaxRows
  /\ nextToken' <= MaxToken

MCSpec == JournalInit /\ [][MCNext]_journalVars

\* Runs and owners are interchangeable: no property names one of them.
MCSymmetry == Permutations(Run) \union Permutations(Owner)
=============================================================================

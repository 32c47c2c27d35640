--------------------------- MODULE MCKnowledgeWorker ---------------------------
(* Instances of KnowledgeWorker.  Symmetry is over files: a job of one item is *)
(* named like its item.                                                        *)
EXTENDS KnowledgeWorker, TLC

CONSTANTS File, AJob, AKey

OwnJob  == [i \in File |-> i]
OneJob  == [i \in File |-> AJob]
OwnKey  == [i \in File |-> i]
OneKey  == [i \in File |-> AKey]
MCSymmetry == Permutations(File)
=============================================================================

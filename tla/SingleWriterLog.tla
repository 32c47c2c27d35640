--------------------------- MODULE SingleWriterLog ---------------------------
(***************************************************************************)
(* What the session event journal promises its readers, with no database,  *)
(* no lease table and no process in sight: one append-only log shared by   *)
(* the runs of a session.                                                   *)
(*   - at any time at most one run is being written;                        *)
(*   - every time a run (re)gains the right to write, a new epoch starts,   *)
(*     and whatever is written in the run's name carries the current epoch; *)
(*   - an ended run stays ended: it never gains the log again, and what is  *)
(*     still remarked about it carries no epoch.                            *)
(* RunJournal implements this specification.                                *)
(***************************************************************************)
EXTENDS Naturals, Sequences

CONSTANTS Run,   \* the run identifiers of one session
          NoRun  \* not a run (not in Run): nobody is writing

VARIABLES
  writer,   \* the run being written, or NoRun
  epoch,    \* how many times a run gained the right to write
  ended,    \* the runs that have ended
  entries   \* the log: [run, epoch], epoch 0 for an entry nobody owns

absVars == <<writer, epoch, ended, entries>>

Entry == [run : Run, epoch : Nat]

AbsInit ==
  /\ writer = NoRun
  /\ epoch = 0
  /\ ended = {}
  /\ entries = <<>>

\* A run that has not ended gains the log when nobody has it; a new run is
\* announced by its first entry, a continued run is not.
Gain(r) ==
  /\ writer = NoRun
  /\ r \notin ended
  /\ writer' = r
  /\ epoch' = epoch + 1
  /\ entries' \in {entries, Append(entries, [run |-> r, epoch |-> epoch + 1])}
  /\ UNCHANGED ended

Write ==
  /\ writer # NoRun
  /\ entries' = Append(entries, [run |-> writer, epoch |-> epoch])
  /\ UNCHANGED <<writer, epoch, ended>>

\* The writer gives the log up without ending its run, or is found dead.
Yield ==
  /\ writer # NoRun
  /\ writer' = NoRun
  /\ UNCHANGED <<epoch, ended, entries>>

\* A run ends with one last entry: its writer's own (in the current epoch) or,
\* for a run whose writer is gone, one that nobody owns.
End(r) ==
  /\ r \notin ended
  /\ \E e \in {0} \union (IF writer = r THEN {epoch} ELSE {}) :
       entries' = Append(entries, [run |-> r, epoch |-> e])
  /\ ended' = ended \union {r}
  /\ writer' = IF writer = r THEN NoRun ELSE writer
  /\ UNCHANGED epoch

\* A remark in the name of something that is no run in progress: before it
\* begins, or after it has ended.
Remark(r) ==
  /\ writer # r
  /\ entries' = Append(entries, [run |-> r, epoch |-> 0])
  /\ UNCHANGED <<writer, epoch, ended>>

AbsNext ==
  \/ Write
  \/ Yield
  \/ \E r \in Run : Gain(r) \/ End(r) \/ Remark(r)

AbsSpec == AbsInit /\ [][AbsNext]_absVars
=============================================================================

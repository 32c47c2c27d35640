-------------------------- MODULE RunApprovalProofs --------------------------
(***************************************************************************)
(* Theorems about the approvals a run waits for, for any process slots,    *)
(* runs, approvals and any values of the bounds.  A run that has asked for *)
(* one approval is never interrupted while it waits for it, whichever      *)
(* processes die, suspend, recover or resume it at the same time (one that *)
(* has asked for two may be: see README).  A run whose lease is recovered  *)
(* ends or can be resumed.  An approval is answered once in the log.       *)
(***************************************************************************)
EXTENDS RunCoordinatorProofs, WellFoundedInduction

(* The inductive invariant: what remains true of a run between the            *)
(* transaction that looked at it and the one that takes or interrupts it.  It *)
(* is less than what was looked for.  start_run found no resumable approval   *)
(* (run_coordinator.py:101) and start_existing_run found one; neither lasts:  *)
(* an approval may be asked for, or answered, elsewhere before begin_run or   *)
(* resume_run.  What lasts is that the run to begin is new, and that the run  *)
(* to resume has asked for an approval at some time.                          *)

Asks(i, r) == i \in DOMAIN log /\ IsRow(i, r, "approval")
Asked(r) == \E i \in DOMAIN log : IsRow(i, r, "approval")

\* All the requests of r, if any, are for one approval.
AsksForOne(r) == \A i, j \in DOMAIN log : Asks(i, r) /\ Asks(j, r) => log[i].of = log[j].of

\* A run that has begun, which nobody can take as long as it has asked for nothing.
Parked(r) == HasHistory(r) /\ (Terminal(r) \/ Asked(r) \/ ~Leased(r))

\* A parked run without an approval to wait for: one at least was answered, if it
\* ever asked.
Settled(r) ==
  /\ HasHistory(r)
  /\ \/ Terminal(r)
     \/ ~Asked(r) /\ ~Leased(r)
     \/ \E i \in DOMAIN log : IsRow(i, r, "approval") /\ log[i].of \notin PendingApprovals(r)

\* The run start_run is about to begin is new, and no other process has chosen it; the
\* one start_existing_run is about to resume has asked for an approval, answered or not;
\* hydration goes through parked runs and interrupts settled ones.
StartsNew(p) ==
  task[p] = "begin" => ~HasHistory(wanted[p]) /\ \A q \in Proc \ {p} : wanted[q] # wanted[p]

ResumesAsked(p) == task[p] = "resume" => Asked(wanted[p])

HydratesParked(p) ==
  /\ \A r \in hydration[p].todo : Parked(r)
  /\ hydration[p].at = "interrupt" => Settled(hydration[p].run)

LooksRight(p) == StartsNew(p) /\ ResumesAsked(p) /\ HydratesParked(p)

\* A request, and the transaction that is to write it, names the approval asked for.
RequestsNamed ==
  /\ \A i \in DOMAIN log : log[i].kind = "approval" => log[i].of \in Approval
  /\ \A p \in Proc : \A w \in threads[p] :
       w.op = "append" /\ w.kind = "approval" => w.of \in Approval

ApprovalInv == CoordInv /\ RequestsNamed /\ \A p \in Proc : LooksRight(p)

------------------------------------------------------------------------------
(* What one more row does to the queries                                      *)

LogGrows == log' = log \/ \E row \in Row : log' = Append(log, row)

LEMMA RowsStay ==
  ASSUME JournalTypeOK, LogGrows
  PROVE  \A i \in DOMAIN log : i \in DOMAIN log' /\ log'[i] = log[i]
  <1>1. ASSUME NEW row \in Row, log' = Append(log, row)
        PROVE  \A i \in DOMAIN log : i \in DOMAIN log' /\ log'[i] = log[i]
    BY <1>1, AppendFacts DEF JournalTypeOK
  <1> QED BY <1>1 DEF LogGrows

\* History, requests and endings stay, and so do the answers.
LEMMA QueriesKept ==
  ASSUME JournalTypeOK, LogGrows, NEW r
  PROVE  /\ HasHistory(r) => HasHistory(r)'
         /\ Asked(r) => Asked(r)'
         /\ Terminal(r) => Terminal(r)'
         /\ \A i \in DOMAIN log :
              IsRow(i, r, "approval") /\ log[i].of \notin PendingApprovals(r) =>
                /\ i \in DOMAIN log' /\ log'[i] = log[i]
                /\ log[i].of \notin PendingApprovals(r)'
  <1>1. \A i \in DOMAIN log : i \in DOMAIN log' /\ log'[i] = log[i]
    BY RowsStay
  <1>2. \A a \in Approval, k \in Kind : RowIndices(r, k, a) \subseteq RowIndices(r, k, a)'
    BY <1>1 DEF RowIndices, IsRow
  <1>3. ASSUME NEW i \in DOMAIN log, IsRow(i, r, "approval"), log[i].of \notin PendingApprovals(r)
        PROVE  log[i].of \notin PendingApprovals(r)'
    <2>1. CASE log[i].of \notin Approval
      BY <2>1 DEF PendingApprovals
    <2>2. CASE log[i].of \in Approval
      <3>1. RowIndices(r, "approval", log[i].of) # {}
        BY <1>3 DEF RowIndices, IsRow
      <3>2. RowIndices(r, "result", log[i].of) # {}
        BY <1>3, <2>2, <3>1 DEF PendingApprovals
      <3> QED BY <1>2, <2>2, <3>2 DEF PendingApprovals, Kind
    <2> QED BY <2>1, <2>2
  <1>4. /\ HasHistory(r) => HasHistory(r)'
        /\ Asked(r) => Asked(r)'
        /\ Terminal(r) => Terminal(r)'
    BY <1>1 DEF HasHistory, Asked, Terminal, IsRow
  <1> QED BY <1>1, <1>3, <1>4

------------------------------------------------------------------------------
(* Who begins, takes and writes runs                                          *)

\* A call in the name of a lease, or one that removes it.
CallOnLease(p) ==
  \/ \E r \in Run, t \in 1 .. nextToken : CoordinatorCall(r, Self(p), t)
  \/ RecoverRunLease(LiveOwners)

LEMMA StepJournal ==
  ASSUME TypeOK, JournalInv, NEW p \in Proc, LocalInv(p), Step(p)
  PROVE  \/ UNCHANGED journalVars \/ CallOnLease(p)
         \/ Begin(p) \/ Resume(p) \/ InterruptUnfinished(p)
  <1> USE DEF LocalInv
  <1>1. ASSUME NEW r, NEW s, FinishOwned(r, s, Self(p), token[p]) \/
                             FinishOwned(r, s, Self(p), caller[p].token),
               s \in {"completed", "cancelled", "error"}
        PROVE  CallOnLease(p)
    BY <1>1, HolderFacts DEF FinishOwned, CallOnLease, CoordinatorCall
  <1>2. CASE Abort(p)
    BY <1>1, <1>2 DEF Abort
  <1>3. CASE Unresume(p)
    BY <1>3, HolderFacts DEF Unresume, ReleaseRunLease, CallOnLease, CoordinatorCall
  <1>4. CASE ThreadStep(p)
    <2>1. PICK w \in threads[p] :
            PersistEvent(p, w) \/ PersistEnding(p, w) \/ ReleaseSuspended(p, w) \/ LeaseLost(p, w)
      BY <1>4 DEF ThreadStep
    <2>2. CASE PersistEvent(p, w)
      BY <2>2, HolderFacts DEF PersistEvent, AppendOwned, WritesFormed, CallOnLease, CoordinatorCall
    <2>3. CASE PersistEnding(p, w)
      <3>1. w.of \in {"completed", "cancelled", "error"} /\ FinishOwned(w.run, w.of, Self(p), w.token)
        BY <2>3 DEF PersistEnding, WritesFormed
      <3> QED BY <3>1, HolderFacts DEF FinishOwned, CallOnLease, CoordinatorCall
    <2>4. CASE ReleaseSuspended(p, w)
      BY <2>4, HolderFacts DEF ReleaseSuspended, ReleaseRunLease, CallOnLease, CoordinatorCall
    <2>5. CASE LeaseLost(p, w)
      BY <2>5 DEF LeaseLost
    <2> QED BY <2>1, <2>2, <2>3, <2>4, <2>5
  <1>5. CASE CallerEnds(p)
    BY <1>1, <1>5 DEF CallerEnds
  <1>6. CASE RecoverLease(p)
    BY <1>6 DEF RecoverLease, CallOnLease
  <1>7. BeginRefused(p) \/ FirstStep(p) \/ SeeEnding(p) \/ Unwind(p) => UNCHANGED journalVars
    BY DEF BeginRefused, FirstStep, SeeEnding, Unwind
  <1>8. Deliver(p) \/ TooLate(p) \/ AfterTask(p) \/ CallerClears(p) => UNCHANGED journalVars
    BY DEF Deliver, TooLate, AfterTask, CallerClears
  <1>9. ListUnfinished(p) \/ (\E r \in hydration[p].todo : CheckUnfinished(p, r))
          => UNCHANGED journalVars
    BY DEF ListUnfinished, CheckUnfinished
  <1>10. Environment(p) => UNCHANGED journalVars
    BY DEF Environment, Boot, Crash, StartRun, ResumeExisting, StreamEvent, StreamTerminal,
           StreamEnds, Decide
  <1> QED
    BY <1>2, <1>3, <1>4, <1>5, <1>6, <1>7, <1>8, <1>9, <1>10
    DEF Step, TaskStep, CallerStep, Recovery

\* A run taken by a coordinator is the one it wanted.
LEMMA Wanted ==
  ASSUME TypeOK, NEW p \in Proc, LocalInv(p), Begin(p) \/ Resume(p)
  PROVE  /\ wanted[p] \in Run
         /\ Begin(p) => BeginRun(wanted[p], Self(p)) /\ task[p] = "begin" /\ task'[p] # "begin"
         /\ Resume(p) => ResumeRun(wanted[p], Self(p)) /\ task[p] = "resume"
                          /\ task'[p] \notin {"begin", "resume"}
  BY DEF Begin, Resume, LocalInv, RunsKnown, Starting, Goto, TypeOK

\* What a step writes: a row of a leased run, the first row of the run it begins, or the
\* ending of a run it interrupts.
LEMMA RowWritten ==
  ASSUME TypeOK, JournalInv, NEW p \in Proc, LocalInv(p), Step(p)
  PROVE  \/ log' = log
         \/ \E row \in Row :
              /\ log' = Append(log, row)
              /\ \/ Leased(row.run)
                 \/ Begin(p) /\ row.run = wanted[p] /\ row.kind = "started"
                 \/ InterruptUnfinished(p) /\ row.run = hydration[p].run /\ row.kind = "terminal"
  <1> DEFINE Goal ==
        \/ log' = log
        \/ \E row \in Row :
             /\ log' = Append(log, row)
             /\ \/ Leased(row.run)
                \/ Begin(p) /\ row.run = wanted[p] /\ row.kind = "started"
                \/ InterruptUnfinished(p) /\ row.run = hydration[p].run /\ row.kind = "terminal"
  <1>1. \A r, k, x, t : /\ NewRow(r, k, x, t).run = r /\ NewRow(r, k, x, t).kind = k
                        /\ r \in Run /\ k \in Kind /\ x \in Approval \union Status \union {Nothing}
                             /\ t \in Nat => NewRow(r, k, x, t) \in Row
    BY DEF NewRow, Row
  <1>2. nextToken \in Nat /\ \A l \in leases : l.run \in Run
    BY DEF JournalInv, JournalTypeOK, Lease
  <1>3. CASE UNCHANGED journalVars
    BY <1>3 DEF journalVars
  <1>4. CASE Begin(p)
    <2>1. wanted[p] \in Run /\ BeginRun(wanted[p], Self(p))
      BY <1>4, Wanted
    <2> QED BY <1>1, <1>2, <1>4, <2>1 DEF BeginRun, Kind
  <1>5. CASE Resume(p)
    BY <1>5 DEF Resume, ResumeRun
  <1>6. CASE InterruptUnfinished(p)
    <2>1. CASE log' = log
      BY <2>1
    <2>2. CASE log' # log
      <3>1. hydration[p].at = "interrupt" /\ FinishUnowned(hydration[p].run, "interrupted")
        BY <1>6, <2>2 DEF InterruptUnfinished, journalVars
      <3>2. hydration[p].run \in Run
        BY <3>1 DEF LocalInv, RunsKnown
      <3>3. log' = Append(log, NewRow(hydration[p].run, "terminal", "interrupted", 0))
        BY <2>2, <3>1 DEF FinishUnowned, LogTerminalOnce
      <3> QED BY <1>1, <1>6, <3>2, <3>3 DEF Kind, Status
    <2> QED BY <2>1, <2>2
  <1>7. ASSUME NEW r \in Run, NEW t \in 1 .. nextToken, CoordinatorCall(r, Self(p), t)
        PROVE  Goal
    <2>1. t \in Nat /\ Leased(r)
      BY <1>2, <1>7, HolderFacts DEF CoordinatorCall, AppendOwned, FinishOwned, ReleaseRunLease
    <2>2. CASE log' = log
      BY <2>2
    <2>3. CASE log' # log
      <3>1. \E k \in Kind, x \in Approval \union Status \union {Nothing} :
              log' = Append(log, NewRow(r, k, x, t))
        BY <1>7, <2>3
        DEF CoordinatorCall, AppendOwned, FinishOwned, ReleaseRunLease, LogTerminalOnce, Kind, Status
      <3> QED BY <1>1, <2>1, <3>1
    <2> QED BY <2>2, <2>3
  <1>8. CASE RecoverRunLease(LiveOwners)
    <2>1. PICK l \in leases :
            log' = log \/ log' = Append(log, NewRow(l.run, "terminal", "interrupted", 0))
      BY <1>8 DEF RecoverRunLease, LogTerminalOnce
    <2> QED BY <1>1, <1>2, <2>1 DEF Leased, Kind, Status
  <1> QED BY <1>3, <1>4, <1>5, <1>6, <1>7, <1>8, StepJournal DEF CallOnLease

\* A run is leased by the coordinator that wanted it.
LEMMA LeaseGiven ==
  ASSUME TypeOK, JournalInv, NEW p \in Proc, LocalInv(p), Step(p), NEW r,
         Leased(r)', ~Leased(r)
  PROVE  (Begin(p) \/ Resume(p)) /\ wanted[p] = r
  <1>1. CASE UNCHANGED journalVars \/ CallOnLease(p) \/ InterruptUnfinished(p)
    <2>1. leases' \subseteq leases
      BY <1>1 DEF journalVars, CallOnLease, CoordinatorCall, AppendOwned, FinishOwned,
         ReleaseRunLease, RecoverRunLease, InterruptUnfinished, FinishUnowned, DropLease
    <2> QED BY <2>1 DEF Leased
  <1>2. CASE Begin(p) \/ Resume(p)
    <2>1. leases' = {[run |-> wanted[p], owner |-> Self(p), token |-> nextToken]}
      BY <1>2, Wanted DEF BeginRun, ResumeRun, TakeLease
    <2> QED BY <1>2, <2>1 DEF Leased
  <1> QED BY <1>1, <1>2, StepJournal

\* How a run comes by its history and its first request.
LEMMA FirstRows ==
  ASSUME TypeOK, JournalInv, NEW p \in Proc, LocalInv(p), LooksRight(p), Step(p), NEW r
  PROVE  /\ LogGrows
         /\ HasHistory(r)' /\ ~HasHistory(r) => Begin(p) /\ wanted[p] = r
         /\ Asked(r)' /\ ~Asked(r) => Leased(r)
  <1>1. CASE log' = log
    BY <1>1 DEF LogGrows, HasHistory, Asked, IsRow
  <1>2. ASSUME NEW row \in Row, log' = Append(log, row),
               \/ Leased(row.run)
               \/ Begin(p) /\ row.run = wanted[p] /\ row.kind = "started"
               \/ InterruptUnfinished(p) /\ row.run = hydration[p].run /\ row.kind = "terminal"
        PROVE  /\ HasHistory(r)' /\ ~HasHistory(r) => Begin(p) /\ wanted[p] = r
               /\ Asked(r)' /\ ~Asked(r) => Leased(r)
    <2>1. \A i \in DOMAIN log' : (i \in DOMAIN log /\ log'[i] = log[i]) \/ log'[i] = row
      BY <1>2, AppendFacts DEF JournalInv, JournalTypeOK
    <2>2. HasHistory(r)' /\ ~HasHistory(r) => row.run = r
      BY <2>1 DEF HasHistory
    <2>3. Asked(r)' /\ ~Asked(r) => row.run = r /\ row.kind = "approval"
      BY <2>1 DEF Asked, IsRow
    <2>4. Leased(row.run) => HasHistory(row.run)
      BY DEF Leased, JournalInv, LeaseRunOpen
    <2>5. InterruptUnfinished(p) => HasHistory(hydration[p].run)
      BY DEF InterruptUnfinished, LooksRight, HydratesParked, Settled
    <2> QED BY <1>2, <2>2, <2>3, <2>4, <2>5
  <1> QED BY <1>1, <1>2, RowWritten DEF LogGrows

------------------------------------------------------------------------------
(* Parked and settled runs stay so                                            *)

LEMMA StaysUnleased ==
  ASSUME TypeOK, JournalInv, NEW p \in Proc, LocalInv(p), LooksRight(p), Step(p), NEW r,
         HasHistory(r), ~Asked(r), ~Leased(r)
  PROVE  ~Asked(r)' /\ ~Leased(r)'
  <1>1. ~Asked(r)'
    BY FirstRows
  <1>2. ~((Begin(p) \/ Resume(p)) /\ wanted[p] = r)
    BY DEF Begin, Resume, LooksRight, StartsNew, ResumesAsked
  <1> QED BY <1>1, <1>2, LeaseGiven

LEMMA ParkedStays ==
  ASSUME TypeOK, JournalInv, NEW p \in Proc, LocalInv(p), LooksRight(p), Step(p), NEW r
  PROVE  /\ Parked(r) => Parked(r)'
         /\ Settled(r) => Settled(r)'
  <1>1. JournalTypeOK /\ LogGrows
    BY FirstRows DEF JournalInv
  <1>2. ASSUME Parked(r) PROVE Parked(r)'
    BY <1>1, <1>2, QueriesKept, StaysUnleased DEF Parked
  <1>3. ASSUME Settled(r) PROVE Settled(r)'
    <2>1. HasHistory(r)' /\ (Terminal(r) => Terminal(r)')
      BY <1>1, <1>3, QueriesKept DEF Settled
    <2>2. ~Asked(r) /\ ~Leased(r) => ~Asked(r)' /\ ~Leased(r)'
      BY <1>3, StaysUnleased DEF Settled
    <2>3. ASSUME NEW i \in DOMAIN log, IsRow(i, r, "approval"),
                 log[i].of \notin PendingApprovals(r)
          PROVE  (\E j \in DOMAIN log : IsRow(j, r, "approval")
                                        /\ log[j].of \notin PendingApprovals(r))'
      BY <1>1, <2>3, QueriesKept DEF IsRow
    <2> QED BY <1>3, <2>1, <2>2, <2>3 DEF Settled
  <1> QED BY <1>2, <1>3

\* A parked run in which no approval is to be recovered is settled.
LEMMA NothingToRecover ==
  ASSUME NEW r, Parked(r), RecoverableApprovals(r) = {}
  PROVE  Settled(r)
  <1> SUFFICES ASSUME ~Terminal(r), NEW i \in DOMAIN log, IsRow(i, r, "approval"),
                      log[i].of \in PendingApprovals(r)
               PROVE  FALSE
    BY DEF Parked, Settled, Asked
  <1>1. log[i].of \in Approval /\ RowIndices(r, "result", log[i].of) = {}
    BY DEF PendingApprovals
  <1>2. ~Answered(i)
    BY <1>1 DEF Answered, RowIndices, IsRow
  <1> QED BY <1>1, <1>2 DEF RecoverableApprovals, IsRow

------------------------------------------------------------------------------
(* The invariant is inductive                                                 *)

\* What a step does to the runs wanted.
LEMMA WantedBy ==
  ASSUME TypeOK, NEW p \in Proc, Step(p)
  PROVE  \/ UNCHANGED wanted /\ task'[p] \notin {"begin", "resume"}
         \/ UNCHANGED wanted /\ task' = task /\ ~Begin(p) /\ ~Resume(p)
         \/ wanted' = [wanted EXCEPT ![p] = NoRun] /\ task'[p] \notin {"begin", "resume"}
         \/ \E r \in Run : /\ wanted' = [wanted EXCEPT ![p] = r]
                           /\ \/ StartRun(p, r) /\ task'[p] = "begin"
                              \/ ResumeExisting(p, r) /\ task'[p] = "resume"
  <1> USE DEF TypeOK, Goto
  <1>1. CASE TaskStep(p)
    BY <1>1 DEF TaskStep, Begin, BeginRefused, Abort, Resume, Unresume, FirstStep, SeeEnding, Unwind
  <1>2. CASE ThreadStep(p)
    BY <1>2 DEF ThreadStep, PersistEvent, PersistEnding, ReleaseSuspended, LeaseLost, Begin, Resume
  <1>3. CASE CallerStep(p)
    BY <1>3 DEF CallerStep, Deliver, TooLate, AfterTask, CallerEnds, CallerClears, Begin, Resume
  <1>4. CASE Recovery(p)
    BY <1>4 DEF Recovery, RecoverLease, ListUnfinished, InterruptUnfinished, CheckUnfinished,
                Begin, Resume
  <1>5. CASE Boot(p) \/ Crash(p)
    BY <1>5 DEF Boot, Crash, Begin, Resume
  <1>6. ASSUME NEW r \in Run, StartRun(p, r) \/ ResumeExisting(p, r)
        PROVE  /\ wanted' = [wanted EXCEPT ![p] = r]
               /\ \/ StartRun(p, r) /\ task'[p] = "begin"
                  \/ ResumeExisting(p, r) /\ task'[p] = "resume"
    BY <1>6 DEF StartRun, ResumeExisting
  <1>7. StreamEvent(p) \/ StreamTerminal(p) \/ StreamEnds(p)
          => UNCHANGED wanted /\ task'[p] \notin {"begin", "resume"}
    BY DEF StreamEvent, StreamTerminal, StreamEnds
  <1>8. (\E how \in {"cancel", "suspend"} : Decide(p, how))
          => UNCHANGED wanted /\ task' = task /\ ~Begin(p) /\ ~Resume(p)
    BY DEF Decide, Begin, Resume
  <1> QED BY <1>1, <1>2, <1>3, <1>4, <1>5, <1>6, <1>7, <1>8 DEF Step, Environment

LEMMA StartsStayNew ==
  ASSUME TypeOK, JournalInv, NEW p \in Proc, Step(p), OthersUntouched(p),
         \A s \in Proc : LocalInv(s) /\ LooksRight(s),
         NEW q \in Proc
  PROVE  StartsNew(q)'
  <1> SUFFICES ASSUME task'[q] = "begin"
               PROVE  (~HasHistory(wanted[q]) /\ \A s \in Proc \ {q} : wanted[s] # wanted[q])'
    BY DEF StartsNew
  <1>1. PICK r : r = wanted'[q]
    OBVIOUS
  <1> SUFFICES ~HasHistory(r)' /\ \A s \in Proc \ {q} : wanted'[s] # r
    BY <1>1 DEF HasHistory
  <1>2. CASE \E x \in Run : q = p /\ StartRun(p, x) /\ wanted' = [wanted EXCEPT ![p] = x]
    <2>1. PICK x \in Run : q = p /\ StartRun(p, x) /\ wanted' = [wanted EXCEPT ![p] = x]
      BY <1>2
    <2>2. x = r /\ log' = log
      BY <1>1, <2>1 DEF StartRun, TypeOK, journalVars
    <2> QED BY <2>1, <2>2 DEF StartRun, HasHistory, TypeOK
  <1>3. CASE /\ task[q] = "begin" /\ wanted[q] = r /\ ~(q = p /\ Begin(p))
             /\ \A s \in Proc : wanted'[s] = wanted[s] \/ wanted'[s] = NoRun
                  \/ \E x \in Run : wanted'[s] = x /\ s = p /\ (StartRun(p, x) \/ ResumeExisting(p, x))
    <2>1. r \in Run /\ ~HasHistory(r) /\ \A s \in Proc \ {q} : wanted[s] # r
      BY <1>3 DEF LooksRight, StartsNew, LocalInv, RunsKnown, Starting
    <2>2. ~HasHistory(r)'
      BY <1>3, <2>1, FirstRows
    <2>3. ASSUME NEW x \in Run, StartRun(p, x) \/ ResumeExisting(p, x)
          PROVE  x # r
      <3>1. StartRun(p, x) => x # r
        BY <1>3 DEF StartRun
      <3>2. ResumeExisting(p, x) => HasHistory(x)
        BY DEF ResumeExisting, RecoverableApprovals, IsRow, HasHistory
      <3> QED BY <2>1, <2>3, <3>1, <3>2
    <2> QED BY <1>3, <2>1, <2>2, <2>3, JournalAssumption
  <1>4. CASE q # p
    <2>1. task[q] = "begin" /\ wanted[q] = r
      BY <1>1, <1>4 DEF OthersUntouched
    <2>2. \A s \in Proc : wanted'[s] = wanted[s] \/ wanted'[s] = NoRun
                  \/ \E x \in Run : wanted'[s] = x /\ s = p /\ (StartRun(p, x) \/ ResumeExisting(p, x))
      BY WantedBy DEF TypeOK
    <2> QED BY <1>3, <1>4, <2>1, <2>2
  <1>5. CASE q = p
    BY <1>1, <1>2, <1>3, <1>5, WantedBy DEF TypeOK
  <1> QED BY <1>4, <1>5

LEMMA ResumesStayAsked ==
  ASSUME TypeOK, JournalInv, NEW p \in Proc, Step(p), OthersUntouched(p),
         \A s \in Proc : LocalInv(s) /\ LooksRight(s),
         NEW q \in Proc
  PROVE  ResumesAsked(q)'
  <1> SUFFICES ASSUME task'[q] = "resume" PROVE Asked(wanted[q])'
    BY DEF ResumesAsked
  <1>1. PICK r : r = wanted'[q]
    OBVIOUS
  <1>2. Asked(r)
    <2>1. CASE q # p
      <3>1. task[q] = "resume" /\ wanted[q] = r
        BY <1>1, <2>1 DEF OthersUntouched
      <3> QED BY <3>1 DEF LooksRight, ResumesAsked
    <2>2. CASE q = p /\ UNCHANGED wanted /\ task' = task
      BY <1>1, <2>2 DEF LooksRight, ResumesAsked
    <2>3. ASSUME q = p, NEW x \in Run, wanted' = [wanted EXCEPT ![p] = x], ResumeExisting(p, x)
          PROVE  Asked(r)
      <3>1. x = r
        BY <1>1, <2>3 DEF TypeOK
      <3> QED BY <2>3, <3>1 DEF ResumeExisting, RecoverableApprovals, Asked
    <2> QED BY <2>1, <2>2, <2>3, WantedBy DEF TypeOK
  <1>3. Asked(r)'
    BY <1>2, FirstRows, QueriesKept DEF JournalInv
  <1> QED BY <1>1, <1>3 DEF Asked, IsRow

\* What a step does to the hydration of its process: it may find the unfinished runs,
\* or one that has no approval to recover.
LEMMA HydratedBy ==
  ASSUME TypeOK, NEW p \in Proc, Step(p)
  PROVE  \/ hydration'[p] = hydration[p]
         \/ /\ hydration'[p].at # "interrupt"
            /\ hydration'[p].todo \subseteq hydration[p].todo \/ hydration'[p].todo \subseteq UnfinishedRunIds
         \/ \E r \in hydration[p].todo :
              /\ RecoverableApprovals(r) = {}
              /\ hydration'[p] = [at |-> "interrupt", todo |-> hydration[p].todo \ {r}, run |-> r]
  <1> USE DEF TypeOK
  <1>1. CASE TaskStep(p) \/ ThreadStep(p) \/ CallerStep(p)
    BY <1>1 DEF TaskStep, ThreadStep, CallerStep, Begin, BeginRefused, Abort, Resume, Unresume,
                FirstStep, SeeEnding, Unwind, PersistEvent, PersistEnding, ReleaseSuspended,
                LeaseLost, Deliver, TooLate, AfterTask, CallerEnds, CallerClears
  <1>2. CASE Crash(p)
    BY <1>2 DEF Crash, Cold
  <1>3. CASE Environment(p) /\ ~Crash(p)
    BY <1>3 DEF Environment, Boot, StartRun, ResumeExisting, StreamEvent, StreamTerminal,
                StreamEnds, Decide
  <1>4. CASE RecoverLease(p) \/ ListUnfinished(p) \/ InterruptUnfinished(p)
    BY <1>4 DEF RecoverLease, ListUnfinished, InterruptUnfinished, Hydrate
  <1>5. ASSUME NEW r \in hydration[p].todo, CheckUnfinished(p, r)
        PROVE  \/ /\ hydration'[p].at # "interrupt"
                  /\ hydration'[p].todo \subseteq hydration[p].todo
               \/ /\ RecoverableApprovals(r) = {}
                  /\ hydration'[p] = [at |-> "interrupt", todo |-> hydration[p].todo \ {r}, run |-> r]
    <2>1. CASE RecoverableApprovals(r) # {}
      <3>1. Hydrate(p, "close", hydration[p].todo \ {r}, NoRun)
        BY <1>5, <2>1 DEF CheckUnfinished
      <3> QED BY <3>1 DEF Hydrate
    <2>2. CASE RecoverableApprovals(r) = {}
      <3>1. Hydrate(p, "interrupt", hydration[p].todo \ {r}, r)
        BY <1>5, <2>2 DEF CheckUnfinished
      <3> QED BY <2>2, <3>1 DEF Hydrate
    <2> QED BY <2>1, <2>2
  <1>6. Recovery(p) => \/ RecoverLease(p) \/ ListUnfinished(p) \/ InterruptUnfinished(p)
                       \/ \E r \in hydration[p].todo : CheckUnfinished(p, r)
    BY DEF Recovery
  <1> HIDE DEF TypeOK
  <1> QED BY <1>1, <1>2, <1>3, <1>4, <1>5, <1>6 DEF Step

LEMMA HydrationStaysRight ==
  ASSUME TypeOK, JournalInv, NEW p \in Proc, Step(p), OthersUntouched(p),
         \A s \in Proc : LocalInv(s) /\ LooksRight(s),
         NEW q \in Proc
  PROVE  HydratesParked(q)'
  <1>1. \A r : (Parked(r) => Parked(r)') /\ (Settled(r) => Settled(r)')
    BY ParkedStays
  <1>2. /\ \A r \in hydration[q].todo : Parked(r)
        /\ hydration[q].at = "interrupt" => Settled(hydration[q].run)
    BY DEF LooksRight, HydratesParked
  <1>3. \A r \in UnfinishedRunIds : Parked(r)
    BY DEF UnfinishedRunIds, Parked, Started, HasHistory, IsRow
  <1>4. ASSUME \A r \in hydration'[q].todo : Parked(r),
               hydration'[q].at = "interrupt" => Settled(hydration'[q].run)
        PROVE  HydratesParked(q)'
    <2>1. \A r \in hydration'[q].todo : Parked(r)'
      BY <1>1, <1>4
    <2>2. PICK s : s = hydration'[q].run
      OBVIOUS
    <2>3. hydration'[q].at = "interrupt" => Settled(s)'
      BY <1>1, <1>4, <2>2
    <2> QED BY <2>1, <2>2, <2>3 DEF HydratesParked, Settled, Parked, HasHistory, Terminal, Asked,
                                    Leased, IsRow
  <1>5. CASE hydration'[q] = hydration[q]
    BY <1>2, <1>4, <1>5
  <1>6. CASE q # p
    BY <1>5, <1>6 DEF OthersUntouched
  <1>7. CASE /\ hydration'[p].at # "interrupt" /\ q = p
             /\ \/ hydration'[p].todo \subseteq hydration[p].todo
                \/ hydration'[p].todo \subseteq UnfinishedRunIds
    BY <1>2, <1>3, <1>4, <1>7
  <1>8. ASSUME q = p, NEW r \in hydration[p].todo, RecoverableApprovals(r) = {},
               hydration'[p] = [at |-> "interrupt", todo |-> hydration[p].todo \ {r}, run |-> r]
        PROVE  HydratesParked(q)'
    BY <1>2, <1>4, <1>8, NothingToRecover
  <1> QED BY <1>5, <1>6, <1>7, <1>8, HydratedBy

------------------------------------------------------------------------------
(* Requests name the approval they ask for                                    *)

Names(w) == w.op = "append" /\ w.kind = "approval" => w.of \in Approval

LEMMA HandedNamed ==
  ASSUME TypeOK, NEW p \in Proc, StreamEvent(p) \/ StreamTerminal(p) \/ StreamEnds(p),
         \A w \in threads[p] : Names(w), NEW w \in threads'[p]
  PROVE  Names(w)
  <1> DEFINE W(op, k, x) ==
        [op |-> op, run |-> active[p], kind |-> k, of |-> x, token |-> token[p],
         for |-> "task", locked |-> TRUE]
  <1>1. \/ Hand(p, "append", "work", Nothing, "task", TRUE)
        \/ \E a \in Approval : Hand(p, "append", "approval", a, "task", TRUE)
        \/ \E a \in Approval : Hand(p, "append", "result", a, "task", TRUE)
        \/ \E x \in Status : Hand(p, "finish", "terminal", x, "task", TRUE)
    BY DEF StreamEvent, StreamTerminal, StreamEnds, PendingApprovals, Status
  <1>2. \A op, k, x : Hand(p, op, k, x, "task", TRUE) => w \in threads[p] \/ w = W(op, k, x)
    BY DEF Hand, TypeOK
  <1>3. \A op, k, x : W(op, k, x).op = op /\ W(op, k, x).kind = k /\ W(op, k, x).of = x
    OBVIOUS
  <1>4. ASSUME NEW op, NEW k, NEW x, Hand(p, op, k, x, "task", TRUE),
               op # "append" \/ k # "approval" \/ x \in Approval
        PROVE  Names(w)
    <2> HIDE DEF W
    <2>1. PICK v : v = W(op, k, x)
      OBVIOUS
    <2>2. w \in threads[p] \/ w = v
      BY <1>2, <1>4, <2>1
    <2>3. v.op = op /\ v.kind = k /\ v.of = x
      BY <1>3, <2>1
    <2>4. Names(v)
      BY <1>4, <2>3 DEF Names
    <2> QED BY <2>2, <2>4
  <1> QED BY <1>1, <1>4

LEMMA DeliveredNamed ==
  ASSUME TypeOK, NEW p \in Proc, Deliver(p), \A w \in threads[p] : Names(w), NEW w \in threads'[p]
  PROVE  Names(w)
  <1>1. \/ w \in threads[p]
        \/ \E left \in Abandon(p) : w \in left
        \/ \E how, c : c \in Cleanups(p, how) /\ w = c
    BY DEF Deliver, TypeOK
  <1>2. ASSUME NEW left \in Abandon(p), w \in left
        PROVE  Names(w)
    BY <1>2, AbandonedWrites DEF Names
  <1>3. ASSUME NEW how, w \in Cleanups(p, how)
        PROVE  Names(w)
    BY <1>3 DEF Cleanups, Cleanup, Names
  <1> QED BY <1>1, <1>2, <1>3

LEMMA StepNames ==
  ASSUME TypeOK, NEW p \in Proc, Step(p), \A w \in threads[p] : Names(w), NEW w \in threads'[p]
  PROVE  Names(w)
  <1>1. CASE threads'[p] \subseteq threads[p]
    BY <1>1
  <1>2. CASE TaskStep(p)
    BY <1>1, <1>2 DEF TaskStep, Begin, BeginRefused, Abort, Resume, Unresume, FirstStep, SeeEnding,
                      Unwind
  <1>3. CASE ThreadStep(p)
    <2>1. PICK v \in threads[p] :
            PersistEvent(p, v) \/ PersistEnding(p, v) \/ ReleaseSuspended(p, v) \/ LeaseLost(p, v)
      BY <1>3 DEF ThreadStep
    <2>2. Retire(p, v) \/ AuditDone(p, v)
      BY <2>1 DEF PersistEvent, PersistEnding, ReleaseSuspended, LeaseLost
    <2>3. CASE Retire(p, v)
      BY <1>1, <2>3 DEF Retire, TypeOK
    <2>4. CASE AuditDone(p, v)
      <3> DEFINE u == [v EXCEPT !.op = "finish", !.kind = "terminal", !.of = "cancelled"]
      <3>1. w \in threads[p] \/ w = u
        BY <2>4 DEF AuditDone, TypeOK
      <3>2. u.op = "finish"
        BY DEF TypeOK, Write
      <3> HIDE DEF u
      <3> QED BY <3>1, <3>2 DEF Names
    <2> QED BY <2>2, <2>3, <2>4
  <1>4. CASE Deliver(p)
    BY <1>4, DeliveredNamed
  <1>5. CASE TooLate(p) \/ AfterTask(p) \/ CallerEnds(p) \/ CallerClears(p)
    BY <1>1, <1>5 DEF TooLate, AfterTask, CallerEnds, CallerClears
  <1>6. CASE Recovery(p)
    BY <1>1, <1>6 DEF Recovery, RecoverLease, ListUnfinished, InterruptUnfinished, CheckUnfinished
  <1>7. CASE StreamEvent(p) \/ StreamTerminal(p) \/ StreamEnds(p)
    BY <1>7, HandedNamed
  <1>8. Boot(p) \/ (\E r \in Run : StartRun(p, r) \/ ResumeExisting(p, r))
          \/ (\E how \in {"cancel", "suspend"} : Decide(p, how)) => UNCHANGED threads
    BY DEF Boot, StartRun, ResumeExisting, Decide
  <1>9. Crash(p) => threads'[p] = {}
    BY DEF Crash, TypeOK
  <1> QED BY <1>1, <1>2, <1>3, <1>4, <1>5, <1>6, <1>7, <1>8, <1>9 DEF Step, CallerStep, Environment

\* A request or an answer is written by the transaction that was handed it.
LEMMA RequestWritten ==
  ASSUME TypeOK, JournalInv, NEW p \in Proc, LocalInv(p), Step(p),
         NEW row \in Row, log' = Append(log, row), row.kind \in {"approval", "result"}
  PROVE  \E w \in threads[p] : /\ PersistEvent(p, w) /\ w.op = "append" /\ w.kind = row.kind
                               /\ w.run = row.run /\ w.of = row.of
  <1>1. JournalTypeOK /\ log' # log /\ \A other : log' = Append(log, other) => other = row
    <2>1. JournalTypeOK
      BY DEF JournalInv
    <2>2. Len(log) \in Nat /\ \A other : Append(log, other)[Len(log) + 1] = other
      BY <2>1 DEF JournalTypeOK
    <2>3. log' # log
      BY <2>1, AppendFacts DEF JournalTypeOK
    <2> QED BY <2>1, <2>2, <2>3
  <1>2. \A r, k, x, t : /\ NewRow(r, k, x, t).kind = k /\ NewRow(r, k, x, t).of = x
                        /\ NewRow(r, k, x, t).run = r
    BY DEF NewRow
  <1>3. \A r, s, t : ~LogTerminalOnce(r, s, t)
    BY <1>1, <1>2 DEF LogTerminalOnce
  <1>4. \A r, o : ~BeginRun(r, o) /\ ~ResumeRun(r, o)
    BY <1>1, <1>2 DEF BeginRun, ResumeRun
  <1>5. \A r, s, o, t : ~FinishOwned(r, s, o, t) /\ ~FinishUnowned(r, s) /\ ~ReleaseRunLease(r, o, t)
    BY <1>1, <1>3 DEF FinishOwned, FinishUnowned, ReleaseRunLease
  <1>6. ~RecoverRunLease(LiveOwners)
    BY <1>1, <1>3 DEF RecoverRunLease
  <1>7. CASE ThreadStep(p)
    <2>1. PICK w \in threads[p] : PersistEvent(p, w)
      BY <1>1, <1>5, <1>7 DEF ThreadStep, PersistEnding, ReleaseSuspended, LeaseLost, journalVars
    <2>2. w.op = "append" /\ log' = Append(log, NewRow(w.run, w.kind, w.of, w.token))
      BY <2>1 DEF PersistEvent, AppendOwned
    <2> QED BY <1>1, <1>2, <2>1, <2>2
  <1>8. ~TaskStep(p)
    BY <1>1, <1>4, <1>5 DEF TaskStep, Begin, BeginRefused, Abort, Resume, Unresume, FirstStep,
                            SeeEnding, Unwind, journalVars
  <1>9. ~CallerStep(p)
    BY <1>1, <1>5 DEF CallerStep, Deliver, TooLate, AfterTask, CallerEnds, CallerClears, journalVars
  <1>10. ~Recovery(p)
    BY <1>1, <1>5, <1>6 DEF Recovery, RecoverLease, ListUnfinished, InterruptUnfinished,
                            CheckUnfinished, journalVars
  <1>11. ~Environment(p)
    BY <1>1 DEF Environment, Boot, Crash, StartRun, ResumeExisting, StreamEvent, StreamTerminal,
                StreamEnds, Decide, journalVars
  <1> QED BY <1>7, <1>8, <1>9, <1>10, <1>11 DEF Step

LEMMA RequestsStayNamed ==
  ASSUME TypeOK, JournalInv, RequestsNamed, NEW p \in Proc, LocalInv(p), LooksRight(p), Step(p),
         OthersUntouched(p)
  PROVE  RequestsNamed'
  <1>1. ASSUME NEW q \in Proc, NEW w \in threads'[q]
        PROVE  Names(w)
    <2>1. \A s \in Proc : \A v \in threads[s] : Names(v)
      BY DEF RequestsNamed, Names
    <2> QED BY <1>1, <2>1, StepNames DEF OthersUntouched
  <1>2. ASSUME NEW i \in DOMAIN log', log'[i].kind = "approval"
        PROVE  log'[i].of \in Approval
    <2>1. CASE log' = log
      BY <1>2, <2>1 DEF RequestsNamed
    <2>2. ASSUME NEW row \in Row, log' = Append(log, row)
          PROVE  log'[i].of \in Approval
      <3>1. (i \in DOMAIN log /\ log'[i] = log[i]) \/ log'[i] = row
        BY <2>2, AppendFacts DEF JournalInv, JournalTypeOK
      <3>2. row.kind = "approval" => row.of \in Approval
        BY <2>2, RequestWritten DEF RequestsNamed
      <3> QED BY <1>2, <3>1, <3>2 DEF RequestsNamed
    <2>3. LogGrows
      BY FirstRows
    <2> QED BY <2>1, <2>2, <2>3 DEF LogGrows
  <1> QED BY <1>1, <1>2 DEF RequestsNamed, Names

LEMMA ApprovalInit == Init => ApprovalInv
  <1> SUFFICES ASSUME Init PROVE ApprovalInv
    OBVIOUS
  <1>1. \A p \in Proc : task[p] = "none" /\ hydration[p].todo = {} /\ hydration[p].at = "cold"
    BY DEF Init, Cold
  <1>2. \A p \in Proc : LooksRight(p)
    BY <1>1 DEF LooksRight, StartsNew, ResumesAsked, HydratesParked
  <1>3. RequestsNamed
    BY DEF Init, JournalInit, RequestsNamed
  <1> QED BY <1>2, <1>3, CoordInit DEF ApprovalInv

LEMMA ApprovalStep == ApprovalInv /\ [Next]_vars => ApprovalInv'
  <1> SUFFICES ASSUME ApprovalInv, [Next]_vars PROVE ApprovalInv'
    OBVIOUS
  <1>1. CoordInv /\ CoordInv'
    BY CoordStep DEF ApprovalInv
  <1>2. TypeOK /\ JournalInv /\ \A p \in Proc : LocalInv(p) /\ LooksRight(p)
    BY DEF ApprovalInv, CoordInv
  <1>3. ASSUME NEW p \in Proc, Step(p), NEW q \in Proc
        PROVE  LooksRight(q)'
    BY <1>2, <1>3, StepTouchesOne, StartsStayNew, ResumesStayAsked, HydrationStaysRight
    DEF LooksRight
  <1>4. ASSUME UNCHANGED vars, NEW q \in Proc
        PROVE  LooksRight(q)'
    <2>1. UNCHANGED <<log, leases, task, wanted, hydration>>
      BY <1>4 DEF vars, journalVars, coordVars
    <2>2. StartsNew(q)' /\ ResumesAsked(q)'
      BY <1>2, <2>1 DEF LooksRight, StartsNew, ResumesAsked, HasHistory, Asked, IsRow
    <2>3. \A r : Parked(r)' = Parked(r) /\ Settled(r)' = Settled(r)
      BY <2>1 DEF Parked, Settled, HasHistory, Terminal, Asked, Leased, IsRow, PendingApprovals,
                  RowIndices
    <2>4. HydratesParked(q)'
      <3>1. PICK s : s = hydration[q].run
        OBVIOUS
      <3>2. hydration[q].at = "interrupt" => Settled(s)'
        BY <1>2, <2>3, <3>1 DEF LooksRight, HydratesParked
      <3>3. \A r \in hydration[q].todo : Parked(r)'
        BY <1>2, <2>3 DEF LooksRight, HydratesParked
      <3> QED BY <2>1, <3>1, <3>2, <3>3 DEF HydratesParked, Settled, HasHistory, Terminal, Asked,
                                            Leased, IsRow, PendingApprovals, RowIndices
    <2> QED BY <2>2, <2>4 DEF LooksRight
  <1>5. Next => \E p \in Proc : Step(p)
    BY DEF Next, Step
  <1>6. RequestsNamed'
    <2>1. ASSUME NEW p \in Proc, Step(p) PROVE RequestsNamed'
      BY <1>2, <2>1, StepTouchesOne, RequestsStayNamed DEF ApprovalInv
    <2>2. CASE UNCHANGED vars
      BY <2>2 DEF ApprovalInv, RequestsNamed, vars, journalVars, coordVars
    <2> QED BY <1>5, <2>1, <2>2
  <1> QED BY <1>1, <1>3, <1>4, <1>5, <1>6 DEF ApprovalInv

\* Whatever the other processes do in between, a run that is about to begin is new, one
\* about to be resumed has asked for an approval, and one that hydration is about to
\* interrupt has ended, waits for nothing, or has an answered approval.
LEMMA ApprovalInvariant == Spec => []ApprovalInv
  BY ApprovalInit, ApprovalStep, PTL DEF Spec

------------------------------------------------------------------------------
(* A run with one approval is not interrupted while it waits for it           *)

LEMMA LeastElement ==
  ASSUME NEW T, T \subseteq Nat, T # {}
  PROVE  \E n \in T : \A m \in T : n <= m
  <1> DEFINE R == OpToRel(<, Nat)
  <1>1. IsWellFoundedOn(R, Nat)
    BY NatLessThanWellFounded
  <1>2. \A x, y \in Nat : <<x, y>> \in R <=> x < y
    BY DEF OpToRel
  <1> HIDE DEF R
  <1>3. PICK x \in T : \A y \in T : ~ (<<y, x>> \in R)
    BY <1>1, WFMin
  <1>4. \A y \in T : x \in Nat /\ y \in Nat /\ ~ (y < x)
    BY <1>2, <1>3
  <1>5. \A y \in T : x <= y
    BY <1>4
  <1> QED BY <1>5

\* A run that has asked has a request after which it made none.
LEMMA LastRequest ==
  ASSUME JournalTypeOK, NEW r, Asked(r)
  PROVE  \E i \in DOMAIN log : /\ IsRow(i, r, "approval")
                               /\ \A j \in DOMAIN log : IsRow(j, r, "approval") => j <= i
  <1> DEFINE Back == {n \in 0 .. Len(log) : \E i \in DOMAIN log :
                        IsRow(i, r, "approval") /\ n = Len(log) - i}
  <1>1. Len(log) \in Nat /\ DOMAIN log = 1 .. Len(log)
    BY DEF JournalTypeOK
  <1>2. \A i \in DOMAIN log : IsRow(i, r, "approval") => Len(log) - i \in Back
    BY <1>1
  <1>3. Back \subseteq Nat /\ Back # {}
    BY <1>1, <1>2 DEF Asked
  <1>4. PICK n \in Back : \A m \in Back : n <= m
    <2> HIDE DEF Back
    <2> QED BY <1>3, LeastElement
  <1>5. PICK i \in DOMAIN log : IsRow(i, r, "approval") /\ n = Len(log) - i
    OBVIOUS
  <1>6. ASSUME NEW j \in DOMAIN log, IsRow(j, r, "approval")
        PROVE  j <= i
    <2>1. n <= Len(log) - j
      BY <1>2, <1>4, <1>6
    <2> HIDE DEF Back
    <2> QED BY <1>1, <1>5, <2>1
  <1> QED BY <1>5, <1>6

\* recover_run_lease finds the approval such a run waits for.
LEMMA WaitingIsSeen ==
  ASSUME JournalTypeOK, NEW r, AsksForOne(r), NEW a \in PendingApprovals(r)
  PROVE  HasUnresolvedApproval(r)
  <1>1. PICK k \in DOMAIN log : IsRow(k, r, "approval") /\ log[k].of = a
    BY DEF PendingApprovals, RowIndices
  <1>2. PICK i \in DOMAIN log : /\ IsRow(i, r, "approval")
                                /\ \A j \in DOMAIN log : IsRow(j, r, "approval") => j <= i
    BY <1>1, LastRequest DEF Asked
  <1>3. log[i].of = a
    BY <1>1, <1>2 DEF AsksForOne, Asks
  <1>4. ASSUME NEW j \in DOMAIN log, i < j, log[j].run = r
        PROVE  log[j].kind # "approval" /\ ~(log[j].kind = "result" /\ log[j].of = a)
    <2>1. log[j].kind # "approval"
      BY <1>2, <1>4 DEF IsRow, JournalTypeOK
    <2>2. RowIndices(r, "result", a) = {}
      BY DEF PendingApprovals
    <2> QED BY <1>4, <2>1, <2>2 DEF RowIndices, IsRow
  <1> QED BY <1>2, <1>3, <1>4 DEF HasUnresolvedApproval

\* Nor does a settled one wait for anything.
LEMMA SettledWaitsForNothing ==
  ASSUME NEW r, Settled(r), ~Terminal(r), AsksForOne(r)
  PROVE  PendingApprovals(r) = {}
  <1> SUFFICES ASSUME NEW a \in PendingApprovals(r) PROVE FALSE
    OBVIOUS
  <1>1. PICK k \in DOMAIN log : IsRow(k, r, "approval") /\ log[k].of = a
    BY DEF PendingApprovals, RowIndices
  <1> QED BY <1>1 DEF Settled, Asked, AsksForOne, Asks

LEMMA InterruptionsRight ==
  ASSUME ApprovalInv, NEW p \in Proc, Step(p), NEW r \in Run, InterruptedNow(r), AsksForOne(r)
  PROVE  PendingApprovals(r) = {}
  <1>1. TypeOK /\ JournalInv /\ JournalTypeOK /\ LocalInv(p) /\ LooksRight(p) /\ ~Terminal(r)
    BY DEF ApprovalInv, CoordInv, JournalInv, InterruptedNow
  <1>2. FinishUnowned(r, "interrupted") \/ RecoverRunLease(LiveOwners)
    BY <1>1, StepCallsJournal, InterruptedBy
  <1>3. PICK row \in Row :
          /\ log' = Append(log, row)
          /\ \/ Leased(row.run)
             \/ Begin(p) /\ row.run = wanted[p] /\ row.kind = "started"
             \/ InterruptUnfinished(p) /\ row.run = hydration[p].run /\ row.kind = "terminal"
    BY <1>1, RowWritten DEF InterruptedNow, Terminal, IsRow
  <1>4. row.run = r /\ row.kind = "terminal"
    BY <1>1, <1>3, AppendQueries DEF InterruptedNow
  <1>5. CASE Leased(r)
    <2>1. RecoverRunLease(LiveOwners)
      BY <1>2, <1>5 DEF FinishUnowned, MayWriteUnowned
    <2>2. ~HasUnresolvedApproval(r)
      <3>1. PICK l \in leases : IF HasUnresolvedApproval(l.run) THEN UNCHANGED log
                                ELSE LogTerminalOnce(l.run, "interrupted", 0)
        BY <2>1 DEF RecoverRunLease
      <3>2. l.run = r
        BY <1>1, <1>5 DEF JournalInv, OneLease, Leased
      <3>3. log' # log
        BY <1>1 DEF InterruptedNow, Terminal, IsRow
      <3> QED BY <3>1, <3>2, <3>3
    <2> QED BY <1>1, <2>2, WaitingIsSeen
  <1>6. CASE ~Leased(r)
    <2>1. InterruptUnfinished(p) /\ hydration[p].run = r
      BY <1>3, <1>4, <1>6
    <2>2. Settled(r)
      BY <1>1, <2>1 DEF InterruptUnfinished, LooksRight, HydratesParked
    <2> QED BY <1>1, <2>2, SettledWaitsForNothing
  <1> QED BY <1>5, <1>6

\* The runs that ask for one approval are not interrupted while they wait for it.
SingleApprovalsSurvive ==
  [][\A r \in Run : InterruptedNow(r) /\ AsksForOne(r) => PendingApprovals(r) = {}]_vars

\* Neither the recovery of a dead process's lease nor a hydration that listed the run
\* and looked at it several transactions ago interrupts a run that waits for the one
\* approval it has asked for.
THEOREM WaitingRunsSurvive == Spec => SingleApprovalsSurvive
  <1>1. ApprovalInv /\ [Next]_vars =>
          [\A r \in Run : InterruptedNow(r) /\ AsksForOne(r) => PendingApprovals(r) = {}]_vars
    BY InterruptionsRight DEF Next, Step
  <1> QED BY <1>1, ApprovalInvariant, PTL DEF Spec, SingleApprovalsSurvive

\* Where runs ask for one approval only, the property of the coordinator run.
THEOREM OneApprovalSurvives ==
  ASSUME \A a, b \in Approval : a = b
  PROVE  Spec => ApprovalsSurvive
  <1>1. ApprovalInv => \A r \in Run : AsksForOne(r)
    BY DEF ApprovalInv, RequestsNamed, AsksForOne, Asks, IsRow
  <1>2. ApprovalInv /\ [Next]_vars =>
          [\A r \in Run : InterruptedNow(r) => PendingApprovals(r) = {}]_vars
    BY <1>1, InterruptionsRight DEF Next, Step
  <1> QED BY <1>2, ApprovalInvariant, PTL DEF Spec, ApprovalsSurvive

------------------------------------------------------------------------------
(* An answer is logged once                                                   *)

\* The answers process p may still write.
Answers(p) ==
  {w \in threads[p] : w.op = "append" /\ w.kind = "result" /\ HoldsLease(w.run, Self(p), w.token)}

\* There is one at most, and it is an answer the log does not have.
AnswerFresh(p) == \A w \in Answers(p) : RowIndices(w.run, "result", w.of) = {}
OneAnswer(p)   == \A v, w \in Answers(p) : v = w

AnswerInv == CoordInv /\ AnsweredOnce /\ \A p \in Proc : AnswerFresh(p) /\ OneAnswer(p)

\* An answer is written by a transaction that holds the lease.
LEMMA AnswerWritten ==
  ASSUME TypeOK, JournalInv, NEW p \in Proc, LocalInv(p), Step(p),
         NEW row \in Row, log' = Append(log, row), row.kind = "result"
  PROVE  \E w \in Answers(p) : PersistEvent(p, w) /\ w.run = row.run /\ w.of = row.of
  <1>1. PICK w \in threads[p] : /\ PersistEvent(p, w) /\ w.kind = "result"
                                /\ w.run = row.run /\ w.of = row.of
    BY RequestWritten
  <1> QED BY <1>1 DEF Answers, PersistEvent, AppendOwned

\* What a step adds to the answers of the log.
LEMMA AnswersGrow ==
  ASSUME TypeOK, JournalInv, NEW p \in Proc, LocalInv(p), Step(p), NEW r, NEW a,
         RowIndices(r, "result", a) = {}
  PROVE  \/ RowIndices(r, "result", a)' = {}
         \/ \E w \in Answers(p) : PersistEvent(p, w) /\ w.run = r /\ w.of = a
  <1>1. CASE log' = log
    BY <1>1 DEF RowIndices, IsRow
  <1>2. ASSUME NEW row \in Row, log' = Append(log, row)
        PROVE  \/ RowIndices(r, "result", a)' = {}
               \/ row.kind = "result" /\ row.run = r /\ row.of = a
    <2>1. \A i \in DOMAIN log' : (i \in DOMAIN log /\ log'[i] = log[i]) \/ log'[i] = row
      BY <1>2, AppendFacts DEF JournalInv, JournalTypeOK
    <2> QED BY <2>1 DEF RowIndices, IsRow
  <1> QED BY <1>1, <1>2, AnswerWritten, RowWritten

LEMMA AnsweredOnceStays ==
  ASSUME TypeOK, JournalInv, AnsweredOnce, NEW p \in Proc, LocalInv(p), Step(p), AnswerFresh(p)
  PROVE  AnsweredOnce'
  <1>1. CASE log' = log
    BY <1>1 DEF AnsweredOnce
  <1>2. ASSUME NEW row \in Row, log' = Append(log, row)
        PROVE  AnsweredOnce'
    <2>1. /\ DOMAIN log' = 1 .. Len(log) + 1 /\ DOMAIN log = 1 .. Len(log)
          /\ Len(log) \in Nat
          /\ \A i \in 1 .. Len(log) : log'[i] = log[i]
          /\ log'[Len(log) + 1] = row
      BY <1>2, AppendFacts DEF JournalInv, JournalTypeOK
    <2>2. row.kind = "result" =>
            \A i \in DOMAIN log : ~(IsRow(i, row.run, "result") /\ log[i].of = row.of)
      <3> SUFFICES ASSUME row.kind = "result", NEW i \in DOMAIN log,
                          IsRow(i, row.run, "result"), log[i].of = row.of
                   PROVE  FALSE
        OBVIOUS
      <3>1. PICK w \in Answers(p) : w.run = row.run /\ w.of = row.of
        BY <1>2, AnswerWritten
      <3>2. RowIndices(w.run, "result", w.of) = {}
        BY DEF AnswerFresh
      <3> QED BY <3>1, <3>2 DEF RowIndices, IsRow
    <2> SUFFICES ASSUME NEW i \in DOMAIN log', NEW j \in DOMAIN log',
                        log'[i].kind = "result", log'[j].kind = "result",
                        log'[i].run = log'[j].run, log'[i].of = log'[j].of
                 PROVE  i = j
      BY DEF AnsweredOnce
    <2>3. CASE i \in DOMAIN log /\ j \in DOMAIN log
      BY <2>1, <2>3 DEF AnsweredOnce
    <2>4. CASE i = Len(log) + 1 /\ j \in DOMAIN log
      BY <2>1, <2>2, <2>4 DEF IsRow
    <2>5. CASE j = Len(log) + 1 /\ i \in DOMAIN log
      BY <2>1, <2>2, <2>5 DEF IsRow
    <2> QED BY <2>1, <2>3, <2>4, <2>5
  <1> QED BY <1>1, <1>2, RowWritten

\* A process keeps its identity while it has anything to write.
LEMMA StepIdentity ==
  ASSUME TypeOK, NEW p \in Proc, LocalInv(p), Step(p)
  PROVE  \/ start'[p] = start[p]
         \/ threads'[p] = {}
  <1>1. CASE Boot(p)
    BY <1>1 DEF Boot, LocalInv, Alive
  <1>2. CASE ~Boot(p)
    <2>1. start' = start
      BY <1>2 DEF Step, TaskStep, Begin, BeginRefused, Abort, Resume, Unresume, FirstStep,
         SeeEnding, Unwind, ThreadStep, PersistEvent, PersistEnding, ReleaseSuspended, LeaseLost,
         CallerStep, Deliver, TooLate, AfterTask, CallerEnds, CallerClears, Recovery, RecoverLease,
         ListUnfinished, InterruptUnfinished, CheckUnfinished, Environment, Crash, StartRun,
         ResumeExisting, StreamEvent, StreamTerminal, StreamEnds, Decide
    <2> QED BY <2>1
  <1> QED BY <1>1, <1>2

\* A transaction that holds a lease after a step held it before.
LEMMA LeaseHeldBefore ==
  ASSUME TypeOK, JournalInv, NEW p \in Proc, LocalInv(p), Step(p),
         NEW q \in Proc, NEW w \in threads[q], w.token < nextToken,
         [run |-> w.run, owner |-> Self(q), token |-> w.token] \in leases'
  PROVE  HoldsLease(w.run, Self(q), w.token)
  <1>1. CASE UNCHANGED journalVars \/ CallOnLease(p) \/ InterruptUnfinished(p)
    <2>1. leases' \subseteq leases
      BY <1>1 DEF journalVars, CallOnLease, CoordinatorCall, AppendOwned, FinishOwned,
         ReleaseRunLease, RecoverRunLease, InterruptUnfinished, FinishUnowned, DropLease
    <2> QED BY <2>1 DEF HoldsLease
  <1>2. CASE Begin(p) \/ Resume(p)
    <2>1. leases' = {[run |-> wanted[p], owner |-> Self(p), token |-> nextToken]}
      BY <1>2, Wanted DEF BeginRun, ResumeRun, TakeLease
    <2>2. w.token = nextToken
      BY <2>1
    <2>3. nextToken \in Nat
      BY DEF JournalInv, JournalTypeOK
    <2> QED BY <2>2, <2>3
  <1> QED BY <1>1, <1>2, StepJournal

LEMMA AnswersKept ==
  ASSUME TypeOK, JournalInv, NEW p \in Proc, LocalInv(p), Step(p),
         NEW q \in Proc, LocalInv(q), start'[q] = start[q],
         NEW w \in Answers(q)', w \in threads[q]
  PROVE  w \in Answers(q)
  <1>1. /\ w.op = "append" /\ w.kind = "result"
        /\ [run |-> w.run, owner |-> Self(q), token |-> w.token] \in leases'
    BY DEF Answers, HoldsLease, Self
  <1>2. w.token < nextToken
    BY DEF LocalInv, WritesFormed
  <1> QED BY <1>1, <1>2, LeaseHeldBefore DEF Answers

\* An answer that is still to be written is not yet in the log.
LEMMA FreshKept ==
  ASSUME TypeOK, JournalInv, NEW p \in Proc, LocalInv(p), Step(p), OneAnswer(p),
         NEW q \in Proc, AnswerFresh(q), NEW w \in Answers(q), w \in threads'[q]
  PROVE  RowIndices(w.run, "result", w.of)' = {}
  <1> SUFFICES ASSUME RowIndices(w.run, "result", w.of)' # {} PROVE FALSE
    OBVIOUS
  <1>1. RowIndices(w.run, "result", w.of) = {}
    BY DEF AnswerFresh
  <1>2. PICK v \in Answers(p) : PersistEvent(p, v) /\ v.run = w.run
    BY <1>1, AnswersGrow
  <1>3. HoldsLease(w.run, Self(p), v.token) /\ HoldsLease(w.run, Self(q), w.token)
    BY <1>2 DEF Answers
  <1>4. p = q
    BY <1>3, HolderFacts, SelfInjective
  <1>5. v = w
    BY <1>2, <1>4 DEF OneAnswer
  <1>6. w.op = "append" /\ w \in threads[p] /\ w \in Write
    BY <1>2, <1>5 DEF PersistEvent, Answers, TypeOK
  <1>7. Retire(p, w) \/ AuditDone(p, w)
    BY <1>2, <1>5 DEF PersistEvent
  <1>8. ~Retire(p, w)
    BY <1>4 DEF Retire, TypeOK
  <1>9. ~AuditDone(p, w)
    <2> DEFINE u == [w EXCEPT !.op = "finish", !.kind = "terminal", !.of = "cancelled"]
    <2>1. u.op = "finish"
      BY <1>6 DEF Write
    <2>2. AuditDone(p, w) => w = u
      BY <1>4 DEF AuditDone, TypeOK
    <2> QED BY <1>6, <2>1, <2>2
  <1> QED BY <1>7, <1>8, <1>9

\* A step that hands out no answer.
LEMMA AnswersSubset ==
  ASSUME TypeOK, JournalInv, NEW p \in Proc, LocalInv(p), Step(p), OneAnswer(p),
         NEW q \in Proc, LocalInv(q), AnswerFresh(q), OneAnswer(q), start'[q] = start[q],
         \A w \in threads'[q] : w.op = "append" /\ w.kind = "result" => w \in threads[q]
  PROVE  AnswerFresh(q)' /\ OneAnswer(q)'
  <1>1. ASSUME NEW w \in Answers(q)'
        PROVE  w \in Answers(q) /\ RowIndices(w.run, "result", w.of)' = {}
    <2>1. w \in threads'[q] /\ w \in threads[q]
      BY DEF Answers
    <2>2. w \in Answers(q)
      BY <2>1, AnswersKept
    <2> QED BY <2>1, <2>2, FreshKept
  <1>2. OneAnswer(q)'
    BY <1>1 DEF OneAnswer
  <1>3. AnswerFresh(q)'
    BY <1>1 DEF AnswerFresh
  <1> QED BY <1>2, <1>3

\* The steps of a process that hand out an answer: an event of its stream, and a
\* cancellation that leaves the write of one behind.
LEMMA AnswersFrom ==
  ASSUME TypeOK, NEW p \in Proc, LocalInv(p), Step(p), ~StreamEvent(p), ~Deliver(p),
         NEW w \in threads'[p], w.op = "append", w.kind = "result"
  PROVE  w \in threads[p]
  <1>1. CASE threads'[p] \subseteq threads[p]
    BY <1>1
  <1>2. CASE TaskStep(p)
    BY <1>1, <1>2 DEF TaskStep, Begin, BeginRefused, Abort, Resume, Unresume, FirstStep, SeeEnding,
                      Unwind
  <1>3. CASE ThreadStep(p)
    <2>1. PICK v \in threads[p] :
            PersistEvent(p, v) \/ PersistEnding(p, v) \/ ReleaseSuspended(p, v) \/ LeaseLost(p, v)
      BY <1>3 DEF ThreadStep
    <2>2. Retire(p, v) \/ AuditDone(p, v)
      BY <2>1 DEF PersistEvent, PersistEnding, ReleaseSuspended, LeaseLost
    <2>3. CASE Retire(p, v)
      BY <1>1, <2>3 DEF Retire, TypeOK
    <2>4. CASE AuditDone(p, v)
      <3> DEFINE u == [v EXCEPT !.op = "finish", !.kind = "terminal", !.of = "cancelled"]
      <3>1. w \in threads[p] \/ w = u
        BY <2>4 DEF AuditDone, TypeOK
      <3>2. u.op = "finish"
        BY DEF TypeOK, Write
      <3> HIDE DEF u
      <3> QED BY <3>1, <3>2
    <2> QED BY <2>2, <2>3, <2>4
  <1>4. CASE TooLate(p) \/ AfterTask(p) \/ CallerEnds(p) \/ CallerClears(p)
    BY <1>1, <1>4 DEF TooLate, AfterTask, CallerEnds, CallerClears
  <1>5. CASE Recovery(p)
    BY <1>1, <1>5 DEF Recovery, RecoverLease, ListUnfinished, InterruptUnfinished, CheckUnfinished
  <1>6. CASE StreamTerminal(p) \/ StreamEnds(p)
    <2>1. \E x \in {"completed", "error"} : Hand(p, "finish", "terminal", x, "task", TRUE)
      BY <1>6 DEF StreamTerminal, StreamEnds
    <2>2. PICK x : Hand(p, "finish", "terminal", x, "task", TRUE)
      BY <2>1
    <2>3. PICK v : v = [op |-> "finish", run |-> active[p], kind |-> "terminal", of |-> x,
                        token |-> token[p], for |-> "task", locked |-> TRUE]
      OBVIOUS
    <2>4. threads'[p] = threads[p] \union {v}
      BY <2>2, <2>3 DEF Hand, TypeOK
    <2>5. v.op = "finish"
      BY <2>3
    <2> QED BY <2>4, <2>5
  <1>7. Boot(p) \/ (\E r \in Run : StartRun(p, r) \/ ResumeExisting(p, r))
          \/ (\E how \in {"cancel", "suspend"} : Decide(p, how)) => UNCHANGED threads
    BY DEF Boot, StartRun, ResumeExisting, Decide
  <1>8. Crash(p) => threads'[p] = {}
    BY DEF Crash, TypeOK
  <1> QED BY <1>1, <1>2, <1>3, <1>4, <1>5, <1>6, <1>7, <1>8 DEF Step, CallerStep, Environment

\* A process that consumes its stream has no other answer to write.
LEMMA StreamAnswers ==
  ASSUME TypeOK, JournalInv, NEW p \in Proc, LocalInv(p), LeaseKnown(p), StreamEvent(p)
  PROVE  AnswerFresh(p)' /\ OneAnswer(p)'
  <1>1. /\ UNCHANGED journalVars /\ UNCHANGED <<start, active, token>>
        /\ task[p] = "streaming"
    BY DEF StreamEvent
  <1>2. Answers(p) = {}
    <2> SUFFICES ASSUME NEW w \in Answers(p) PROVE FALSE
      OBVIOUS
    <2>1. HoldsLease(w.run, Self(p), w.token) /\ HoldsLease(active[p], Self(p), token[p])
      BY <1>1 DEF Answers, LeaseKnown, Streaming
    <2>2. w.token = token[p]
      BY <2>1, HolderFacts
    <2>3. w.for = "nobody" /\ w \in threads[p]
      BY <1>1, Unawaited DEF LocalInv, Answers
    <2> QED BY <1>1, <2>2, <2>3 DEF LocalInv, WritesAwaited, Streaming
  <1>3. PICK v : /\ threads'[p] = threads[p] \union {v}
                 /\ v.kind = "result" => /\ v.run = active[p]
                                         /\ RowIndices(active[p], "result", v.of) = {}
    <2> DEFINE W(k, x) == [op |-> "append", run |-> active[p], kind |-> k, of |-> x,
                           token |-> token[p], for |-> "task", locked |-> TRUE]
    <2>1. \E k, x : /\ Hand(p, "append", k, x, "task", TRUE)
                    /\ k = "result" => x \in PendingApprovals(active[p])
      <3>1. \/ Hand(p, "append", "work", Nothing, "task", TRUE)
            \/ \E a \in Approval : Hand(p, "append", "approval", a, "task", TRUE)
            \/ \E a \in PendingApprovals(active[p]) : Hand(p, "append", "result", a, "task", TRUE)
        BY DEF StreamEvent
      <3>2. CASE Hand(p, "append", "work", Nothing, "task", TRUE)
        <4> WITNESS "work", Nothing
        <4> QED BY <3>2
      <3>3. CASE \E a \in Approval : Hand(p, "append", "approval", a, "task", TRUE)
        <4>1. PICK a \in Approval : Hand(p, "append", "approval", a, "task", TRUE)
          BY <3>3
        <4> WITNESS "approval", a
        <4> QED BY <4>1
      <3>4. CASE \E a \in PendingApprovals(active[p]) : Hand(p, "append", "result", a, "task", TRUE)
        BY <3>4
      <3> QED BY <3>1, <3>2, <3>3, <3>4
    <2>2. PICK k, x : /\ Hand(p, "append", k, x, "task", TRUE)
                      /\ k = "result" => x \in PendingApprovals(active[p])
      BY <2>1
    <2>3. PICK v : v = W(k, x)
      OBVIOUS
    <2>4. threads'[p] = threads[p] \union {v}
      BY <2>2, <2>3 DEF Hand, TypeOK
    <2>5. v.run = active[p] /\ v.kind = k /\ v.of = x
      BY <2>3
    <2> HIDE DEF W
    <2> QED BY <2>2, <2>4, <2>5 DEF PendingApprovals
  <1>4. \A w \in Answers(p)' : w \in Answers(p) \/ w = v
    BY <1>1, <1>3 DEF Answers, HoldsLease, Self, journalVars
  <1>5. \A w \in Answers(p)' : w = v /\ w.kind = "result"
    BY <1>2, <1>4 DEF Answers
  <1>6. OneAnswer(p)'
    BY <1>5 DEF OneAnswer
  <1>7. AnswerFresh(p)'
    <2> SUFFICES ASSUME NEW w \in Answers(p)' PROVE RowIndices(w.run, "result", w.of)' = {}
      BY DEF AnswerFresh
    <2>1. RowIndices(w.run, "result", w.of) = {}
      BY <1>3, <1>5
    <2> QED BY <1>1, <2>1 DEF RowIndices, IsRow, journalVars
  <1> QED BY <1>6, <1>7

\* What a cancelled task leaves behind: the write it waited for, if that goes on,
\* now waited for by nobody.
Unwaited(w, lock) == [w EXCEPT !.for = "nobody", !.locked = lock]

LEMMA LeftBehind ==
  ASSUME NEW p \in Proc, NEW left \in Abandon(p)
  PROVE  \E lock \in BOOLEAN : \A v \in left :
           \/ v \in threads[p] /\ v.for # "task"
           \/ \E w \in threads[p] : w.for = "task" /\ v = Unwaited(w, lock)
  <1> DEFINE Own       == {w \in threads[p] : w.for = "task"}
             Others    == threads[p] \ Own
             Late(lock) == {[w EXCEPT !.for = "nobody", !.locked = lock] : w \in Own}
  <1>1. \/ left = Others
        \/ \E lock \in BOOLEAN : left = Others \union Late(lock)
    BY Zenon DEF Abandon
  <1>2. \A v \in Others : v \in threads[p] /\ v.for # "task"
    BY Zenon
  <1>3. \A lock \in BOOLEAN : \A v \in Late(lock) :
          \E w \in threads[p] : w.for = "task" /\ v = Unwaited(w, lock)
    BY Zenon DEF Unwaited
  <1> HIDE DEF Others, Late
  <1>4. CASE left = Others
    BY <1>2, <1>4
  <1>5. ASSUME NEW lock \in BOOLEAN, left = Others \union Late(lock), NEW v \in left
        PROVE  \/ v \in threads[p] /\ v.for # "task"
               \/ \E w \in threads[p] : w.for = "task" /\ v = Unwaited(w, lock)
    <2>1. v \in Others \/ v \in Late(lock)
      BY <1>5
    <2> QED BY <1>2, <1>3, <2>1
  <1> QED BY <1>1, <1>4, <1>5

\* A cancellation that finds the task waiting for the write of an answer leaves that
\* answer, and no other.
LEMMA DeliveredAnswers ==
  ASSUME TypeOK, NEW p \in Proc, Deliver(p), AnswerFresh(p), OneAnswer(p)
  PROVE  AnswerFresh(p)' /\ OneAnswer(p)'
  <1>1. UNCHANGED journalVars /\ start' = start
    BY DEF Deliver
  <1>2. \A w \in Answers(p)' : /\ w \in threads'[p] /\ w.op = "append" /\ w.kind = "result"
                               /\ HoldsLease(w.run, Self(p), w.token)
    BY <1>1 DEF Answers, HoldsLease, Self, journalVars
  <1>3. CASE threads' = threads
    BY <1>1, <1>3 DEF AnswerFresh, OneAnswer, Answers, HoldsLease, Self, RowIndices, IsRow,
                      journalVars
  <1>4. ASSUME NEW left \in Abandon(p), \A w \in threads'[p] : w \in left \/ w.kind # "result"
        PROVE  AnswerFresh(p)' /\ OneAnswer(p)'
    <2>1. PICK lock \in BOOLEAN : \A v \in left :
           \/ v \in threads[p] /\ v.for # "task"
           \/ \E w \in threads[p] : w.for = "task" /\ v = Unwaited(w, lock)
      BY LeftBehind
    <2>2. ASSUME NEW v \in Answers(p)'
          PROVE  \E w \in Answers(p) :
                   /\ w.run = v.run /\ w.of = v.of
                   /\ \/ w.for # "task" /\ v = w
                      \/ w.for = "task" /\ v = Unwaited(w, lock)
      <3>1. /\ v \in left /\ v.op = "append" /\ v.kind = "result"
            /\ HoldsLease(v.run, Self(p), v.token)
        BY <1>2, <1>4
      <3>2. CASE v \in threads[p] /\ v.for # "task"
        BY <3>1, <3>2 DEF Answers
      <3>3. ASSUME NEW w \in threads[p], w.for = "task",
                   v = Unwaited(w, lock)
            PROVE  /\ w \in Answers(p) /\ w.run = v.run /\ w.of = v.of
        <4>1. w \in Write
          BY DEF TypeOK
        <4>2. v.op = w.op /\ v.kind = w.kind /\ v.run = w.run /\ v.token = w.token /\ v.of = w.of
          BY <3>3, <4>1 DEF Write, Unwaited
        <4> QED BY <3>1, <4>2 DEF Answers
      <3> QED BY <2>1, <3>1, <3>2, <3>3
    <2>3. OneAnswer(p)'
      <3> SUFFICES ASSUME NEW u \in Answers(p)', NEW v \in Answers(p)' PROVE u = v
        BY DEF OneAnswer
      <3>1. PICK x \in Answers(p) : \/ x.for # "task" /\ u = x
                                    \/ x.for = "task" /\ u = Unwaited(x, lock)
        BY <2>2
      <3>2. PICK y \in Answers(p) : \/ y.for # "task" /\ v = y
                                    \/ y.for = "task" /\ v = Unwaited(y, lock)
        BY <2>2
      <3>3. x = y
        BY DEF OneAnswer
      <3> QED BY <3>1, <3>2, <3>3
    <2>4. AnswerFresh(p)'
      <3> SUFFICES ASSUME NEW v \in Answers(p)' PROVE RowIndices(v.run, "result", v.of)' = {}
        BY DEF AnswerFresh
      <3>1. RowIndices(v.run, "result", v.of) = {}
        BY <2>2 DEF AnswerFresh
      <3> QED BY <1>1, <3>1 DEF RowIndices, IsRow, journalVars
    <2> QED BY <2>3, <2>4
  <1>5. \/ threads' = threads
        \/ \E left \in Abandon(p) : \A w \in threads'[p] : w \in left \/ w.kind # "result"
    <2>1. \/ threads' = threads
          \/ \E left \in Abandon(p) : threads' = [threads EXCEPT ![p] = left]
          \/ \E left \in Abandon(p), c \in Cleanups(p, caller[p].how) :
               threads' = [threads EXCEPT ![p] = left \union {c}]
      BY DEF Deliver
    <2>2. ASSUME NEW how, NEW c \in Cleanups(p, how)
          PROVE  c.kind # "result"
      BY <2>2 DEF Cleanups, Cleanup
    <2> QED BY <2>1, <2>2 DEF TypeOK
  <1> QED BY <1>3, <1>4, <1>5

LEMMA AnswersStayFresh ==
  ASSUME AnswerInv, NEW p \in Proc, Step(p), NEW q \in Proc
  PROVE  AnswerFresh(q)' /\ OneAnswer(q)'
  <1>1. /\ TypeOK /\ JournalInv /\ LocalInv(p) /\ LeaseKnown(p) /\ LocalInv(q)
        /\ AnswerFresh(p) /\ OneAnswer(p) /\ AnswerFresh(q) /\ OneAnswer(q)
    BY DEF AnswerInv, CoordInv
  <1>2. CASE q # p
    <2>1. start'[q] = start[q] /\ threads'[q] = threads[q]
      BY <1>1, <1>2, StepTouchesOne DEF OthersUntouched
    <2> QED BY <1>1, <2>1, AnswersSubset
  <1>3. CASE q = p /\ StreamEvent(p)
    BY <1>1, <1>3, StreamAnswers
  <1>4. CASE q = p /\ Deliver(p)
    BY <1>1, <1>4, DeliveredAnswers
  <1>5. CASE q = p /\ threads'[p] = {}
    BY <1>5 DEF AnswerFresh, OneAnswer, Answers
  <1>6. CASE q = p /\ start'[p] = start[p] /\ ~StreamEvent(p) /\ ~Deliver(p)
    <2>1. \A w \in threads'[p] : w.op = "append" /\ w.kind = "result" => w \in threads[p]
      BY <1>1, <1>6, AnswersFrom
    <2> QED BY <1>1, <1>6, <2>1, AnswersSubset
  <1> QED BY <1>1, <1>2, <1>3, <1>4, <1>5, <1>6, StepIdentity

LEMMA AnswerInit == Init => AnswerInv
  <1> SUFFICES ASSUME Init PROVE AnswerInv
    OBVIOUS
  <1>1. \A p \in Proc : Answers(p) = {}
    BY DEF Init, Answers
  <1>2. AnsweredOnce
    BY DEF Init, JournalInit, AnsweredOnce
  <1> QED BY <1>1, <1>2, CoordInit DEF AnswerInv, AnswerFresh, OneAnswer

LEMMA AnswerStep == AnswerInv /\ [Next]_vars => AnswerInv'
  <1> SUFFICES ASSUME AnswerInv, [Next]_vars PROVE AnswerInv'
    OBVIOUS
  <1>1. CoordInv'
    BY CoordStep DEF AnswerInv
  <1>2. ASSUME NEW p \in Proc, Step(p)
        PROVE  AnswerInv'
    <2>1. AnsweredOnce'
      BY <1>2, AnsweredOnceStays DEF AnswerInv, CoordInv
    <2> QED BY <1>1, <1>2, <2>1, AnswersStayFresh DEF AnswerInv
  <1>3. CASE UNCHANGED vars
    <2>1. UNCHANGED <<log, leases, start, threads>>
      BY <1>3 DEF vars, journalVars, coordVars
    <2> QED BY <1>1, <2>1 DEF AnswerInv, AnsweredOnce, AnswerFresh, OneAnswer, Answers,
                              HoldsLease, Self, RowIndices, IsRow
  <1> QED BY <1>2, <1>3 DEF Next, Step

\* An approval is answered once in the log of its run: the answer a cancelled task was
\* waiting for, written late, can neither follow nor be followed by the one that another
\* process, or the same, gives after resuming the run.
THEOREM AnswersLoggedOnce == Spec => []AnsweredOnce
  <1>1. AnswerInv => AnsweredOnce
    BY DEF AnswerInv
  <1> QED BY <1>1, AnswerInit, AnswerStep, PTL DEF Spec

------------------------------------------------------------------------------
(* What a recovery releases can be resumed                                    *)

\* The two ways the code looks for an approval a run waits for, one for a lease that is
\* recovered and one for the hydration after it, agree on this much.
LEMMA UnresolvedIsRecoverable ==
  ASSUME JournalTypeOK, RequestsNamed, NEW r, HasUnresolvedApproval(r), ~Terminal(r)
  PROVE  RecoverableApprovals(r) # {}
  <1>1. PICK i \in DOMAIN log :
          /\ IsRow(i, r, "approval")
          /\ \A j \in DOMAIN log : i < j /\ log[j].run = r =>
               ~(log[j].kind = "result" /\ log[j].of = log[i].of)
    BY DEF HasUnresolvedApproval
  <1>2. log[i].run = r /\ log[i].of \in Approval
    BY <1>1 DEF RequestsNamed, IsRow
  <1>3. ~Answered(i)
    BY <1>1, <1>2 DEF Answered, IsRow
  <1>4. log[i].of \in RecoverableApprovals(r)
    BY <1>1, <1>2, <1>3 DEF RecoverableApprovals
  <1> QED BY <1>4

LEMMA ReleasedRuns ==
  ASSUME ApprovalInv, NEW q \in Proc, Step(q), NEW p \in Proc, NEW r \in Run,
         hydration[p].at = "cold", hydration'[p].at = "list", Leased(r), ~Leased(r)'
  PROVE  Terminal(r)' \/ RecoverableApprovals(r)' # {}
  <1>1. TypeOK /\ JournalInv /\ JournalTypeOK /\ RequestsNamed
    BY DEF ApprovalInv, CoordInv, JournalInv
  <1>2. q = p
    BY <1>1, StepTouchesOne DEF OthersUntouched
  <1>3. RecoverLease(p)
    <2>1. hydration[p] \in Hydration /\ hydration' # hydration
      BY <1>1 DEF TypeOK
    <2>2. ~TaskStep(p) /\ ~ThreadStep(p) /\ ~CallerStep(p)
      BY <2>1 DEF TaskStep, ThreadStep, CallerStep, Begin, BeginRefused, Abort, Resume, Unresume,
                  FirstStep, SeeEnding, Unwind, PersistEvent, PersistEnding, ReleaseSuspended,
                  LeaseLost, Deliver, TooLate, AfterTask, CallerEnds, CallerClears
    <2>3. ~Crash(p)
      BY <1>1 DEF Crash, Cold, TypeOK
    <2>4. ~Environment(p)
      BY <2>1, <2>3 DEF Environment, Boot, StartRun, ResumeExisting, StreamEvent, StreamTerminal,
                        StreamEnds, Decide
    <2>5. ~ListUnfinished(p) /\ ~InterruptUnfinished(p) /\ \A s : ~CheckUnfinished(p, s)
      BY DEF ListUnfinished, InterruptUnfinished, CheckUnfinished
    <2> QED BY <1>2, <2>2, <2>4, <2>5 DEF Step, Recovery
  <1>4. RecoverRunLease(LiveOwners)
    BY <1>3 DEF RecoverLease, journalVars, Leased
  <1>5. PICK l \in leases : IF HasUnresolvedApproval(l.run) THEN UNCHANGED log
                            ELSE LogTerminalOnce(l.run, "interrupted", 0)
    BY <1>4 DEF RecoverRunLease
  <1>6. l.run = r
    BY <1>1, <1>5 DEF JournalInv, OneLease, Leased
  <1>7. CASE HasUnresolvedApproval(r)
    <2>1. log' = log
      BY <1>5, <1>6, <1>7
    <2>2. Terminal(r) \/ RecoverableApprovals(r) # {}
      BY <1>1, <1>7, UnresolvedIsRecoverable
    <2> QED BY <2>1, <2>2 DEF Terminal, RecoverableApprovals, Answered, IsRow
  <1>8. CASE ~HasUnresolvedApproval(r)
    <2>1. log' = IF Terminal(r) THEN log ELSE Append(log, NewRow(r, "terminal", "interrupted", 0))
      BY <1>5, <1>6, <1>8 DEF LogTerminalOnce
    <2>2. PICK row : row = NewRow(r, "terminal", "interrupted", 0)
      OBVIOUS
    <2>3. row.run = r /\ row.kind = "terminal"
      BY <2>2 DEF NewRow
    <2>4. CASE Terminal(r)
      BY <2>1, <2>4 DEF Terminal, IsRow
    <2>5. CASE ~Terminal(r)
      <3>1. log' = Append(log, row) /\ Len(log) + 1 \in DOMAIN log' /\ log'[Len(log) + 1] = row
        BY <1>1, <2>1, <2>2, <2>5 DEF JournalTypeOK
      <3> QED BY <2>3, <3>1 DEF Terminal, IsRow
    <2> QED BY <2>4, <2>5
  <1> QED BY <1>7, <1>8

\* A run whose lease is recovered ends, or can be resumed.
ReleasedResumable ==
  [][\A p \in Proc, r \in Run :
       hydration[p].at = "cold" /\ hydration'[p].at = "list" /\ Leased(r) /\ ~Leased(r)'
         => Terminal(r)' \/ RecoverableApprovals(r)' # {}]_vars

\* recover_run_lease keeps a run open only if recoverable_approval, which is what the
\* hydration that follows consults, then finds what to resume it with.
THEOREM ReleasedRunsResumable == Spec => ReleasedResumable
  <1>1. ApprovalInv /\ [Next]_vars =>
          [\A p \in Proc, r \in Run :
             hydration[p].at = "cold" /\ hydration'[p].at = "list" /\ Leased(r) /\ ~Leased(r)'
               => Terminal(r)' \/ RecoverableApprovals(r)' # {}]_vars
    BY ReleasedRuns DEF Next, Step
  <1> QED BY <1>1, ApprovalInvariant, PTL DEF Spec, ReleasedResumable

=============================================================================

------------------------- MODULE RunCoordinatorProofs -------------------------
(***************************************************************************)
(* Theorems about the processes of a session, for any process slots, runs, *)
(* approvals and any values of the bounds.                                 *)
(***************************************************************************)
EXTENDS RunCoordinator, RunJournalProofs

(* The inductive invariant: for each process, what its program points say    *)
(* about its own variables, and what they say about the journal.             *)

Streaming == {"created", "streaming", "writing", "finishing", "failing"}
Running   == Streaming \union {"ended", "cleaning", "done", "raised"}
Starting  == {"begin", "abort", "resume", "unresume"}
After     == {"returned", "persisting", "clearing"}

\* A process that is not running has nothing in memory.
Alive(p) ==
  /\ up[p] => start[p] # 0
  /\ ~up[p] => /\ task[p] = "none" /\ active[p] = NoRun /\ threads[p] = {}
               /\ caller[p].at = "none" /\ hydration[p].at = "cold"

\* A task has a run, start_run and start_existing_run want one.
RunsKnown(p) ==
  /\ task[p] \in Running => active[p] \in Run
  /\ task[p] \in Starting => wanted[p] \in Run /\ active[p] = NoRun
  /\ hydration[p].at = "interrupt" => hydration[p].run \in Run

\* A coordinator has a token exactly when it has a run, or is giving one up.
TokensKnown(p) ==
  /\ token[p] < nextToken
  /\ active[p] # NoRun => token[p] # 0
  /\ active[p] = NoRun /\ task[p] \notin {"abort", "unresume"} => token[p] = 0

\* What a transaction may write, and with which token.
WritesFormed(p) ==
  \A w \in threads[p] :
    /\ w.op = "append" => /\ w.kind \in {"work", "approval", "result"}
                          /\ w.of \in Approval \union {Nothing}
    /\ w.op = "finish" => w.of \in {"completed", "cancelled", "error"}
    /\ w.op = "release" => w.for = "cleanup"
    /\ w.token < nextToken

\* One transaction at most is waited for, in the active run's name; those nobody
\* waits for carry tokens of runs that are not consumed any more.
WritesAwaited(p) ==
  /\ \A w \in threads[p] :
       /\ w.for = "task" => task[p] \in {"writing", "finishing", "failing"}
       /\ w.for = "cleanup" => task[p] = "cleaning"
       /\ w.for # "nobody" => w.run = active[p] /\ w.token = token[p]
       /\ w.for = "nobody" /\ task[p] \in Streaming => w.token # token[p]
  /\ \A v, w \in threads[p] : v.for # "nobody" /\ w.for # "nobody" => v = w

\* A caller waits for the task it has cancelled; once it has it back, whatever
\* the coordinator does has another token.
CallerKnown(p) ==
  /\ caller[p].at # "none" => caller[p].run \in Run /\ caller[p].token < nextToken
  /\ caller[p].at \in After => caller[p].token # 0
  /\ caller[p].at = "waiting" =>
       /\ task[p] \in {"cleaning", "done", "raised"}
       /\ caller[p].run = active[p] /\ caller[p].token = token[p]
  /\ task[p] = "cleaning" => caller[p].at = "waiting"
  /\ caller[p].at \in After /\ task[p] # "none" => caller[p].token # token[p]
  /\ caller[p].how = "cancel" =>
       \A w \in threads[p] : w.for = "cleanup" => w.op # "release"

\* The lease, or the ending, behind each program point.
LeaseKnown(p) ==
  /\ task[p] \in Streaming => HoldsLease(active[p], Self(p), token[p])
  /\ task[p] = "ended" => Terminal(active[p])
  /\ task[p] = "done" /\ caller[p].at # "waiting" => Terminal(active[p])
  /\ caller[p].how = "cancel" /\ caller[p].at \in {"waiting", "returned", "persisting"} =>
       Terminal(caller[p].run) \/ HoldsLease(caller[p].run, Self(p), caller[p].token)
  /\ caller[p].how = "cancel" /\ caller[p].at = "clearing" => Terminal(caller[p].run)

LocalInv(p) ==
  /\ Alive(p) /\ RunsKnown(p) /\ TokensKnown(p)
  /\ WritesFormed(p) /\ WritesAwaited(p) /\ CallerKnown(p)

CoordInv ==
  /\ TypeOK
  /\ JournalInv
  /\ \A p \in Proc : LocalInv(p) /\ LeaseKnown(p)

------------------------------------------------------------------------------
(* What a step does to the other processes, and to the journal.               *)

Step(p) == TaskStep(p) \/ ThreadStep(p) \/ CallerStep(p) \/ Recovery(p) \/ Environment(p)

\* Step p of a process leaves the variables of the others alone.
OthersUntouched(p) ==
  \A q \in Proc \ {p} :
    /\ up'[q] = up[q] /\ start'[q] = start[q] /\ active'[q] = active[q]
    /\ token'[q] = token[q] /\ task'[q] = task[q] /\ wanted'[q] = wanted[q]
    /\ threads'[q] = threads[q] /\ caller'[q] = caller[q]
    /\ hydration'[q] = hydration[q]

\* What a coordinator asks of the journal with its credentials; "interrupted" is
\* an ending it never writes that way.
CoordinatorCall(r, o, t) ==
  \/ \E k \in {"work", "approval", "result"}, x \in Approval \union {Nothing} :
       AppendOwned(r, k, x, o, t)
  \/ \E s \in {"completed", "cancelled", "error"} : FinishOwned(r, s, o, t)
  \/ ReleaseRunLease(r, o, t)

\* The calls of process p, in the name of its present incarnation.
JournalCall(p) ==
  \/ UNCHANGED journalVars
  \/ Self(p) \in Owner /\ \E r \in Run : BeginRun(r, Self(p)) \/ ResumeRun(r, Self(p))
  \/ \E r \in Run, t \in 1 .. nextToken : CoordinatorCall(r, Self(p), t)
  \/ \E r \in Run : FinishUnowned(r, "interrupted")
  \/ RecoverRunLease(LiveOwners)

LEMMA SelfFacts ==
  ASSUME TypeOK, NEW p \in Proc, Alive(p), up[p]
  PROVE  Self(p) \in Owner /\ Self(p) \in LiveOwners
  <1>1. start[p] \in 1 .. MaxStart
    BY CoordinatorAssumption DEF TypeOK, Alive
  <1>2. Self(p) \in Owner
    BY <1>1, CoordinatorAssumption DEF Self
  <1> QED BY <1>2 DEF Self, LiveOwners

LEMMA SelfInjective ==
  ASSUME NEW p \in Proc, NEW q \in Proc, Self(p) = Self(q)
  PROVE  p = q
  BY DEF Self

\* Who presents a lease's credentials presents the newest token, for an open run.
LEMMA HolderFacts ==
  ASSUME JournalInv, NEW r, NEW o, NEW t, HoldsLease(r, o, t)
  PROVE  /\ r \in Run /\ o \in Owner /\ t \in 1 .. nextToken /\ t # 0
         /\ ~Terminal(r) /\ Leased(r)
         /\ \A s, q, u : HoldsLease(s, q, u) => s = r /\ q = o /\ u = t
  <1> DEFINE l == [run |-> r, owner |-> o, token |-> t]
  <1>1. l \in leases /\ l.run = r /\ l.owner = o /\ l.token = t
    BY DEF HoldsLease
  <1>2. l \in Lease /\ nextToken \in Nat
    BY <1>1 DEF JournalInv, JournalTypeOK
  <1>3. r \in Run /\ o \in Owner /\ t \in Nat \ {0} /\ t + 1 = nextToken /\ ~Terminal(r)
    BY <1>1, <1>2 DEF Lease, JournalInv, LeaseTokenNewest, LeaseRunOpen
  <1>4. ASSUME NEW s, NEW q, NEW u, HoldsLease(s, q, u)
        PROVE  s = r /\ q = o /\ u = t
    <2>1. [run |-> s, owner |-> q, token |-> u] = l
      BY <1>1, <1>4 DEF HoldsLease, JournalInv, OneLease
    <2> QED BY <2>1
  <1>5. Leased(r)
    BY <1>1 DEF Leased
  <1> QED BY <1>2, <1>3, <1>4, <1>5

LEMMA StepTouchesOne ==
  ASSUME TypeOK, NEW p \in Proc, Step(p)
  PROVE  OthersUntouched(p)
  <1> USE DEF OthersUntouched, TypeOK, Goto, SetActive, Hydrate
  <1>1. CASE TaskStep(p)
    BY <1>1 DEF TaskStep, Begin, BeginRefused, Abort, Resume, Unresume, FirstStep, SeeEnding, Unwind
  <1>2. CASE ThreadStep(p)
    BY <1>2 DEF ThreadStep, PersistEvent, PersistEnding, ReleaseSuspended, LeaseLost, Retire,
                AuditDone
  <1>3. CASE CallerStep(p)
    BY <1>3 DEF CallerStep, Deliver, TooLate, AfterTask, CallerEnds, CallerClears
  <1>4. CASE Recovery(p)
    BY <1>4 DEF Recovery, RecoverLease, ListUnfinished, InterruptUnfinished, CheckUnfinished
  <1>5. CASE Environment(p)
    BY <1>5 DEF Environment, Boot, Crash, StartRun, ResumeExisting, StreamEvent, StreamTerminal,
                StreamEnds, Decide, Hand
  <1> QED BY <1>1, <1>2, <1>3, <1>4, <1>5 DEF Step

LEMMA StepCallsJournal ==
  ASSUME TypeOK, JournalInv, NEW p \in Proc, LocalInv(p), Step(p)
  PROVE  JournalCall(p)
  <1> USE DEF LocalInv
  <1>1. ASSUME NEW r, NEW s, FinishOwned(r, s, Self(p), token[p]) \/
                             FinishOwned(r, s, Self(p), caller[p].token),
               s \in {"completed", "cancelled", "error"}
        PROVE  JournalCall(p)
    BY <1>1, HolderFacts DEF FinishOwned, JournalCall, CoordinatorCall
  <1>2. CASE Begin(p) \/ Resume(p)
    <2>1. up[p] /\ wanted[p] \in Run
      BY <1>2 DEF Begin, Resume, Alive, RunsKnown, Starting, TypeOK
    <2> QED BY <1>2, <2>1, SelfFacts DEF Begin, Resume, JournalCall
  <1>3. CASE Abort(p)
    BY <1>1, <1>3 DEF Abort
  <1>4. CASE Unresume(p)
    BY <1>4, HolderFacts DEF Unresume, ReleaseRunLease, JournalCall, CoordinatorCall
  <1>5. CASE ThreadStep(p)
    <2>1. PICK w \in threads[p] :
            PersistEvent(p, w) \/ PersistEnding(p, w) \/ ReleaseSuspended(p, w) \/ LeaseLost(p, w)
      BY <1>5 DEF ThreadStep
    <2>2. CASE PersistEvent(p, w)
      BY <2>2, HolderFacts DEF PersistEvent, AppendOwned, WritesFormed, JournalCall, CoordinatorCall
    <2>3. CASE PersistEnding(p, w)
      <3>1. w.of \in {"completed", "cancelled", "error"} /\ FinishOwned(w.run, w.of, Self(p), w.token)
        BY <2>3 DEF PersistEnding, WritesFormed
      <3> QED BY <3>1, HolderFacts DEF FinishOwned, JournalCall, CoordinatorCall
    <2>4. CASE ReleaseSuspended(p, w)
      BY <2>4, HolderFacts DEF ReleaseSuspended, ReleaseRunLease, JournalCall, CoordinatorCall
    <2>5. CASE LeaseLost(p, w)
      BY <2>5 DEF LeaseLost, JournalCall
    <2> QED BY <2>1, <2>2, <2>3, <2>4, <2>5
  <1>6. CASE CallerEnds(p)
    BY <1>1, <1>6 DEF CallerEnds, JournalCall
  <1>7. CASE RecoverLease(p)
    BY <1>7 DEF RecoverLease, JournalCall
  <1>8. CASE InterruptUnfinished(p)
    BY <1>8 DEF InterruptUnfinished, RunsKnown, JournalCall
  <1>9. CASE UNCHANGED journalVars
    BY <1>9 DEF JournalCall
  <1>10. BeginRefused(p) \/ FirstStep(p) \/ SeeEnding(p) \/ Unwind(p)
           => UNCHANGED journalVars
    BY DEF BeginRefused, FirstStep, SeeEnding, Unwind
  <1>11. Deliver(p) \/ TooLate(p) \/ AfterTask(p) \/ CallerClears(p) => UNCHANGED journalVars
    BY DEF Deliver, TooLate, AfterTask, CallerClears
  <1>12. ListUnfinished(p) \/ (\E r \in hydration[p].todo : CheckUnfinished(p, r))
           => UNCHANGED journalVars
    BY DEF ListUnfinished, CheckUnfinished
  <1>13. Environment(p) => UNCHANGED journalVars
    BY DEF Environment, Boot, Crash, StartRun, ResumeExisting, StreamEvent, StreamTerminal,
           StreamEnds, Decide
  <1> QED
    BY <1>2, <1>3, <1>4, <1>5, <1>6, <1>7, <1>8, <1>9, <1>10, <1>11, <1>12, <1>13
    DEF Step, TaskStep, CallerStep, Recovery

LEMMA CallIsJournalStep ==
  ASSUME JournalInv, NEW p \in Proc, JournalCall(p)
  PROVE  [JournalNext]_journalVars
  <1>1. CASE UNCHANGED journalVars
    BY <1>1
  <1>2. CASE \E r \in Run, t \in 1 .. nextToken : CoordinatorCall(r, Self(p), t)
    <2>1. PICK r \in Run, t \in 1 .. nextToken : CoordinatorCall(r, Self(p), t)
      BY <1>2
    <2>2. HoldsLease(r, Self(p), t)
      BY <2>1 DEF CoordinatorCall, AppendOwned, FinishOwned, ReleaseRunLease
    <2> QED BY <2>1, <2>2, HolderFacts DEF JournalNext, CoordinatorCall, OwnedCall, Status
  <1>3. CASE RecoverRunLease(LiveOwners)
    BY <1>3 DEF JournalNext, LiveOwners
  <1> QED BY <1>1, <1>2, <1>3 DEF JournalCall, JournalNext, UnownedCall

\* An ending stays, and a lease is lost only by a call of its owner, or once the
\* owner is not alive.
LEMMA EndingsStay ==
  ASSUME JournalInv, NEW p \in Proc, JournalCall(p), NEW r \in Run, Terminal(r)
  PROVE  Terminal(r)'
  <1>1. \/ log' = log
        \/ \E row : log' = Append(log, row)
    BY DEF JournalCall, journalVars, BeginRun, ResumeRun, CoordinatorCall, AppendOwned, FinishOwned,
           ReleaseRunLease, FinishUnowned, RecoverRunLease, LogTerminalOnce
  <1>2. CASE log' = log
    BY <1>2 DEF Terminal, IsRow
  <1>3. CASE \E row : log' = Append(log, row)
    BY <1>3 DEF Terminal, IsRow, JournalInv, JournalTypeOK
  <1> QED BY <1>1, <1>2, <1>3

LEMMA LeasesOfOthersStay ==
  ASSUME TypeOK, JournalInv, NEW p \in Proc, JournalCall(p),
         NEW q \in Proc, Alive(q), up[q], NEW r, NEW t, HoldsLease(r, Self(q), t),
         \/ p # q
         \/ UNCHANGED journalVars
         \/ \E s \in Run : FinishUnowned(s, "interrupted")
         \/ RecoverRunLease(LiveOwners)
  PROVE  [run |-> r, owner |-> Self(q), token |-> t] \in leases'
  <1> DEFINE l == [run |-> r, owner |-> Self(q), token |-> t]
  <1>1. l \in leases /\ l.run = r /\ l.owner = Self(q)
    BY DEF HoldsLease
  <1>2. CASE UNCHANGED journalVars
    BY <1>1, <1>2 DEF journalVars
  <1>3. ASSUME NEW s \in Run, FinishUnowned(s, "interrupted")
        PROVE  l \in leases'
    BY <1>1, <1>3 DEF FinishUnowned, MayWriteUnowned, Leased, DropLease
  <1>4. ~RecoverRunLease(LiveOwners)
    BY <1>1, SelfFacts DEF RecoverRunLease, JournalInv, OneLease
  <1>5. ASSUME NEW s \in Run, BeginRun(s, Self(p)) \/ ResumeRun(s, Self(p))
        PROVE  FALSE
    BY <1>1, <1>5 DEF BeginRun, ResumeRun, TakeLease
  <1>6. ASSUME NEW s \in Run, NEW u \in 1 .. nextToken, CoordinatorCall(s, Self(p), u), p # q
        PROVE  FALSE
    <2>1. HoldsLease(s, Self(p), u)
      BY <1>6 DEF CoordinatorCall, AppendOwned, FinishOwned, ReleaseRunLease
    <2> QED BY <1>6, <2>1, HolderFacts, SelfInjective
  <1> QED BY <1>2, <1>3, <1>4, <1>5, <1>6 DEF JournalCall

------------------------------------------------------------------------------
(* The other processes keep their invariant.                                  *)

LEMMA TokensGrow ==
  ASSUME JournalInv, NEW p \in Proc, JournalCall(p)
  PROVE  nextToken \in Nat \ {0} /\ nextToken' \in Nat \ {0} /\ nextToken <= nextToken'
  BY DEF JournalInv, JournalTypeOK, JournalCall, journalVars, BeginRun, ResumeRun, TakeLease,
         CoordinatorCall, AppendOwned, FinishOwned, ReleaseRunLease, FinishUnowned, RecoverRunLease

LEMMA OthersKeepInv ==
  ASSUME TypeOK, JournalInv, NEW p \in Proc, JournalCall(p), OthersUntouched(p),
         NEW q \in Proc, q # p, LocalInv(q), LeaseKnown(q)
  PROVE  LocalInv(q)' /\ LeaseKnown(q)'
  <1>1. /\ up'[q] = up[q] /\ start'[q] = start[q] /\ active'[q] = active[q]
        /\ token'[q] = token[q] /\ task'[q] = task[q] /\ wanted'[q] = wanted[q]
        /\ threads'[q] = threads[q] /\ caller'[q] = caller[q]
        /\ hydration'[q] = hydration[q]
    BY DEF OthersUntouched
  <1>2. nextToken \in Nat \ {0} /\ nextToken' \in Nat \ {0} /\ nextToken <= nextToken'
    BY TokensGrow
  <1>3. token[q] \in Nat /\ caller[q].token \in Nat /\ \A w \in threads[q] : w.token \in Nat
    BY DEF TypeOK, Caller, Write
  <1>4. LocalInv(q)'
    <2>1. Alive(q)' /\ RunsKnown(q)' /\ WritesAwaited(q)'
      BY <1>1 DEF LocalInv, Alive, RunsKnown, WritesAwaited
    <2>2. TokensKnown(q)'
      BY <1>1, <1>2, <1>3 DEF LocalInv, TokensKnown
    <2>3. WritesFormed(q)'
      BY <1>1, <1>2, <1>3 DEF LocalInv, WritesFormed
    <2>4. CallerKnown(q)'
      BY <1>1, <1>2, <1>3 DEF LocalInv, CallerKnown
    <2> QED BY <2>1, <2>2, <2>3, <2>4 DEF LocalInv
  <1>5. \A r \in Run : Terminal(r) => Terminal(r)'
    BY EndingsStay
  <1>6. ASSUME NEW r, NEW t, HoldsLease(r, Self(q), t), up[q]
        PROVE  [run |-> r, owner |-> Self(q), token |-> t] \in leases'
    BY <1>6, LeasesOfOthersStay DEF LocalInv
  <1>7. Self(q)' = Self(q)
    BY <1>1 DEF Self
  <1>8. ~up[q] => task[q] = "none" /\ caller[q].at = "none"
    BY DEF LocalInv, Alive
  <1>9. /\ task[q] \in Streaming \union {"ended", "done"} => active[q] \in Run
        /\ caller[q].at # "none" => caller[q].run \in Run
    BY DEF LocalInv, RunsKnown, Running, CallerKnown
  <1>10. LeaseKnown(q)'
    <2>1. (task[q] \in Streaming => HoldsLease(active[q], Self(q), token[q]))'
      BY <1>1, <1>6, <1>7, <1>8 DEF LeaseKnown, HoldsLease, Streaming
    <2>2. /\ (task[q] = "ended" => Terminal(active[q]))'
          /\ (task[q] = "done" /\ caller[q].at # "waiting" => Terminal(active[q]))'
          /\ (caller[q].how = "cancel" /\ caller[q].at = "clearing" => Terminal(caller[q].run))'
      BY <1>1, <1>5, <1>9 DEF LeaseKnown, Terminal
    <2>3. (caller[q].how = "cancel" /\ caller[q].at \in {"waiting", "returned", "persisting"} =>
             Terminal(caller[q].run) \/ HoldsLease(caller[q].run, Self(q), caller[q].token))'
      BY <1>1, <1>5, <1>6, <1>7, <1>8, <1>9 DEF LeaseKnown, HoldsLease, Terminal
    <2> QED BY <2>1, <2>2, <2>3 DEF LeaseKnown
  <1> QED BY <1>4, <1>10

------------------------------------------------------------------------------
(* Types *)

LEMMA HandedIsWrite ==
  ASSUME TypeOK, NEW p \in Proc, active[p] \in Run,
         NEW op \in {"append", "finish", "release"}, NEW k \in Kind,
         NEW x \in Approval \union Status \union {Nothing},
         NEW whose \in {"task", "cleanup", "nobody"}, NEW lock \in BOOLEAN
  PROVE  /\ [op |-> op, run |-> active[p], kind |-> k, of |-> x, token |-> token[p],
             for |-> whose, locked |-> lock] \in Write
         /\ Hand(p, op, k, x, whose, lock) => threads' \in [Proc -> SUBSET Write]
  <1>1. [op |-> op, run |-> active[p], kind |-> k, of |-> x, token |-> token[p],
         for |-> whose, locked |-> lock] \in Write
    BY DEF TypeOK, Write
  <1> QED BY <1>1 DEF TypeOK, Hand

LEMMA Reworded ==
  ASSUME NEW w \in Write
  PROVE  /\ [w EXCEPT !.op = "finish", !.kind = "terminal", !.of = "cancelled"] \in Write
         /\ \A lock \in BOOLEAN : [w EXCEPT !.for = "nobody", !.locked = lock] \in Write
  <1>1. [w EXCEPT !.op = "finish", !.kind = "terminal", !.of = "cancelled"] \in Write
    BY Zenon DEF Write, Kind, Status
  <1>2. ASSUME NEW lock \in BOOLEAN
        PROVE  [w EXCEPT !.for = "nobody", !.locked = lock] \in Write
    BY Zenon DEF Write
  <1> QED BY <1>1, <1>2

\* An abandoned write is the write it was, for nobody.
LEMMA AbandonedWrites ==
  ASSUME TypeOK, NEW p \in Proc, NEW left \in Abandon(p), NEW v \in left
  PROVE  /\ v \in Write /\ v.for # "task"
         /\ v \in threads[p] \/
              \E w \in threads[p] : /\ w.for = "task" /\ v.for = "nobody" /\ v.op = w.op
                                  /\ v.run = w.run /\ v.kind = w.kind /\ v.of = w.of
                                  /\ v.token = w.token
  <1>1. threads[p] \subseteq Write
    BY DEF TypeOK
  <1>2. CASE v \in threads[p] /\ v.for # "task"
    BY <1>1, <1>2
  <1>3. CASE \E w \in threads[p], lock \in BOOLEAN :
               w.for = "task" /\ v = [w EXCEPT !.for = "nobody", !.locked = lock]
    <2>1. PICK w \in threads[p], lock \in BOOLEAN :
            w.for = "task" /\ v = [w EXCEPT !.for = "nobody", !.locked = lock]
      BY <1>3
    <2>2. w \in Write /\ v \in Write
      BY <1>1, <2>1, Reworded
    <2>3. /\ v.for = "nobody" /\ v.op = w.op /\ v.run = w.run /\ v.kind = w.kind
          /\ v.of = w.of /\ v.token = w.token
      BY <2>1, <2>2 DEF Write
    <2> QED BY <2>1, <2>2, <2>3
  <1>4. \A lock \in BOOLEAN :
          v \in {[w EXCEPT !.for = "nobody", !.locked = lock] : w \in {u \in threads[p] : u.for = "task"}}
            => \E w \in threads[p], lk \in BOOLEAN :
                 w.for = "task" /\ v = [w EXCEPT !.for = "nobody", !.locked = lk]
    BY Zenon
  <1>5. \/ v \in threads[p] /\ v.for # "task"
        \/ \E lock \in BOOLEAN :
             v \in {[w EXCEPT !.for = "nobody", !.locked = lock] : w \in {u \in threads[p] : u.for = "task"}}
    BY Zenon DEF Abandon
  <1> QED BY <1>2, <1>3, <1>4, <1>5

LEMMA TaskTypes ==
  ASSUME TypeOK, NEW p \in Proc, TaskStep(p), JournalTypeOK'
  PROVE  TypeOK'
  <1> USE DEF TypeOK, TaskState
  <1>1. CASE Begin(p) \/ Resume(p)
    BY <1>1 DEF Begin, Resume, Goto, SetActive, JournalTypeOK
  <1>2. CASE BeginRefused(p) \/ Abort(p) \/ Unresume(p) \/ FirstStep(p) \/ SeeEnding(p)
    BY <1>2 DEF BeginRefused, Abort, Unresume, FirstStep, SeeEnding, Goto
  <1>3. CASE Unwind(p)
    <2>1. NoCaller \in Caller /\ [caller[p] EXCEPT !.at = "returned"] \in Caller
      BY DEF NoCaller, Caller
    <2>2. caller' \in [Proc -> Caller]
      BY <1>3, <2>1 DEF Unwind
    <2> QED BY <1>3, <2>2 DEF Unwind, Goto, SetActive
  <1> QED BY <1>1, <1>2, <1>3 DEF TaskStep

LEMMA ThreadTypes ==
  ASSUME TypeOK, NEW p \in Proc, ThreadStep(p), JournalTypeOK'
  PROVE  TypeOK'
  <1> USE DEF TypeOK, TaskState
  <1>1. PICK w \in threads[p] :
          PersistEvent(p, w) \/ PersistEnding(p, w) \/ ReleaseSuspended(p, w) \/ LeaseLost(p, w)
    BY DEF ThreadStep
  <1>2. [w EXCEPT !.op = "finish", !.kind = "terminal", !.of = "cancelled"] \in Write
    <2>1. w \in Write
      OBVIOUS
    <2> QED BY <2>1, Reworded
  <1>3. Retire(p, w) \/ AuditDone(p, w) => threads' \in [Proc -> SUBSET Write]
    BY <1>2 DEF Retire, AuditDone
  <1>4. CASE PersistEvent(p, w) \/ ReleaseSuspended(p, w)
    BY <1>3, <1>4 DEF PersistEvent, ReleaseSuspended, Goto
  <1>5. CASE PersistEnding(p, w)
    BY <1>3, <1>5 DEF PersistEnding, Goto
  <1>6. CASE LeaseLost(p, w)
    BY <1>3, <1>6 DEF LeaseLost, Goto
  <1> QED BY <1>1, <1>4, <1>5, <1>6

LEMMA CallerTypes ==
  ASSUME TypeOK, NEW p \in Proc, LocalInv(p), CallerStep(p), JournalTypeOK'
  PROVE  TypeOK'
  <1> USE DEF TypeOK, TaskState
  <1>1. NoCaller \in Caller
    BY DEF NoCaller, Caller
  <1>2. \A at \in {"waiting", "returned", "persisting", "clearing"} :
          /\ [caller[p] EXCEPT !.at = at] \in Caller
          /\ [caller[p] EXCEPT !.at = at, !.token = token[p]] \in Caller
    BY DEF Caller
  <1>3. CASE Deliver(p)
    <2>1. caller' \in [Proc -> Caller]
      BY <1>2, <1>3 DEF Deliver
    <2>2. threads' \in [Proc -> SUBSET Write]
      <3>1. \A left \in Abandon(p) : left \subseteq Write
        BY AbandonedWrites
      <3>2. CASE task[p] \in {"streaming", "writing", "finishing", "ended"}
        <4>1. active[p] \in Run
          BY <3>2 DEF LocalInv, RunsKnown, Running, Streaming
        <4>2. \A c \in Cleanups(p, caller[p].how) : c \in Write
          BY <4>1, HandedIsWrite DEF Cleanups, Cleanup, Kind, Status
        <4>3. PICK left \in Abandon(p), c \in Cleanups(p, caller[p].how) :
                threads' = [threads EXCEPT ![p] = left \union {c}]
          BY <1>3, <3>2 DEF Deliver
        <4> QED BY <3>1, <4>2, <4>3
      <3>3. CASE task[p] = "failing"
        BY <1>3, <3>1, <3>3 DEF Deliver
      <3>4. CASE task[p] \in {"created", "done"}
        BY <1>3, <3>4 DEF Deliver
      <3> QED BY <1>3, <3>2, <3>3, <3>4 DEF Deliver
    <2> QED BY <1>3, <2>1, <2>2 DEF Deliver, Goto
  <1>4. CASE TooLate(p) \/ CallerClears(p)
    BY <1>1, <1>4 DEF TooLate, CallerClears, SetActive
  <1>5. CASE AfterTask(p)
    <2>1. caller' \in [Proc -> Caller]
      BY <1>2, <1>5 DEF AfterTask
    <2> QED BY <1>5, <2>1 DEF AfterTask
  <1>6. CASE CallerEnds(p)
    <2>1. caller' \in [Proc -> Caller]
      BY <1>1, <1>2, <1>6 DEF CallerEnds
    <2> QED BY <1>6, <2>1 DEF CallerEnds
  <1> QED BY <1>3, <1>4, <1>5, <1>6 DEF CallerStep

LEMMA RecoveryTypes ==
  ASSUME TypeOK, NEW p \in Proc, Recovery(p), JournalTypeOK'
  PROVE  TypeOK'
  <1> USE DEF TypeOK
  <1>1. ASSUME NEW at \in {"cold", "list", "close", "interrupt"}, NEW todo \in SUBSET Run,
               NEW r \in Run \union {NoRun}, Hydrate(p, at, todo, r)
        PROVE  hydration' \in [Proc -> Hydration]
    <2>1. [at |-> IF at = "close" /\ todo = {} THEN "done" ELSE at, todo |-> todo, run |-> r]
            \in Hydration
      BY DEF Hydration
    <2> QED BY <1>1, <2>1 DEF Hydrate
  <1>2. hydration[p].todo \in SUBSET Run /\ {} \in SUBSET Run /\ NoRun \in Run \union {NoRun}
        /\ UnfinishedRunIds \in SUBSET Run
    BY DEF Hydration, UnfinishedRunIds
  <1>3. CASE RecoverLease(p) \/ ListUnfinished(p)
    <2>1. hydration' \in [Proc -> Hydration]
      BY <1>1, <1>2, <1>3 DEF RecoverLease, ListUnfinished
    <2> QED BY <1>3, <2>1 DEF RecoverLease, ListUnfinished
  <1>4. CASE \E r \in hydration[p].todo : CheckUnfinished(p, r)
    <2>1. PICK r \in hydration[p].todo : CheckUnfinished(p, r)
      BY <1>4
    <2>2. r \in Run /\ hydration[p].todo \ {r} \in SUBSET Run
      BY <1>2
    <2>3. hydration' \in [Proc -> Hydration]
      BY <1>1, <1>2, <2>1, <2>2 DEF CheckUnfinished
    <2> QED BY <2>1, <2>3 DEF CheckUnfinished
  <1>5. CASE InterruptUnfinished(p)
    <2>1. hydration' \in [Proc -> Hydration]
      BY <1>1, <1>2, <1>5 DEF InterruptUnfinished
    <2> QED BY <1>5, <2>1 DEF InterruptUnfinished
  <1> QED BY <1>3, <1>4, <1>5 DEF Recovery

LEMMA EnvironmentTypes ==
  ASSUME TypeOK, NEW p \in Proc, LocalInv(p), Environment(p), JournalTypeOK'
  PROVE  TypeOK'
  <1> USE DEF TypeOK, TaskState
  <1>1. CASE Boot(p)
    BY <1>1, CoordinatorAssumption DEF Boot
  <1>2. CASE Crash(p)
    <2>1. NoCaller \in Caller /\ Cold \in Hydration
      BY DEF NoCaller, Caller, Cold, Hydration
    <2> QED BY <1>2, <2>1 DEF Crash, SetActive, Goto
  <1>3. CASE \E r \in Run : StartRun(p, r) \/ ResumeExisting(p, r)
    BY <1>3 DEF StartRun, ResumeExisting, Goto
  <1>4. CASE StreamEvent(p) \/ StreamTerminal(p) \/ StreamEnds(p)
    <2>1. active[p] \in Run
      BY <1>4 DEF StreamEvent, StreamTerminal, StreamEnds, LocalInv, RunsKnown, Running, Streaming
    <2>2. threads' \in [Proc -> SUBSET Write]
      <3>1. PendingApprovals(active[p]) \subseteq Approval
        BY DEF PendingApprovals
      <3> QED BY <1>4, <2>1, <3>1, HandedIsWrite
              DEF StreamEvent, StreamTerminal, StreamEnds, Kind, Status
    <2> QED BY <1>4, <2>2 DEF StreamEvent, StreamTerminal, StreamEnds, Goto
  <1>5. CASE \E how \in {"cancel", "suspend"} : Decide(p, how)
    <2>1. PICK how \in {"cancel", "suspend"} : Decide(p, how)
      BY <1>5
    <2>2. [at |-> "decided", how |-> how, run |-> active[p], token |-> token[p]] \in Caller
      BY DEF Caller
    <2> QED BY <2>1, <2>2 DEF Decide
  <1> QED BY <1>1, <1>2, <1>3, <1>4, <1>5 DEF Environment

LEMMA StepTypes ==
  ASSUME TypeOK, NEW p \in Proc, LocalInv(p), Step(p), JournalTypeOK'
  PROVE  TypeOK'
  BY TaskTypes, ThreadTypes, CallerTypes, RecoveryTypes, EnvironmentTypes DEF Step

------------------------------------------------------------------------------
(* The process that takes the step.                                           *)

LEMMA LocalTypes ==
  ASSUME TypeOK, NEW p \in Proc
  PROVE  /\ token[p] \in Nat /\ caller[p].token \in Nat
         /\ \A w \in threads[p] : w.token \in Nat /\ w.for \in {"task", "cleanup", "nobody"}
         /\ nextToken \in Nat \ {0}
         /\ NoRun \notin Run
         /\ caller[p].at \in {"none", "decided", "waiting", "returned", "persisting", "clearing"}
  BY JournalAssumption DEF TypeOK, JournalTypeOK, Caller, Write

LEMMA Unawaited ==
  ASSUME TypeOK, NEW p \in Proc, WritesAwaited(p),
         task[p] \notin {"writing", "finishing", "failing", "cleaning"}
  PROVE  \A w \in threads[p] : w.for = "nobody"
  BY LocalTypes DEF WritesAwaited

\* begin_run or resume_run has committed.
LEMMA LeaseTaken ==
  ASSUME TypeOK, JournalInv, NEW p \in Proc, LocalInv(p), LeaseKnown(p), Begin(p) \/ Resume(p)
  PROVE  LocalInv(p)' /\ LeaseKnown(p)'
  <1> USE DEF LocalInv
  <1>1. /\ nextToken' = nextToken + 1
        /\ [run |-> wanted[p], owner |-> Self(p), token |-> nextToken] \in leases'
        /\ UNCHANGED <<up, start, threads, caller, hydration>>
        /\ task[p] \in {"begin", "resume"}
    BY DEF Begin, Resume, BeginRun, ResumeRun, TakeLease
  <1>2. \/ task'[p] = "created" /\ active'[p] = wanted[p] /\ token'[p] = nextToken
        \/ task'[p] \in {"abort", "unresume"} /\ active'[p] = active[p] /\ wanted'[p] = wanted[p]
           /\ token'[p] = nextToken
    BY DEF Begin, Resume, Goto, SetActive, TypeOK
  <1>3. wanted[p] \in Run /\ active[p] = NoRun /\ token[p] = 0 /\ up[p]
    BY <1>1 DEF RunsKnown, TokensKnown, Starting, Alive, TypeOK
  <1>4. Alive(p)' /\ RunsKnown(p)' /\ TokensKnown(p)'
    BY <1>1, <1>2, <1>3, LocalTypes DEF Alive, RunsKnown, TokensKnown, Running, Starting, Streaming
  <1>5. WritesFormed(p)' /\ WritesAwaited(p)'
    <2>1. WritesFormed(p)'
      BY <1>1, <1>2, <1>3, LocalTypes DEF WritesFormed
    <2>2. WritesAwaited(p)'
      BY <1>1, <1>2, <1>3, LocalTypes, Unawaited DEF WritesFormed, WritesAwaited, Streaming, Starting
    <2> QED BY <2>1, <2>2
  <1>6. CallerKnown(p)'
    BY <1>1, <1>2, <1>3, LocalTypes DEF CallerKnown, After, WritesAwaited
  <1>7. LeaseKnown(p)'
    <2>1. JournalCall(p)
      BY StepCallsJournal DEF Step, TaskStep
    <2>2. \A r \in Run : Terminal(r) => Terminal(r)'
      BY <2>1, EndingsStay
    <2>3. Self(p)' = Self(p)
      BY <1>1 DEF Self
    <2>4. \A r, t : ~HoldsLease(r, Self(p), t)
      BY DEF Begin, Resume, BeginRun, ResumeRun, TakeLease, HoldsLease
    <2>5. (task[p] \in Streaming => HoldsLease(active[p], Self(p), token[p]))'
      BY <1>1, <1>2, <2>3 DEF HoldsLease, Streaming
    <2>6. caller[p].at # "waiting"
      BY <1>1 DEF CallerKnown
    <2>7. (caller[p].how = "cancel" /\ caller[p].at \in {"waiting", "returned", "persisting"} =>
             Terminal(caller[p].run) \/ HoldsLease(caller[p].run, Self(p), caller[p].token))'
      BY <1>1, <2>2, <2>4 DEF LeaseKnown, CallerKnown, Terminal
    <2>8. (caller[p].how = "cancel" /\ caller[p].at = "clearing" => Terminal(caller[p].run))'
      BY <1>1, <2>2 DEF LeaseKnown, CallerKnown, Terminal
    <2> QED BY <1>2, <2>5, <2>7, <2>8 DEF LeaseKnown
  <1> QED BY <1>4, <1>5, <1>6, <1>7

\* A cancelled start_run or start_existing_run, or a refused one.
LEMMA StartGivenUp ==
  ASSUME TypeOK, JournalInv, NEW p \in Proc, LocalInv(p), LeaseKnown(p),
         BeginRefused(p) \/ Abort(p) \/ Unresume(p)
  PROVE  LocalInv(p)' /\ LeaseKnown(p)'
  <1> USE DEF LocalInv
  <1>1. /\ nextToken' = nextToken
        /\ UNCHANGED <<up, start, active, threads, caller, hydration>>
        /\ task[p] \in Starting
        /\ task'[p] = "none" /\ wanted'[p] = NoRun
        /\ token'[p] = 0
    BY DEF BeginRefused, Abort, Unresume, FinishOwned, ReleaseRunLease, journalVars, Goto, TypeOK,
           Starting, TokensKnown, RunsKnown
  <1>2. active[p] = NoRun
    BY <1>1 DEF RunsKnown
  <1>3. Alive(p)' /\ RunsKnown(p)' /\ TokensKnown(p)'
    BY <1>1, <1>2, LocalTypes DEF Alive, RunsKnown, TokensKnown, Running, Starting, Streaming
  <1>4. WritesFormed(p)' /\ WritesAwaited(p)'
    <2>1. WritesFormed(p)'
      BY <1>1 DEF WritesFormed
    <2>2. WritesAwaited(p)'
      BY <1>1, Unawaited DEF WritesFormed, WritesAwaited, Streaming, Starting
    <2> QED BY <2>1, <2>2
  <1>5. CallerKnown(p)'
    BY <1>1 DEF CallerKnown, Starting
  <1>6. LeaseKnown(p)'
    <2>1. JournalCall(p)
      BY StepCallsJournal DEF Step, TaskStep
    <2>2. \A r \in Run : Terminal(r) => Terminal(r)'
      BY <2>1, EndingsStay
    <2>3. Self(p)' = Self(p)
      BY <1>1 DEF Self
    <2>4. ASSUME caller[p].at \in After, HoldsLease(caller[p].run, Self(p), caller[p].token)
          PROVE  HoldsLease(caller[p].run, Self(p), caller[p].token)'
      <3>1. caller[p].token # token[p]
        BY <1>1, <2>4 DEF CallerKnown, Starting
      <3>2. ~HoldsLease(wanted[p], Self(p), token[p])
        BY <2>4, <3>1, HolderFacts
      <3>3. UNCHANGED journalVars
        BY <3>2 DEF BeginRefused, Abort, Unresume, FinishOwned, ReleaseRunLease
      <3> QED BY <1>1, <2>3, <2>4, <3>3 DEF HoldsLease, journalVars
    <2>5. caller[p].at # "waiting"
      BY <1>1 DEF CallerKnown, Starting
    <2>6. (caller[p].how = "cancel" /\ caller[p].at \in {"waiting", "returned", "persisting"} =>
             Terminal(caller[p].run) \/ HoldsLease(caller[p].run, Self(p), caller[p].token))'
      BY <1>1, <2>2, <2>4, <2>5 DEF LeaseKnown, CallerKnown, Terminal, After
    <2>7. (caller[p].how = "cancel" /\ caller[p].at = "clearing" => Terminal(caller[p].run))'
      BY <1>1, <2>2 DEF LeaseKnown, CallerKnown, Terminal
    <2> QED BY <1>1, <2>6, <2>7 DEF LeaseKnown, Streaming
  <1> QED BY <1>3, <1>4, <1>5, <1>6

\* A step that changes no table leaves what is said of them as it was.
LEMMA SameJournal ==
  ASSUME UNCHANGED journalVars, NEW r, NEW o, NEW t
  PROVE  /\ Terminal(r)' <=> Terminal(r)
         /\ ([run |-> r, owner |-> o, token |-> t] \in leases') <=> HoldsLease(r, o, t)
         /\ nextToken' = nextToken
  BY DEF journalVars, Terminal, IsRow, HoldsLease

LEMMA TaskMovesOn ==
  ASSUME TypeOK, JournalInv, NEW p \in Proc, LocalInv(p), LeaseKnown(p),
         FirstStep(p) \/ SeeEnding(p)
  PROVE  LocalInv(p)' /\ LeaseKnown(p)'
  <1> USE DEF LocalInv
  <1>1. /\ UNCHANGED <<up, start, active, token, wanted, threads, caller, hydration>>
        /\ UNCHANGED journalVars /\ nextToken' = nextToken
        /\ \/ task[p] = "created" /\ task'[p] = "streaming"
           \/ task[p] = "ended" /\ task'[p] = "done"
    BY DEF FirstStep, SeeEnding, Goto, TypeOK, journalVars
  <1>2. Alive(p)' /\ RunsKnown(p)' /\ TokensKnown(p)'
    BY <1>1, SameJournal DEF Alive, RunsKnown, TokensKnown, Running, Starting, Streaming
  <1>3. WritesFormed(p)' /\ WritesAwaited(p)'
    <2>1. WritesFormed(p)'
      BY <1>1, SameJournal DEF WritesFormed
    <2>2. WritesAwaited(p)'
      BY <1>1, Unawaited DEF WritesAwaited, Streaming, Starting
    <2> QED BY <2>1, <2>2
  <1>4. CallerKnown(p)'
    BY <1>1, SameJournal DEF CallerKnown
  <1>5. LeaseKnown(p)'
    BY <1>1, SameJournal DEF LeaseKnown, Streaming, HoldsLease, Self, Terminal, IsRow, journalVars
  <1> QED BY <1>2, <1>3, <1>4, <1>5

LEMMA TaskUnwound ==
  ASSUME TypeOK, JournalInv, NEW p \in Proc, LocalInv(p), LeaseKnown(p), Unwind(p)
  PROVE  LocalInv(p)' /\ LeaseKnown(p)'
  <1> USE DEF LocalInv
  <1>1. /\ UNCHANGED <<up, start, wanted, threads, hydration>>
        /\ UNCHANGED journalVars /\ nextToken' = nextToken
        /\ task[p] \in {"done", "raised"} /\ task'[p] = "none"
        /\ active'[p] = NoRun /\ token'[p] = 0
    BY DEF Unwind, Goto, SetActive, TypeOK, journalVars
  <1>2. \/ caller'[p] = caller[p] /\ caller[p].at # "waiting"
        \/ caller'[p] = NoCaller
        \/ /\ caller[p].at = "waiting" /\ caller'[p].at = "returned"
           /\ caller'[p].how = caller[p].how /\ caller'[p].run = caller[p].run
           /\ caller'[p].token = caller[p].token
    BY DEF Unwind, TypeOK, Caller
  <1>3. active[p] \in Run /\ active[p] # NoRun /\ token[p] # 0 /\ up[p]
    BY <1>1, LocalTypes DEF RunsKnown, Running, TokensKnown, Alive, TypeOK
  <1>4. Alive(p)' /\ RunsKnown(p)' /\ TokensKnown(p)'
    BY <1>1, <1>3, LocalTypes, SameJournal
    DEF Alive, RunsKnown, TokensKnown, Running, Starting, Streaming
  <1>5. WritesFormed(p)' /\ WritesAwaited(p)'
    <2>1. WritesFormed(p)'
      BY <1>1, SameJournal DEF WritesFormed
    <2>2. WritesAwaited(p)'
      BY <1>1, Unawaited DEF WritesAwaited, Streaming, Starting
    <2> QED BY <2>1, <2>2
  <1>6. CallerKnown(p)'
    BY <1>1, <1>2, <1>3, SameJournal DEF CallerKnown, NoCaller, After, WritesAwaited
  <1>7. LeaseKnown(p)'
    BY <1>1, <1>2, SameJournal
    DEF LeaseKnown, NoCaller, Streaming, HoldsLease, Self, Terminal, IsRow, journalVars
  <1> QED BY <1>4, <1>5, <1>6, <1>7

\* What Retire and AuditDone leave: the other transactions, and for the audit
\* events of a cancellation its ending.
LEMMA Retired ==
  ASSUME TypeOK, NEW p \in Proc, NEW w \in threads[p], Retire(p, w)
  PROVE  threads'[p] = threads[p] \ {w}
  BY DEF TypeOK, Retire

LEMMA Audited ==
  ASSUME TypeOK, NEW p \in Proc, NEW w \in threads[p], AuditDone(p, w)
  PROVE  \E v : /\ threads'[p] = (threads[p] \ {w}) \union {v}
                /\ v.op = "finish" /\ v.of = "cancelled" /\ v.for = w.for
                /\ v.run = w.run /\ v.token = w.token
  <1> DEFINE v == [w EXCEPT !.op = "finish", !.kind = "terminal", !.of = "cancelled"]
  <1>1. w \in Write
    BY DEF TypeOK
  <1>2. v.op = "finish" /\ v.of = "cancelled" /\ v.for = w.for /\ v.run = w.run /\ v.token = w.token
    BY <1>1 DEF Write
  <1>3. threads'[p] = (threads[p] \ {w}) \union {v}
    BY DEF TypeOK, AuditDone
  <1> HIDE DEF v
  <1> QED BY <1>2, <1>3

\* Transactions that retire keep what is said of the rest.
LEMMA RetiredLocal ==
  ASSUME TypeOK, NEW p \in Proc, LocalInv(p), NEW w \in threads[p],
         threads'[p] = threads[p] \ {w},
         w.for = "nobody" => task'[p] = task[p],
         w.for = "task" => task'[p] \in {"streaming", "ended", "done"},
         w.for = "cleanup" => task'[p] \in {"done", "raised"},
         nextToken' = nextToken,
         UNCHANGED <<up, start, active, token, wanted, caller, hydration>>
  PROVE  LocalInv(p)'
  <1> USE DEF LocalInv
  <1>1. /\ w.for \in {"task", "cleanup", "nobody"}
        /\ w.for = "task" => task[p] \in {"writing", "finishing", "failing"}
        /\ w.for = "cleanup" => task[p] = "cleaning"
        /\ up[p]
    BY LocalTypes DEF WritesAwaited, Alive, TypeOK
  <1>2. Alive(p)' /\ RunsKnown(p)' /\ TokensKnown(p)'
    BY <1>1 DEF Alive, RunsKnown, TokensKnown, Running, Starting, Streaming
  <1>3. WritesFormed(p)'
    BY DEF WritesFormed
  <1>4. WritesAwaited(p)'
    BY <1>1, LocalTypes DEF WritesAwaited, Streaming
  <1>5. CallerKnown(p)'
    BY <1>1 DEF CallerKnown, After
  <1> QED BY <1>2, <1>3, <1>4, <1>5

LEMMA AuditedLocal ==
  ASSUME TypeOK, NEW p \in Proc, LocalInv(p), NEW w \in threads[p], w.for = "cleanup",
         AuditDone(p, w), task'[p] = task[p], nextToken' = nextToken,
         UNCHANGED <<up, start, active, token, wanted, caller, hydration>>
  PROVE  LocalInv(p)'
  <1> USE DEF LocalInv
  <1>1. PICK v : /\ threads'[p] = (threads[p] \ {w}) \union {v}
                 /\ v.op = "finish" /\ v.of = "cancelled" /\ v.for = w.for
                 /\ v.run = w.run /\ v.token = w.token
    BY Audited
  <1>2. task[p] = "cleaning" /\ up[p]
    BY DEF WritesAwaited, Alive, TypeOK
  <1>3. Alive(p)' /\ RunsKnown(p)' /\ TokensKnown(p)'
    BY <1>2 DEF Alive, RunsKnown, TokensKnown
  <1>4. WritesFormed(p)'
    BY <1>1 DEF WritesFormed
  <1>5. WritesAwaited(p)'
    BY <1>1, <1>2 DEF WritesAwaited, Streaming
  <1>6. CallerKnown(p)'
    BY <1>1, <1>2 DEF CallerKnown
  <1> QED BY <1>3, <1>4, <1>5, <1>6

\* A terminal transaction leaves the run ended.
LEMMA EndedNow ==
  ASSUME JournalInv, NEW r, NEW s, NEW t, LogTerminalOnce(r, s, t)
  PROVE  Terminal(r)'
  <1>1. CASE Terminal(r)
    BY <1>1 DEF LogTerminalOnce, Terminal, IsRow
  <1>2. CASE ~Terminal(r)
    <2>1. log' = Append(log, NewRow(r, "terminal", s, t)) /\ Len(log) \in Nat
      BY <1>2 DEF LogTerminalOnce, JournalInv, JournalTypeOK
    <2>2. Len(log) + 1 \in DOMAIN log' /\ log'[Len(log) + 1] = NewRow(r, "terminal", s, t)
      BY <2>1 DEF JournalInv, JournalTypeOK
    <2> QED BY <2>2 DEF Terminal, IsRow, NewRow
  <1> QED BY <1>1, <1>2

LEMMA EventPersisted ==
  ASSUME TypeOK, JournalInv, NEW p \in Proc, LocalInv(p), LeaseKnown(p),
         NEW w \in threads[p], PersistEvent(p, w), Step(p)
  PROVE  LocalInv(p)' /\ LeaseKnown(p)'
  <1>1. /\ UNCHANGED <<up, start, active, token, wanted, caller, hydration>>
        /\ leases' = leases /\ nextToken' = nextToken
        /\ task'[p] = IF w.for = "task" THEN "streaming" ELSE task[p]
        /\ w.op = "append"
    BY DEF PersistEvent, AppendOwned, Goto, TypeOK
  <1>2. LocalInv(p)'
    <2>1. CASE w.for = "cleanup"
      BY <1>1, <2>1, AuditedLocal DEF PersistEvent
    <2>2. CASE w.for # "cleanup"
      BY <1>1, <2>2, Retired, RetiredLocal DEF PersistEvent
    <2> QED BY <2>1, <2>2
  <1>3. \A r \in Run : Terminal(r) => Terminal(r)'
    BY StepCallsJournal, EndingsStay
  <1>4. w.for = "task" => task[p] \in Streaming
    BY DEF LocalInv, WritesAwaited, Streaming
  <1>5. /\ task[p] \in Running => active[p] \in Run
        /\ caller[p].at # "none" => caller[p].run \in Run
    BY DEF LocalInv, RunsKnown, CallerKnown
  <1>6. LeaseKnown(p)'
    <2>1. (task[p] \in Streaming => HoldsLease(active[p], Self(p), token[p]))'
      BY <1>1, <1>4 DEF LeaseKnown, HoldsLease, Self
    <2>2. (task[p] = "ended" => Terminal(active[p]))'
      BY <1>1, <1>3, <1>5 DEF LeaseKnown, Terminal, Running
    <2>3. (task[p] = "done" /\ caller[p].at # "waiting" => Terminal(active[p]))'
      BY <1>1, <1>3, <1>5 DEF LeaseKnown, Terminal, Running
    <2>4. (caller[p].how = "cancel" /\ caller[p].at \in {"waiting", "returned", "persisting"} =>
             Terminal(caller[p].run) \/ HoldsLease(caller[p].run, Self(p), caller[p].token))'
      BY <1>1, <1>3, <1>5 DEF LeaseKnown, HoldsLease, Self, Terminal
    <2>5. (caller[p].how = "cancel" /\ caller[p].at = "clearing" => Terminal(caller[p].run))'
      BY <1>1, <1>3, <1>5 DEF LeaseKnown, Terminal
    <2> QED BY <2>1, <2>2, <2>3, <2>4, <2>5 DEF LeaseKnown
  <1> QED BY <1>2, <1>6

LEMMA EndingPersisted ==
  ASSUME TypeOK, JournalInv, NEW p \in Proc, LocalInv(p), LeaseKnown(p),
         NEW w \in threads[p], PersistEnding(p, w), Step(p)
  PROVE  LocalInv(p)' /\ LeaseKnown(p)'
  <1>1. /\ UNCHANGED <<up, start, active, token, wanted, caller, hydration>>
        /\ nextToken' = nextToken
        /\ w.for \in {"task", "cleanup", "nobody"}
        /\ w.for = "nobody" => task'[p] = task[p]
        /\ w.for = "cleanup" => task'[p] = "done"
        /\ w.for = "task" => task'[p] \in {"ended", "done"}
    BY LocalTypes DEF PersistEnding, FinishOwned, Goto, TypeOK
  <1>2. LocalInv(p)'
    BY <1>1, Retired, RetiredLocal DEF PersistEnding
  <1>3. \A r \in Run : Terminal(r) => Terminal(r)'
    BY StepCallsJournal, EndingsStay
  <1>4. HoldsLease(w.run, Self(p), w.token) /\ Terminal(w.run)'
    BY EndedNow DEF PersistEnding, FinishOwned
  <1>5. w.for # "nobody" => w.run = active[p]
    BY DEF LocalInv, WritesAwaited
  <1>6. /\ task[p] \in Running => active[p] \in Run
        /\ caller[p].at # "none" => caller[p].run \in Run
    BY DEF LocalInv, RunsKnown, CallerKnown
  <1>7. LeaseKnown(p)'
    <2>1. task'[p] \notin Streaming
      <3>1. SUFFICES ASSUME task[p] \in Streaming, w.for = "nobody" PROVE FALSE
        BY <1>1 DEF Streaming
      <3>2. w.token # token[p]
        BY <3>1 DEF LocalInv, WritesAwaited
      <3> QED BY <1>4, <3>1, <3>2, HolderFacts DEF LeaseKnown
    <2>2. (task[p] = "ended" => Terminal(active[p]))'
      BY <1>1, <1>3, <1>4, <1>5, <1>6 DEF LeaseKnown, Terminal, Running
    <2>3. (task[p] = "done" /\ caller[p].at # "waiting" => Terminal(active[p]))'
      BY <1>1, <1>3, <1>4, <1>5, <1>6 DEF LeaseKnown, Terminal, Running
    <2>4. (caller[p].how = "cancel" /\ caller[p].at \in {"waiting", "returned", "persisting"} =>
             Terminal(caller[p].run) \/ HoldsLease(caller[p].run, Self(p), caller[p].token))'
      <3>1. HoldsLease(caller[p].run, Self(p), caller[p].token) => caller[p].run = w.run
        BY <1>4, HolderFacts
      <3> QED BY <1>1, <1>3, <1>4, <1>6, <3>1 DEF LeaseKnown, Terminal
    <2>5. (caller[p].how = "cancel" /\ caller[p].at = "clearing" => Terminal(caller[p].run))'
      BY <1>1, <1>3, <1>6 DEF LeaseKnown, Terminal
    <2> QED BY <2>1, <2>2, <2>3, <2>4, <2>5 DEF LeaseKnown
  <1> QED BY <1>2, <1>7

LEMMA LeaseReleased ==
  ASSUME TypeOK, JournalInv, NEW p \in Proc, LocalInv(p), LeaseKnown(p),
         NEW w \in threads[p], ReleaseSuspended(p, w)
  PROVE  LocalInv(p)' /\ LeaseKnown(p)'
  <1>1. /\ UNCHANGED <<up, start, active, token, wanted, caller, hydration>>
        /\ nextToken' = nextToken /\ task'[p] = "done"
        /\ w.op = "release"
    BY DEF ReleaseSuspended, ReleaseRunLease, Goto, TypeOK
  <1>2. w.for = "cleanup" /\ caller[p].at = "waiting" /\ caller[p].how # "cancel"
    BY <1>1 DEF LocalInv, WritesFormed, WritesAwaited, CallerKnown
  <1>3. LocalInv(p)'
    BY <1>1, <1>2, Retired, RetiredLocal DEF ReleaseSuspended
  <1>4. LeaseKnown(p)'
    BY <1>1, <1>2 DEF LeaseKnown, Streaming
  <1> QED BY <1>3, <1>4

LEMMA LeaseFoundLost ==
  ASSUME TypeOK, JournalInv, NEW p \in Proc, LocalInv(p), LeaseKnown(p),
         NEW w \in threads[p], LeaseLost(p, w)
  PROVE  LocalInv(p)' /\ LeaseKnown(p)'
  <1>1. /\ UNCHANGED <<up, start, active, token, wanted, caller, hydration>>
        /\ UNCHANGED journalVars /\ nextToken' = nextToken
        /\ w.for \in {"task", "cleanup", "nobody"}
        /\ ~HoldsLease(w.run, Self(p), w.token)
    BY LocalTypes DEF LeaseLost, journalVars
  <1>2. w.for # "task"
    BY <1>1 DEF LocalInv, WritesAwaited, LeaseKnown, Streaming
  <1>3. \/ w.for = "cleanup" /\ AuditDone(p, w) /\ task'[p] = task[p]
        \/ w.for = "cleanup" /\ Retire(p, w) /\ task'[p] = "raised"
        \/ w.for = "nobody" /\ Retire(p, w) /\ task'[p] = task[p]
    BY <1>1, <1>2 DEF LeaseLost, Goto, TypeOK
  <1>4. LocalInv(p)'
    BY <1>1, <1>3, Retired, RetiredLocal, AuditedLocal
  <1>5. LeaseKnown(p)'
    BY <1>1, <1>3 DEF LeaseKnown, Streaming, HoldsLease, Self, Terminal, IsRow, journalVars
  <1> QED BY <1>4, <1>5

\* What a cancelled task, and the ending of a suspended one, hand over.
LEMMA CleanupFacts ==
  ASSUME NEW p \in Proc, NEW how \in {"cancel", "suspend"}, NEW c \in Cleanups(p, how)
  PROVE  /\ c.for = "cleanup" /\ c.run = active[p] /\ c.token = token[p]
         /\ c.op = "append" => c.kind = "work" /\ c.of = Nothing
         /\ c.op = "finish" => c.of = "cancelled"
         /\ how = "cancel" => c.op # "release"
  BY DEF Cleanups, Cleanup

LEMMA AbandonedFormed ==
  ASSUME TypeOK, NEW p \in Proc, LocalInv(p), NEW left \in Abandon(p), NEW v \in left,
         task[p] # "cleaning"
  PROVE  /\ v.for = "nobody" /\ v.token \in Nat
         /\ v.op = "append" => /\ v.kind \in {"work", "approval", "result"}
                               /\ v.of \in Approval \union {Nothing}
         /\ v.op = "finish" => v.of \in {"completed", "cancelled", "error"}
         /\ v.op # "release" /\ v.token < nextToken
  <1>1. v \in Write /\ v.for # "task"
    BY AbandonedWrites
  <1>2. CASE v \in threads[p]
    BY <1>1, <1>2 DEF Write, LocalInv, WritesFormed, WritesAwaited
  <1>3. CASE \E w \in threads[p] : /\ w.for = "task" /\ v.for = "nobody" /\ v.op = w.op
                                   /\ v.run = w.run /\ v.kind = w.kind /\ v.of = w.of
                                   /\ v.token = w.token
    BY <1>1, <1>3 DEF Write, LocalInv, WritesFormed
  <1> QED BY <1>2, <1>3, AbandonedWrites

LEMMA Delivered ==
  ASSUME TypeOK, JournalInv, NEW p \in Proc, LocalInv(p), LeaseKnown(p), Deliver(p)
  PROVE  LocalInv(p)' /\ LeaseKnown(p)'
  <1> USE DEF LocalInv
  <1>1. /\ UNCHANGED <<up, start, active, token, wanted, hydration>>
        /\ UNCHANGED journalVars /\ nextToken' = nextToken
        /\ caller[p].at = "decided" /\ active[p] = caller[p].run
        /\ caller[p].how \in {"cancel", "suspend"}
    BY DEF Deliver, journalVars, TypeOK, Caller
  <1>2. /\ active[p] \in Run /\ active[p] # NoRun /\ token[p] # 0 /\ token[p] < nextToken /\ up[p]
        /\ task[p] # "cleaning"
    BY <1>1, LocalTypes DEF TokensKnown, CallerKnown, Alive, TypeOK
  <1>3. \A at : caller' = [caller EXCEPT ![p] = [@ EXCEPT !.at = at, !.token = token[p]]] =>
          /\ caller'[p].at = at /\ caller'[p].token = token[p]
          /\ caller'[p].how = caller[p].how /\ caller'[p].run = active[p]
    BY <1>1 DEF TypeOK, Caller
  <1>4. CASE task[p] = "created"
    <2>1. /\ task'[p] = "none" /\ threads' = threads /\ caller[p].how = "cancel"
          /\ caller'[p].at = "returned" /\ caller'[p].token = token[p]
          /\ caller'[p].how = caller[p].how /\ caller'[p].run = active[p]
      BY <1>3, <1>4 DEF Deliver, Goto, TypeOK
    <2>2. Alive(p)' /\ RunsKnown(p)' /\ TokensKnown(p)'
      BY <1>1, <1>2, <2>1 DEF Alive, RunsKnown, TokensKnown, Running, Streaming, Starting
    <2>3. WritesFormed(p)'
      BY <1>1, <2>1 DEF WritesFormed
    <2>4. WritesAwaited(p)'
      BY <1>1, <1>4, <2>1, Unawaited DEF WritesAwaited, Streaming
    <2>5. CallerKnown(p)'
      BY <1>1, <1>2, <1>4, <2>1, Unawaited DEF CallerKnown, After
    <2>6. LeaseKnown(p)'
      BY <1>1, <1>4, <2>1 DEF LeaseKnown, Streaming, HoldsLease, Self, journalVars
    <2> QED BY <2>2, <2>3, <2>4, <2>5, <2>6
  <1>5. CASE task[p] \in {"streaming", "writing", "finishing", "ended"}
    <2>1. PICK left \in Abandon(p), c \in Cleanups(p, caller[p].how) :
            threads' = [threads EXCEPT ![p] = left \union {c}]
      BY <1>5 DEF Deliver
    <2>2. /\ task'[p] = "cleaning" /\ threads'[p] = left \union {c}
          /\ caller'[p].at = "waiting" /\ caller'[p].token = token[p]
          /\ caller'[p].how = caller[p].how /\ caller'[p].run = active[p]
      BY <1>3, <1>5, <2>1 DEF Deliver, Goto, TypeOK
    <2>3. Alive(p)' /\ RunsKnown(p)' /\ TokensKnown(p)'
      BY <1>1, <1>2, <2>2 DEF Alive, RunsKnown, TokensKnown, Running, Streaming, Starting
    <2>4. /\ c.for = "cleanup" /\ c.run = active[p] /\ c.token = token[p]
          /\ c.op = "append" => c.kind = "work" /\ c.of = Nothing
          /\ c.op = "finish" => c.of = "cancelled"
          /\ caller[p].how = "cancel" => c.op # "release"
      BY <1>1, CleanupFacts
    <2>5. WritesFormed(p)'
      BY <1>1, <1>2, <2>2, <2>4, AbandonedFormed DEF WritesFormed
    <2>6. WritesAwaited(p)'
      BY <1>1, <1>2, <2>2, <2>4, AbandonedFormed DEF WritesAwaited, Streaming
    <2>7. CallerKnown(p)'
      BY <1>1, <1>2, <2>2, <2>4, AbandonedFormed DEF CallerKnown, After
    <2>8. LeaseKnown(p)'
      BY <1>1, <1>5, <2>2
      DEF LeaseKnown, Streaming, HoldsLease, Self, Terminal, IsRow, journalVars
    <2> QED BY <2>3, <2>5, <2>6, <2>7, <2>8
  <1>6. CASE task[p] \in {"failing", "done"}
    <2>1. \/ threads' = threads /\ task[p] = "done"
          \/ \E left \in Abandon(p) : threads' = [threads EXCEPT ![p] = left]
      BY <1>6 DEF Deliver
    <2>2. /\ task'[p] = "done"
          /\ caller'[p].at = "waiting" /\ caller'[p].token = token[p]
          /\ caller'[p].how = caller[p].how /\ caller'[p].run = active[p]
      BY <1>3, <1>6 DEF Deliver, Goto, TypeOK
    <2>3. \A v \in threads'[p] :
            /\ v.for = "nobody"
            /\ v.op = "append" => /\ v.kind \in {"work", "approval", "result"}
                                  /\ v.of \in Approval \union {Nothing}
            /\ v.op = "finish" => v.of \in {"completed", "cancelled", "error"}
            /\ v.op # "release" /\ v.token < nextToken
      <3>1. CASE threads' = threads /\ task[p] = "done"
        BY <3>1, Unawaited DEF WritesFormed
      <3>2. CASE \E left \in Abandon(p) : threads' = [threads EXCEPT ![p] = left]
        <4>1. PICK left \in Abandon(p) : threads' = [threads EXCEPT ![p] = left]
          BY <3>2
        <4>2. threads'[p] = left
          BY <4>1 DEF TypeOK
        <4> QED BY <1>2, <4>2, AbandonedFormed
      <3> QED BY <2>1, <3>1, <3>2
    <2>4. Alive(p)' /\ RunsKnown(p)' /\ TokensKnown(p)'
      BY <1>1, <1>2, <2>2 DEF Alive, RunsKnown, TokensKnown, Running, Streaming, Starting
    <2>5. WritesFormed(p)'
      BY <1>1, <2>3 DEF WritesFormed
    <2>6. WritesAwaited(p)'
      BY <2>2, <2>3 DEF WritesAwaited, Streaming
    <2>7. CallerKnown(p)'
      BY <1>1, <1>2, <2>2, <2>3 DEF CallerKnown, After
    <2>8. LeaseKnown(p)'
      BY <1>1, <1>6, <2>2
      DEF LeaseKnown, Streaming, HoldsLease, Self, Terminal, IsRow, journalVars
    <2> QED BY <2>4, <2>5, <2>6, <2>7, <2>8
  <1> QED BY <1>4, <1>5, <1>6 DEF Deliver

LEMMA CallerGivesUp ==
  ASSUME TypeOK, JournalInv, NEW p \in Proc, LocalInv(p), LeaseKnown(p), TooLate(p)
  PROVE  LocalInv(p)' /\ LeaseKnown(p)'
  <1> USE DEF LocalInv
  <1>1. /\ UNCHANGED <<up, start, active, token, task, wanted, threads, hydration>>
        /\ UNCHANGED journalVars /\ nextToken' = nextToken
        /\ caller[p].at = "decided" /\ caller'[p] = NoCaller
    BY DEF TooLate, journalVars, TypeOK
  <1>2. Alive(p)' /\ RunsKnown(p)' /\ TokensKnown(p)'
    BY <1>1 DEF Alive, RunsKnown, TokensKnown, NoCaller
  <1>3. WritesFormed(p)' /\ WritesAwaited(p)'
    BY <1>1 DEF WritesFormed, WritesAwaited
  <1>4. CallerKnown(p)'
    BY <1>1 DEF CallerKnown, NoCaller, After, WritesAwaited
  <1>5. LeaseKnown(p)'
    BY <1>1 DEF LeaseKnown, NoCaller, HoldsLease, Self, Terminal, IsRow, journalVars
  <1> QED BY <1>2, <1>3, <1>4, <1>5

LEMMA CallerLooks ==
  ASSUME TypeOK, JournalInv, NEW p \in Proc, LocalInv(p), LeaseKnown(p), AfterTask(p)
  PROVE  LocalInv(p)' /\ LeaseKnown(p)'
  <1> USE DEF LocalInv
  <1>1. /\ UNCHANGED <<up, start, active, token, task, wanted, threads, hydration>>
        /\ UNCHANGED journalVars /\ nextToken' = nextToken
        /\ caller[p].at = "returned"
        /\ caller'[p].at \in {"persisting", "clearing"}
        /\ caller'[p].at = "clearing" /\ caller[p].how = "cancel" => ~Leased(caller[p].run)
        /\ caller'[p].how = caller[p].how /\ caller'[p].run = caller[p].run
        /\ caller'[p].token = caller[p].token
    BY DEF AfterTask, journalVars, TypeOK, Caller
  <1>2. Alive(p)' /\ RunsKnown(p)' /\ TokensKnown(p)'
    BY <1>1 DEF Alive, RunsKnown, TokensKnown, TypeOK
  <1>3. WritesFormed(p)' /\ WritesAwaited(p)'
    BY <1>1 DEF WritesFormed, WritesAwaited
  <1>4. CallerKnown(p)'
    BY <1>1 DEF CallerKnown, After
  <1>5. LeaseKnown(p)'
    BY <1>1, HolderFacts DEF LeaseKnown, HoldsLease, Self, Terminal, IsRow, journalVars
  <1> QED BY <1>2, <1>3, <1>4, <1>5

LEMMA CallerEndsRun ==
  ASSUME TypeOK, JournalInv, NEW p \in Proc, LocalInv(p), LeaseKnown(p), CallerEnds(p)
  PROVE  LocalInv(p)' /\ LeaseKnown(p)'
  <1> USE DEF LocalInv
  <1>1. /\ UNCHANGED <<up, start, active, token, task, wanted, threads, hydration>>
        /\ nextToken' = nextToken
        /\ caller[p].at = "persisting" /\ up[p] /\ caller[p].run \in Run
    BY DEF CallerEnds, FinishOwned, journalVars, TypeOK, Alive, CallerKnown
  <1>2. \/ /\ FinishOwned(caller[p].run, "cancelled", Self(p), caller[p].token)
           /\ caller'[p].at = "clearing"
           /\ caller'[p].how = caller[p].how /\ caller'[p].run = caller[p].run
           /\ caller'[p].token = caller[p].token
        \/ UNCHANGED journalVars /\ caller'[p] = NoCaller
    BY DEF CallerEnds, TypeOK, Caller
  <1>3. Alive(p)' /\ RunsKnown(p)' /\ TokensKnown(p)'
    BY <1>1, <1>2 DEF Alive, RunsKnown, TokensKnown, TypeOK
  <1>4. WritesFormed(p)' /\ WritesAwaited(p)'
    BY <1>1 DEF WritesFormed, WritesAwaited
  <1>5. CallerKnown(p)'
    BY <1>1, <1>2 DEF CallerKnown, After, NoCaller, WritesAwaited
  <1>6. LeaseKnown(p)'
    <2>1. CASE UNCHANGED journalVars /\ caller'[p] = NoCaller
      BY <1>1, <2>1 DEF LeaseKnown, NoCaller, HoldsLease, Self, Terminal, IsRow, journalVars
    <2>2. CASE /\ FinishOwned(caller[p].run, "cancelled", Self(p), caller[p].token)
               /\ caller'[p].at = "clearing"
               /\ caller'[p].how = caller[p].how /\ caller'[p].run = caller[p].run
      <3>1. /\ HoldsLease(caller[p].run, Self(p), caller[p].token)
            /\ Terminal(caller[p].run)'
        BY <2>2, EndedNow DEF FinishOwned
      <3>2. task[p] \notin Streaming
        <4>1. SUFFICES ASSUME task[p] \in Streaming PROVE FALSE
          OBVIOUS
        <4>2. caller[p].token # token[p]
          BY <1>1, <4>1 DEF CallerKnown, After, Streaming
        <4> QED BY <3>1, <4>1, <4>2, HolderFacts DEF LeaseKnown
      <3>3. \A r \in Run : Terminal(r) => Terminal(r)'
        <4>1. CallerEnds(p) => Step(p)
          BY DEF Step, CallerStep
        <4> QED BY <4>1, StepCallsJournal, EndingsStay
      <3>4. task[p] \in {"ended", "done"} => active[p] \in Run
        BY DEF RunsKnown, Running
      <3>5. /\ (task[p] = "ended" => Terminal(active[p]))'
            /\ (task[p] = "done" /\ caller[p].at # "waiting" => Terminal(active[p]))'
        BY <1>1, <3>3, <3>4 DEF LeaseKnown, Terminal
      <3>6. Terminal(caller[p].run)'
        BY <2>2, <3>1 DEF Terminal
      <3> QED BY <1>1, <2>2, <3>2, <3>5, <3>6 DEF LeaseKnown
    <2> QED BY <1>2, <2>1, <2>2
  <1> QED BY <1>3, <1>4, <1>5, <1>6

LEMMA CallerCleared ==
  ASSUME TypeOK, JournalInv, NEW p \in Proc, LocalInv(p), LeaseKnown(p), CallerClears(p)
  PROVE  LocalInv(p)' /\ LeaseKnown(p)'
  <1> USE DEF LocalInv
  <1>1. /\ UNCHANGED <<up, start, task, wanted, threads, hydration>>
        /\ UNCHANGED journalVars /\ nextToken' = nextToken
        /\ caller[p].at = "clearing" /\ caller'[p] = NoCaller
    BY DEF CallerClears, journalVars, TypeOK
  <1>2. \/ active'[p] = active[p] /\ token'[p] = token[p]
        \/ task[p] = "none" /\ active'[p] = NoRun /\ token'[p] = 0
    BY DEF CallerClears, CallerKnown, After, SetActive, TypeOK
  <1>3. Alive(p)' /\ RunsKnown(p)' /\ TokensKnown(p)'
    BY <1>1, <1>2, LocalTypes
    DEF Alive, RunsKnown, TokensKnown, NoCaller, Running, Streaming, Starting
  <1>4. WritesFormed(p)'
    BY <1>1 DEF WritesFormed
  <1>5. WritesAwaited(p)'
    BY <1>1, <1>2, Unawaited DEF WritesAwaited, Streaming
  <1>6. CallerKnown(p)'
    BY <1>1 DEF CallerKnown, NoCaller, After, WritesAwaited
  <1>7. LeaseKnown(p)'
    BY <1>1, <1>2
    DEF LeaseKnown, NoCaller, Streaming, HoldsLease, Self, Terminal, IsRow, journalVars
  <1> QED BY <1>3, <1>4, <1>5, <1>6, <1>7

LEMMA RecoveryKeeps ==
  ASSUME TypeOK, JournalInv, NEW p \in Proc, LocalInv(p), LeaseKnown(p), Recovery(p)
  PROVE  LocalInv(p)' /\ LeaseKnown(p)'
  <1> USE DEF LocalInv
  <1>1. UNCHANGED <<up, start, active, token, task, wanted, threads, caller>>
    BY DEF Recovery, RecoverLease, ListUnfinished, CheckUnfinished, InterruptUnfinished
  <1>2. up[p]
    BY DEF Recovery, RecoverLease, ListUnfinished, CheckUnfinished, InterruptUnfinished, Alive,
           TypeOK, Hydration
  <1>3. /\ \/ UNCHANGED journalVars
           \/ \E s \in Run : FinishUnowned(s, "interrupted")
           \/ RecoverRunLease(LiveOwners)
        /\ nextToken' = nextToken
    <2>1. CASE RecoverLease(p)
      BY <2>1 DEF RecoverLease, RecoverRunLease, journalVars
    <2>2. CASE InterruptUnfinished(p)
      BY <2>2 DEF InterruptUnfinished, FinishUnowned, RunsKnown, journalVars
    <2> QED BY <2>1, <2>2 DEF Recovery, ListUnfinished, CheckUnfinished, journalVars
  <1>4. hydration'[p].at = "interrupt" => hydration'[p].run \in Run
    <2>1. hydration[p].todo \subseteq Run
      BY DEF TypeOK, Hydration
    <2> QED BY <2>1 DEF Recovery, RecoverLease, ListUnfinished, CheckUnfinished,
                        InterruptUnfinished, Hydrate, TypeOK
  <1>5. Alive(p)' /\ RunsKnown(p)' /\ TokensKnown(p)'
    BY <1>1, <1>2, <1>3, <1>4 DEF Alive, RunsKnown, TokensKnown
  <1>6. WritesFormed(p)' /\ WritesAwaited(p)'
    BY <1>1, <1>3 DEF WritesFormed, WritesAwaited
  <1>7. CallerKnown(p)'
    BY <1>1, <1>3 DEF CallerKnown
  <1>8. JournalCall(p)
    BY <1>3 DEF JournalCall
  <1>9. \A r \in Run : Terminal(r) => Terminal(r)'
    BY <1>8, EndingsStay
  <1>10. \A r, t : HoldsLease(r, Self(p), t) =>
                     [run |-> r, owner |-> Self(p), token |-> t] \in leases'
    BY <1>2, <1>3, <1>8, LeasesOfOthersStay
  <1>11. /\ task[p] \in Running => active[p] \in Run
         /\ caller[p].at # "none" => caller[p].run \in Run
    BY DEF RunsKnown, CallerKnown
  <1>12. LeaseKnown(p)'
    <2>1. (task[p] \in Streaming => HoldsLease(active[p], Self(p), token[p]))'
      BY <1>1, <1>10 DEF LeaseKnown, HoldsLease, Self
    <2>2. /\ (task[p] = "ended" => Terminal(active[p]))'
          /\ (task[p] = "done" /\ caller[p].at # "waiting" => Terminal(active[p]))'
          /\ (caller[p].how = "cancel" /\ caller[p].at = "clearing" => Terminal(caller[p].run))'
      BY <1>1, <1>9, <1>11 DEF LeaseKnown, Terminal, Running
    <2>3. (caller[p].how = "cancel" /\ caller[p].at \in {"waiting", "returned", "persisting"} =>
             Terminal(caller[p].run) \/ HoldsLease(caller[p].run, Self(p), caller[p].token))'
      BY <1>1, <1>9, <1>10, <1>11 DEF LeaseKnown, HoldsLease, Self, Terminal
    <2> QED BY <2>1, <2>2, <2>3 DEF LeaseKnown
  <1> QED BY <1>5, <1>6, <1>7, <1>12

LEMMA ProcessStartsOrDies ==
  ASSUME TypeOK, NEW p \in Proc, LocalInv(p), Boot(p) \/ Crash(p)
  PROVE  LocalInv(p)' /\ LeaseKnown(p)'
  <1> USE DEF LocalInv
  <1>1. /\ UNCHANGED journalVars /\ nextToken' = nextToken
        /\ task'[p] = "none" /\ threads'[p] = {} /\ caller'[p].at = "none"
        /\ hydration'[p].at = "cold"
        /\ active'[p] = NoRun
    BY DEF Boot, Crash, Alive, TypeOK, Goto, SetActive, NoCaller, Cold, journalVars
  <1>2. up'[p] => start'[p] # 0
    BY DEF Boot, Crash, TypeOK
  <1>3. TokensKnown(p)'
    <2>1. CASE Boot(p)
      BY <1>1, <2>1 DEF Boot, TokensKnown, Alive
    <2>2. CASE Crash(p)
      BY <1>1, <2>2, LocalTypes DEF Crash, TokensKnown, SetActive, TypeOK
    <2> QED BY <2>1, <2>2
  <1>4. Alive(p)' /\ RunsKnown(p)'
    BY <1>1, <1>2 DEF Alive, RunsKnown, Running, Streaming, Starting
  <1>5. WritesFormed(p)' /\ WritesAwaited(p)'
    BY <1>1 DEF WritesFormed, WritesAwaited
  <1>6. CallerKnown(p)'
    BY <1>1 DEF CallerKnown, After
  <1>7. LeaseKnown(p)'
    BY <1>1 DEF LeaseKnown, Streaming
  <1> QED BY <1>3, <1>4, <1>5, <1>6, <1>7

LEMMA RunAskedFor ==
  ASSUME TypeOK, NEW p \in Proc, LocalInv(p), LeaseKnown(p),
         NEW r \in Run, StartRun(p, r) \/ ResumeExisting(p, r)
  PROVE  LocalInv(p)' /\ LeaseKnown(p)'
  <1> USE DEF LocalInv
  <1>1. /\ UNCHANGED <<up, start, active, token, threads, caller, hydration>>
        /\ UNCHANGED journalVars /\ nextToken' = nextToken
        /\ up[p] /\ active[p] = NoRun /\ task[p] = "none"
        /\ task'[p] \in {"begin", "resume"} /\ wanted'[p] = r
    BY DEF StartRun, ResumeExisting, Ready, Goto, TypeOK, journalVars
  <1>2. token[p] = 0
    BY <1>1 DEF TokensKnown
  <1>3. Alive(p)' /\ RunsKnown(p)' /\ TokensKnown(p)'
    BY <1>1, <1>2 DEF Alive, RunsKnown, TokensKnown, Running, Streaming, Starting
  <1>4. WritesFormed(p)'
    BY <1>1 DEF WritesFormed
  <1>5. WritesAwaited(p)'
    BY <1>1, Unawaited DEF WritesAwaited, Streaming
  <1>6. CallerKnown(p)'
    BY <1>1, <1>2 DEF CallerKnown, After
  <1>7. LeaseKnown(p)'
    BY <1>1 DEF LeaseKnown, Streaming, HoldsLease, Self, Terminal, IsRow, journalVars
  <1> QED BY <1>3, <1>4, <1>5, <1>6, <1>7

LEMMA StreamSpeaks ==
  ASSUME TypeOK, NEW p \in Proc, LocalInv(p), LeaseKnown(p),
         StreamEvent(p) \/ StreamTerminal(p) \/ StreamEnds(p)
  PROVE  LocalInv(p)' /\ LeaseKnown(p)'
  <1> USE DEF LocalInv
  <1>1. /\ UNCHANGED <<up, start, active, token, wanted, caller, hydration>>
        /\ UNCHANGED journalVars /\ nextToken' = nextToken
        /\ task[p] = "streaming" /\ task'[p] \in {"writing", "finishing", "failing"}
    BY DEF StreamEvent, StreamTerminal, StreamEnds, Goto, TypeOK, journalVars
  <1>2. \E w : /\ threads'[p] = threads[p] \union {w}
               /\ w.run = active[p] /\ w.token = token[p] /\ w.for = "task"
               /\ \/ w.op = "append" /\ w.kind \in {"work", "approval", "result"}
                     /\ w.of \in Approval \union {Nothing}
                  \/ w.op = "finish" /\ w.of \in {"completed", "error"}
    <2> DEFINE W(op, k, x) ==
          [op |-> op, run |-> active[p], kind |-> k, of |-> x, token |-> token[p],
           for |-> "task", locked |-> TRUE]
    <2>1. \/ \E k \in {"work", "approval", "result"}, x \in Approval \union {Nothing} :
               Hand(p, "append", k, x, "task", TRUE)
          \/ \E x \in {"completed", "error"} : Hand(p, "finish", "terminal", x, "task", TRUE)
      BY DEF StreamEvent, StreamTerminal, StreamEnds, PendingApprovals
    <2>2. \A op, k, x : /\ W(op, k, x).run = active[p] /\ W(op, k, x).token = token[p]
                        /\ W(op, k, x).for = "task" /\ W(op, k, x).op = op
                        /\ W(op, k, x).kind = k /\ W(op, k, x).of = x
      OBVIOUS
    <2>3. CASE \E k \in {"work", "approval", "result"}, x \in Approval \union {Nothing} :
                 Hand(p, "append", k, x, "task", TRUE)
      <3>1. PICK k \in {"work", "approval", "result"}, x \in Approval \union {Nothing} :
              threads'[p] = threads[p] \union {W("append", k, x)}
        BY <2>3 DEF Hand, TypeOK
      <3> HIDE DEF W
      <3> QED BY <2>2, <3>1
    <2>4. CASE \E x \in {"completed", "error"} : Hand(p, "finish", "terminal", x, "task", TRUE)
      <3>1. PICK x \in {"completed", "error"} :
              threads'[p] = threads[p] \union {W("finish", "terminal", x)}
        BY <2>4 DEF Hand, TypeOK
      <3> HIDE DEF W
      <3> QED BY <2>2, <3>1
    <2> QED BY <2>1, <2>3, <2>4
  <1>3. PICK w : /\ threads'[p] = threads[p] \union {w}
                 /\ w.run = active[p] /\ w.token = token[p] /\ w.for = "task"
                 /\ \/ w.op = "append" /\ w.kind \in {"work", "approval", "result"}
                       /\ w.of \in Approval \union {Nothing}
                    \/ w.op = "finish" /\ w.of \in {"completed", "error"}
    BY <1>2
  <1>4. up[p]
    BY <1>1 DEF Alive, TypeOK
  <1>5. Alive(p)' /\ RunsKnown(p)' /\ TokensKnown(p)'
    BY <1>1, <1>4 DEF Alive, RunsKnown, TokensKnown, Running, Streaming, Starting
  <1>6. WritesFormed(p)'
    BY <1>1, <1>3 DEF WritesFormed, TokensKnown
  <1>7. WritesAwaited(p)'
    BY <1>1, <1>3, Unawaited DEF WritesAwaited, Streaming
  <1>8. CallerKnown(p)'
    BY <1>1, <1>3 DEF CallerKnown
  <1>9. LeaseKnown(p)'
    BY <1>1 DEF LeaseKnown, Streaming, HoldsLease, Self, Terminal, IsRow, journalVars
  <1> QED BY <1>5, <1>6, <1>7, <1>8, <1>9

LEMMA CallerDecides ==
  ASSUME TypeOK, NEW p \in Proc, LocalInv(p), LeaseKnown(p),
         NEW how \in {"cancel", "suspend"}, Decide(p, how)
  PROVE  LocalInv(p)' /\ LeaseKnown(p)'
  <1> USE DEF LocalInv
  <1>1. /\ UNCHANGED <<up, start, active, token, task, wanted, threads, hydration>>
        /\ UNCHANGED journalVars /\ nextToken' = nextToken
        /\ caller[p].at = "none" /\ active[p] \in Run /\ active[p] # NoRun
        /\ caller'[p] = [at |-> "decided", how |-> how, run |-> active[p], token |-> token[p]]
    BY DEF Decide, TypeOK, journalVars
  <1>2. up[p]
    BY <1>1 DEF Alive, TypeOK
  <1>3. Alive(p)' /\ RunsKnown(p)' /\ TokensKnown(p)'
    BY <1>1, <1>2 DEF Alive, RunsKnown, TokensKnown
  <1>4. WritesFormed(p)' /\ WritesAwaited(p)'
    BY <1>1 DEF WritesFormed, WritesAwaited
  <1>5. CallerKnown(p)'
    BY <1>1 DEF CallerKnown, After, TokensKnown, WritesAwaited
  <1>6. LeaseKnown(p)'
    BY <1>1 DEF LeaseKnown, HoldsLease, Self, Terminal, IsRow, journalVars
  <1> QED BY <1>3, <1>4, <1>5, <1>6

------------------------------------------------------------------------------
(* The invariant holds, and with it what the runs check.                      *)

LEMMA ActorKeepsInv ==
  ASSUME TypeOK, JournalInv, NEW p \in Proc, LocalInv(p), LeaseKnown(p), Step(p)
  PROVE  LocalInv(p)' /\ LeaseKnown(p)'
  <1>1. CASE TaskStep(p)
    BY <1>1, LeaseTaken, StartGivenUp, TaskMovesOn, TaskUnwound DEF TaskStep
  <1>2. CASE ThreadStep(p)
    BY <1>2, EventPersisted, EndingPersisted, LeaseReleased, LeaseFoundLost DEF ThreadStep
  <1>3. CASE CallerStep(p)
    BY <1>3, Delivered, CallerGivesUp, CallerLooks, CallerEndsRun, CallerCleared DEF CallerStep
  <1>4. CASE Recovery(p)
    BY <1>4, RecoveryKeeps
  <1>5. CASE Environment(p)
    BY <1>5, ProcessStartsOrDies, RunAskedFor, StreamSpeaks, CallerDecides DEF Environment
  <1> QED BY <1>1, <1>2, <1>3, <1>4, <1>5 DEF Step

LEMMA CoordInit == Init => CoordInv
  <1> SUFFICES ASSUME Init PROVE CoordInv
    OBVIOUS
  <1>1. JournalInv
    BY InitInv DEF Init
  <1>2. TypeOK
    <2>1. NoCaller \in Caller /\ Cold \in Hydration
      BY DEF NoCaller, Caller, Cold, Hydration
    <2>2. JournalTypeOK
      BY <1>1 DEF JournalInv
    <2> QED BY <2>1, <2>2, CoordinatorAssumption DEF Init, TypeOK, TaskState
  <1>3. ASSUME NEW p \in Proc
        PROVE  LocalInv(p) /\ LeaseKnown(p)
    <2>1. /\ ~up[p] /\ task[p] = "none" /\ active[p] = NoRun /\ threads[p] = {} /\ token[p] = 0
          /\ caller[p].at = "none" /\ hydration[p].at = "cold" /\ nextToken = 1
      BY DEF Init, JournalInit, NoCaller, Cold
    <2>2. Alive(p) /\ RunsKnown(p) /\ TokensKnown(p)
      BY <2>1 DEF Alive, RunsKnown, TokensKnown, Running, Streaming, Starting
    <2>3. WritesFormed(p) /\ WritesAwaited(p) /\ CallerKnown(p)
      BY <2>1 DEF WritesFormed, WritesAwaited, CallerKnown, After
    <2>4. LeaseKnown(p)
      BY <2>1 DEF LeaseKnown, Streaming
    <2> QED BY <2>2, <2>3, <2>4 DEF LocalInv
  <1> QED BY <1>1, <1>2, <1>3 DEF CoordInv

LEMMA CoordStep == CoordInv /\ [Next]_vars => CoordInv'
  <1> SUFFICES ASSUME CoordInv, [Next]_vars PROVE CoordInv'
    OBVIOUS
  <1>1. TypeOK /\ JournalInv /\ \A q \in Proc : LocalInv(q) /\ LeaseKnown(q)
    BY DEF CoordInv
  <1>2. ASSUME NEW p \in Proc, Step(p)
        PROVE  CoordInv'
    <2>1. JournalCall(p) /\ OthersUntouched(p)
      BY <1>1, <1>2, StepCallsJournal, StepTouchesOne
    <2>2. JournalInv'
      BY <1>1, <2>1, CallIsJournalStep, StepInv
    <2>3. TypeOK'
      BY <1>1, <1>2, <2>2, StepTypes DEF JournalInv
    <2>4. LocalInv(p)' /\ LeaseKnown(p)'
      BY <1>1, <1>2, ActorKeepsInv
    <2>5. ASSUME NEW q \in Proc, q # p
          PROVE  LocalInv(q)' /\ LeaseKnown(q)'
      BY <1>1, <2>1, <2>5, OthersKeepInv
    <2> QED BY <2>2, <2>3, <2>4, <2>5 DEF CoordInv
  <1>3. CASE UNCHANGED vars
    <2>1. UNCHANGED journalVars
      BY <1>3 DEF vars
    <2>2. JournalInv'
      BY <1>1, <2>1, StepInv
    <2>3. TypeOK'
      BY <1>1, <1>3, <2>2 DEF TypeOK, vars, coordVars, JournalInv
    <2>4. ASSUME NEW q \in Proc
          PROVE  LocalInv(q)' /\ LeaseKnown(q)'
      <3>1. LocalInv(q)'
        BY <1>1, <1>3 DEF vars, coordVars, journalVars, LocalInv, Alive, RunsKnown, TokensKnown,
                          WritesFormed, WritesAwaited, CallerKnown
      <3>2. LeaseKnown(q)'
        BY <1>1, <1>3 DEF vars, coordVars, journalVars, LeaseKnown, HoldsLease, Self, Terminal,
                          IsRow
      <3> QED BY <3>1, <3>2
    <2> QED BY <2>2, <2>3, <2>4 DEF CoordInv
  <1>4. Next => \E p \in Proc : Step(p)
    BY DEF Next, Step
  <1> QED BY <1>2, <1>3, <1>4

\* The inductive invariant holds whatever processes, callers and streams do.
THEOREM CoordinatorInvariant == Spec => []CoordInv
  BY CoordInit, CoordStep, PTL DEF Spec

\* Type correctness of the coordinators and of the journal under them.
THEOREM CoordinatorTypeCorrect == Spec => []TypeOK
  <1>1. CoordInv => TypeOK
    BY DEF CoordInv
  <1> QED BY <1>1, CoordinatorInvariant, PTL

\* No recovery, abandoned write, cleanup or cancel of anybody takes the lease
\* from a task that consumes its stream.
THEOREM LiveRunsKeepTheirLease == Spec => []StreamKeepsLease
  <1>1. CoordInv => StreamKeepsLease
    BY DEF CoordInv, LeaseKnown, StreamKeepsLease, Streaming
  <1> QED BY <1>1, CoordinatorInvariant, PTL

\* Two processes never consume a run of the session at the same time, the same run or
\* different ones, however their recoveries, resumptions and restarts interleave.
OneTaskStreams ==
  \A p, q \in Proc : task[p] \in Streaming /\ task[q] \in Streaming => p = q

THEOREM OneProcessStreams == Spec => []OneTaskStreams
  <1>1. ASSUME CoordInv, NEW p \in Proc, NEW q \in Proc,
               task[p] \in Streaming, task[q] \in Streaming
        PROVE  p = q
    <2>1. HoldsLease(active[p], Self(p), token[p]) /\ HoldsLease(active[q], Self(q), token[q])
      BY <1>1 DEF CoordInv, LeaseKnown
    <2>2. Self(p) = Self(q)
      BY <1>1, <2>1, HolderFacts DEF CoordInv
    <2> QED BY <2>2, SelfInjective
  <1>2. CoordInv => OneTaskStreams
    BY <1>1 DEF OneTaskStreams
  <1> QED BY <1>2, CoordinatorInvariant, PTL

\* cancel() that returns True leaves the run ended.
THEOREM CancelEndsTheRun == Spec => []CancelledRunEnded
  <1>1. CoordInv => CancelledRunEnded
    BY DEF CoordInv, LeaseKnown, CancelledRunEnded
  <1> QED BY <1>1, CoordinatorInvariant, PTL

\* Every call the coordinators make is one the journal's theorems are about, so
\* that those hold of the processes as well.
THEOREM CoordinatorImplementsJournal == Spec => ImplementsJournal
  <1>1. Init => JournalInit
    BY DEF Init
  <1>2. CoordInv /\ [Next]_vars => [UNCHANGED journalVars \/ JournalNext]_vars
    <2> SUFFICES ASSUME CoordInv, NEW p \in Proc, Step(p)
                 PROVE  UNCHANGED journalVars \/ JournalNext
      BY DEF Next, Step
    <2>1. JournalCall(p)
      BY StepCallsJournal DEF CoordInv
    <2> QED BY <2>1, CallIsJournalStep DEF CoordInv
  <1> QED BY <1>1, <1>2, CoordinatorInvariant, PTL DEF Spec, ImplementsJournal

\* The fencing and the single-ending guarantees, of the whole system.
THEOREM CoordinatorsNeverWriteStale ==
  Spec => [](LeaseIsCurrent /\ EndedForGood /\ TokensInOrder)
  <1>1. JournalInv => EndedForGood /\ TokensInOrder
    BY DEF JournalInv
  <1>2. Spec => JournalSpec
    <2>1. [UNCHANGED journalVars \/ JournalNext]_vars => [JournalNext]_journalVars
      BY DEF vars
    <2> QED BY <2>1, CoordinatorImplementsJournal, PTL DEF ImplementsJournal, JournalSpec
  <1> QED BY <1>1, <1>2, JournalInvariant, LeaseAlwaysCurrent, PTL

LEMMA InterruptedBy ==
  ASSUME JournalInv, NEW p \in Proc, JournalCall(p), NEW r \in Run, InterruptedNow(r)
  PROVE  FinishUnowned(r, "interrupted") \/ RecoverRunLease(LiveOwners)
  <1>1. ASSUME NEW row \in Row, log' = Append(log, row)
        PROVE  row.kind = "terminal" /\ row.run = r /\ row.of = "interrupted"
    <2>1. row.kind = "terminal" /\ row.run = r
      BY <1>1, AppendQueries DEF InterruptedNow, JournalInv
    <2>2. log'[Len(log')] = row
      BY <1>1 DEF JournalInv, JournalTypeOK
    <2> QED BY <2>1, <2>2 DEF InterruptedNow
  <1>2. log' # log
    BY DEF InterruptedNow, Terminal, IsRow
  <1>3. ASSUME NEW q \in Run, NEW s \in Status, NEW t \in Nat, LogTerminalOnce(q, s, t)
        PROVE  q = r /\ s = "interrupted"
    <2>1. log' = Append(log, NewRow(q, "terminal", s, t))
      BY <1>2, <1>3 DEF LogTerminalOnce
    <2>2. NewRow(q, "terminal", s, t) \in Row
      BY DEF NewRow, Row, Kind
    <2> QED BY <1>1, <2>1, <2>2 DEF NewRow
  <1>4. ASSUME NEW q \in Run, BeginRun(q, Self(p)) \/ ResumeRun(q, Self(p))
        PROVE  FALSE
    <2>1. nextToken \in Nat
      BY DEF JournalInv, JournalTypeOK
    <2>2. log' = Append(log, NewRow(q, "started", Nothing, nextToken))
      BY <1>2, <1>4 DEF BeginRun, ResumeRun
    <2>3. NewRow(q, "started", Nothing, nextToken) \in Row
      BY <2>1 DEF NewRow, Row, Kind
    <2> QED BY <1>1, <2>2, <2>3 DEF NewRow
  <1>5. ASSUME NEW q \in Run, NEW t \in 1 .. nextToken, CoordinatorCall(q, Self(p), t)
        PROVE  FALSE
    <2>1. t \in Nat
      BY DEF JournalInv, JournalTypeOK
    <2>2. ASSUME NEW k \in {"work", "approval", "result"}, NEW x \in Approval \union {Nothing},
                 AppendOwned(q, k, x, Self(p), t)
          PROVE  FALSE
      <3>1. NewRow(q, k, x, t) \in Row
        BY <2>1 DEF NewRow, Row, Kind
      <3> QED BY <1>1, <2>2, <3>1 DEF AppendOwned, NewRow
    <2>3. ASSUME NEW s \in {"completed", "cancelled", "error"}, FinishOwned(q, s, Self(p), t)
          PROVE  FALSE
      BY <1>3, <2>1, <2>3 DEF FinishOwned, Status
    <2>4. ~ReleaseRunLease(q, Self(p), t)
      BY <1>2 DEF ReleaseRunLease
    <2> QED BY <1>5, <2>2, <2>3, <2>4 DEF CoordinatorCall
  <1>6. ASSUME NEW q \in Run, FinishUnowned(q, "interrupted")
        PROVE  q = r
    BY <1>3, <1>6 DEF FinishUnowned, Status
  <1> QED BY <1>2, <1>4, <1>5, <1>6 DEF JournalCall, journalVars

\* Recovery never ends a run whose owner is alive.
THEOREM RecoverySparesTheLiving == Spec => LiveRunsNotInterrupted
  <1>1. CoordInv /\ [Next]_vars =>
          [\A r \in Run : InterruptedNow(r) =>
              \A l \in leases : l.run = r => l.owner \notin LiveOwners]_vars
    <2> SUFFICES ASSUME CoordInv, NEW p \in Proc, Step(p), NEW r \in Run, InterruptedNow(r),
                        NEW l \in leases, l.run = r
                 PROVE  l.owner \notin LiveOwners
      BY DEF Next, Step
    <2>1. JournalInv /\ JournalCall(p)
      BY StepCallsJournal DEF CoordInv
    <2>2. RecoverRunLease(LiveOwners)
      BY <2>1, InterruptedBy DEF FinishUnowned, MayWriteUnowned, Leased
    <2> QED BY <2>1, <2>2 DEF RecoverRunLease, JournalInv, OneLease
  <1> QED BY <1>1, CoordinatorInvariant, PTL DEF Spec, LiveRunsNotInterrupted
=============================================================================

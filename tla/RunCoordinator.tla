---------------------------- MODULE RunCoordinator ----------------------------
(***************************************************************************)
(* The processes that serve one session, each with its run coordinator, on *)
(* top of the session event journal.                                       *)
(*                                                                         *)
(* A coordinator's task consumes the event stream of the run it owns and   *)
(* persists each event in a worker thread; the thread's transaction is one *)
(* step, which the process may not live to see, and which a cancelled task *)
(* no longer waits for.  Beside the task there are the callers: start_run  *)
(* and start_existing_run (under _state_lock), one cancel or               *)
(* suspend_for_restart at a time, and the hydration of the session, which  *)
(* recovers what earlier processes left.  Processes crash and start again  *)
(* with the same pid and a new start time.                                 *)
(*                                                                         *)
(* The event stream is the agent graph: it is modelled from what the event *)
(* adapter and the approval loop of api/coding.py let it say.              *)
(***************************************************************************)
EXTENDS RunJournal

CONSTANTS
  Proc,      \* process slots (operating-system pids)
  MaxStart,  \* bound: incarnations of a process slot
  MaxRows,   \* bound: no event but an answer is taken once the log has this many rows
  MaxToken   \* bound: no run is begun or resumed once nextToken has this value

ASSUME CoordinatorAssumption ==
  /\ Owner = Proc \X (1 .. MaxStart)
  /\ MaxStart \in Nat \ {0} /\ MaxRows \in Nat /\ MaxToken \in Nat

VARIABLES
  up,       \* up[p]: process p is running
  start,    \* start[p]: start time of p's latest incarnation
  active,   \* active[p]: _active_run_id
  token,    \* token[p]: _active_fencing_token
  task,     \* task[p]: where start_run, or the consuming task, is
  wanted,   \* wanted[p]: the run start_run or start_existing_run is about to take
  threads,  \* threads[p]: transactions handed to worker threads, not yet executed
  caller,   \* caller[p]: the cancel or suspend_for_restart in progress
  hydration \* hydration[p]: where recover_interrupted_runs is

coordVars == <<up, start, active, token, task, wanted, threads, caller, hydration>>
vars == <<journalVars, coordVars>>

Self(p) == <<p, start[p]>>

\* _process_identity: present with the recorded start time.
LiveOwners == {o \in Owner : up[o[1]] /\ start[o[1]] = o[2]}

------------------------------------------------------------------------------
(* Types *)

TaskState == {"none",
  "begin", "abort",     \* start_run: begin_run pending; its caller was cancelled
  "resume", "unresume", \* start_existing_run: likewise
  "created",            \* the task exists but has not run its first step
  "streaming",          \* waits for the stream's next event
  "writing",            \* waits, shielded, for the event to be persisted
  "finishing",          \* waits, unshielded, for the stream's implied ending
  "failing",            \* waits, unshielded, for the error ending
  "ended",              \* the terminal is persisted, the task has not seen it yet
  "cleaning",           \* cancelled: waits for the release or the cancelled ending
  "done", "raised"}     \* in the finally clause; raised: LeaseLost escapes

\* A transaction in a worker thread. for: who waits for it; locked: it holds the
\* coordinator's _publish_lock, or is queued for it behind the write that does.
Write == [op : {"append", "finish", "release"}, run : Run, kind : Kind,
          of : Approval \union Status \union {Nothing}, token : Nat,
          for : {"task", "cleanup", "nobody"}, locked : BOOLEAN]

Caller == [at : {"none", "decided", "waiting", "returned", "persisting", "clearing"},
           how : {"cancel", "suspend"}, run : Run \union {NoRun}, token : Nat]

Hydration == [at : {"cold", "list", "close", "interrupt", "done"},
              todo : SUBSET Run, run : Run \union {NoRun}]

TypeOK ==
  /\ JournalTypeOK
  /\ up \in [Proc -> BOOLEAN]
  /\ start \in [Proc -> 0 .. MaxStart]
  /\ active \in [Proc -> Run \union {NoRun}]
  /\ token \in [Proc -> Nat]
  /\ task \in [Proc -> TaskState]
  /\ wanted \in [Proc -> Run \union {NoRun}]
  /\ threads \in [Proc -> SUBSET Write]
  /\ caller \in [Proc -> Caller]
  /\ hydration \in [Proc -> Hydration]

NoCaller == [at |-> "none", how |-> "cancel", run |-> NoRun, token |-> 0]
Cold     == [at |-> "cold", todo |-> {}, run |-> NoRun]

Init ==
  /\ JournalInit
  /\ up = [p \in Proc |-> FALSE]
  /\ start = [p \in Proc |-> 0]
  /\ active = [p \in Proc |-> NoRun]
  /\ token = [p \in Proc |-> 0]
  /\ task = [p \in Proc |-> "none"]
  /\ wanted = [p \in Proc |-> NoRun]
  /\ threads = [p \in Proc |-> {}]
  /\ caller = [p \in Proc |-> NoCaller]
  /\ hydration = [p \in Proc |-> Cold]

------------------------------------------------------------------------------
(* Small steps shared by the actions *)

Goto(p, s) == task' = [task EXCEPT ![p] = s]

\* _publish_lock is free: no write holds it or is queued for it.
PublishFree(p) == \A w \in threads[p] : ~w.locked

Ready(p) == up[p] /\ hydration[p].at = "done" /\ active[p] = NoRun /\ task[p] = "none"

SetActive(p, r, t) ==
  /\ active' = [active EXCEPT ![p] = r]
  /\ token' = [token EXCEPT ![p] = t]

\* A write in the name of the active run, handed to a thread.
Hand(p, op, k, x, whose, lock) ==
  threads' = [threads EXCEPT ![p] = @ \union
    {[op |-> op, run |-> active[p], kind |-> k, of |-> x, token |-> token[p],
      for |-> whose, locked |-> lock]}]

------------------------------------------------------------------------------
(* Processes *)

Boot(p) ==
  /\ ~up[p] /\ start[p] < MaxStart
  /\ up' = [up EXCEPT ![p] = TRUE]
  /\ start' = [start EXCEPT ![p] = @ + 1]
  /\ UNCHANGED <<journalVars, active, token, task, wanted, threads, caller, hydration>>

\* Everything in memory is gone, unexecuted transactions included.  The last
\* incarnation is not killed (bound).
Crash(p) ==
  /\ up[p] /\ start[p] < MaxStart
  /\ up' = [up EXCEPT ![p] = FALSE]
  /\ SetActive(p, NoRun, 0)
  /\ Goto(p, "none")
  /\ wanted' = [wanted EXCEPT ![p] = NoRun]
  /\ threads' = [threads EXCEPT ![p] = {}]
  /\ caller' = [caller EXCEPT ![p] = NoCaller]
  /\ hydration' = [hydration EXCEPT ![p] = Cold]
  /\ UNCHANGED <<journalVars, start>>

------------------------------------------------------------------------------
(* start_run: look for a resumable approval, then begin *)

StartRun(p, r) ==
  /\ Ready(p) /\ nextToken < MaxToken
  /\ ~HasHistory(r) /\ \A q \in Proc : wanted[q] # r   \* run ids are fresh
  /\ \A q \in Run : RecoverableApprovals(q) = {}
  /\ Goto(p, "begin")
  /\ wanted' = [wanted EXCEPT ![p] = r]
  /\ UNCHANGED <<journalVars, up, start, active, token, threads, caller, hydration>>

\* begin_run commits: the run is this coordinator's, unless start_run's own
\* caller was cancelled meanwhile.
Begin(p) ==
  /\ task[p] = "begin" /\ PublishFree(p)
  /\ BeginRun(wanted[p], Self(p))
  /\ \/ Goto(p, "created") /\ SetActive(p, wanted[p], nextToken)
        /\ wanted' = [wanted EXCEPT ![p] = NoRun]
     \/ Goto(p, "abort") /\ UNCHANGED <<active, wanted>>
        /\ token' = [token EXCEPT ![p] = nextToken]
  /\ UNCHANGED <<up, start, threads, caller, hydration>>

\* begin_run or resume_run raises: another run is leased, or the run ended.
BeginRefused(p) ==
  /\ task[p] \in {"begin", "resume"}
  /\ task[p] = "begin" => PublishFree(p)
  /\ leases # {} \/ Terminal(wanted[p])
  /\ Goto(p, "none")
  /\ wanted' = [wanted EXCEPT ![p] = NoRun]
  /\ UNCHANGED <<journalVars, up, start, active, token, threads, caller, hydration>>

\* The cancelled start_run ends the run it has just begun.
Abort(p) ==
  /\ task[p] = "abort" /\ PublishFree(p)
  /\ FinishOwned(wanted[p], "cancelled", Self(p), token[p])
  /\ Goto(p, "none")
  /\ wanted' = [wanted EXCEPT ![p] = NoRun]
  /\ token' = [token EXCEPT ![p] = 0]
  /\ UNCHANGED <<up, start, active, threads, caller, hydration>>

------------------------------------------------------------------------------
(* start_existing_run: the answer to a recovered approval *)

ResumeExisting(p, r) ==
  /\ Ready(p) /\ nextToken < MaxToken
  /\ RecoverableApprovals(r) # {}
  /\ Goto(p, "resume")
  /\ wanted' = [wanted EXCEPT ![p] = r]
  /\ UNCHANGED <<journalVars, up, start, active, token, threads, caller, hydration>>

Resume(p) ==
  /\ task[p] = "resume"
  /\ ResumeRun(wanted[p], Self(p))
  /\ \/ Goto(p, "created") /\ SetActive(p, wanted[p], nextToken)
        /\ wanted' = [wanted EXCEPT ![p] = NoRun]
     \/ Goto(p, "unresume") /\ UNCHANGED <<active, wanted>>
        /\ token' = [token EXCEPT ![p] = nextToken]
  /\ UNCHANGED <<up, start, threads, caller, hydration>>

\* The cancelled start_existing_run gives the lease back.
Unresume(p) ==
  /\ task[p] = "unresume"
  /\ ReleaseRunLease(wanted[p], Self(p), token[p])
  /\ Goto(p, "none")
  /\ wanted' = [wanted EXCEPT ![p] = NoRun]
  /\ token' = [token EXCEPT ![p] = 0]
  /\ UNCHANGED <<up, start, active, threads, caller, hydration>>

------------------------------------------------------------------------------
(* The event stream.  The graph asks for approvals, several at a time when   *)
(* tool calls are parallel; once one of them is answered it asks again for   *)
(* those still pending.  It does not end while an approval is pending, but it *)
(* may fail at any time (a timed-out approval among others).                 *)

RowIndices(r, k, a) == {i \in DOMAIN log : IsRow(i, r, k) /\ log[i].of = a}

PendingApprovals(r) ==
  {a \in Approval : RowIndices(r, "approval", a) # {} /\ RowIndices(r, "result", a) = {}}

MayAsk(r, a) ==
  /\ RowIndices(r, "result", a) = {}
  /\ \A i \in RowIndices(r, "approval", a) :
       \E j \in DOMAIN log : i < j /\ IsRow(j, r, "result")

\* The task's first step.
FirstStep(p) ==
  /\ task[p] = "created"
  /\ Goto(p, "streaming")
  /\ UNCHANGED <<journalVars, up, start, active, token, wanted, threads, caller, hydration>>

StreamEvent(p) ==
  /\ task[p] = "streaming"
  /\ \/ Len(log) < MaxRows /\ Hand(p, "append", "work", Nothing, "task", TRUE)
     \/ \E a \in Approval :
          /\ Len(log) < MaxRows /\ MayAsk(active[p], a)
          /\ Hand(p, "append", "approval", a, "task", TRUE)
     \/ \E a \in PendingApprovals(active[p]) : Hand(p, "append", "result", a, "task", TRUE)
  /\ Goto(p, "writing")
  /\ UNCHANGED <<journalVars, up, start, active, token, wanted, caller, hydration>>

\* The stream says itself how the run ended.
StreamTerminal(p) ==
  /\ task[p] = "streaming"
  /\ PendingApprovals(active[p]) = {}
  /\ Hand(p, "finish", "terminal", "error", "task", TRUE)
  /\ Goto(p, "writing")
  /\ UNCHANGED <<journalVars, up, start, active, token, wanted, caller, hydration>>

\* The stream is exhausted, or raises: the ending is not shielded.
StreamEnds(p) ==
  /\ task[p] = "streaming"
  /\ \/ PendingApprovals(active[p]) = {} /\ Goto(p, "finishing")
        /\ Hand(p, "finish", "terminal", "completed", "task", TRUE)
     \/ Goto(p, "failing")
        /\ Hand(p, "finish", "terminal", "error", "task", TRUE)
  /\ UNCHANGED <<journalVars, up, start, active, token, wanted, caller, hydration>>

------------------------------------------------------------------------------
(* Worker threads: one transaction each, committed or refused.  A write of   *)
(* the task, or of its cleanup, waits for _publish_lock until the shielded   *)
(* writes abandoned before it are done, those of a stream that the process   *)
(* consumed earlier included; the release of a suspended run does not.  (The *)
(* order of abandoned writes is left open: only one has a token that counts.) *)

Runnable(p, w) ==
  /\ w \in threads[p]
  /\ w.for # "nobody" /\ w.op # "release" => \A v \in threads[p] \ {w} : ~v.locked

Retire(p, w) == threads' = [threads EXCEPT ![p] = @ \ {w}]

\* The audit events of a cancellation are followed by its ending, come what may.
AuditDone(p, w) ==
  threads' = [threads EXCEPT ![p] = (@ \ {w}) \union
    {[w EXCEPT !.op = "finish", !.kind = "terminal", !.of = "cancelled"]}]

\* Mutant of PersistEvent: the lease is not asserted in the event's transaction.
PersistEvent_Unfenced(p, w) ==
  /\ Runnable(p, w) /\ w.op = "append"
  /\ log' = Append(log, NewRow(w.run, w.kind, w.of, w.token))
  /\ IF w.for = "cleanup" THEN AuditDone(p, w) ELSE Retire(p, w)
  /\ IF w.for = "task" THEN Goto(p, "streaming") ELSE UNCHANGED task
  /\ UNCHANGED <<leases, nextToken, up, start, active, token, wanted, caller, hydration>>

PersistEvent(p, w) ==
  /\ Runnable(p, w) /\ w.op = "append"
  /\ AppendOwned(w.run, w.kind, w.of, Self(p), w.token)
  /\ IF w.for = "cleanup" THEN AuditDone(p, w) ELSE Retire(p, w)
  /\ IF w.for = "task" THEN Goto(p, "streaming") ELSE UNCHANGED task
  /\ UNCHANGED <<up, start, active, token, wanted, caller, hydration>>

PersistEnding(p, w) ==
  /\ Runnable(p, w) /\ w.op = "finish"
  /\ FinishOwned(w.run, w.of, Self(p), w.token)
  /\ Retire(p, w)
  /\ IF w.for = "nobody" THEN UNCHANGED task
     ELSE Goto(p, IF w.for = "cleanup" \/ task[p] = "failing" THEN "done" ELSE "ended")
  /\ UNCHANGED <<up, start, active, token, wanted, caller, hydration>>

ReleaseSuspended(p, w) ==
  /\ Runnable(p, w) /\ w.op = "release"
  /\ ReleaseRunLease(w.run, Self(p), w.token)
  /\ Retire(p, w)
  /\ Goto(p, "done")
  /\ UNCHANGED <<up, start, active, token, wanted, caller, hydration>>

\* _assert_run_lease refuses.  The consuming task then fails for good (its error
\* ending is refused as well); the cleanup's refusal escapes to the canceller.
LeaseLost(p, w) ==
  /\ Runnable(p, w)
  /\ ~HoldsLease(w.run, Self(p), w.token)
  /\ IF w.for = "cleanup" /\ w.op = "append"
       THEN AuditDone(p, w) /\ UNCHANGED task
       ELSE /\ Retire(p, w)
            /\ IF w.for = "nobody" THEN UNCHANGED task
               ELSE Goto(p, IF w.for = "cleanup" THEN "raised" ELSE "done")
  /\ UNCHANGED <<journalVars, up, start, active, token, wanted, caller, hydration>>

\* The task sees its terminal persisted and leaves the loop.
SeeEnding(p) ==
  /\ task[p] = "ended"
  /\ Goto(p, "done")
  /\ UNCHANGED <<journalVars, up, start, active, token, wanted, threads, caller, hydration>>

\* The finally clause; whoever awaits the task goes on, or gets its LeaseLost.
Unwind(p) ==
  /\ task[p] \in {"done", "raised"}
  /\ SetActive(p, NoRun, 0)
  /\ caller' = [caller EXCEPT ![p] =
       IF @.at # "waiting" THEN @
       ELSE IF task[p] = "raised" THEN NoCaller
       ELSE [@ EXCEPT !.at = "returned"]]
  /\ Goto(p, "none")
  /\ UNCHANGED <<journalVars, up, start, wanted, threads, hydration>>

------------------------------------------------------------------------------
(* cancel and suspend_for_restart *)

\* The caller has looked up the active run; a shutdown suspends it if it finds
\* an approval pending, a stop request (and a shutdown otherwise) cancels it.
\* By the time it gets to the task things may have changed.
Decide(p, how) ==
  /\ caller[p].at = "none" /\ active[p] # NoRun
  /\ how = "suspend" => RecoverableApprovals(active[p]) # {}
  /\ caller' = [caller EXCEPT ![p] =
       [at |-> "decided", how |-> how, run |-> active[p], token |-> token[p]]]
  /\ UNCHANGED <<journalVars, up, start, active, token, task, wanted, threads, hydration>>

\* The task no longer waits for its write.  A shielded write goes on, with the lock or
\* in the queue for it; an unshielded one gives the lock up, and is dropped or goes on,
\* or leaves the queue.
Abandon(p) ==
  LET own  == {w \in threads[p] : w.for = "task"}
      rest == threads[p] \ own
      left(lock) == {[w EXCEPT !.for = "nobody", !.locked = lock] : w \in own}
  IN  IF task[p] = "writing" THEN {rest \union left(TRUE)}
      ELSE {rest} \union {t \in {rest \union left(FALSE)} : \A w \in rest : ~w.locked}

Cleanup(p, op, k, x) ==
  [op |-> op, run |-> active[p], kind |-> k, of |-> x, token |-> token[p],
   for |-> "cleanup", locked |-> FALSE]

\* Mutant of Cleanups: a cancelled task releases its lease like a suspended one.
Cleanups_Release(p, how) == {Cleanup(p, "release", "work", Nothing)}

Cleanups(p, how) ==
  IF how = "suspend" THEN {Cleanup(p, "release", "work", Nothing)}
  ELSE {Cleanup(p, "finish", "terminal", "cancelled")} \union
       (IF Len(log) < MaxRows THEN {Cleanup(p, "append", "work", Nothing)} ELSE {})

\* task.cancel().  Before its first step the task just vanishes; asyncio lets a
\* shutdown's lookup return only after that first step.
Deliver(p) ==
  /\ caller[p].at = "decided" /\ active[p] = caller[p].run
  /\ task[p] = "created" => caller[p].how = "cancel"
  /\ LET how == caller[p].how
         next(at) == caller' = [caller EXCEPT ![p] = [@ EXCEPT !.at = at, !.token = token[p]]]
     IN  \/ /\ task[p] = "created"
            /\ Goto(p, "none") /\ next("returned") /\ UNCHANGED threads
         \/ /\ task[p] \in {"streaming", "writing", "finishing", "ended"}
            /\ \E left \in Abandon(p), c \in Cleanups(p, how) :
                 threads' = [threads EXCEPT ![p] = left \union {c}]
            /\ Goto(p, "cleaning") /\ next("waiting")
         \/ /\ task[p] = "failing"
            /\ \E left \in Abandon(p) : threads' = [threads EXCEPT ![p] = left]
            /\ Goto(p, "done") /\ next("waiting")
         \/ /\ task[p] = "done"
            /\ next("waiting") /\ UNCHANGED <<task, threads>>
  /\ UNCHANGED <<journalVars, up, start, active, token, wanted, hydration>>

\* Nothing to cancel any more: False.
TooLate(p) ==
  /\ caller[p].at = "decided" /\ active[p] # caller[p].run
  /\ caller' = [caller EXCEPT ![p] = NoCaller]
  /\ UNCHANGED <<journalVars, up, start, active, token, task, wanted, threads, hydration>>

\* Mutant of AfterTask: cancel trusts the task to have ended the run.
AfterTask_Trusting(p) ==
  /\ caller[p].at = "returned"
  /\ caller' = [caller EXCEPT ![p].at = "clearing"]
  /\ UNCHANGED <<journalVars, up, start, active, token, task, wanted, threads, hydration>>

\* cancel reads active_run_id to see whether the run is still leased ...
AfterTask(p) ==
  /\ caller[p].at = "returned"
  /\ caller' = [caller EXCEPT ![p].at =
       IF caller[p].how = "cancel" /\ Leased(caller[p].run) THEN "persisting" ELSE "clearing"]
  /\ UNCHANGED <<journalVars, up, start, active, token, task, wanted, threads, hydration>>

\* ... and then ends it itself, or raises because somebody else has by now.
CallerEnds(p) ==
  /\ caller[p].at = "persisting" /\ PublishFree(p)
  /\ LET c == caller[p] IN
     \/ /\ FinishOwned(c.run, "cancelled", Self(p), c.token)
        /\ caller' = [caller EXCEPT ![p].at = "clearing"]
     \/ /\ ~HoldsLease(c.run, Self(p), c.token)
        /\ caller' = [caller EXCEPT ![p] = NoCaller]
        /\ UNCHANGED journalVars
  /\ UNCHANGED <<up, start, active, token, task, wanted, threads, hydration>>

CallerClears(p) ==
  /\ caller[p].at = "clearing"
  /\ IF active[p] = caller[p].run /\ token[p] = caller[p].token
       THEN SetActive(p, NoRun, 0) ELSE UNCHANGED <<active, token>>
  /\ caller' = [caller EXCEPT ![p] = NoCaller]
  /\ UNCHANGED <<journalVars, up, start, task, wanted, threads, hydration>>

------------------------------------------------------------------------------
(* hydrate: recover_interrupted_runs, once per incarnation *)

Hydrate(p, at, todo, r) ==
  hydration' = [hydration EXCEPT ![p] =
    [at |-> IF at = "close" /\ todo = {} THEN "done" ELSE at, todo |-> todo, run |-> r]]

\* Mutant of RecoverLease: a pid that exists again passes for the lease's owner.
RecoverLease_PidReused(p) ==
  /\ up[p] /\ hydration[p].at = "cold"
  /\ LET live == {o \in Owner : up[o[1]]} IN
     \/ RecoverRunLease(live)
     \/ (\A l \in leases : l.owner \in live) /\ UNCHANGED journalVars
  /\ Hydrate(p, "list", {}, NoRun)
  /\ UNCHANGED <<up, start, active, token, task, wanted, threads, caller>>

RecoverLease(p) ==
  /\ up[p] /\ hydration[p].at = "cold"
  /\ \/ RecoverRunLease(LiveOwners)
     \/ /\ \A l \in leases : l.owner \in LiveOwners
        /\ UNCHANGED journalVars
  /\ Hydrate(p, "list", {}, NoRun)
  /\ UNCHANGED <<up, start, active, token, task, wanted, threads, caller>>

\* Mutant of ListUnfinished: nothing is looked for once the lease is recovered.
ListUnfinished_Nothing(p) ==
  /\ hydration[p].at = "list"
  /\ Hydrate(p, "close", {}, NoRun)
  /\ UNCHANGED <<journalVars, up, start, active, token, task, wanted, threads, caller>>

ListUnfinished(p) ==
  /\ hydration[p].at = "list"
  /\ Hydrate(p, "close", UnfinishedRunIds, NoRun)
  /\ UNCHANGED <<journalVars, up, start, active, token, task, wanted, threads, caller>>

\* Mutant of CheckUnfinished: resumable approvals are not looked for.
CheckUnfinished_Blind(p, r) ==
  /\ hydration[p].at = "close" /\ r \in hydration[p].todo
  /\ Hydrate(p, "interrupt", hydration[p].todo \ {r}, r)
  /\ UNCHANGED <<journalVars, up, start, active, token, task, wanted, threads, caller>>

\* A run with a resumable approval is left alone ...
CheckUnfinished(p, r) ==
  /\ hydration[p].at = "close" /\ r \in hydration[p].todo
  /\ IF RecoverableApprovals(r) # {}
       THEN Hydrate(p, "close", hydration[p].todo \ {r}, NoRun)
       ELSE Hydrate(p, "interrupt", hydration[p].todo \ {r}, r)
  /\ UNCHANGED <<journalVars, up, start, active, token, task, wanted, threads, caller>>

\* ... any other is interrupted, without credentials, by a later transaction.  If
\* the run is leased by then, hydration raises and the next request starts over.
InterruptUnfinished(p) ==
  /\ hydration[p].at = "interrupt"
  /\ LET r == hydration[p].run IN
     \/ FinishUnowned(r, "interrupted") /\ Hydrate(p, "close", hydration[p].todo, NoRun)
     \/ ~MayWriteUnowned(r) /\ Hydrate(p, "cold", {}, NoRun) /\ UNCHANGED journalVars
  /\ UNCHANGED <<up, start, active, token, task, wanted, threads, caller>>

------------------------------------------------------------------------------

\* What the program does by itself once it has begun something.
TaskStep(p) ==
  \/ Begin(p) \/ BeginRefused(p) \/ Abort(p) \/ Resume(p) \/ Unresume(p)
  \/ FirstStep(p) \/ SeeEnding(p) \/ Unwind(p)

ThreadStep(p) ==
  \E w \in threads[p] :
    PersistEvent(p, w) \/ PersistEnding(p, w) \/ ReleaseSuspended(p, w) \/ LeaseLost(p, w)

CallerStep(p) ==
  Deliver(p) \/ TooLate(p) \/ AfterTask(p) \/ CallerEnds(p) \/ CallerClears(p)

Recovery(p) ==
  \/ RecoverLease(p) \/ ListUnfinished(p) \/ InterruptUnfinished(p)
  \/ \E r \in hydration[p].todo : CheckUnfinished(p, r)

\* What users, the agent graph and the operating system do.
Environment(p) ==
  \/ Boot(p) \/ Crash(p)
  \/ \E r \in Run : StartRun(p, r) \/ ResumeExisting(p, r)
  \/ StreamEvent(p) \/ StreamTerminal(p) \/ StreamEnds(p)
  \/ \E how \in {"cancel", "suspend"} : Decide(p, how)

Next ==
  \E p \in Proc : TaskStep(p) \/ ThreadStep(p) \/ CallerStep(p) \/ Recovery(p) \/ Environment(p)

Spec == Init /\ [][Next]_vars

\* Worker threads run, the event loop serves its ready tasks in turn, and a
\* process slot is eventually served by a process that opens the session.
Fairness ==
  \A p \in Proc :
    /\ WF_vars(TaskStep(p)) /\ WF_vars(ThreadStep(p)) /\ WF_vars(CallerStep(p))
    /\ WF_vars(Recovery(p)) /\ WF_vars(Boot(p))

FairSpec == Spec /\ Fairness

------------------------------------------------------------------------------
(* Properties *)

\* Whatever the processes do, the journal sees no call JournalSpec does not have.
\* (This is JournalSpec, written so that TLC tries the stuttering step first.)
ImplementsJournal == JournalInit /\ [][UNCHANGED journalVars \/ JournalNext]_vars

\* While a task consumes its stream and nobody has cancelled it, its run stays
\* leased to it: no recovery, zombie write or cleanup of anybody else takes the
\* lease away, so a live run never meets LeaseLost.
StreamKeepsLease ==
  \A p \in Proc :
    task[p] \in {"created", "streaming", "writing", "finishing", "failing"} =>
      HoldsLease(active[p], Self(p), token[p])

\* cancel() that returns True leaves the run ended, whichever of the stream's
\* last write, the cleanup and cancel() itself got there first.
CancelledRunEnded ==
  \A p \in Proc :
    caller[p].how = "cancel" /\ caller[p].at = "clearing" => Terminal(caller[p].run)

\* The run has just been interrupted by a recovery.
InterruptedNow(r) ==
  /\ log' # log /\ log'[Len(log')].of = "interrupted"
  /\ Terminal(r)' /\ ~Terminal(r)

\* Recovery never ends a run whose owner is alive.
LiveRunsNotInterrupted ==
  [][\A r \in Run : InterruptedNow(r) =>
       \A l \in leases : l.run = r => l.owner \notin LiveOwners]_vars

\* A run that waits for an approval is released, never interrupted, when its process is
\* found dead, and left alone by the hydrations that find it suspended or released.
ApprovalsSurvive ==
  [][\A r \in Run : InterruptedNow(r) => PendingApprovals(r) = {}]_vars

\* An approval is answered once in the log of its run, though the task that was handed
\* the answer may be cancelled, its write still be under way when the run is suspended,
\* and another process answer the approval it then finds pending.
AnsweredOnce ==
  \A i, j \in DOMAIN log :
    /\ log[i].kind = "result" /\ log[j].kind = "result"
    /\ log[i].run = log[j].run /\ log[i].of = log[j].of
    => i = j

\* The lease of a process that died is recovered once the session is opened again.
Orphaned == \E l \in leases : l.owner \notin LiveOwners

OrphansRecovered == Orphaned ~> ~Orphaned

\* A cancelled run ends, or waits for the approval it had asked for if the
\* process died before the cancellation was complete.
CancelTakesEffect ==
  \A p \in Proc, r \in Run :
    caller[p].how = "cancel" /\ caller[p].at = "waiting" /\ caller[p].run = r
      ~> Terminal(r) \/ (~Leased(r) /\ PendingApprovals(r) # {})

\* A run left unowned without an approval to wait for is interrupted by the next
\* process that opens the session, unless a late answer resumes it first.
NoRunLeftBehind ==
  \A r \in Run :
    (\E p \in Proc : hydration[p].at = "list") /\ r \in UnfinishedRunIds /\ PendingApprovals(r) = {}
      ~> Terminal(r) \/ Leased(r) \/ PendingApprovals(r) # {}
=============================================================================

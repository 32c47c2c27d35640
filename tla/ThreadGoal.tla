------------------------------- MODULE ThreadGoal -------------------------------
(***************************************************************************)
(* The goal of one session, the evaluation of the goal after each turn,    *)
(* the automatic follow-up turn an evaluation may reserve, and the outbox  *)
(* that carries the evidence of an evaluation to the mastery ledger.       *)
(*                                                                         *)
(* Everything but the ledger is rows of the session's event journal, which *)
(* several processes share; each transaction is one step.  A process that  *)
(* has the session open serves the user's messages, consumes the run it    *)
(* has leased and runs detached goal tasks: one after each run it has      *)
(* consumed (_post_turn_goal_followup), one each time the session is       *)
(* opened (_reconcile_goal_followup).  A task reads, waits for a model,    *)
(* writes, and goes on; a crash takes the tasks away and leaves the rows.  *)
(*                                                                         *)
(* Cancelled tasks, fencing and pending approvals are RunCoordinator's     *)
(* matter: here a process that lives keeps the lease of its run.           *)
(***************************************************************************)
EXTENDS Naturals, Sequences, FiniteSets, FiniteSetsExt

CONSTANTS
  Proc,       \* processes that serve the session
  Nobody,     \* not a process: the owner of a lease whose owner has died
  NoGoal,     \* not a goal
  Slot,       \* bound: goal tasks that can be under way at once
  Limits,     \* the values of max_auto_followups a user chooses from
  Histories,  \* bound: the journals a behaviour starts from
  Judgements, \* bound: what the model may say of a turn
  MaxEdits,   \* bound: changes of the goal by the user, those of the history included
  MaxMessages,\* bound: messages the user sends
  MaxCrashes, \* bound: crashes
  Revs        \* bound: the revisions whose deposits are looked at

ASSUME GoalAssumption ==
  /\ Nobody \notin Proc
  /\ Limits \subseteq 1 .. 4
  /\ Judgements \subseteq [verdict : {"ended", "missing", "unmet"},
                           progress : BOOLEAN, deposit : BOOLEAN]
  /\ MaxEdits \in Nat /\ MaxMessages \in Nat /\ MaxCrashes \in Nat
  /\ Revs \subseteq Nat

VARIABLES
  log,     \* session_events in sequence order, without what no guard here reads
  receipts,\* the deposits of which session_events has a receipt
  lease,   \* the row of active_run_lease
  ledger,  \* the deposits whose evidence is in the mastery ledger
  opened,  \* opened[p]: whether p has hydrated the session, and has its runtime
  inbox,   \* inbox[p]: the message the receiver of p is handling
  tasks,   \* tasks[s]: the goal task in slot s
  sent,    \* messages sent
  crashes  \* crashes so far

goalVars == <<log, receipts, lease, ledger, opened, inbox, tasks, sent, crashes>>

------------------------------------------------------------------------------
(* Types *)

NoRun == <<"none", 0>>
UserRun(n) == <<"user", n>>

\* _followup_run_id is derived from the session, the source run and the reserved
\* revision.  No revision is reserved twice, so that the revision names the run.
FollowupRun(n) == <<"followup", n>>

RunId   == {"user", "followup"} \X Nat
Endings == {"completed", "error", "cancelled", "interrupted"}

\* rev: revision; edit: the revision of the user's last change to the goal or its
\* policy; bound: it refers to a learning goal; status: satisfied and blocked are one,
\* ended, for they stop the follow-ups alike; used: auto_followups_started.
Goal == [rev : Nat \ {0}, edit : Nat \ {0}, bound : BOOLEAN,
         status : {"active", "ended"},
         mode : {"manual", "auto"}, max : 1 .. 4, used : Nat, streak : Nat]

ASSUME NoGoalAssumption == NoGoal \notin Goal

\* run: the run a row belongs to; of an evaluation, the evaluated one.
\* rev: the revision a goal row writes, a start freezes or a reservation is for.
\* note: a run's ending; a deposit.  A deposit goes by the revision of its evaluation.
Row == [kind : {"started", "user", "terminal", "updated", "policy", "checked",
                "evaluated", "cleared", "scheduled"},
        run : RunId \union {NoRun}, rev : Nat, goal : Goal \union {NoGoal},
        note : Endings \union {"", "deposit"}]

Message == [at : {"none", "begin", "reject", "close"}, run : RunId \union {NoRun},
            rev : Nat, goal : Goal \union {NoGoal}]

Task == [at : {"idle", "read", "write", "drain", "record", "receipt",
               "look", "pending", "begin"},
         job : {"post", "reconcile"}, proc : Proc \union {Nobody},
         source : RunId \union {NoRun}, goal : Goal \union {NoGoal}, reserved : BOOLEAN,
         todo : SUBSET Nat, rev : Nat]

NoLease   == [run |-> NoRun, proc |-> Nobody]
NoMessage == [at |-> "none", run |-> NoRun, rev |-> 0, goal |-> NoGoal]
Idle == [at |-> "idle", job |-> "post", proc |-> Nobody, source |-> NoRun,
         goal |-> NoGoal, reserved |-> FALSE, todo |-> {}, rev |-> 0]

\* A history is what a user did before any message: changes of the goal, each of which
\* wrote the next revision.
ASSUME HistoryAssumption ==
  \A h \in Histories :
    /\ h \in Seq(Row)
    /\ \A i \in DOMAIN h :
         /\ h[i].kind \in {"updated", "policy", "checked", "cleared"}
         /\ h[i].rev = i
         /\ h[i].goal # NoGoal =>
              h[i].goal.rev = i /\ h[i].goal.edit <= i /\ h[i].goal.used = 0
    /\ \A i, j \in DOMAIN h :
         (h[i].goal # NoGoal /\ h[j].goal # NoGoal /\ h[i].goal.edit = h[j].goal.edit) =>
           h[i].goal.max = h[j].goal.max

TypeOK ==
  /\ log \in Seq(Row)
  /\ lease \in [run : RunId \union {NoRun}, proc : Proc \union {Nobody}]
  /\ receipts \subseteq Nat /\ ledger \subseteq Nat
  /\ opened \in [Proc -> {"no", "hydrated", "open"}]
  /\ inbox \in [Proc -> Message]
  /\ tasks \in [Slot -> Task]
  /\ sent \in Nat /\ crashes \in Nat

Init ==
  /\ log \in Histories
  /\ receipts = {}
  /\ lease = NoLease
  /\ ledger = {}
  /\ opened = [p \in Proc |-> "no"]
  /\ inbox = [p \in Proc |-> NoMessage]
  /\ tasks = [s \in Slot |-> Idle]
  /\ sent = 0 /\ crashes = 0

------------------------------------------------------------------------------
(* Queries *)

Rows(kinds) == {i \in DOMAIN log : log[i].kind \in kinds}
OfRun(r)    == {i \in DOMAIN log : log[i].run = r}

GoalKinds == {"updated", "policy", "checked", "evaluated", "cleared"}

\* _thread_goal_revision: a tombstone counts, a reservation is passed over.
Revision == LET goalRows == Rows(GoalKinds)
            IN IF goalRows = {} THEN 0 ELSE log[Max(goalRows)].rev

\* _current_thread_goal
Current == LET goalRows == Rows(GoalKinds)
           IN IF goalRows = {} THEN NoGoal ELSE log[Max(goalRows)].goal

Terminals(r) == OfRun(r) \intersect Rows({"terminal"})
Terminal(r)  == Terminals(r) # {}
Starts(r)    == OfRun(r) \intersect Rows({"started"})

\* run_thread_goal and its revision
FrozenGoal(r)     == IF Starts(r) = {} THEN NoGoal ELSE log[Min(Starts(r))].goal
FrozenRevision(r) == IF FrozenGoal(r) = NoGoal THEN 0 ELSE FrozenGoal(r).rev

TypedAfter(i) == \E j \in Rows({"user"}) : i < j

\* The evaluation of r at revision n, by its deterministic event id.
Evaluated(r, n) == \E i \in OfRun(r) \intersect Rows({"evaluated"}) : log[i].rev = n + 1
Reserved(n)     == \E i \in Rows({"scheduled"}) : log[i].rev = n + 1

\* pending_thread_goal_followup: the newest reservation, while it is safe to consume.
Pending(i) ==
  /\ i \in Rows({"scheduled"}) /\ i = Max(Rows({"scheduled"}))
  /\ log[i].rev = Revision
  /\ Current # NoGoal /\ Current.status = "active"
  /\ lease = NoLease
  /\ Starts(log[i].run) = {}
  /\ ~TypedAfter(i)

SomePending == \E i \in Rows({"scheduled"}) : Pending(i)

\* pending_mastery_deposits: evaluations with a deposit and without a receipt.
Deposits == {log[i].rev : i \in {j \in Rows({"evaluated"}) : log[j].note = "deposit"}}
PendingDeposits == Deposits \ receipts

------------------------------------------------------------------------------
(* Writing *)

NewRow(kind, r, n, g, note) ==
  [kind |-> kind, run |-> r, rev |-> n, goal |-> g, note |-> note]

GoalRow(kind, r, g, note) == NewRow(kind, r, g.rev, g, note)
RunRow(kind, r, note)     == NewRow(kind, r, 0, NoGoal, note)

Write(row) == log' = Append(log, row)

Goto(s, at)   == tasks' = [tasks EXCEPT ![s].at = at]
Finish(s)     == tasks' = [tasks EXCEPT ![s] = Idle]
Spawn(s, t)   == tasks[s] = Idle /\ tasks' = [tasks EXCEPT ![s] = t]

PostTurn(p, r) ==
  [Idle EXCEPT !.at = "read", !.job = "post", !.proc = p, !.source = r]

\* Mutant of Reconcile: opening the session does not drain the outbox.
Reconcile_NoDrain(p) == [Idle EXCEPT !.at = "look", !.job = "reconcile", !.proc = p]

Reconcile(p) == [Idle EXCEPT !.at = "drain", !.job = "reconcile", !.proc = p]

------------------------------------------------------------------------------
(* The user changes the goal, while no run is leased.  The revision the user  *)
(* expects is compared in the transaction that writes, so that a change made  *)
(* from an older one is refused and changes nothing.                          *)

MayChange ==
  lease = NoLease /\ Cardinality(Rows({"updated", "policy", "checked", "cleared"})) < MaxEdits

Change(kind, g) ==
  /\ MayChange
  /\ Write(GoalRow(kind, NoRun, [g EXCEPT !.rev = Revision + 1], ""))
  /\ UNCHANGED <<receipts, lease, ledger, opened, inbox, tasks, sent, crashes>>

\* upsert: the loop counters start anew; a binding that is not given again stays.
Upsert(bound) ==
  LET old == Current
      fresh == [rev |-> Revision + 1, edit |-> Revision + 1, bound |-> bound,
                status |-> "active", mode |-> "manual", max |-> 1, used |-> 0, streak |-> 0]
  IN Change("updated",
       IF old = NoGoal THEN fresh
       ELSE [fresh EXCEPT !.mode = old.mode, !.max = old.max, !.bound = bound \/ old.bound])

Configure(mode, max) ==
  /\ Current # NoGoal
  /\ Change("policy", [Current EXCEPT !.edit = Revision + 1, !.mode = mode, !.max = max,
                                      !.used = 0, !.streak = 0])

\* evaluate: the newest terminal decides.
CheckByHand ==
  LET newest == Rows({"terminal"})
      failed == newest # {} /\ log[Max(newest)].note # "completed"
  IN /\ Current # NoGoal
     /\ Change("checked",
               [Current EXCEPT !.status = IF failed THEN "ended" ELSE "active"])

\* clear: a tombstone that keeps the revision.
Clear ==
  /\ MayChange /\ Current # NoGoal
  /\ Write(NewRow("cleared", NoRun, Revision + 1, NoGoal, ""))
  /\ UNCHANGED <<receipts, lease, ledger, opened, inbox, tasks, sent, crashes>>

------------------------------------------------------------------------------
(* A message: the receiver reads the goal and its revision, then begins a run *)
(* that freezes them.  Refused, it records the message as a rejected input.   *)

ReceiveMessage(p) ==
  /\ opened[p] = "open" /\ inbox[p] = NoMessage /\ sent < MaxMessages
  /\ sent' = sent + 1
  /\ inbox' = [inbox EXCEPT ![p] =
       [at |-> "begin", run |-> UserRun(sent + 1), rev |-> Revision, goal |-> Current]]
  /\ UNCHANGED <<log, receipts, lease, ledger, opened, tasks, crashes>>

\* Mutant of MayBegin: the revision read earlier is not compared.
MayBegin_AnyRevision(m) == lease = NoLease

\* begin_run for a message: no run is leased and the goal is still the one read.
MayBegin(m) == lease = NoLease /\ Revision = m.rev

BeginMessage(p) ==
  /\ inbox[p].at = "begin" /\ MayBegin(inbox[p])
  /\ Write(NewRow("started", inbox[p].run, inbox[p].rev, inbox[p].goal, ""))
  /\ lease' = [run |-> inbox[p].run, proc |-> p]
  /\ inbox' = [inbox EXCEPT ![p] = NoMessage]
  /\ UNCHANGED <<receipts, ledger, opened, tasks, sent, crashes>>

\* _start_rejected_input_run: the message, then the ending, of a run never begun.
RejectMessage(p) ==
  /\ inbox[p].at = "begin" /\ ~MayBegin(inbox[p])
  /\ Write(RunRow("user", inbox[p].run, ""))
  /\ inbox' = [inbox EXCEPT ![p].at = "close"]
  /\ UNCHANGED <<receipts, lease, ledger, opened, tasks, sent, crashes>>

CloseRejected(p) ==
  /\ inbox[p].at = "close"
  /\ Write(RunRow("terminal", inbox[p].run, "error"))
  /\ inbox' = [inbox EXCEPT ![p] = NoMessage]
  /\ UNCHANGED <<receipts, lease, ledger, opened, tasks, sent, crashes>>

------------------------------------------------------------------------------
(* The leased run.  The first event of a message's run is the message; that   *)
(* of a follow-up is not a message of the user.                               *)

IsMessage(r) == r[1] = "user"
Typed(r)     == OfRun(r) \intersect Rows({"user"}) # {}

TypeMessage(p) ==
  /\ lease.proc = p /\ IsMessage(lease.run) /\ ~Typed(lease.run)
  /\ Write(RunRow("user", lease.run, ""))
  /\ UNCHANGED <<receipts, lease, ledger, opened, inbox, tasks, sent, crashes>>

\* The terminal and the release of the lease; then the done callback of the run's
\* task.  A cancelled run is left to the next opening of the session.
EndRun(p, ending) ==
  /\ lease.proc = p
  /\ ending = "completed" /\ IsMessage(lease.run) => Typed(lease.run)
  /\ Write(RunRow("terminal", lease.run, ending))
  /\ lease' = NoLease
  /\ IF ending = "cancelled" THEN UNCHANGED tasks
     ELSE \E s \in Slot : Spawn(s, PostTurn(p, lease.run))
  /\ UNCHANGED <<receipts, ledger, opened, inbox, sent, crashes>>

------------------------------------------------------------------------------
(* Processes *)

\* resume_coding_session.  The first time, the hydration interrupts the run of a
\* dead owner.  While a run is leased the session is merely shown, or, to a process
\* that has no runtime for it, refused.  (The refusal matters only as long as the
\* owner may still crash: the second opening will then not interrupt its run.)
Open(p) ==
  /\ IF opened[p] = "no" /\ lease # NoLease /\ lease.proc = Nobody
       THEN Write(RunRow("terminal", lease.run, "interrupted")) /\ lease' = NoLease
       ELSE UNCHANGED <<log, lease>>
  /\ IF lease' = NoLease
       THEN /\ opened' = [opened EXCEPT ![p] = "open"]
            /\ \E s \in Slot : Spawn(s, Reconcile(p))
       ELSE /\ opened[p] = "no" /\ crashes < MaxCrashes
            /\ opened' = [opened EXCEPT ![p] = "hydrated"] /\ UNCHANGED tasks
  /\ UNCHANGED <<receipts, ledger, inbox, sent, crashes>>

Crash(p) ==
  /\ opened[p] # "no" /\ crashes < MaxCrashes
  /\ crashes' = crashes + 1
  /\ opened' = [opened EXCEPT ![p] = "no"]
  /\ lease' = IF lease.proc = p THEN [lease EXCEPT !.proc = Nobody] ELSE lease
  /\ inbox' = [inbox EXCEPT ![p] = NoMessage]
  /\ tasks' = [s \in Slot |-> IF tasks[s].proc = p THEN Idle ELSE tasks[s]]
  /\ UNCHANGED <<log, receipts, ledger, sent>>

------------------------------------------------------------------------------
(* _post_turn_goal_followup *)

\* The turn is worth evaluating: it ran with a goal, there is a goal, and either its
\* goal was bound to a learning goal or the policy is automatic.  Then the model
\* answers, and evaluate_post_turn reads the goal again, which must be the frozen
\* revision: the first reading, of an earlier moment, then saw the same goal.
Judge(s) ==
  LET t == tasks[s]
      frozen == FrozenGoal(t.source)
  IN
  /\ t.at = "read"
  /\ IF /\ frozen # NoGoal /\ Current # NoGoal
        /\ frozen.bound \/ Current.mode = "auto"
        /\ Terminal(t.source)
        /\ Revision = frozen.rev
       THEN tasks' = [tasks EXCEPT ![s].at = "write", ![s].goal = Current]
       ELSE Finish(s)
  /\ UNCHANGED <<log, receipts, lease, ledger, opened, inbox, sent, crashes>>

\* Mutant of MayEvaluate: the revision is not compared in the transaction.
MayEvaluate_AnyRevision(r, n) ==
  /\ lease = NoLease /\ Current # NoGoal
  /\ Terminal(r) /\ ~TypedAfter(Min(Terminals(r)))

\* The guards of append_thread_goal_post_turn.
MayEvaluate(r, n) ==
  /\ lease = NoLease /\ Current # NoGoal /\ Revision = n
  /\ Terminal(r) /\ ~TypedAfter(Min(Terminals(r)))
  /\ FrozenRevision(r) = n

\* Mutant of Willing: a follow-up more than the limit.
Willing_OneMore(g, verdict, streak) ==
  g.mode = "auto" /\ verdict = "unmet" /\ streak < 2 /\ g.used <= g.max

\* A follow-up is reserved: the policy is automatic, the goal is merely not met yet,
\* there was some progress in the last two turns and the limit is not reached.
Willing(g, verdict, streak) ==
  g.mode = "auto" /\ verdict = "unmet" /\ streak < 2 /\ g.used < g.max

\* Mutant of Judged: a turn without a follow-up gives one back.
Judged_GiveBack(g, verdict, streak) ==
  [g EXCEPT !.rev = @ + 1, !.streak = streak,
            !.used = IF Willing(g, verdict, streak) THEN @ + 1 ELSE @ - 1]

\* evaluate_post_turn's projection of the goal.
Judged(g, verdict, streak) ==
  [g EXCEPT
     !.rev = @ + 1,
     !.status = IF verdict = "ended" \/ (g.mode = "auto" /\ verdict = "unmet" /\ streak >= 2)
                  THEN "ended" ELSE "active",
     !.used = IF Willing(g, verdict, streak) THEN @ + 1 ELSE @,
     !.streak = streak]

\* The evaluation, its deposit and the reservation are one transaction.
WriteEvaluation(s, says) ==
  LET r == tasks[s].source
      g == tasks[s].goal
      streak == IF says.progress THEN 0 ELSE g.streak + 1
      done == GoalRow("evaluated", r, Judged(g, says.verdict, streak),
                      IF says.deposit THEN "deposit" ELSE "")
      willing == Willing(g, says.verdict, streak)
      next == NewRow("scheduled", FollowupRun(g.rev + 1), g.rev + 1, NoGoal, "")
  IN /\ log' = IF willing THEN Append(Append(log, done), next) ELSE Append(log, done)
     /\ tasks' = [tasks EXCEPT ![s].at = "drain", ![s].goal = NoGoal, ![s].reserved = willing]

\* What the model may say: the goal is satisfied or blocked (ended), evidence is
\* missing, or it is merely not met yet.  Only a completed turn is shown to it, and
\* only a bound goal deposits evidence.
Evaluate(s) ==
  LET r == tasks[s].source
      n == FrozenRevision(r)
  IN
  /\ tasks[s].at = "write"
  /\ ~Evaluated(r, n) /\ MayEvaluate(r, n)
  /\ \E says \in Judgements :
       /\ log[Min(Terminals(r))].note # "completed" =>
            says.verdict = "ended" /\ ~says.deposit
       /\ says.deposit => tasks[s].goal.bound
       /\ WriteEvaluation(s, says)
  /\ UNCHANGED <<receipts, lease, ledger, opened, inbox, sent, crashes>>

\* Another task has evaluated this turn: its evaluation and reservation are taken.
EvaluatedAlready(s) ==
  LET r == tasks[s].source
      n == FrozenRevision(r)
  IN
  /\ tasks[s].at = "write" /\ Evaluated(r, n)
  /\ tasks' = [tasks EXCEPT ![s].at = "drain", ![s].goal = NoGoal,
                            ![s].reserved = Reserved(n)]
  /\ UNCHANGED <<log, receipts, lease, ledger, opened, inbox, sent, crashes>>

EvaluationRefused(s) ==
  LET r == tasks[s].source
      n == FrozenRevision(r)
  IN
  /\ tasks[s].at = "write" /\ ~Evaluated(r, n) /\ ~MayEvaluate(r, n)
  /\ Finish(s)
  /\ UNCHANGED <<log, receipts, lease, ledger, opened, inbox, sent, crashes>>

------------------------------------------------------------------------------
(* _drain_mastery_outbox: the oldest deposit first.  The evidence and its     *)
(* receipt are transactions of two databases.                                 *)

\* Where a task goes once the deposits it has read are dealt with.
Drained(t, todo) ==
  [t EXCEPT !.todo = todo,
            !.at = IF todo # {} THEN "record"
                   ELSE IF t.job = "reconcile" THEN "look"
                   ELSE IF t.reserved THEN "pending" ELSE "idle"]

ReadDeposits(s) ==
  /\ tasks[s].at = "drain"
  /\ LET t == Drained(tasks[s], PendingDeposits)
     IN tasks' = [tasks EXCEPT ![s] = IF t.at = "idle" THEN Idle ELSE t]
  /\ UNCHANGED <<log, receipts, lease, ledger, opened, inbox, sent, crashes>>

\* record_many: evidence already there is left alone.
RecordEvidence(s) ==
  /\ tasks[s].at = "record"
  /\ ledger' = ledger \union {Min(tasks[s].todo)}
  /\ Goto(s, "receipt")
  /\ UNCHANGED <<log, receipts, lease, opened, inbox, sent, crashes>>

\* Mutant of LedgerFails: the error is swallowed and the deposit acknowledged.
LedgerFails_Swallowed(s) ==
  /\ tasks[s].at = "record"
  /\ Goto(s, "receipt")
  /\ UNCHANGED <<log, receipts, lease, ledger, opened, inbox, sent, crashes>>

\* The ledger is busy, or unavailable: the deposit waits for the next drain.
LedgerFails(s) ==
  /\ tasks[s].at = "record"
  /\ LET t == Drained(tasks[s], tasks[s].todo \ {Min(tasks[s].todo)})
     IN tasks' = [tasks EXCEPT ![s] = IF t.at = "idle" THEN Idle ELSE t]
  /\ UNCHANGED <<log, receipts, lease, ledger, opened, inbox, sent, crashes>>

\* append_mastery_deposit_receipt: a receipt that exists is returned.
Acknowledge(s) ==
  LET n == Min(tasks[s].todo)
      t == Drained(tasks[s], tasks[s].todo \ {n})
  IN /\ tasks[s].at = "receipt"
     /\ receipts' = receipts \union {n}
     /\ tasks' = [tasks EXCEPT ![s] = IF t.at = "idle" THEN Idle ELSE t]
     /\ UNCHANGED <<log, lease, ledger, opened, inbox, sent, crashes>>

------------------------------------------------------------------------------
(* _reconcile_goal_followup and _start_pending_goal_followup *)

\* Mutant of Resumable: a turn that was never evaluated is left alone.
Resumable_Never == FALSE

Resumable ==
  LET newest == Rows({"terminal"}) IN
  /\ newest # {} /\ Current # NoGoal
  /\ FrozenRevision(log[Max(newest)].run) = Revision
  /\ Current.mode = "auto"

\* Mutant of Look: reservations are left to the tasks that made them.
Look_TurnOnly(s) ==
  /\ tasks[s].at = "look"
  /\ IF Resumable
       THEN tasks' = [tasks EXCEPT ![s] =
              PostTurn(tasks[s].proc, log[Max(Rows({"terminal"}))].run)]
       ELSE Finish(s)
  /\ UNCHANGED <<log, receipts, lease, ledger, opened, inbox, sent, crashes>>

\* A reservation is started; without one, the last turn is evaluated if it was not.
Look(s) ==
  /\ tasks[s].at = "look"
  /\ IF SomePending
       THEN tasks' = [tasks EXCEPT ![s].at = "begin", ![s].rev = Revision]
     ELSE IF Resumable
       THEN tasks' = [tasks EXCEPT ![s] =
              PostTurn(tasks[s].proc, log[Max(Rows({"terminal"}))].run)]
       ELSE Finish(s)
  /\ UNCHANGED <<log, receipts, lease, ledger, opened, inbox, sent, crashes>>

ReadPending(s) ==
  /\ tasks[s].at = "pending"
  /\ IF SomePending
       THEN tasks' = [tasks EXCEPT ![s].at = "begin", ![s].rev = Revision]
       ELSE Finish(s)
  /\ UNCHANGED <<log, receipts, lease, ledger, opened, inbox, sent, crashes>>

\* Mutant of MayFollow: the reservation is not looked up again.
MayFollow_Unchecked(n) == lease = NoLease

\* begin_run for a follow-up (_assert_pending_thread_goal_followup among others).
MayFollow(n) ==
  /\ lease = NoLease /\ Revision = n /\ Current # NoGoal
  /\ ~Terminal(FollowupRun(n))
  /\ \E i \in Rows({"scheduled"}) : log[i].rev = n /\ ~TypedAfter(i)

BeginFollowup(s) ==
  LET n == tasks[s].rev IN
  /\ tasks[s].at = "begin" /\ MayFollow(n)
  /\ Write(NewRow("started", FollowupRun(n), n, Current, ""))
  /\ lease' = [run |-> FollowupRun(n), proc |-> tasks[s].proc]
  /\ Finish(s)
  /\ UNCHANGED <<receipts, ledger, opened, inbox, sent, crashes>>

FollowupRefused(s) ==
  /\ tasks[s].at = "begin" /\ ~MayFollow(tasks[s].rev)
  /\ Finish(s)
  /\ UNCHANGED <<log, receipts, lease, ledger, opened, inbox, sent, crashes>>

------------------------------------------------------------------------------

UserStep ==
  \/ \E bound \in BOOLEAN : Upsert(bound)
  \/ \E mode \in {"manual", "auto"}, max \in Limits : Configure(mode, max)
  \/ CheckByHand
  \/ Clear

ProcStep(p) ==
  \/ ReceiveMessage(p) \/ BeginMessage(p) \/ RejectMessage(p) \/ CloseRejected(p)
  \/ TypeMessage(p)
  \/ \E ending \in {"completed", "error", "cancelled"} : EndRun(p, ending)
  \/ Open(p) \/ Crash(p)

\* What a task does of itself; the ledger's failures are not counted upon.
TaskProgress(s) ==
  \/ Judge(s) \/ Evaluate(s) \/ EvaluatedAlready(s) \/ EvaluationRefused(s)
  \/ ReadDeposits(s) \/ RecordEvidence(s) \/ Acknowledge(s)
  \/ Look(s) \/ ReadPending(s) \/ BeginFollowup(s) \/ FollowupRefused(s)

Next ==
  \/ UserStep
  \/ \E p \in Proc : ProcStep(p)
  \/ \E s \in Slot : TaskProgress(s) \/ LedgerFails(s)

Spec == Init /\ [][Next]_goalVars

\* A task that lives goes on (the event loop); a run comes to an end; a process that
\* crashed comes back and the session is opened again (its user); the ledger does not
\* fail for ever.
Fairness ==
  /\ \A s \in Slot : WF_goalVars(TaskProgress(s)) /\ SF_goalVars(RecordEvidence(s))
  /\ \A p \in Proc :
       /\ WF_goalVars(TypeMessage(p))
       /\ WF_goalVars(\E ending \in {"completed", "error", "cancelled"} : EndRun(p, ending))
       /\ WF_goalVars(Open(p))

FairSpec == Spec /\ Fairness

------------------------------------------------------------------------------
(* Properties *)

FollowupStarts == {i \in Rows({"started"}) : ~IsMessage(log[i].run)}

\* Between two changes of the goal or its policy by the user, no more follow-ups run
\* than the policy allows, whatever messages, crashes, reopenings and racing tasks
\* come between them.
FollowupsBounded ==
  LET starts == FollowupStarts IN
  \A i \in starts :
    Cardinality({j \in starts : log[j].goal.edit = log[i].goal.edit}) <= log[i].goal.max

\* However many tasks of however many processes look at the same turn, it is
\* evaluated once; and a reservation, however often it is found pending, becomes one
\* run, of the very goal that its evaluation wrote.
TurnsOnce ==
  /\ \A i, j \in Rows({"evaluated"}) : log[i].run = log[j].run => i = j
  /\ \A i, j \in FollowupStarts : log[i].run = log[j].run => i = j
  /\ \A i \in FollowupStarts :
       \E j \in Rows({"evaluated"}) : j < i /\ log[j].goal = log[i].goal

\* The goal's rows are one chain of revisions, and no evaluation, though it was read
\* and thought about long before it is written, undoes a change of the user's.
NoLostEdit ==
  LET goalRows == Rows(GoalKinds) IN
  \A i, j \in goalRows : (i < j /\ ~\E k \in goalRows : i < k /\ k < j) =>
    /\ log[j].rev = log[i].rev + 1
    /\ log[j].kind = "evaluated" =>
         /\ log[i].goal # NoGoal
         /\ log[j].goal.edit = log[i].goal.edit /\ log[j].goal.mode = log[i].goal.mode

\* The run under way works on the goal as it is: the goal it froze, read before it
\* began, was current when it began, and has not changed since.
RunsOnCurrentGoal ==
  lease # NoLease => \E i \in Starts(lease.run) : log[i].rev = Revision /\ log[i].goal = Current

\* The user comes first (docs/superpowers/plans/2026-07-17-sage-harness-secondary-
\* extensions.md:395): no follow-up runs if the user's run has begun after the
\* follow-up was reserved.
FollowupYieldsToUser ==
  \A i \in FollowupStarts, j \in Rows({"scheduled"}) :
    log[j].run = log[i].run =>
      ~\E k \in Rows({"started"}) : j < k /\ k < i /\ IsMessage(log[k].run)

\* A turn that ended with the goal as it is, under an automatic policy, is evaluated
\* in the end: by the task it started, or, after a crash, a cancellation or a refusal,
\* by the next opening; unless the user has typed, begun a run or changed the goal.
LastTurnUnjudged ==
  LET last == Rows({"terminal"}) IN
  /\ last # {} /\ Current # NoGoal /\ Current.mode = "auto"
  /\ FrozenRevision(log[Max(last)].run) = Revision
  /\ lease = NoLease /\ ~TypedAfter(Max(last))

TurnsJudged == LastTurnUnjudged ~> ~LastTurnUnjudged

\* A reservation does not stay pending: it is started, by the task that made it or by
\* a later one, or overtaken by the user.
ReservationsSettle == SomePending ~> ~SomePending

\* All evidence reaches the ledger and is acknowledged, though a crash or a failing
\* ledger may come between any two steps, and no evaluation may follow to drain it.
DepositsAcknowledged == (PendingDeposits # {}) ~> (PendingDeposits = {})

\* The journal's deposits, the ledger and the journal's receipts are an outbox:
\* evidence is delivered once, and acknowledged only when it is in the ledger.
\* (This is Outbox's specification, written so that TLC tries the stuttering step first.)
Box == INSTANCE Outbox
         WITH Item <- Revs,
              offered <- Deposits, delivered <- ledger, acknowledged <- receipts
ImplementsOutbox ==
  Box!OutboxInit /\ [][UNCHANGED <<Deposits, ledger, receipts>> \/ Box!OutboxNext]_goalVars
=============================================================================

------------------------------ MODULE RunJournal ------------------------------
(***************************************************************************)
(* The session event journal: one SQLite database per session, shared by   *)
(* every process that serves the session.  Each operation is one BEGIN     *)
(* IMMEDIATE transaction, hence one atomic step.  An operation that raises *)
(* rolls back and leaves the database alone: it is simply not enabled.     *)
(*                                                                         *)
(* Data kept: which run a row belongs to, whether it starts the run, asks  *)
(* for an approval, answers one, ends the run, acknowledges what an ended  *)
(* run deposited elsewhere (its receipt), or is any other work.            *)
(* A row also remembers the fencing token its transaction presented (0     *)
(* when it presented none).  That field is a history variable: the table   *)
(* has no such column, and no guard reads it.                              *)
(*                                                                         *)
(* The specification at the end lets any caller present any credentials    *)
(* at any time: it is the journal against arbitrarily stale callers.       *)
(***************************************************************************)
EXTENDS Naturals, Sequences, FiniteSets

CONSTANTS Run,       \* run identifiers
          NoRun,     \* not a run
          Owner,     \* one per process incarnation (owner id, pid, start time)
          Approval,  \* checkpoint-backed approvals, one per tool call
          Nothing    \* what a row that is about no approval and no end is about

ASSUME JournalAssumption ==
  /\ NoRun \notin Run
  /\ Nothing \notin Approval

VARIABLES
  log,       \* session_events in sequence order
  leases,    \* the rows of active_run_lease
  nextToken  \* run_fence_state.next_token

journalVars == <<log, leases, nextToken>>

Status == {"completed", "cancelled", "error", "interrupted"}
Kind   == {"started", "work", "approval", "result", "terminal", "receipt"}
Row    == [run : Run, kind : Kind, of : Approval \union Status \union {Nothing},
           token : Nat]
Lease  == [run : Run, owner : Owner, token : Nat \ {0}]

JournalTypeOK ==
  /\ log \in Seq(Row)
  /\ leases \subseteq Lease
  /\ nextToken \in Nat \ {0}

------------------------------------------------------------------------------
(* Queries *)

IsRow(i, r, k) == log[i].run = r /\ log[i].kind = k

Terminal(r)   == \E i \in DOMAIN log : IsRow(i, r, "terminal")
HasHistory(r) == \E i \in DOMAIN log : log[i].run = r
Started(r)    == \E i \in DOMAIN log : IsRow(i, r, "started")
HasReceipt(r) == \E i \in DOMAIN log : IsRow(i, r, "receipt")
Leased(r)     == \E l \in leases : l.run = r

\* Mutant of HoldsLease: the owner is compared, the token is not.
HoldsLease_AnyToken(r, o, t) == \E l \in leases : l.run = r /\ l.owner = o

\* _assert_run_lease with credentials ...
HoldsLease(r, o, t) == [run |-> r, owner |-> o, token |-> t] \in leases
\* Mutant of MayWriteUnowned: a write without credentials is never refused.
MayWriteUnowned_Always(r) == TRUE

\* ... and without any: refused only while that very run is leased.
MayWriteUnowned(r) == ~Leased(r)

\* recoverable_approval: a request of r is answered if a result of its call
\* comes after it and before the request is made again.
Answered(i) ==
  \E j \in DOMAIN log :
    /\ i < j /\ IsRow(j, log[i].run, "result") /\ log[j].of = log[i].of
    /\ \A k \in i + 1 .. j - 1 :
         ~(IsRow(k, log[i].run, "approval") /\ log[k].of = log[i].of)

RecoverableApprovals(r) ==
  {a \in Approval :
     /\ ~Terminal(r)
     /\ \E i \in DOMAIN log : IsRow(i, r, "approval") /\ log[i].of = a /\ ~Answered(i)}

\* _has_unresolved_approval remembers one pending request, the last one made.
HasUnresolvedApproval(r) ==
  \E i \in DOMAIN log :
    /\ IsRow(i, r, "approval")
    /\ \A j \in DOMAIN log :
         i < j /\ log[j].run = r =>
           /\ log[j].kind # "approval"
           /\ ~(log[j].kind = "result" /\ log[j].of = log[i].of)

UnfinishedRunIds == {r \in Run : Started(r) /\ ~Terminal(r) /\ ~Leased(r)}

------------------------------------------------------------------------------
(* Transactions *)

\* Mutant of JournalInit: the first fencing token is 0.
JournalInit_TokenZero == log = <<>> /\ leases = {} /\ nextToken = 0

JournalInit == log = <<>> /\ leases = {} /\ nextToken = 1

NewRow(r, k, x, t) == [run |-> r, kind |-> k, of |-> x, token |-> t]

\* _terminal_in_transaction: an earlier terminal row is returned, not doubled.
LogTerminalOnce(r, status, t) ==
  log' = IF Terminal(r) THEN log ELSE Append(log, NewRow(r, "terminal", status, t))

\* Mutant of TakeLease: the token taken is not replaced by a new one.
TakeLease_SameToken(r, o) ==
  /\ leases = {}
  /\ leases' = {[run |-> r, owner |-> o, token |-> nextToken]}
  /\ UNCHANGED nextToken

\* _allocate_fencing_token and the INSERT into active_run_lease
TakeLease(r, o) ==
  /\ leases = {}
  /\ leases' = {[run |-> r, owner |-> o, token |-> nextToken]}
  /\ nextToken' = nextToken + 1

DropLease(r) == leases' = {l \in leases : l.run # r}

BeginRun(r, o) ==
  /\ ~Terminal(r)
  /\ TakeLease(r, o)
  /\ log' = Append(log, NewRow(r, "started", Nothing, nextToken))

\* Mutant of ResumeRun: an ended run may be resumed.
ResumeRun_Ended(r, o) == HasHistory(r) /\ TakeLease(r, o) /\ UNCHANGED log

ResumeRun(r, o) ==
  /\ HasHistory(r)
  /\ ~Terminal(r)
  /\ TakeLease(r, o)
  /\ UNCHANGED log

AppendOwned(r, k, x, o, t) ==
  /\ HoldsLease(r, o, t)
  /\ log' = Append(log, NewRow(r, k, x, t))
  /\ UNCHANGED <<leases, nextToken>>

AppendUnowned(r, k, x) ==
  /\ MayWriteUnowned(r)
  /\ log' = Append(log, NewRow(r, k, x, 0))
  /\ UNCHANGED <<leases, nextToken>>

\* append_mastery_deposit_receipt.  Only runs that have ended make a deposit; the
\* receipt's event id is derived from the deposit's, hence unique.
AppendReceipt(r) ==
  /\ Terminal(r) /\ ~HasReceipt(r)
  /\ AppendUnowned(r, "receipt", Nothing)

TerminalOnceUnowned(r, status) ==
  /\ MayWriteUnowned(r)
  /\ LogTerminalOnce(r, status, 0)
  /\ UNCHANGED <<leases, nextToken>>

FinishOwned(r, status, o, t) ==
  /\ HoldsLease(r, o, t)
  /\ LogTerminalOnce(r, status, t)
  /\ DropLease(r)
  /\ UNCHANGED nextToken

FinishUnowned(r, status) ==
  /\ MayWriteUnowned(r)
  /\ LogTerminalOnce(r, status, 0)
  /\ DropLease(r)
  /\ UNCHANGED nextToken

ReleaseRunLease(r, o, t) ==
  /\ HoldsLease(r, o, t)
  /\ DropLease(r)
  /\ UNCHANGED <<log, nextToken>>

\* Mutant of RecoverRunLease: whoever owns the lease loses it.
RecoverRunLease_Anyone(live) ==
  /\ \E l \in leases : LogTerminalOnce(l.run, "interrupted", 0)
  /\ leases' = {}
  /\ UNCHANGED nextToken

\* Mutant of RecoverRunLease: a pending approval does not keep the run open.
RecoverRunLease_Interrupt(live) ==
  /\ \E l \in leases : l.owner \notin live /\ LogTerminalOnce(l.run, "interrupted", 0)
  /\ leases' = {}
  /\ UNCHANGED nextToken

\* live: the owners whose process is present with the recorded start time.
RecoverRunLease(live) ==
  /\ \E l \in leases :
       /\ l.owner \notin live
       /\ IF HasUnresolvedApproval(l.run)
            THEN UNCHANGED log
            ELSE LogTerminalOnce(l.run, "interrupted", 0)
  /\ leases' = {}
  /\ UNCHANGED nextToken

------------------------------------------------------------------------------
(* The journal against arbitrary callers.  A call that presents credentials *)
(* may come from any owner, with any token, at any time.  The calls without *)
(* credentials are the code's: rows of a run nobody has begun (a rejected   *)
(* input, the thread-goal rows), the receipt of an ended run's deposit, the *)
(* interruption of an unowned run, and the recovery of a lease whose owner  *)
(* is not alive.                                                            *)

Unbegun(r) == ~Started(r) /\ ~Terminal(r)

OwnedCall(r, o, t) ==
  \/ \E k \in {"work", "approval", "result"}, x \in Approval \union {Nothing} :
       AppendOwned(r, k, x, o, t)
  \/ \E s \in Status : FinishOwned(r, s, o, t)
  \/ ReleaseRunLease(r, o, t)

UnownedCall(r) ==
  \/ Unbegun(r) /\ AppendUnowned(r, "work", Nothing)
  \/ Unbegun(r) /\ TerminalOnceUnowned(r, "error")
  \/ AppendReceipt(r)
  \/ FinishUnowned(r, "interrupted")

JournalNext ==
  \/ \E r \in Run, o \in Owner : BeginRun(r, o) \/ ResumeRun(r, o)
  \/ \E r \in Run, o \in Owner, t \in 1 .. nextToken : OwnedCall(r, o, t)
  \/ \E r \in Run : UnownedCall(r)
  \/ \E live \in SUBSET Owner : RecoverRunLease(live)

JournalSpec == JournalInit /\ [][JournalNext]_journalVars

------------------------------------------------------------------------------
(* Properties *)

\* The lease table is a proper mutex: at most one run is leased, the lease
\* carries the newest token ever given out, and its run is still open.
\* (begin_run, resume_run and the terminal transactions together.)
LeaseIsCurrent ==
  /\ Cardinality(leases) <= 1
  /\ \A l \in leases : l.token + 1 = nextToken /\ HasHistory(l.run) /\ ~Terminal(l.run)

\* No row of a run follows its terminal row but one receipt, whoever wrote either:
\* a fenced-out owner, a recovery and a canceller can all race for the ending, and
\* two drains of the deposits for the receipt.
EndedForGood ==
  \A i, j \in DOMAIN log :
    i < j /\ log[i].run = log[j].run /\ log[i].kind \in {"terminal", "receipt"} =>
      log[i].kind = "terminal" /\ log[j].kind = "receipt"

\* Fencing: the tokens presented by successive rows never go back, over the
\* whole log, and one token writes rows of one run only.
TokensInOrder ==
  \A i, j \in DOMAIN log :
    i < j /\ log[i].token # 0 /\ log[j].token # 0 =>
      /\ log[i].token <= log[j].token
      /\ log[i].token = log[j].token => log[i].run = log[j].run

\* What the journal promises, read off its tables: the run being written, the
\* runs that have ended and the entries.  The epoch is the newest token.
Writer  == IF leases = {} THEN NoRun ELSE (CHOOSE l \in leases : TRUE).run
Ended   == {r \in Run : Terminal(r)}
Entry(row) == [run |-> row.run, epoch |-> row.token]
Entries == [i \in DOMAIN log |-> Entry(log[i])]

Log == INSTANCE SingleWriterLog
         WITH writer <- Writer, epoch <- nextToken - 1, ended <- Ended, entries <- Entries

\* The journal implements the single-writer log.
ImplementsSingleWriterLog == Log!AbsSpec
=============================================================================

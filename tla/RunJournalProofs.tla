--------------------------- MODULE RunJournalProofs ---------------------------
(***************************************************************************)
(* Theorems about the session event journal, for any runs, owners,         *)
(* approvals and any number of rows and tokens, against any callers.       *)
(***************************************************************************)
EXTENDS RunJournal, FiniteSetTheorems, TLAPS

(* The inductive invariant.  EndedForGood needs that a leased run is open,  *)
(* TokensInOrder that the lease carries the newest token and that the rows  *)
(* written with that token are the leased run's; a receipt is a receipt of  *)
(* an ended run.                                                            *)

OneLease == \A l, m \in leases : l = m

LeaseRunOpen == \A l \in leases : HasHistory(l.run) /\ ~Terminal(l.run)

LeaseTokenNewest == \A l \in leases : l.token + 1 = nextToken

TokensGivenOut ==
  \A i \in DOMAIN log :
    /\ log[i].token < nextToken
    /\ \A l \in leases : log[i].token = l.token => log[i].run = l.run

ReceiptsOfEnded == \A i \in DOMAIN log : log[i].kind = "receipt" => Terminal(log[i].run)

JournalInv ==
  /\ JournalTypeOK
  /\ ReceiptsOfEnded
  /\ OneLease
  /\ LeaseRunOpen
  /\ LeaseTokenNewest
  /\ TokensGivenOut
  /\ EndedForGood
  /\ TokensInOrder

------------------------------------------------------------------------------
(* Appending a row *)

LEMMA AppendFacts ==
  ASSUME NEW s \in Seq(Row), NEW row \in Row
  PROVE  /\ Append(s, row) \in Seq(Row)
         /\ DOMAIN Append(s, row) = 1 .. Len(s) + 1
         /\ DOMAIN s = 1 .. Len(s)
         /\ Len(s) \in Nat
         /\ \A i \in 1 .. Len(s) : Append(s, row)[i] = s[i]
         /\ Append(s, row)[Len(s) + 1] = row
  OBVIOUS

\* What one more row does to the queries.
LEMMA AppendQueries ==
  ASSUME JournalTypeOK, NEW row \in Row, log' = Append(log, row), NEW r \in Run
  PROVE  /\ Terminal(r)' <=> Terminal(r) \/ (row.run = r /\ row.kind = "terminal")
         /\ HasHistory(r)' <=> HasHistory(r) \/ row.run = r
  <1>1. /\ DOMAIN log' = 1 .. Len(log) + 1
        /\ DOMAIN log = 1 .. Len(log)
        /\ Len(log) \in Nat
        /\ \A i \in 1 .. Len(log) : log'[i] = log[i]
        /\ log'[Len(log) + 1] = row
    BY AppendFacts DEF JournalTypeOK
  <1>2. \A i \in DOMAIN log' : i \in DOMAIN log \/ i = Len(log) + 1
    BY <1>1
  <1>3. DOMAIN log \subseteq DOMAIN log' /\ Len(log) + 1 \in DOMAIN log'
    BY <1>1
  <1> QED BY <1>1, <1>2, <1>3 DEF Terminal, HasHistory, IsRow

\* When a row may be written: its run is open, or it is the first receipt of an
\* ended one.
MayFollow(row) ==
  IF row.kind = "receipt" THEN Terminal(row.run) /\ ~HasReceipt(row.run)
                          ELSE ~Terminal(row.run)

\* Such a row may present no token, or one at least as new as every token used
\* before and never used for another run.
LEMMA AppendKeepsOrder ==
  ASSUME JournalInv, NEW row \in Row, log' = Append(log, row),
         MayFollow(row),
         row.token # 0 =>
           \A i \in DOMAIN log :
             /\ log[i].token <= row.token
             /\ log[i].token = row.token => log[i].run = row.run
  PROVE  EndedForGood' /\ TokensInOrder'
  <1>1. /\ DOMAIN log' = 1 .. Len(log) + 1
        /\ DOMAIN log = 1 .. Len(log)
        /\ Len(log) \in Nat
        /\ \A i \in 1 .. Len(log) : log'[i] = log[i]
        /\ log'[Len(log) + 1] = row
    BY AppendFacts DEF JournalInv, JournalTypeOK
  <1>2. ASSUME NEW i \in DOMAIN log', NEW j \in DOMAIN log', i < j
        PROVE  /\ i \in DOMAIN log /\ log'[i] = log[i]
               /\ \/ j \in DOMAIN log /\ log'[j] = log[j]
                  \/ j = Len(log) + 1 /\ log'[j] = row
    BY <1>1, <1>2
  <1>3. EndedForGood'
    BY <1>2 DEF JournalInv, EndedForGood, ReceiptsOfEnded, MayFollow, HasReceipt, Terminal, IsRow
  <1>4. TokensInOrder'
    BY <1>2 DEF JournalInv, TokensInOrder
  <1> QED BY <1>3, <1>4

LEMMA ReceiptsKept ==
  ASSUME JournalTypeOK, ReceiptsOfEnded, NEW row \in Row, log' = Append(log, row),
         row.kind = "receipt" => Terminal(row.run)
  PROVE  ReceiptsOfEnded'
  <1> SUFFICES ASSUME NEW i \in DOMAIN log', log'[i].kind = "receipt"
               PROVE  (Terminal(log[i].run))'
    BY DEF ReceiptsOfEnded
  <1>1. /\ DOMAIN log' = 1 .. Len(log) + 1
        /\ DOMAIN log = 1 .. Len(log)
        /\ Len(log) \in Nat
        /\ \A j \in 1 .. Len(log) : log'[j] = log[j]
        /\ log'[Len(log) + 1] = row
    BY AppendFacts DEF JournalTypeOK
  <1>2. i \in DOMAIN log \/ i = Len(log) + 1
    BY <1>1
  <1>3. PICK j \in DOMAIN log : log[j].run = log'[i].run /\ log[j].kind = "terminal"
    BY <1>1, <1>2 DEF ReceiptsOfEnded, Terminal, IsRow
  <1>4. j \in DOMAIN log' /\ log'[j] = log[j]
    BY <1>1
  <1> QED BY <1>3, <1>4 DEF Terminal, IsRow

------------------------------------------------------------------------------
(* The invariant is inductive *)

LEMMA InitInv == JournalInit => JournalInv
  BY DEF JournalInit, JournalInv, JournalTypeOK, ReceiptsOfEnded, OneLease, LeaseRunOpen,
         LeaseTokenNewest, TokensGivenOut, EndedForGood, TokensInOrder

\* A transaction that changes no row and only removes leases.
LEMMA UnloggedInv ==
  ASSUME JournalInv, log' = log, leases' \subseteq leases, nextToken' = nextToken
  PROVE  JournalInv'
  BY DEF JournalInv, JournalTypeOK, ReceiptsOfEnded, OneLease, LeaseRunOpen, LeaseTokenNewest,
         TokensGivenOut, EndedForGood, TokensInOrder, Terminal, HasHistory, IsRow

\* A transaction that writes one row of a run r that may follow, with the token of
\* r's lease or with none, and removes leases; if the row is terminal, r's too.
LEMMA LoggedInv ==
  ASSUME JournalInv, NEW row \in Row, log' = Append(log, row),
         leases' \subseteq leases, nextToken' = nextToken,
         MayFollow(row),
         row.token # 0 => \E l \in leases : l.run = row.run /\ l.token = row.token,
         row.token = 0 \/ row.token \in Nat,
         row.kind = "terminal" => \A l \in leases' : l.run # row.run
  PROVE  JournalInv'
  <1>1. /\ DOMAIN log' = 1 .. Len(log) + 1
        /\ DOMAIN log = 1 .. Len(log)
        /\ Len(log) \in Nat
        /\ \A i \in 1 .. Len(log) : log'[i] = log[i]
        /\ log'[Len(log) + 1] = row
        /\ log' \in Seq(Row)
    BY AppendFacts DEF JournalInv, JournalTypeOK
  <1>2. \A i \in DOMAIN log : log[i] \in Row
    BY DEF JournalInv, JournalTypeOK
  <1>3. JournalTypeOK'
    BY <1>1 DEF JournalInv, JournalTypeOK
  <1>4. OneLease' /\ LeaseTokenNewest'
    BY DEF JournalInv, OneLease, LeaseTokenNewest
  <1>5. LeaseRunOpen'
    <2> SUFFICES ASSUME NEW l \in leases'
                 PROVE  (HasHistory(l.run) /\ ~Terminal(l.run))'
      BY DEF LeaseRunOpen
    <2>1. l.run \in Run /\ l \in leases
      BY DEF JournalInv, JournalTypeOK, Lease
    <2>2. JournalTypeOK /\ HasHistory(l.run) /\ ~Terminal(l.run)
      BY <2>1 DEF JournalInv, LeaseRunOpen
    <2> QED BY <2>1, <2>2, AppendQueries
  <1>6. row.token < nextToken /\ \A l \in leases : row.token = l.token => row.run = l.run
    BY DEF JournalInv, JournalTypeOK, Lease, OneLease, LeaseTokenNewest
  <1>7. TokensGivenOut'
    <2> SUFFICES ASSUME NEW i \in DOMAIN log'
                 PROVE  (/\ log[i].token < nextToken
                         /\ \A l \in leases : log[i].token = l.token => log[i].run = l.run)'
      BY DEF TokensGivenOut
    <2>1. CASE i \in DOMAIN log
      BY <2>1, <1>1 DEF JournalInv, TokensGivenOut
    <2>2. CASE i = Len(log) + 1
      BY <2>2, <1>1, <1>6
    <2> QED BY <1>1, <2>1, <2>2
  <1>8. row.token # 0 =>
          \A i \in DOMAIN log :
            /\ log[i].token <= row.token
            /\ log[i].token = row.token => log[i].run = row.run
    <2> SUFFICES ASSUME row.token # 0, NEW i \in DOMAIN log
                 PROVE  /\ log[i].token <= row.token
                        /\ log[i].token = row.token => log[i].run = row.run
      OBVIOUS
    <2>1. PICK l \in leases : l.run = row.run /\ l.token = row.token
      OBVIOUS
    <2>2. l.token + 1 = nextToken /\ l.token \in Nat /\ nextToken \in Nat
      BY DEF JournalInv, JournalTypeOK, Lease, LeaseTokenNewest
    <2>3. log[i].token \in Nat /\ log[i].token < nextToken
      BY <1>2 DEF JournalInv, TokensGivenOut, Row
    <2>4. log[i].token = l.token => log[i].run = l.run
      BY DEF JournalInv, TokensGivenOut
    <2> QED BY <2>1, <2>2, <2>3, <2>4
  <1>9. EndedForGood' /\ TokensInOrder'
    BY <1>8, AppendKeepsOrder
  <1>10. ReceiptsOfEnded'
    BY ReceiptsKept DEF MayFollow, JournalInv
  <1> QED BY <1>3, <1>4, <1>5, <1>7, <1>9, <1>10 DEF JournalInv

\* The terminal transactions: log the terminal once, remove leases of r.
LEMMA TerminalOnceInv ==
  ASSUME JournalInv, NEW r \in Run, NEW s \in Status, NEW t \in Nat,
         LogTerminalOnce(r, s, t), nextToken' = nextToken,
         leases' \subseteq leases, \A l \in leases' : l.run # r,
         t # 0 => \E l \in leases : l.run = r /\ l.token = t
  PROVE  JournalInv'
  <1>1. CASE Terminal(r)
    BY <1>1, UnloggedInv DEF LogTerminalOnce
  <1>2. CASE ~Terminal(r)
    <2> DEFINE row == NewRow(r, "terminal", s, t)
    <2>1. row \in Row /\ row.run = r /\ row.token = t /\ row.kind = "terminal"
      BY DEF NewRow, Row, Kind
    <2>2. log' = Append(log, row)
      BY <1>2 DEF LogTerminalOnce
    <2>3. MayFollow(row)
      BY <1>2, <2>1 DEF MayFollow
    <2> HIDE DEF row
    <2> QED BY <2>1, <2>2, <2>3, LoggedInv
  <1> QED BY <1>1, <1>2

\* Every token in the log has been given out.
LEMMA LoggedTokens ==
  ASSUME JournalInv, NEW i \in DOMAIN log
  PROVE  log[i].token \in Nat /\ log[i].token < nextToken
  <1>1. log[i] \in Row
    BY DEF JournalInv, JournalTypeOK
  <1>2. log[i].token \in Nat
    BY <1>1 DEF Row
  <1>3. log[i].token < nextToken
    BY DEF JournalInv, TokensGivenOut
  <1> QED BY <1>2, <1>3

\* A lease taken by begin_run or resume_run.
LEMMA BeginInv ==
  ASSUME JournalInv, NEW r \in Run, NEW o \in Owner, BeginRun(r, o)
  PROVE  JournalInv'
  <1> DEFINE row == NewRow(r, "started", Nothing, nextToken)
             lease == [run |-> r, owner |-> o, token |-> nextToken]
  <1>1. /\ leases = {} /\ leases' = {lease} /\ nextToken' = nextToken + 1
        /\ log' = Append(log, row) /\ ~Terminal(r)
    BY DEF BeginRun, TakeLease
  <1>2. /\ row \in Row /\ row.run = r /\ row.token = nextToken /\ row.kind = "started"
        /\ nextToken \in Nat \ {0}
    BY DEF JournalInv, JournalTypeOK, NewRow, Row, Kind
  <1>3. lease \in Lease /\ lease.run = r /\ lease.token = nextToken
    BY <1>2 DEF Lease
  <1> HIDE DEF row, lease
  <1>4. /\ DOMAIN log' = 1 .. Len(log) + 1
        /\ DOMAIN log = 1 .. Len(log)
        /\ Len(log) \in Nat
        /\ \A i \in 1 .. Len(log) : log'[i] = log[i]
        /\ log'[Len(log) + 1] = row
        /\ log' \in Seq(Row)
    BY <1>1, <1>2, AppendFacts DEF JournalInv, JournalTypeOK
  <1>5. \A i \in DOMAIN log : log[i].token \in Nat /\ log[i].token < nextToken
    BY LoggedTokens
  <1>6. JournalTypeOK'
    BY <1>1, <1>2, <1>3, <1>4 DEF JournalTypeOK
  <1>7. OneLease' /\ LeaseTokenNewest'
    BY <1>1, <1>3 DEF OneLease, LeaseTokenNewest
  <1>8. LeaseRunOpen'
    <2>1. JournalTypeOK
      BY DEF JournalInv
    <2>2. Terminal(r)' <=> Terminal(r) \/ (row.run = r /\ row.kind = "terminal")
      BY <1>1, <1>2, <2>1, AppendQueries
    <2>3. HasHistory(r)' <=> HasHistory(r) \/ row.run = r
      BY <1>1, <1>2, <2>1, AppendQueries
    <2>4. HasHistory(r)' /\ ~Terminal(r)'
      BY <2>2, <2>3, <1>1, <1>2
    <2> QED BY <2>4, <1>1, <1>3 DEF LeaseRunOpen
  <1>9. TokensGivenOut'
    BY <1>1, <1>2, <1>3, <1>4, <1>5 DEF TokensGivenOut
  <1>10. MayFollow(row)
    BY <1>1, <1>2 DEF MayFollow
  <1>11. EndedForGood' /\ TokensInOrder'
    BY <1>1, <1>2, <1>5, <1>10, AppendKeepsOrder
  <1>12. ReceiptsOfEnded'
    BY <1>1, <1>2, ReceiptsKept DEF JournalInv
  <1> QED BY <1>6, <1>7, <1>8, <1>9, <1>11, <1>12 DEF JournalInv

LEMMA ResumeInv ==
  ASSUME JournalInv, NEW r \in Run, NEW o \in Owner, ResumeRun(r, o)
  PROVE  JournalInv'
  <1> DEFINE lease == [run |-> r, owner |-> o, token |-> nextToken]
  <1>1. /\ leases' = {lease} /\ nextToken' = nextToken + 1 /\ log' = log
        /\ HasHistory(r) /\ ~Terminal(r)
    BY DEF ResumeRun, TakeLease
  <1>2. nextToken \in Nat \ {0} /\ log \in Seq(Row)
    BY DEF JournalInv, JournalTypeOK
  <1>3. lease \in Lease /\ lease.run = r /\ lease.token = nextToken
    BY <1>2 DEF Lease
  <1> HIDE DEF lease
  <1>4. \A i \in DOMAIN log : log[i].token \in Nat /\ log[i].token < nextToken
    BY LoggedTokens
  <1>5. JournalTypeOK' /\ OneLease' /\ LeaseTokenNewest'
    BY <1>1, <1>2, <1>3 DEF JournalTypeOK, OneLease, LeaseTokenNewest
  <1>6. LeaseRunOpen'
    BY <1>1, <1>3 DEF LeaseRunOpen, HasHistory, Terminal, IsRow
  <1>7. TokensGivenOut'
    BY <1>1, <1>2, <1>3, <1>4 DEF TokensGivenOut
  <1>8. EndedForGood' /\ TokensInOrder' /\ ReceiptsOfEnded'
    BY <1>1 DEF JournalInv, EndedForGood, TokensInOrder, ReceiptsOfEnded, Terminal, IsRow
  <1> QED BY <1>5, <1>6, <1>7, <1>8 DEF JournalInv

LEMMA AppendOwnedInv ==
  ASSUME JournalInv, NEW r \in Run, NEW o \in Owner, NEW t \in Nat \ {0},
         NEW k \in {"work", "approval", "result"}, NEW x \in Approval \union {Nothing},
         AppendOwned(r, k, x, o, t)
  PROVE  JournalInv'
  <1> DEFINE row == NewRow(r, k, x, t)
             lease == [run |-> r, owner |-> o, token |-> t]
  <1>1. row \in Row /\ row.run = r /\ row.token = t /\ row.kind = k
    BY DEF NewRow, Row, Kind
  <1>2. lease \in leases /\ lease.run = r /\ lease.token = t
    BY DEF AppendOwned, HoldsLease
  <1>3. log' = Append(log, row) /\ leases' = leases /\ nextToken' = nextToken
    BY DEF AppendOwned
  <1>4. ~Terminal(r)
    BY <1>2 DEF JournalInv, LeaseRunOpen
  <1>5. MayFollow(row)
    BY <1>1, <1>4 DEF MayFollow
  <1> HIDE DEF row, lease
  <1> QED BY <1>1, <1>2, <1>3, <1>5, LoggedInv

LEMMA AppendUnownedInv ==
  ASSUME JournalInv, NEW r \in Run, NEW k \in {"work", "receipt"},
         IF k = "receipt" THEN Terminal(r) /\ ~HasReceipt(r) ELSE ~Terminal(r),
         AppendUnowned(r, k, Nothing)
  PROVE  JournalInv'
  <1> DEFINE row == NewRow(r, k, Nothing, 0)
  <1>1. row \in Row /\ row.run = r /\ row.token = 0 /\ row.kind = k
    BY DEF NewRow, Row, Kind
  <1>2. log' = Append(log, row) /\ leases' = leases /\ nextToken' = nextToken
    BY DEF AppendUnowned
  <1>3. MayFollow(row)
    BY <1>1 DEF MayFollow
  <1> HIDE DEF row
  <1> QED BY <1>1, <1>2, <1>3, LoggedInv

LEMMA RecoverInv ==
  ASSUME JournalInv, NEW live \in SUBSET Owner, RecoverRunLease(live)
  PROVE  JournalInv'
  <1>1. PICK l \in leases :
          IF HasUnresolvedApproval(l.run)
            THEN log' = log
            ELSE LogTerminalOnce(l.run, "interrupted", 0)
    BY DEF RecoverRunLease
  <1>2. leases' = {} /\ nextToken' = nextToken /\ l.run \in Run
    BY DEF RecoverRunLease, JournalInv, JournalTypeOK, Lease
  <1>3. CASE HasUnresolvedApproval(l.run)
    BY <1>1, <1>2, <1>3, UnloggedInv
  <1>4. CASE ~HasUnresolvedApproval(l.run)
    <2>1. "interrupted" \in Status
      BY DEF Status
    <2> QED BY <1>1, <1>2, <1>4, <2>1, TerminalOnceInv
  <1> QED BY <1>3, <1>4

LEMMA StepInv == JournalInv /\ [JournalNext]_journalVars => JournalInv'
  <1> SUFFICES ASSUME JournalInv, [JournalNext]_journalVars
               PROVE  JournalInv'
    OBVIOUS
  <1>1. ASSUME NEW r \in Run, NEW o \in Owner, BeginRun(r, o)
        PROVE  JournalInv'
    BY <1>1, BeginInv
  <1>2. ASSUME NEW r \in Run, NEW o \in Owner, ResumeRun(r, o)
        PROVE  JournalInv'
    BY <1>2, ResumeInv
  <1>3. ASSUME NEW r \in Run, NEW o \in Owner, NEW t \in 1 .. nextToken, OwnedCall(r, o, t)
        PROVE  JournalInv'
    <2>1. t \in Nat \ {0}
      BY DEF JournalInv, JournalTypeOK
    <2>2. ASSUME NEW k \in {"work", "approval", "result"}, NEW x \in Approval \union {Nothing},
                 AppendOwned(r, k, x, o, t)
          PROVE  JournalInv'
      BY <2>1, <2>2, AppendOwnedInv
    <2>3. ASSUME NEW s \in Status, FinishOwned(r, s, o, t)
          PROVE  JournalInv'
      <3>1. \E l \in leases : l.run = r /\ l.token = t
        BY <2>3 DEF FinishOwned, HoldsLease
      <3>2. /\ LogTerminalOnce(r, s, t) /\ nextToken' = nextToken
            /\ leases' \subseteq leases /\ \A l \in leases' : l.run # r
        BY <2>3 DEF FinishOwned, DropLease
      <3> QED BY <2>1, <3>1, <3>2, TerminalOnceInv
    <2>4. CASE ReleaseRunLease(r, o, t)
      BY <2>4, UnloggedInv DEF ReleaseRunLease, DropLease
    <2> QED BY <1>3, <2>2, <2>3, <2>4 DEF OwnedCall
  <1>4. ASSUME NEW r \in Run, UnownedCall(r)
        PROVE  JournalInv'
    <2>0. "error" \in Status /\ "interrupted" \in Status /\ 0 \in Nat
      BY DEF Status
    <2>1. CASE Unbegun(r) /\ AppendUnowned(r, "work", Nothing)
      BY <2>1, AppendUnownedInv DEF Unbegun
    <2>2. CASE Unbegun(r) /\ TerminalOnceUnowned(r, "error")
      <3>1. /\ LogTerminalOnce(r, "error", 0) /\ nextToken' = nextToken
            /\ leases' \subseteq leases /\ \A l \in leases' : l.run # r
        BY <2>2 DEF TerminalOnceUnowned, MayWriteUnowned, Leased
      <3> QED BY <2>0, <3>1, TerminalOnceInv
    <2>3. CASE FinishUnowned(r, "interrupted")
      <3>1. /\ LogTerminalOnce(r, "interrupted", 0) /\ nextToken' = nextToken
            /\ leases' \subseteq leases /\ \A l \in leases' : l.run # r
        BY <2>3 DEF FinishUnowned, DropLease
      <3> QED BY <2>0, <3>1, TerminalOnceInv
    <2>4. CASE AppendReceipt(r)
      BY <2>4, AppendUnownedInv DEF AppendReceipt
    <2> QED BY <1>4, <2>1, <2>2, <2>3, <2>4 DEF UnownedCall
  <1>5. ASSUME NEW live \in SUBSET Owner, RecoverRunLease(live)
        PROVE  JournalInv'
    BY <1>5, RecoverInv
  <1>6. CASE UNCHANGED journalVars
    BY <1>6, UnloggedInv DEF journalVars
  <1> QED BY <1>1, <1>2, <1>3, <1>4, <1>5, <1>6 DEF JournalNext

\* The inductive invariant holds whatever calls are made.
THEOREM JournalInvariant == JournalSpec => []JournalInv
  BY InitInv, StepInv, PTL DEF JournalSpec

\* Type correctness of the journal.
THEOREM JournalTypeCorrect == JournalSpec => []JournalTypeOK
  <1>1. JournalInv => JournalTypeOK
    BY DEF JournalInv
  <1> QED BY <1>1, JournalInvariant, PTL

\* Whatever calls stale owners make, the lease table is a mutex, its lease
\* carries the newest token and its run is open.
THEOREM LeaseAlwaysCurrent == JournalSpec => []LeaseIsCurrent
  <1>1. JournalInv => LeaseIsCurrent
    <2> SUFFICES ASSUME JournalInv PROVE LeaseIsCurrent
      OBVIOUS
    <2>1. Cardinality(leases) <= 1
      <3>1. CASE leases = {}
        BY <3>1, FS_EmptySet
      <3>2. CASE leases # {}
        <4>1. PICK l \in leases : leases = {l}
          BY <3>2 DEF JournalInv, OneLease
        <4>2. Cardinality({l}) = 1
          BY FS_Singleton
        <4> QED BY <4>1, <4>2
      <3> QED BY <3>1, <3>2
    <2> QED BY <2>1 DEF JournalInv, LeaseRunOpen, LeaseTokenNewest, LeaseIsCurrent
  <1> QED BY <1>1, JournalInvariant, PTL

\* Nothing but one receipt follows the terminal row of a run.
THEOREM RunsEndForGood == JournalSpec => []EndedForGood
  <1>1. JournalInv => EndedForGood
    BY DEF JournalInv
  <1> QED BY <1>1, JournalInvariant, PTL

\* Fencing: tokens never go back in the log.
THEOREM FencingTokensOrdered == JournalSpec => []TokensInOrder
  <1>1. JournalInv => TokensInOrder
    BY DEF JournalInv
  <1> QED BY <1>1, JournalInvariant, PTL

------------------------------------------------------------------------------
(* The journal implements the single-writer log: how the three tables of the *)
(* abstraction change, then one step per transaction.                        *)

LEMMA WriterFacts ==
  ASSUME OneLease, leases \subseteq Lease
  PROVE  /\ leases = {} <=> Writer = NoRun
         /\ \A l \in leases : Writer = l.run
  <1>1. \A l \in leases : leases # {} /\ (CHOOSE m \in leases : TRUE) = l
    BY DEF OneLease
  <1>2. \A l \in leases : l.run # NoRun
    BY JournalAssumption DEF Lease
  <1> QED BY <1>1, <1>2 DEF Writer

LEMMA SameEntries ==
  ASSUME UNCHANGED log
  PROVE  Entries' = Entries /\ Ended' = Ended
  BY DEF Entries, Entry, Ended, Terminal, IsRow

\* Two sequences are equal when they have one length and the same elements.
LEMMA EqualSequences ==
  ASSUME NEW S, NEW s \in Seq(S), NEW t \in Seq(S), Len(s) = Len(t),
         \A i \in 1 .. Len(s) : s[i] = t[i]
  PROVE  s = t
  <1>1. s \in [1 .. Len(s) -> S] /\ t \in [1 .. Len(s) -> S]
    OBVIOUS
  <1> QED BY <1>1

LEMMA OneMoreEntry ==
  ASSUME JournalTypeOK, NEW row \in Row, log' = Append(log, row)
  PROVE  /\ Entries' = Append(Entries, Entry(row))
         /\ Ended' = IF row.kind = "terminal" THEN Ended \union {row.run} ELSE Ended
  <1>1. /\ DOMAIN log' = 1 .. Len(log) + 1
        /\ DOMAIN log = 1 .. Len(log)
        /\ Len(log) \in Nat
        /\ \A i \in 1 .. Len(log) : log'[i] = log[i]
        /\ log'[Len(log) + 1] = row
    BY AppendFacts DEF JournalTypeOK
  <1> DEFINE Es == {Entry(x) : x \in Row}
  <1>2. /\ \A i \in 1 .. Len(log) : log[i] \in Row
        /\ \A i \in 1 .. Len(log) + 1 : log'[i] \in Row
    BY <1>1 DEF JournalTypeOK
  <1>3. /\ \A i \in 1 .. Len(log) : Entry(log[i]) \in Es
        /\ \A i \in 1 .. Len(log) + 1 : Entry(log'[i]) \in Es
        /\ Entry(row) \in Es
    BY <1>2
  <1>4. /\ Entries = [i \in 1 .. Len(log) |-> Entry(log[i])]
        /\ Entries' = [i \in 1 .. Len(log) + 1 |-> Entry(log'[i])]
    BY <1>1 DEF Entries, Entry
  <1> HIDE DEF Es
  <1>5. Entries \in Seq(Es) /\ Len(Entries) = Len(log)
    BY <1>1, <1>3, <1>4
  <1>6. Entries' \in Seq(Es) /\ Len(Entries') = Len(log) + 1
    BY <1>1, <1>3, <1>4
  <1>7. Append(Entries, Entry(row)) \in Seq(Es) /\ Len(Append(Entries, Entry(row))) = Len(log) + 1
    BY <1>3, <1>5
  <1>8. \A i \in 1 .. Len(log) + 1 : Append(Entries, Entry(row))[i] = Entries'[i]
    <2> SUFFICES ASSUME NEW i \in 1 .. Len(log) + 1
                 PROVE  Append(Entries, Entry(row))[i] = Entries'[i]
      OBVIOUS
    <2>1. CASE i = Len(log) + 1
      BY <1>1, <1>3, <1>4, <1>5, <2>1
    <2>2. CASE i \in 1 .. Len(log)
      BY <1>1, <1>3, <1>4, <1>5, <2>2
    <2>3. Len(log) \in Nat
      BY <1>1
    <2>4. i = Len(log) + 1 \/ i \in 1 .. Len(log)
      BY <2>3
    <2> QED BY <2>1, <2>2, <2>4
  <1>9. Entries' = Append(Entries, Entry(row))
    BY <1>6, <1>7, <1>8, EqualSequences
  <1>10. row.run \in Run
    BY DEF Row
  <1>11. Ended' = IF row.kind = "terminal" THEN Ended \union {row.run} ELSE Ended
    BY <1>10, AppendQueries DEF Ended
  <1> QED BY <1>9, <1>11

LEMMA NextWriter ==
  ASSUME OneLease, leases \subseteq Lease
  PROVE  /\ leases' = leases => Writer' = Writer
         /\ leases' = {} => Writer' = NoRun
         /\ \A l : leases' = {l} => Writer' = l.run
         /\ \A r \in Run : DropLease(r) => Writer' = IF Writer = r THEN NoRun ELSE Writer
  <1>1. leases' = leases => Writer' = Writer
    BY DEF Writer
  <1>2. leases' = {} => Writer' = NoRun
    BY DEF Writer
  <1>3. ASSUME NEW l, leases' = {l}
        PROVE  Writer' = l.run
    BY <1>3 DEF Writer
  <1>4. ASSUME NEW r \in Run, DropLease(r)
        PROVE  Writer' = IF Writer = r THEN NoRun ELSE Writer
    <2>1. CASE leases = {}
      <3>1. leases' = {}
        BY <1>4, <2>1 DEF DropLease
      <3> QED BY <3>1, <2>1, <1>2, WriterFacts
    <2>2. CASE leases # {}
      <3>1. PICK l \in leases : TRUE
        BY <2>2
      <3>2. leases = {l} /\ Writer = l.run
        BY <3>1, WriterFacts DEF OneLease
      <3>3. l.run = r => leases' = {}
        BY <1>4, <3>2 DEF DropLease
      <3>4. l.run # r => leases' = leases
        BY <1>4, <3>2 DEF DropLease
      <3> QED BY <3>2, <3>3, <3>4, <1>1, <1>2
    <2> QED BY <2>1, <2>2
  <1> QED BY <1>1, <1>2, <1>3, <1>4

\* An owned transaction is the writer's, and its token is the current epoch.
LEMMA HolderWrites ==
  ASSUME JournalInv, NEW r \in Run, NEW o \in Owner, NEW t \in Nat, HoldsLease(r, o, t)
  PROVE  /\ Writer = r /\ r # NoRun
         /\ t = nextToken - 1
         /\ ~Terminal(r)
  <1> DEFINE l == [run |-> r, owner |-> o, token |-> t]
  <1>1. l \in leases /\ l.run = r /\ l.token = t
    BY DEF HoldsLease
  <1>2. Writer = r
    BY <1>1, WriterFacts DEF JournalInv, JournalTypeOK
  <1>3. l.token + 1 = nextToken /\ ~Terminal(l.run)
    BY <1>1 DEF JournalInv, LeaseTokenNewest, LeaseRunOpen
  <1> QED BY <1>1, <1>2, <1>3, JournalAssumption DEF JournalInv, JournalTypeOK

LEMMA UnleasedIsNotWriter ==
  ASSUME JournalInv, NEW r \in Run, MayWriteUnowned(r)
  PROVE  Writer # r
  <1>1. CASE leases = {}
    BY <1>1, JournalAssumption DEF Writer
  <1>2. CASE leases # {}
    <2>1. PICK l \in leases : TRUE
      BY <1>2
    <2>2. Writer = l.run
      BY <2>1, WriterFacts DEF JournalInv, JournalTypeOK
    <2> QED BY <2>1, <2>2 DEF MayWriteUnowned, Leased
  <1> QED BY <1>1, <1>2

\* A run that takes the lease gains the log.
LEMMA GainRefines ==
  ASSUME JournalInv, NEW r \in Run, NEW o \in Owner, BeginRun(r, o) \/ ResumeRun(r, o)
  PROVE  Log!Gain(r)
  <1>1. /\ leases = {} /\ leases' = {[run |-> r, owner |-> o, token |-> nextToken]}
        /\ nextToken' = nextToken + 1 /\ ~Terminal(r)
    BY DEF BeginRun, ResumeRun, TakeLease
  <1> DEFINE l == [run |-> r, owner |-> o, token |-> nextToken]
  <1>2. Writer = NoRun /\ Writer' = r
    <2>1. l.run = r /\ leases' = {l}
      BY <1>1
    <2> HIDE DEF l
    <2>2. Writer' = l.run
      BY <2>1, NextWriter DEF JournalInv, JournalTypeOK
    <2> QED BY <1>1, <2>1, <2>2 DEF Writer
  <1>3. nextToken' - 1 = (nextToken - 1) + 1 /\ nextToken = (nextToken - 1) + 1
    BY <1>1 DEF JournalInv, JournalTypeOK
  <1>4. r \notin Ended
    BY <1>1 DEF Ended
  <1>5. CASE BeginRun(r, o)
    <2> DEFINE row == NewRow(r, "started", Nothing, nextToken)
    <2>1. log' = Append(log, row)
      BY <1>5 DEF BeginRun
    <2>2. row \in Row /\ row.kind # "terminal" /\ Entry(row) = [run |-> r, epoch |-> nextToken]
      BY DEF NewRow, Row, Kind, Entry, JournalInv, JournalTypeOK
    <2> HIDE DEF row
    <2>3. Entries' = Append(Entries, [run |-> r, epoch |-> nextToken]) /\ Ended' = Ended
      BY <2>1, <2>2, OneMoreEntry DEF JournalInv
    <2> QED BY <1>2, <1>3, <1>4, <2>3 DEF Log!Gain
  <1>6. CASE ResumeRun(r, o)
    <2>1. Entries' = Entries /\ Ended' = Ended
      BY <1>6, SameEntries DEF ResumeRun
    <2> QED BY <1>2, <1>3, <1>4, <2>1 DEF Log!Gain
  <1> QED BY <1>5, <1>6

\* A terminal row ends its run, in the current epoch or in none.
LEMMA EndRefines ==
  ASSUME JournalInv, NEW r \in Run, NEW s \in Status, NEW t \in Nat, ~Terminal(r),
         LogTerminalOnce(r, s, t),
         t = 0 \/ (Writer = r /\ t = nextToken - 1),
         Writer' = IF Writer = r THEN NoRun ELSE Writer,
         UNCHANGED nextToken
  PROVE  Log!End(r)
  <1> DEFINE row == NewRow(r, "terminal", s, t)
  <1>1. log' = Append(log, row)
    BY DEF LogTerminalOnce
  <1>2. /\ row \in Row /\ row.kind = "terminal" /\ row.run = r
        /\ Entry(row) = [run |-> r, epoch |-> t]
    BY DEF NewRow, Row, Kind, Entry
  <1> HIDE DEF row
  <1>3. Entries' = Append(Entries, [run |-> r, epoch |-> t]) /\ Ended' = Ended \union {r}
    BY <1>1, <1>2, OneMoreEntry DEF JournalInv
  <1>4. t \in {0} \union (IF Writer = r THEN {nextToken - 1} ELSE {})
    OBVIOUS
  <1>5. r \notin Ended
    BY DEF Ended
  <1> QED BY <1>3, <1>4, <1>5 DEF Log!End

LEMMA OwnedCallRefines ==
  ASSUME JournalInv, NEW r \in Run, NEW o \in Owner, NEW t \in Nat, OwnedCall(r, o, t)
  PROVE  Log!AbsNext
  <1>0. OneLease /\ leases \subseteq Lease
    BY DEF JournalInv, JournalTypeOK
  <1>1. ASSUME NEW k \in {"work", "approval", "result"}, NEW x \in Approval \union {Nothing},
               AppendOwned(r, k, x, o, t)
        PROVE  Log!Write
    <2> DEFINE row == NewRow(r, k, x, t)
    <2>1. log' = Append(log, row) /\ HoldsLease(r, o, t) /\ UNCHANGED <<leases, nextToken>>
      BY <1>1 DEF AppendOwned
    <2>2. row \in Row /\ row.kind # "terminal" /\ Entry(row) = [run |-> r, epoch |-> t]
      BY DEF NewRow, Row, Kind, Entry
    <2> HIDE DEF row
    <2>3. Entries' = Append(Entries, [run |-> r, epoch |-> t]) /\ Ended' = Ended
      BY <2>1, <2>2, OneMoreEntry DEF JournalInv
    <2>4. Writer = r /\ r # NoRun /\ t = nextToken - 1
      BY <2>1, HolderWrites
    <2>5. Writer' = Writer
      BY <1>0, <2>1, NextWriter
    <2>6. Writer # NoRun
      BY <2>4
    <2>7. Entries' = Append(Entries, [run |-> Writer, epoch |-> nextToken - 1])
      BY <2>3, <2>4
    <2> QED BY <2>1, <2>3, <2>5, <2>6, <2>7 DEF Log!Write
  <1>2. ASSUME NEW s \in Status, FinishOwned(r, s, o, t)
        PROVE  Log!End(r)
    <2>1. LogTerminalOnce(r, s, t) /\ DropLease(r) /\ HoldsLease(r, o, t) /\ UNCHANGED nextToken
      BY <1>2 DEF FinishOwned
    <2>2. Writer = r /\ t = nextToken - 1 /\ ~Terminal(r)
      BY <2>1, HolderWrites
    <2>3. Writer' = IF Writer = r THEN NoRun ELSE Writer
      BY <1>0, <2>1, NextWriter
    <2> QED BY <2>1, <2>2, <2>3, EndRefines
  <1>3. CASE ReleaseRunLease(r, o, t)
    <2>1. DropLease(r) /\ HoldsLease(r, o, t) /\ UNCHANGED <<log, nextToken>>
      BY <1>3 DEF ReleaseRunLease
    <2>2. Writer = r /\ r # NoRun
      BY <2>1, HolderWrites
    <2>3. Writer' = NoRun
      BY <1>0, <2>1, <2>2, NextWriter
    <2>4. Entries' = Entries /\ Ended' = Ended
      BY <2>1, SameEntries
    <2>5. Log!Yield
      BY <2>1, <2>2, <2>3, <2>4 DEF Log!Yield
    <2> QED BY <2>5 DEF Log!AbsNext
  <1> QED BY <1>1, <1>2, <1>3 DEF OwnedCall, Log!AbsNext

LEMMA UnownedCallRefines ==
  ASSUME JournalInv, NEW r \in Run, UnownedCall(r)
  PROVE  Log!AbsNext \/ UNCHANGED <<Writer, nextToken - 1, Ended, Entries>>
  <1>0. OneLease /\ leases \subseteq Lease /\ 0 \in Nat /\ "error" \in Status /\ "interrupted" \in Status
    BY DEF JournalInv, JournalTypeOK, Status
  <1>1. ASSUME NEW k \in {"work", "receipt"}, AppendUnowned(r, k, Nothing)
        PROVE  Log!AbsNext
    <2> DEFINE row == NewRow(r, k, Nothing, 0)
    <2>1. /\ log' = Append(log, row) /\ MayWriteUnowned(r)
          /\ UNCHANGED <<leases, nextToken>>
      BY <1>1 DEF AppendUnowned
    <2>2. row \in Row /\ row.kind # "terminal" /\ Entry(row) = [run |-> r, epoch |-> 0]
      BY DEF NewRow, Row, Kind, Entry
    <2> HIDE DEF row
    <2>3. Entries' = Append(Entries, [run |-> r, epoch |-> 0]) /\ Ended' = Ended
      BY <2>1, <2>2, OneMoreEntry DEF JournalInv
    <2>4. Writer # r
      BY <2>1, UnleasedIsNotWriter
    <2>5. Writer' = Writer
      BY <1>0, <2>1, NextWriter
    <2>6. Log!Remark(r)
      BY <2>1, <2>3, <2>4, <2>5 DEF Log!Remark
    <2> QED BY <2>6 DEF Log!AbsNext
  <1>2. CASE Unbegun(r) /\ TerminalOnceUnowned(r, "error")
    <2>1. /\ LogTerminalOnce(r, "error", 0) /\ MayWriteUnowned(r) /\ ~Terminal(r)
          /\ UNCHANGED <<leases, nextToken>>
      BY <1>2 DEF TerminalOnceUnowned, Unbegun
    <2>2. Writer # r
      BY <2>1, UnleasedIsNotWriter
    <2>3. Writer' = IF Writer = r THEN NoRun ELSE Writer
      BY <1>0, <2>1, <2>2, NextWriter
    <2>4. Log!End(r)
      BY <1>0, <2>1, <2>3, EndRefines
    <2> QED BY <2>4 DEF Log!AbsNext
  <1>3. CASE FinishUnowned(r, "interrupted")
    <2>1. /\ LogTerminalOnce(r, "interrupted", 0) /\ MayWriteUnowned(r)
          /\ DropLease(r) /\ UNCHANGED nextToken
      BY <1>3 DEF FinishUnowned
    <2>2. Writer' = IF Writer = r THEN NoRun ELSE Writer
      BY <1>0, <2>1, NextWriter
    <2>3. CASE Terminal(r)
      <3>1. Entries' = Entries /\ Ended' = Ended
        BY <2>1, <2>3, SameEntries DEF LogTerminalOnce
      <3>2. Writer' = Writer
        BY <2>1, <2>2, UnleasedIsNotWriter
      <3> QED BY <2>1, <3>1, <3>2
    <2>4. CASE ~Terminal(r)
      <3>1. Log!End(r)
        BY <1>0, <2>1, <2>2, <2>4, EndRefines
      <3> QED BY <3>1 DEF Log!AbsNext
    <2> QED BY <2>3, <2>4
  <1> QED BY <1>1, <1>2, <1>3 DEF UnownedCall, AppendReceipt

LEMMA RecoverRefines ==
  ASSUME JournalInv, NEW live, RecoverRunLease(live)
  PROVE  Log!AbsNext
  <1>0. OneLease /\ leases \subseteq Lease /\ 0 \in Nat /\ "interrupted" \in Status
    BY DEF JournalInv, JournalTypeOK, Status
  <1>1. PICK l \in leases : IF HasUnresolvedApproval(l.run) THEN UNCHANGED log
                            ELSE LogTerminalOnce(l.run, "interrupted", 0)
    BY DEF RecoverRunLease
  <1>2. leases' = {} /\ UNCHANGED nextToken
    BY DEF RecoverRunLease
  <1>3. l.run \in Run /\ Writer = l.run /\ Writer' = NoRun /\ ~Terminal(l.run)
    BY <1>0, <1>1, <1>2, WriterFacts, NextWriter DEF Lease, JournalInv, LeaseRunOpen
  <1>4. CASE HasUnresolvedApproval(l.run)
    <2>1. Entries' = Entries /\ Ended' = Ended
      BY <1>1, <1>4, SameEntries
    <2>2. Writer # NoRun
      BY <1>3, JournalAssumption
    <2>3. Log!Yield
      BY <1>2, <1>3, <2>1, <2>2 DEF Log!Yield
    <2> QED BY <2>3 DEF Log!AbsNext
  <1>5. CASE ~HasUnresolvedApproval(l.run)
    <2>1. LogTerminalOnce(l.run, "interrupted", 0)
      BY <1>1, <1>5
    <2>2. Log!End(l.run)
      BY <1>0, <1>2, <1>3, <2>1, EndRefines
    <2> QED BY <1>3, <2>2 DEF Log!AbsNext
  <1> QED BY <1>4, <1>5

LEMMA InitRefines == JournalInit => Log!AbsInit
  <1> SUFFICES ASSUME JournalInit PROVE Log!AbsInit
    OBVIOUS
  <1>1. log = <<>> /\ leases = {} /\ nextToken = 1
    BY DEF JournalInit
  <1>2. Writer = NoRun /\ Ended = {} /\ Entries = <<>>
    BY <1>1 DEF Writer, Ended, Terminal, Entries
  <1> QED BY <1>1, <1>2 DEF Log!AbsInit

LEMMA StepRefines ==
  JournalInv /\ [JournalNext]_journalVars
    => Log!AbsNext \/ UNCHANGED <<Writer, nextToken - 1, Ended, Entries>>
  <1> SUFFICES ASSUME JournalInv, [JournalNext]_journalVars
               PROVE  Log!AbsNext \/ UNCHANGED <<Writer, nextToken - 1, Ended, Entries>>
    OBVIOUS
  <1>1. ASSUME NEW r \in Run, NEW o \in Owner, BeginRun(r, o) \/ ResumeRun(r, o)
        PROVE  Log!AbsNext
    BY <1>1, GainRefines DEF Log!AbsNext
  <1>2. ASSUME NEW r \in Run, NEW o \in Owner, NEW t \in 1 .. nextToken, OwnedCall(r, o, t)
        PROVE  Log!AbsNext
    <2>1. t \in Nat
      BY DEF JournalInv, JournalTypeOK
    <2> QED BY <1>2, <2>1, OwnedCallRefines
  <1>3. ASSUME NEW live \in SUBSET Owner, RecoverRunLease(live)
        PROVE  Log!AbsNext
    BY <1>3, RecoverRefines
  <1>4. CASE UNCHANGED journalVars
    <2>1. Entries' = Entries /\ Ended' = Ended /\ Writer' = Writer
      BY <1>4, SameEntries DEF journalVars, Writer
    <2> QED BY <1>4, <2>1 DEF journalVars
  <1> QED BY <1>1, <1>2, <1>3, <1>4, UnownedCallRefines DEF JournalNext

\* The journal, whatever its callers do, implements the single-writer log: at
\* most one run is written at a time, in its own epoch, and an ended run never
\* gains the right to write again.
THEOREM JournalImplementsLog == JournalSpec => ImplementsSingleWriterLog
  <1>1. JournalInv /\ [JournalNext]_journalVars => [Log!AbsNext]_(Log!absVars)
    BY StepRefines DEF Log!absVars
  <1> QED
    BY InitRefines, <1>1, JournalInvariant, PTL DEF JournalSpec, ImplementsSingleWriterLog, Log!AbsSpec
=============================================================================

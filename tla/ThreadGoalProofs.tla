---------------------------- MODULE ThreadGoalProofs ----------------------------
(***************************************************************************)
(* Theorems about thread goals and their follow-ups, for any processes,    *)
(* tasks, histories, messages, edits and crashes.                          *)
(***************************************************************************)
EXTENDS ThreadGoal, FiniteSetTheorems, NaturalsInduction, WellFoundedInduction, TLAPS

------------------------------------------------------------------------------
(* Least and greatest members *)

\* A non-empty set of naturals has a least member, and Min names it.
LEMMA MinIsLeast ==
  ASSUME NEW S \in SUBSET Nat, S # {}
  PROVE  Min(S) \in S /\ \A y \in S : Min(S) <= y
  <1> DEFINE R == OpToRel(<, Nat)
  <1>1. IsWellFoundedOn(R, Nat)
    BY NatLessThanWellFounded
  <1>2. \A x, y \in Nat : <<x, y>> \in R <=> x < y
    BY DEF OpToRel
  <1> HIDE DEF R
  <1>3. PICK x \in S : \A y \in S : <<y, x>> \notin R
    BY <1>1, WFMin
  <1>4. ASSUME NEW y \in S PROVE x <= y
    <2>1. x \in Nat /\ y \in Nat
      OBVIOUS
    <2>2. ~(y < x)
      BY <1>2, <1>3, <2>1
    <2> QED BY <2>1, <2>2
  <1> QED BY <1>4 DEF Min

\* A non-empty set of positions of a list has a greatest member, and Max names it.
LEMMA MaxIsGreatest ==
  ASSUME NEW n \in Nat, NEW S \in SUBSET (1 .. n), S # {}
  PROVE  Max(S) \in S /\ \A y \in S : Max(S) >= y
  <1> DEFINE T == {n - x : x \in S}
  <1>1. T \in SUBSET Nat
    OBVIOUS
  <1>2. T # {}
    OBVIOUS
  <1> HIDE DEF T
  <1>3. Min(T) \in T /\ \A y \in T : Min(T) <= y
    BY <1>1, <1>2, MinIsLeast
  <1>4. PICK x \in S : Min(T) = n - x
    BY <1>3 DEF T
  <1>5. \A y \in S : n - y \in T
    BY DEF T
  <1>6. ASSUME NEW y \in S PROVE x >= y
    <2>1. n - x <= n - y
      BY <1>3, <1>4, <1>5
    <2>2. x \in Nat /\ y \in Nat
      OBVIOUS
    <2> QED BY <2>1, <2>2
  <1> QED BY <1>6 DEF Max

------------------------------------------------------------------------------
(* The queries of the model, of any list of rows *)

GoalRows(L)  == {i \in DOMAIN L : L[i].kind \in GoalKinds}
RevOf(L)     == IF GoalRows(L) = {} THEN 0 ELSE L[Max(GoalRows(L))].rev
CurOf(L)     == IF GoalRows(L) = {} THEN NoGoal ELSE L[Max(GoalRows(L))].goal
StartsOf(L, r)  == {i \in DOMAIN L : L[i].run = r /\ L[i].kind = "started"}
FrozenOf(L, r)  == IF StartsOf(L, r) = {} THEN NoGoal ELSE L[Min(StartsOf(L, r))].goal
EndedIn(L, r)   == \E i \in DOMAIN L : L[i].run = r /\ L[i].kind = "terminal"
DepositsOf(L)   == {L[i].rev : i \in {j \in DOMAIN L : L[j].kind = "evaluated"
                                                       /\ L[j].note = "deposit"}}

LEMMA QueriesOfLog ==
  /\ Rows(GoalKinds) = GoalRows(log)
  /\ Revision = RevOf(log)
  /\ Current = CurOf(log)
  /\ \A r : Starts(r) = StartsOf(log, r)
  /\ \A r : FrozenGoal(r) = FrozenOf(log, r)
  /\ \A r : Terminal(r) <=> EndedIn(log, r)
  /\ Deposits = DepositsOf(log)
  <1>1. Rows(GoalKinds) = GoalRows(log)
    BY DEF Rows, GoalRows
  <1>2. Revision = RevOf(log) /\ Current = CurOf(log)
    BY <1>1 DEF Revision, Current, RevOf, CurOf
  <1>3. \A r : Starts(r) = StartsOf(log, r)
    BY DEF Starts, StartsOf, OfRun, Rows
  <1>4. \A r : FrozenGoal(r) = FrozenOf(log, r)
    BY <1>3 DEF FrozenGoal, FrozenOf
  <1>5. \A r : Terminal(r) <=> EndedIn(log, r)
    BY DEF Terminal, Terminals, EndedIn, OfRun, Rows
  <1>6. Deposits = DepositsOf(log)
    BY DEF Deposits, DepositsOf, Rows
  <1> QED BY <1>1, <1>2, <1>3, <1>4, <1>5, <1>6

LEMMA AppendFacts ==
  ASSUME NEW L \in Seq(Row), NEW row \in Row
  PROVE  /\ Append(L, row) \in Seq(Row)
         /\ DOMAIN Append(L, row) = 1 .. Len(L) + 1
         /\ DOMAIN L = 1 .. Len(L)
         /\ Len(L) \in Nat
         /\ \A i \in 1 .. Len(L) : Append(L, row)[i] = L[i]
         /\ Append(L, row)[Len(L) + 1] = row
  OBVIOUS

LEMMA ListFacts ==
  ASSUME NEW L \in Seq(Row)
  PROVE  /\ DOMAIN L = 1 .. Len(L) /\ Len(L) \in Nat
         /\ \A i \in DOMAIN L : L[i] \in Row
  OBVIOUS

LEMMA GoalRowFacts ==
  ASSUME NEW L \in Seq(Row), NEW i \in GoalRows(L)
  PROVE  i \in Nat /\ L[i].rev \in Nat /\ (L[i].goal # NoGoal => L[i].goal \in Goal)
  <1>1. i \in DOMAIN L
    BY DEF GoalRows
  <1>2. i \in Nat /\ L[i] \in Row
    BY <1>1, ListFacts
  <1> QED BY <1>2 DEF Row

\* The newest goal row decides the revision and the goal.
LEMMA NewestGoalRow ==
  ASSUME NEW L \in Seq(Row), GoalRows(L) # {}
  PROVE  \E m \in GoalRows(L) :
           /\ \A i \in GoalRows(L) : i <= m
           /\ RevOf(L) = L[m].rev /\ CurOf(L) = L[m].goal
  <1>1. GoalRows(L) \in SUBSET (1 .. Len(L)) /\ Len(L) \in Nat
    BY ListFacts DEF GoalRows
  <1>2. Max(GoalRows(L)) \in GoalRows(L) /\ \A y \in GoalRows(L) : Max(GoalRows(L)) >= y
    BY <1>1, MaxIsGreatest
  <1>3. \A y \in GoalRows(L) : y <= Max(GoalRows(L))
    BY <1>1, <1>2
  <1> QED BY <1>2, <1>3 DEF RevOf, CurOf

LEMMA QueryTypes ==
  ASSUME NEW L \in Seq(Row)
  PROVE  RevOf(L) \in Nat /\ CurOf(L) \in Goal \union {NoGoal}
  <1>1. CASE GoalRows(L) = {}
    BY <1>1 DEF RevOf, CurOf
  <1>2. CASE GoalRows(L) # {}
    <2>1. PICK m \in GoalRows(L) : RevOf(L) = L[m].rev /\ CurOf(L) = L[m].goal
      BY <1>2, NewestGoalRow
    <2>2. L[m] \in Row
      BY ListFacts DEF GoalRows
    <2> QED BY <2>1, <2>2 DEF Row
  <1> QED BY <1>1, <1>2

\* A row more that is not about the goal.
LEMMA AppendOther ==
  ASSUME NEW L \in Seq(Row), NEW row \in Row, row.kind \notin GoalKinds
  PROVE  /\ GoalRows(Append(L, row)) = GoalRows(L)
         /\ RevOf(Append(L, row)) = RevOf(L) /\ CurOf(Append(L, row)) = CurOf(L)
  <1>1. GoalRows(Append(L, row)) = GoalRows(L)
    BY AppendFacts DEF GoalRows
  <1>2. CASE GoalRows(L) = {}
    BY <1>1, <1>2 DEF RevOf, CurOf
  <1>3. CASE GoalRows(L) # {}
    <2>1. GoalRows(L) \in SUBSET (1 .. Len(L)) /\ Len(L) \in Nat
      BY ListFacts DEF GoalRows
    <2>2. Max(GoalRows(L)) \in 1 .. Len(L)
      BY <1>3, <2>1, MaxIsGreatest
    <2>3. Append(L, row)[Max(GoalRows(L))] = L[Max(GoalRows(L))]
      BY <2>2, AppendFacts
    <2> QED BY <1>1, <2>3 DEF RevOf, CurOf
  <1> QED BY <1>1, <1>2, <1>3

\* A row more about the goal.
LEMMA AppendGoalRow ==
  ASSUME NEW L \in Seq(Row), NEW row \in Row, row.kind \in GoalKinds
  PROVE  /\ GoalRows(Append(L, row)) = GoalRows(L) \union {Len(L) + 1}
         /\ RevOf(Append(L, row)) = row.rev /\ CurOf(Append(L, row)) = row.goal
  <1> DEFINE M == Append(L, row)
  <1>1. GoalRows(M) = GoalRows(L) \union {Len(L) + 1}
    BY AppendFacts DEF GoalRows
  <1>2. M \in Seq(Row) /\ Len(L) \in Nat
    BY AppendFacts
  <1>3. GoalRows(M) # {}
    BY <1>1
  <1>4. PICK m \in GoalRows(M) : /\ \A i \in GoalRows(M) : i <= m
                                 /\ RevOf(M) = M[m].rev /\ CurOf(M) = M[m].goal
    BY <1>2, <1>3, NewestGoalRow
  <1>5. m \in 1 .. Len(L) + 1 /\ Len(L) + 1 <= m
    BY <1>1, <1>4, AppendFacts DEF GoalRows
  <1>6. m = Len(L) + 1
    BY <1>2, <1>5
  <1>7. M[m] = row
    BY <1>6, AppendFacts
  <1> QED BY <1>1, <1>4, <1>7

\* What a run has frozen stays frozen.
LEMMA AppendKeepsFrozen ==
  ASSUME NEW L \in Seq(Row), NEW row \in Row, NEW r,
         row.kind # "started" \/ row.run # r \/ StartsOf(L, r) # {}
  PROVE  FrozenOf(Append(L, row), r) = FrozenOf(L, r)
  <1> DEFINE M == Append(L, row)
  <1>1. CASE StartsOf(L, r) = {}
    <2>1. StartsOf(M, r) = {}
      BY <1>1, AppendFacts DEF StartsOf
    <2> QED BY <1>1, <2>1 DEF FrozenOf
  <1>2. CASE StartsOf(L, r) # {}
    <2>1. StartsOf(L, r) \in SUBSET Nat /\ StartsOf(L, r) \subseteq 1 .. Len(L)
      BY ListFacts DEF StartsOf
    <2>2. Min(StartsOf(L, r)) \in StartsOf(L, r)
          /\ \A y \in StartsOf(L, r) : Min(StartsOf(L, r)) <= y
      BY <1>2, <2>1, MinIsLeast
    <2>3. StartsOf(M, r) \in SUBSET Nat /\ StartsOf(L, r) \subseteq StartsOf(M, r)
          /\ StartsOf(M, r) \subseteq StartsOf(L, r) \union {Len(L) + 1}
      BY AppendFacts DEF StartsOf
    <2>4. StartsOf(M, r) # {}
      BY <1>2, <2>3
    <2>5. Min(StartsOf(M, r)) \in StartsOf(M, r)
          /\ \A y \in StartsOf(M, r) : Min(StartsOf(M, r)) <= y
      BY <2>3, <2>4, MinIsLeast
    <2>6. Min(StartsOf(L, r)) \in 1 .. Len(L) /\ Len(L) \in Nat
      BY <2>1, <2>2, ListFacts
    <2>7. Min(StartsOf(M, r)) = Min(StartsOf(L, r))
      BY <2>2, <2>3, <2>5, <2>6
    <2>8. M[Min(StartsOf(L, r))] = L[Min(StartsOf(L, r))]
      BY <2>6, AppendFacts
    <2> QED BY <1>2, <2>4, <2>7, <2>8 DEF FrozenOf
  <1> QED BY <1>1, <1>2

------------------------------------------------------------------------------
(* What holds of the rows.  An evaluation goes by its run, whose frozen       *)
(* revision it follows, so that the ascent of the revisions makes it the only *)
(* one; a reservation and the start of a follow-up go by the revision of the  *)
(* evaluation that made them; and each reservation has counted one follow-up  *)
(* more than every goal row before it since the same change of the user's.    *)

HasGoal(L, i)  == i \in GoalRows(L) /\ L[i].goal # NoGoal
IsEval(L, i)   == i \in DOMAIN L /\ L[i].kind = "evaluated"
IsSched(L, i)  == i \in DOMAIN L /\ L[i].kind = "scheduled"
IsFollow(L, i) == i \in DOMAIN L /\ L[i].kind = "started" /\ ~IsMessage(L[i].run)

GoalsAgree(L) ==
  \A i \in GoalRows(L) : HasGoal(L, i) =>
    /\ L[i].goal.rev = L[i].rev /\ L[i].goal.edit <= L[i].rev
    /\ L[i].goal.used <= L[i].goal.max

Ascending(L) == \A i, j \in GoalRows(L) : i < j => L[i].rev < L[j].rev

Chained(L) ==
  \A i, j \in GoalRows(L) :
    (i < j /\ \A k \in i + 1 .. j - 1 : k \notin GoalRows(L)) =>
      /\ L[j].rev = L[i].rev + 1
      /\ L[j].kind = "evaluated" =>
           /\ L[i].goal # NoGoal
           /\ L[j].goal.edit = L[i].goal.edit /\ L[j].goal.mode = L[i].goal.mode

SameEdit(L, i, j) == HasGoal(L, i) /\ HasGoal(L, j) /\ L[i].goal.edit = L[j].goal.edit

Counted(L) ==
  \A i, j \in GoalRows(L) : SameEdit(L, i, j) =>
    /\ L[i].goal.max = L[j].goal.max
    /\ i < j => L[i].goal.used <= L[j].goal.used

EvalsOfFrozen(L) ==
  \A i \in DOMAIN L : IsEval(L, i) =>
    /\ FrozenOf(L, L[i].run) # NoGoal
    /\ L[i].rev = FrozenOf(L, L[i].run).rev + 1

\* The evaluation j is the one that made the reservation for its revision.
MadeBy(L, j) ==
  /\ IsEval(L, j) /\ HasGoal(L, j) /\ L[j].goal.used >= 1
  /\ \A i \in GoalRows(L) : i < j /\ SameEdit(L, i, j) => L[i].goal.used < L[j].goal.used

SchedsMade(L) ==
  \A k \in DOMAIN L : IsSched(L, k) =>
    \E j \in DOMAIN L : L[j].rev = L[k].rev /\ MadeBy(L, j)

FollowsMade(L) ==
  \A i \in DOMAIN L : IsFollow(L, i) =>
    /\ L[i].run = FollowupRun(L[i].rev)
    /\ \E j \in DOMAIN L : j < i /\ L[j].rev = L[i].rev /\ L[j].goal = L[i].goal /\ MadeBy(L, j)

FollowedOnce(L) ==
  \A i, j \in DOMAIN L : IsFollow(L, i) /\ IsFollow(L, j) /\ L[i].run = L[j].run => i = j

LogInv(L) ==
  /\ L \in Seq(Row)
  /\ GoalsAgree(L) /\ Ascending(L) /\ Chained(L) /\ Counted(L)
  /\ EvalsOfFrozen(L) /\ SchedsMade(L) /\ FollowsMade(L) /\ FollowedOnce(L)

LEMMA NewestIsGreatest ==
  ASSUME NEW L, LogInv(L)
  PROVE  /\ \A i \in GoalRows(L) : L[i].rev <= RevOf(L)
         /\ \A i \in GoalRows(L) : L[i].rev = RevOf(L) => L[i].goal = CurOf(L)
         /\ CurOf(L) # NoGoal => CurOf(L).rev = RevOf(L)
  <1>1. CASE GoalRows(L) = {}
    BY <1>1 DEF CurOf
  <1>2. CASE GoalRows(L) # {}
    <2>1. PICK m \in GoalRows(L) : /\ \A i \in GoalRows(L) : i <= m
                                   /\ RevOf(L) = L[m].rev /\ CurOf(L) = L[m].goal
      BY <1>2, NewestGoalRow DEF LogInv
    <2>2. m \in Nat /\ L[m].rev \in Nat
      <3>1. L \in Seq(Row) /\ m \in DOMAIN L
        BY DEF LogInv, GoalRows
      <3>2. m \in Nat /\ L[m] \in Row
        BY <3>1, ListFacts
      <3> QED BY <3>2 DEF Row
    <2>3. ASSUME NEW i \in GoalRows(L) PROVE i = m \/ L[i].rev < L[m].rev
      <3>1. i \in Nat /\ i <= m
        BY <2>1, ListFacts DEF LogInv, GoalRows
      <3> QED BY <2>2, <3>1 DEF LogInv, Ascending
    <2>4. \A i \in GoalRows(L) : L[i].rev \in Nat
      BY ListFacts DEF LogInv, GoalRows, Row
    <2> QED BY <2>1, <2>2, <2>3, <2>4 DEF LogInv, GoalsAgree, HasGoal
  <1> QED BY <1>1, <1>2

\* What the goal rows of a longer list have in common with those of the list.
LEMMA AppendKeepsMadeBy ==
  ASSUME NEW L \in Seq(Row), NEW row \in Row, NEW j \in DOMAIN L, MadeBy(L, j)
  PROVE  MadeBy(Append(L, row), j)
  <1> DEFINE M == Append(L, row)
  <1>1. j \in DOMAIN M /\ M[j] = L[j] /\ j \in Nat
    BY AppendFacts
  <1>2. ASSUME NEW i \in GoalRows(M), i < j PROVE i \in GoalRows(L) /\ M[i] = L[i]
    BY <1>2, AppendFacts DEF GoalRows
  <1> QED BY <1>1, <1>2 DEF MadeBy, IsEval, HasGoal, SameEdit, GoalRows

\* The invariant of the rows when one is added that is not about the goal.
LEMMA AppendOtherInv ==
  ASSUME NEW L, LogInv(L), NEW row \in Row, row.kind \notin GoalKinds,
         row.kind = "scheduled" => \E j \in DOMAIN L : L[j].rev = row.rev /\ MadeBy(L, j),
         row.kind = "started" /\ ~IsMessage(row.run) =>
           /\ row.run = FollowupRun(row.rev)
           /\ \E j \in DOMAIN L : L[j].rev = row.rev /\ L[j].goal = row.goal /\ MadeBy(L, j)
           /\ StartsOf(L, row.run) = {}
  PROVE  LogInv(Append(L, row))
  <1> DEFINE M == Append(L, row)
             n == Len(L)
  <1>0. L \in Seq(Row)
    BY DEF LogInv
  <1>1. /\ M \in Seq(Row) /\ n \in Nat /\ DOMAIN L = 1 .. n /\ DOMAIN M = 1 .. n + 1
        /\ \A i \in 1 .. n : M[i] = L[i]
        /\ M[n + 1] = row
    BY <1>0, AppendFacts
  <1>2. GoalRows(M) = GoalRows(L) /\ \A i \in GoalRows(L) : M[i] = L[i]
    BY <1>0, <1>1, AppendOther DEF GoalRows
  <1> HIDE DEF M
  <1>3. GoalsAgree(M) /\ Ascending(M) /\ Chained(M) /\ Counted(M)
    BY <1>2 DEF LogInv, GoalsAgree, Ascending, Chained, Counted, SameEdit, HasGoal
  <1>4. EvalsOfFrozen(M)
    <2> SUFFICES ASSUME NEW i \in DOMAIN M, IsEval(M, i)
                 PROVE  /\ FrozenOf(M, M[i].run) # NoGoal
                        /\ M[i].rev = FrozenOf(M, M[i].run).rev + 1
      BY DEF EvalsOfFrozen
    <2>1. i \in DOMAIN L /\ M[i] = L[i] /\ IsEval(L, i)
      BY <1>1 DEF IsEval, GoalKinds
    <2>2. FrozenOf(L, L[i].run) # NoGoal /\ L[i].rev = FrozenOf(L, L[i].run).rev + 1
      BY <2>1 DEF LogInv, EvalsOfFrozen
    <2>3. StartsOf(L, L[i].run) # {}
      BY <2>2 DEF FrozenOf
    <2>4. FrozenOf(M, L[i].run) = FrozenOf(L, L[i].run)
      BY <1>0, <2>3, AppendKeepsFrozen DEF M
    <2> QED BY <2>1, <2>2, <2>4
  <1>5. \A j \in DOMAIN L : MadeBy(L, j) => MadeBy(M, j)
    BY <1>0, AppendKeepsMadeBy DEF M
  <1>6. SchedsMade(M)
    <2> SUFFICES ASSUME NEW k \in DOMAIN M, IsSched(M, k)
                 PROVE  \E j \in DOMAIN M : M[j].rev = M[k].rev /\ MadeBy(M, j)
      BY DEF SchedsMade
    <2>1. \E j \in DOMAIN L : L[j].rev = M[k].rev /\ MadeBy(L, j)
      BY <1>1 DEF LogInv, SchedsMade, IsSched
    <2> QED BY <1>1, <1>5, <2>1
  <1>7. FollowsMade(M)
    <2> SUFFICES ASSUME NEW i \in DOMAIN M, IsFollow(M, i)
                 PROVE  /\ M[i].run = FollowupRun(M[i].rev)
                        /\ \E j \in DOMAIN M : /\ j < i /\ M[j].rev = M[i].rev
                                               /\ M[j].goal = M[i].goal /\ MadeBy(M, j)
      BY DEF FollowsMade
    <2>1. /\ M[i].run = FollowupRun(M[i].rev)
          /\ \E j \in DOMAIN L : /\ j < i /\ L[j].rev = M[i].rev
                                 /\ L[j].goal = M[i].goal /\ MadeBy(L, j)
      <3>1. CASE i \in 1 .. n
        BY <1>1, <3>1 DEF LogInv, FollowsMade, IsFollow
      <3>2. CASE i = n + 1
        <4>1. M[i] = row /\ row.kind = "started" /\ ~IsMessage(row.run)
          BY <1>1, <3>2 DEF IsFollow
        <4>2. \A j \in DOMAIN L : j < i
          BY <1>1, <3>2
        <4> QED BY <4>1, <4>2
      <3> QED BY <1>1, <3>1, <3>2
    <2> QED BY <1>1, <1>5, <2>1
  <1>8. FollowedOnce(M)
    <2> SUFFICES ASSUME NEW i \in DOMAIN M, NEW j \in DOMAIN M, IsFollow(M, i), IsFollow(M, j),
                        M[i].run = M[j].run
                 PROVE  i = j
      BY DEF FollowedOnce
    <2>1. \A k \in 1 .. n : IsFollow(M, k) => IsFollow(L, k) /\ k \in StartsOf(L, M[k].run)
      BY <1>1 DEF IsFollow, StartsOf
    <2>2. CASE i \in 1 .. n /\ j \in 1 .. n
      BY <1>1, <2>1, <2>2 DEF LogInv, FollowedOnce
    <2>3. \A k \in DOMAIN M : k = n + 1 /\ IsFollow(M, k) => StartsOf(L, M[k].run) = {}
      BY <1>1 DEF IsFollow
    <2> QED BY <1>1, <2>1, <2>2, <2>3
  <1> QED BY <1>1, <1>3, <1>4, <1>6, <1>7, <1>8 DEF LogInv, M

\* A row that may follow L as the newest about the goal.
GoodGoalRow(L, row) ==
  /\ row \in Row /\ row.kind \in GoalKinds
  /\ row.rev = RevOf(L) + 1
  /\ row.goal # NoGoal =>
       /\ row.goal.rev = row.rev /\ row.goal.used <= row.goal.max
       /\ \/ row.goal.edit = row.rev
          \/ /\ CurOf(L) # NoGoal
             /\ row.goal.edit = CurOf(L).edit /\ row.goal.max = CurOf(L).max
             /\ CurOf(L).used <= row.goal.used
  /\ row.kind = "evaluated" =>
       /\ CurOf(L) # NoGoal
       /\ row.goal.edit = CurOf(L).edit /\ row.goal.mode = CurOf(L).mode
       /\ FrozenOf(L, row.run) # NoGoal
       /\ row.rev = FrozenOf(L, row.run).rev + 1

LEMMA AppendGoalRowInv ==
  ASSUME NEW L, LogInv(L), NEW row, GoodGoalRow(L, row)
  PROVE  LogInv(Append(L, row))
  <1> DEFINE M == Append(L, row)
             n == Len(L)
  <1>0. L \in Seq(Row) /\ row \in Row /\ row.kind \in GoalKinds
    BY DEF LogInv, GoodGoalRow
  <1>1. /\ M \in Seq(Row) /\ n \in Nat /\ DOMAIN L = 1 .. n /\ DOMAIN M = 1 .. n + 1
        /\ \A i \in 1 .. n : M[i] = L[i]
        /\ M[n + 1] = row
    BY <1>0, AppendFacts
  <1>2. GoalRows(M) = GoalRows(L) \union {n + 1}
    BY <1>0, AppendGoalRow
  <1>3. GoalRows(L) \subseteq 1 .. n /\ \A i \in GoalRows(L) : M[i] = L[i]
    BY <1>1 DEF GoalRows
  <1>5. \A i \in GoalRows(L) : L[i].rev \in Nat /\ L[i].rev < row.rev
    <2>1. \A i \in GoalRows(L) : L[i].rev \in Nat /\ L[i].rev <= RevOf(L)
      BY <1>0, NewestIsGreatest, ListFacts DEF GoalRows, Row
    <2> QED BY <1>0, <2>1, QueryTypes DEF GoodGoalRow
  <1>6. \A i \in DOMAIN L : L[i] \in Row
    BY <1>0, ListFacts
  <1> HIDE DEF M, n
  <1>7. GoalsAgree(M)
    <2> SUFFICES ASSUME NEW i \in GoalRows(M), HasGoal(M, i)
                 PROVE  /\ M[i].goal.rev = M[i].rev /\ M[i].goal.edit <= M[i].rev
                        /\ M[i].goal.used <= M[i].goal.max
      BY DEF GoalsAgree
    <2>1. CASE i \in GoalRows(L)
      BY <1>3, <2>1 DEF LogInv, GoalsAgree, HasGoal
    <2>2. CASE i = n + 1
      <3>1. M[i] = row /\ row.goal # NoGoal
        BY <1>1, <2>2 DEF HasGoal
      <3>2. row.goal.edit <= row.rev
        <4>1. row.rev \in Nat
          BY <1>0 DEF Row
        <4>2. CASE row.goal.edit = row.rev
          BY <4>1, <4>2
        <4>3. CASE CurOf(L) # NoGoal /\ row.goal.edit = CurOf(L).edit
          <5>1. GoalRows(L) # {}
            BY <4>3 DEF CurOf
          <5>2. PICK m \in GoalRows(L) : CurOf(L) = L[m].goal
            BY <1>0, <5>1, NewestGoalRow
          <5>3. CurOf(L).edit <= L[m].rev /\ CurOf(L).edit \in Nat
            BY <1>0, <4>3, <5>2, QueryTypes DEF LogInv, GoalsAgree, HasGoal, Goal
          <5> QED BY <1>5, <4>1, <4>3, <5>3
        <4> QED BY <3>1, <4>2, <4>3 DEF GoodGoalRow
      <3> QED BY <3>1, <3>2 DEF GoodGoalRow
    <2> QED BY <1>2, <2>1, <2>2
  <1>8. Ascending(M)
    <2> SUFFICES ASSUME NEW i \in GoalRows(M), NEW j \in GoalRows(M), i < j
                 PROVE  M[i].rev < M[j].rev
      BY DEF Ascending
    <2>1. i \in GoalRows(L)
      BY <1>1, <1>2, <1>3
    <2>2. CASE j \in GoalRows(L)
      BY <1>3, <2>1, <2>2 DEF LogInv, Ascending
    <2>3. CASE j = n + 1
      BY <1>1, <1>3, <1>5, <2>1, <2>3
    <2> QED BY <1>2, <2>2, <2>3
  <1>9. Chained(M)
    <2> SUFFICES ASSUME NEW i \in GoalRows(M), NEW j \in GoalRows(M), i < j,
                        \A k \in i + 1 .. j - 1 : k \notin GoalRows(M)
                 PROVE  /\ M[j].rev = M[i].rev + 1
                        /\ M[j].kind = "evaluated" =>
                             /\ M[i].goal # NoGoal
                             /\ M[j].goal.edit = M[i].goal.edit
                             /\ M[j].goal.mode = M[i].goal.mode
      BY DEF Chained
    <2>1. i \in GoalRows(L)
      BY <1>1, <1>2, <1>3
    <2>2. CASE j \in GoalRows(L)
      BY <1>2, <1>3, <2>1, <2>2 DEF LogInv, Chained
    <2>3. CASE j = n + 1
      <3>1. PICK m \in GoalRows(L) : /\ \A k \in GoalRows(L) : k <= m
                                     /\ RevOf(L) = L[m].rev /\ CurOf(L) = L[m].goal
        BY <1>0, <2>1, NewestGoalRow
      <3>2. m \in GoalRows(M) /\ m \in Nat /\ i \in Nat /\ i <= m /\ m < j
        BY <1>1, <1>2, <1>3, <2>1, <2>3, <3>1
      <3>3. i = m
        BY <1>1, <2>3, <3>2
      <3>4. M[j] = row /\ M[i] = L[m]
        BY <1>1, <1>3, <2>3, <3>3
      <3> QED BY <3>1, <3>4 DEF GoodGoalRow
    <2> QED BY <1>2, <2>2, <2>3
  <1>10. ASSUME NEW i \in GoalRows(L), SameEdit(M, i, n + 1)
         PROVE  /\ L[i].goal.max = row.goal.max
                /\ L[i].goal.used <= row.goal.used
    <2>1. /\ L[i].goal # NoGoal /\ row.goal # NoGoal /\ L[i].goal.edit = row.goal.edit
          /\ L[i].goal \in Goal /\ row.goal \in Goal
      BY <1>0, <1>1, <1>3, <1>6, <1>10 DEF SameEdit, HasGoal, GoalRows, Row
    <2>2. L[i].goal.edit <= L[i].rev /\ L[i].goal.edit \in Nat /\ L[i].rev < row.rev
          /\ L[i].rev \in Nat /\ row.rev \in Nat
      BY <1>0, <1>5, <2>1 DEF LogInv, GoalsAgree, HasGoal, Goal, Row
    <2>3. row.goal.edit # row.rev
      BY <2>1, <2>2
    <2>4. CurOf(L) # NoGoal /\ row.goal.edit = CurOf(L).edit /\ row.goal.max = CurOf(L).max
          /\ CurOf(L).used <= row.goal.used
      BY <2>1, <2>3 DEF GoodGoalRow
    <2>5. PICK m \in GoalRows(L) : (\A k \in GoalRows(L) : k <= m) /\ CurOf(L) = L[m].goal
      BY <1>0, NewestGoalRow
    <2>6. SameEdit(L, i, m) /\ i \in Nat /\ m \in Nat /\ i <= m
      BY <1>1, <1>3, <2>1, <2>4, <2>5 DEF SameEdit, HasGoal
    <2>7. L[i].goal.max = L[m].goal.max /\ (i < m => L[i].goal.used <= L[m].goal.used)
      BY <2>6 DEF LogInv, Counted
    <2>8. L[m].goal.used \in Nat /\ L[i].goal.used \in Nat /\ row.goal.used \in Nat
      BY <1>0, <2>1, <2>4, <2>5, QueryTypes DEF Goal
    <2>9. L[i].goal.used <= L[m].goal.used
      BY <2>6, <2>7, <2>8
    <2> QED BY <2>4, <2>5, <2>7, <2>8, <2>9
  <1>11. Counted(M)
    <2> SUFFICES ASSUME NEW i \in GoalRows(M), NEW j \in GoalRows(M), SameEdit(M, i, j)
                 PROVE  /\ M[i].goal.max = M[j].goal.max
                        /\ i < j => M[i].goal.used <= M[j].goal.used
      BY DEF Counted
    <2>1. CASE i \in GoalRows(L) /\ j \in GoalRows(L)
      <3>1. SameEdit(L, i, j)
        BY <1>3, <2>1 DEF SameEdit, HasGoal
      <3> QED BY <1>3, <2>1, <3>1 DEF LogInv, Counted
    <2>2. CASE i \in GoalRows(L) /\ j = n + 1
      BY <1>1, <1>3, <1>10, <2>2
    <2>3. CASE i = n + 1 /\ j \in GoalRows(L)
      <3>1. SameEdit(M, j, n + 1) /\ ~(i < j)
        BY <1>1, <1>3, <2>3 DEF SameEdit
      <3> QED BY <1>1, <1>3, <1>10, <2>3, <3>1
    <2>4. CASE i = n + 1 /\ j = n + 1
      BY <1>1, <2>4
    <2> QED BY <1>2, <2>1, <2>2, <2>3, <2>4
  <1>12. EvalsOfFrozen(M)
    <2> SUFFICES ASSUME NEW i \in DOMAIN M, IsEval(M, i)
                 PROVE  /\ FrozenOf(M, M[i].run) # NoGoal
                        /\ M[i].rev = FrozenOf(M, M[i].run).rev + 1
      BY DEF EvalsOfFrozen
    <2>1. /\ FrozenOf(L, M[i].run) # NoGoal
          /\ M[i].rev = FrozenOf(L, M[i].run).rev + 1
      <3>1. CASE i \in 1 .. n
        BY <1>1, <3>1 DEF LogInv, EvalsOfFrozen, IsEval
      <3>2. CASE i = n + 1
        BY <1>1, <3>2 DEF GoodGoalRow, IsEval
      <3> QED BY <1>1, <3>1, <3>2
    <2>2. FrozenOf(M, M[i].run) = FrozenOf(L, M[i].run)
      BY <1>0, AppendKeepsFrozen DEF M, GoalKinds
    <2> QED BY <2>1, <2>2
  <1>13. \A j \in DOMAIN L : MadeBy(L, j) => MadeBy(M, j)
    BY <1>0, AppendKeepsMadeBy DEF M
  <1>14. \A k \in DOMAIN M : IsSched(M, k) => k \in DOMAIN L /\ IsSched(L, k) /\ M[k] = L[k]
    BY <1>0, <1>1 DEF IsSched, GoalKinds
  <1>15. SchedsMade(M)
    <2> SUFFICES ASSUME NEW k \in DOMAIN M, IsSched(M, k)
                 PROVE  \E j \in DOMAIN M : M[j].rev = M[k].rev /\ MadeBy(M, j)
      BY DEF SchedsMade
    <2>1. PICK j \in DOMAIN L : L[j].rev = M[k].rev /\ MadeBy(L, j)
      BY <1>14 DEF LogInv, SchedsMade
    <2> QED BY <1>1, <1>13, <2>1
  <1>16. \A k \in DOMAIN M : IsFollow(M, k) => k \in DOMAIN L /\ IsFollow(L, k) /\ M[k] = L[k]
    BY <1>0, <1>1 DEF IsFollow, GoalKinds
  <1>17. FollowsMade(M)
    <2> SUFFICES ASSUME NEW i \in DOMAIN M, IsFollow(M, i)
                 PROVE  /\ M[i].run = FollowupRun(M[i].rev)
                        /\ \E j \in DOMAIN M : /\ j < i /\ M[j].rev = M[i].rev
                                               /\ M[j].goal = M[i].goal /\ MadeBy(M, j)
      BY DEF FollowsMade
    <2>1. M[i].run = FollowupRun(M[i].rev)
      BY <1>16 DEF LogInv, FollowsMade
    <2>2. PICK j \in DOMAIN L : /\ j < i /\ L[j].rev = M[i].rev
                                /\ L[j].goal = M[i].goal /\ MadeBy(L, j)
      BY <1>16 DEF LogInv, FollowsMade
    <2> QED BY <1>1, <1>13, <2>1, <2>2
  <1>18. FollowedOnce(M)
    BY <1>16 DEF LogInv, FollowedOnce
  <1> QED BY <1>1, <1>7, <1>8, <1>9, <1>11, <1>12, <1>15, <1>17, <1>18 DEF LogInv, M

\* An evaluation that has counted one follow-up more may be given its reservation.
LEMMA CountedMayReserve ==
  ASSUME NEW L, LogInv(L), NEW row, GoodGoalRow(L, row), row.kind = "evaluated",
         row.goal # NoGoal, row.goal.used = CurOf(L).used + 1
  PROVE  MadeBy(Append(L, row), Len(L) + 1)
  <1> DEFINE M == Append(L, row)
             n == Len(L)
  <1>0. L \in Seq(Row) /\ row \in Row /\ row.kind \in GoalKinds
    BY DEF LogInv, GoodGoalRow
  <1>1. /\ M \in Seq(Row) /\ n \in Nat /\ DOMAIN L = 1 .. n /\ DOMAIN M = 1 .. n + 1
        /\ \A i \in 1 .. n : M[i] = L[i]
        /\ M[n + 1] = row
    BY <1>0, AppendFacts
  <1>2. GoalRows(M) = GoalRows(L) \union {n + 1} /\ GoalRows(L) \subseteq 1 .. n
    BY <1>0, <1>1, AppendGoalRow DEF GoalRows
  <1>3. CurOf(L) # NoGoal /\ CurOf(L) \in Goal /\ row.goal.edit = CurOf(L).edit
    BY <1>0, QueryTypes DEF GoodGoalRow
  <1>4. PICK m \in GoalRows(L) : (\A k \in GoalRows(L) : k <= m) /\ CurOf(L) = L[m].goal
    <2>1. GoalRows(L) # {}
      BY <1>3 DEF CurOf
    <2> QED BY <1>0, <2>1, NewestGoalRow
  <1> HIDE DEF M, n
  <1>5. ASSUME NEW i \in GoalRows(M), i < n + 1, SameEdit(M, i, n + 1)
        PROVE  M[i].goal.used < row.goal.used
    <2>1. i \in GoalRows(L) /\ M[i] = L[i] /\ i \in Nat /\ m \in Nat /\ i <= m
      BY <1>1, <1>2, <1>4, <1>5
    <2>2. SameEdit(L, i, m)
      BY <1>1, <1>3, <1>4, <1>5, <2>1 DEF SameEdit, HasGoal
    <2>3. i < m => L[i].goal.used <= L[m].goal.used
      BY <2>1, <2>2 DEF LogInv, Counted
    <2>4. L[i].goal \in Goal /\ L[m].goal \in Goal
      BY <1>0, <2>2, ListFacts DEF SameEdit, HasGoal, GoalRows, Row
    <2>5. L[i].goal.used \in Nat /\ L[m].goal.used \in Nat
      BY <2>4 DEF Goal
    <2> QED BY <1>4, <2>1, <2>3, <2>5
  <1>6. row.goal.used >= 1
    BY <1>3 DEF Goal
  <1> QED BY <1>1, <1>2, <1>5, <1>6 DEF MadeBy, IsEval, HasGoal, M, n

------------------------------------------------------------------------------
(* What a longer list keeps *)

Grows(L, M) ==
  /\ RevOf(L) <= RevOf(M)
  /\ RevOf(L) = RevOf(M) => CurOf(L) = CurOf(M)
  /\ \A r : FrozenOf(L, r) # NoGoal => FrozenOf(M, r) = FrozenOf(L, r)
  /\ DepositsOf(L) \subseteq DepositsOf(M)

LEMMA AppendKeepsDeposits ==
  ASSUME NEW L \in Seq(Row), NEW row \in Row
  PROVE  /\ DepositsOf(L) \subseteq DepositsOf(Append(L, row))
         /\ DepositsOf(Append(L, row)) \subseteq DepositsOf(L) \union {row.rev}
         /\ row.kind # "evaluated" => DepositsOf(Append(L, row)) = DepositsOf(L)
  <1> DEFINE M == Append(L, row)
  <1>1. ASSUME NEW d \in DepositsOf(L) PROVE d \in DepositsOf(M)
    <2>1. PICK i \in DOMAIN L : L[i].kind = "evaluated" /\ L[i].note = "deposit" /\ L[i].rev = d
      BY DEF DepositsOf
    <2>2. i \in DOMAIN M /\ M[i] = L[i]
      BY AppendFacts
    <2> QED BY <2>1, <2>2 DEF DepositsOf
  <1>2. ASSUME NEW d \in DepositsOf(M) PROVE d \in DepositsOf(L) \/ (d = row.rev /\ row.kind = "evaluated")
    <2>1. PICK i \in DOMAIN M : M[i].kind = "evaluated" /\ M[i].note = "deposit" /\ M[i].rev = d
      BY DEF DepositsOf
    <2>2. (i \in DOMAIN L /\ M[i] = L[i]) \/ M[i] = row
      BY AppendFacts
    <2> QED BY <2>1, <2>2 DEF DepositsOf
  <1> QED BY <1>1, <1>2

LEMMA AppendGrows ==
  ASSUME NEW L \in Seq(Row), NEW row \in Row,
         row.kind \in GoalKinds => row.rev = RevOf(L) + 1
  PROVE  Grows(L, Append(L, row))
  <1>1. ASSUME NEW r, FrozenOf(L, r) # NoGoal
        PROVE  FrozenOf(Append(L, row), r) = FrozenOf(L, r)
    <2>1. StartsOf(L, r) # {}
      BY <1>1 DEF FrozenOf
    <2> QED BY <2>1, AppendKeepsFrozen
  <1>2. RevOf(L) \in Nat
    BY QueryTypes
  <1>3. CASE row.kind \in GoalKinds
    BY <1>1, <1>2, <1>3, AppendGoalRow, AppendKeepsDeposits DEF Grows
  <1>4. CASE row.kind \notin GoalKinds
    BY <1>1, <1>2, <1>4, AppendOther, AppendKeepsDeposits DEF Grows
  <1> QED BY <1>3, <1>4

LEMMA GrowsComposes ==
  ASSUME NEW L \in Seq(Row), NEW M \in Seq(Row), NEW N \in Seq(Row), Grows(L, M), Grows(M, N)
  PROVE  Grows(L, N)
  <1>1. RevOf(L) \in Nat /\ RevOf(M) \in Nat /\ RevOf(N) \in Nat
    BY QueryTypes
  <1> QED BY <1>1 DEF Grows

LEMMA GrowsReflexive ==
  ASSUME NEW L \in Seq(Row)
  PROVE  Grows(L, L)
  BY QueryTypes DEF Grows

------------------------------------------------------------------------------
(* The inductive invariant: what the rows are, and what the lease, a message   *)
(* being received and a task know of them.  What was read of the goal may be   *)
(* old, but then the revision has moved on; as long as it has not, the goal    *)
(* read is the goal.                                                           *)

StartedOK(L, leased) ==
  \A i \in DOMAIN L : L[i].kind = "started" =>
    L[i].run # NoRun /\ (EndedIn(L, L[i].run) \/ L[i].run = leased)

RunsOK(L, l) ==
  l # NoLease => \E i \in StartsOf(L, l.run) : L[i].rev = RevOf(L) /\ L[i].goal = CurOf(L)

InboxOK(L, m) ==
  m.at = "begin" =>
    /\ IsMessage(m.run) /\ m.rev <= RevOf(L)
    /\ m.rev = RevOf(L) => m.goal = CurOf(L)

TaskOK(L, evidence, t) ==
  /\ t.at = "write" =>
       /\ t.goal # NoGoal /\ FrozenOf(L, t.source) # NoGoal
       /\ t.goal.rev = FrozenOf(L, t.source).rev /\ t.goal.rev <= RevOf(L)
       /\ t.goal.rev = RevOf(L) => t.goal = CurOf(L)
  /\ t.at \in {"record", "receipt"} => t.todo # {} /\ t.todo \subseteq DepositsOf(L)
  /\ t.at = "receipt" => Min(t.todo) \in evidence

GoalInv ==
  /\ TypeOK
  /\ LogInv(log)
  /\ StartedOK(log, lease.run) /\ RunsOK(log, lease)
  /\ \A p \in Proc : InboxOK(log, inbox[p])
  /\ \A s \in Slot : TaskOK(log, ledger, tasks[s])
  /\ receipts \subseteq ledger /\ ledger \subseteq DepositsOf(log)

LEMMA GrowsKeepsInbox ==
  ASSUME NEW L \in Seq(Row), NEW M \in Seq(Row), Grows(L, M), NEW m \in Message, InboxOK(L, m)
  PROVE  InboxOK(M, m)
  <1>1. RevOf(L) \in Nat /\ RevOf(M) \in Nat /\ m.rev \in Nat
    BY QueryTypes DEF Message
  <1> QED BY <1>1 DEF Grows, InboxOK

LEMMA GrowsKeepsTask ==
  ASSUME NEW L \in Seq(Row), NEW M \in Seq(Row), Grows(L, M), NEW t \in Task,
         NEW D, NEW E, D \subseteq E, TaskOK(L, D, t)
  PROVE  TaskOK(M, E, t)
  <1>1. RevOf(L) \in Nat /\ RevOf(M) \in Nat
    BY QueryTypes
  <1>2. ASSUME t.at = "write"
        PROVE  /\ t.goal # NoGoal /\ FrozenOf(M, t.source) # NoGoal
               /\ t.goal.rev = FrozenOf(M, t.source).rev /\ t.goal.rev <= RevOf(M)
               /\ t.goal.rev = RevOf(M) => t.goal = CurOf(M)
    <2>1. t.goal \in Goal /\ t.goal.rev \in Nat
      BY <1>2 DEF TaskOK, Task, Goal
    <2>2. FrozenOf(L, t.source) # NoGoal /\ FrozenOf(M, t.source) = FrozenOf(L, t.source)
      BY <1>2 DEF TaskOK, Grows
    <2>3. RevOf(L) <= RevOf(M) /\ (RevOf(L) = RevOf(M) => CurOf(L) = CurOf(M))
      BY DEF Grows
    <2> QED BY <1>1, <1>2, <2>1, <2>2, <2>3 DEF TaskOK
  <1>3. DepositsOf(L) \subseteq DepositsOf(M)
    BY DEF Grows
  <1> QED BY <1>2, <1>3 DEF TaskOK

\* A step of the model keeps the invariant if what it changes is as the invariant
\* demands: the rest keeps what it had.
LEMMA StepKeepsInv ==
  ASSUME GoalInv, TypeOK', LogInv(log'), Grows(log, log'),
         StartedOK(log', lease'.run), RunsOK(log', lease'),
         \A p \in Proc : inbox'[p] = inbox[p] \/ InboxOK(log', inbox'[p]),
         \A s \in Slot : tasks'[s] = tasks[s] \/ TaskOK(log', ledger', tasks'[s]),
         receipts' \subseteq ledger', ledger \subseteq ledger', ledger' \subseteq DepositsOf(log')
  PROVE  GoalInv'
  <1>1. log \in Seq(Row) /\ log' \in Seq(Row)
    BY DEF GoalInv, TypeOK
  <1>2. \A p \in Proc : InboxOK(log', inbox'[p])
    <2> SUFFICES ASSUME NEW p \in Proc, inbox'[p] = inbox[p] PROVE InboxOK(log', inbox'[p])
      OBVIOUS
    <2>1. inbox[p] \in Message /\ InboxOK(log, inbox[p])
      BY DEF GoalInv, TypeOK
    <2> QED BY <1>1, <2>1, GrowsKeepsInbox
  <1>3. \A s \in Slot : TaskOK(log', ledger', tasks'[s])
    <2> SUFFICES ASSUME NEW s \in Slot, tasks'[s] = tasks[s] PROVE TaskOK(log', ledger', tasks'[s])
      OBVIOUS
    <2>1. tasks[s] \in Task /\ TaskOK(log, ledger, tasks[s])
      BY DEF GoalInv, TypeOK
    <2> QED BY <1>1, <2>1, GrowsKeepsTask
  <1> QED BY <1>2, <1>3 DEF GoalInv

\* What a row that is not about the goal does to the lease's part of the invariant.
LEMMA AppendKeepsLease ==
  ASSUME NEW L \in Seq(Row), NEW row \in Row, NEW l, StartedOK(L, l.run), RunsOK(L, l)
  PROVE  /\ row.kind # "started" => StartedOK(Append(L, row), l.run)
         /\ row.kind = "terminal" /\ row.run = l.run => StartedOK(Append(L, row), NoRun)
         /\ row.kind = "started" /\ row.run # NoRun /\ l = NoLease =>
              StartedOK(Append(L, row), row.run)
         /\ row.kind \notin GoalKinds => RunsOK(Append(L, row), l)
  <1> DEFINE M == Append(L, row)
             n == Len(L)
  <1>1. /\ M \in Seq(Row) /\ n \in Nat /\ DOMAIN L = 1 .. n /\ DOMAIN M = 1 .. n + 1
        /\ \A i \in 1 .. n : M[i] = L[i]
        /\ M[n + 1] = row
    BY AppendFacts
  <1>2. \A i \in DOMAIN M : (i \in DOMAIN L /\ M[i] = L[i]) \/ M[i] = row
    BY <1>1
  <1>3. \A r : EndedIn(L, r) => EndedIn(M, r)
    BY <1>1 DEF EndedIn
  <1>4. row.kind = "terminal" => EndedIn(M, row.run)
    BY <1>1 DEF EndedIn
  <1>5. row.kind \notin GoalKinds => RunsOK(M, l)
    <2> SUFFICES ASSUME row.kind \notin GoalKinds, l # NoLease
                 PROVE  \E i \in StartsOf(M, l.run) : M[i].rev = RevOf(M) /\ M[i].goal = CurOf(M)
      BY DEF RunsOK
    <2>1. PICK i \in StartsOf(L, l.run) : L[i].rev = RevOf(L) /\ L[i].goal = CurOf(L)
      BY DEF RunsOK
    <2>2. i \in StartsOf(M, l.run) /\ M[i] = L[i]
      BY <1>1 DEF StartsOf
    <2>3. RevOf(M) = RevOf(L) /\ CurOf(M) = CurOf(L)
      BY AppendOther
    <2> QED BY <2>1, <2>2, <2>3
  <1> HIDE DEF M
  <1>6. row.kind # "started" => StartedOK(M, l.run)
    BY <1>2, <1>3 DEF StartedOK
  <1>7. row.kind = "terminal" /\ row.run = l.run => StartedOK(M, NoRun)
    BY <1>2, <1>3, <1>4 DEF StartedOK
  <1>8. row.kind = "started" /\ row.run # NoRun /\ l = NoLease => StartedOK(M, row.run)
    BY <1>2, <1>3 DEF StartedOK, NoLease
  <1> QED BY <1>5, <1>6, <1>7, <1>8 DEF M

------------------------------------------------------------------------------
(* The initial states *)

LEMMA InitGoalInv == Init => GoalInv
  <1> SUFFICES ASSUME Init PROVE GoalInv
    OBVIOUS
  <1>1. /\ log \in Seq(Row)
        /\ \A i \in DOMAIN log :
             /\ log[i].kind \in {"updated", "policy", "checked", "cleared"}
             /\ log[i].rev = i
             /\ log[i].goal # NoGoal =>
                  log[i].goal.rev = i /\ log[i].goal.edit <= i /\ log[i].goal.used = 0
        /\ \A i, j \in DOMAIN log :
             (log[i].goal # NoGoal /\ log[j].goal # NoGoal /\ log[i].goal.edit = log[j].goal.edit) =>
               log[i].goal.max = log[j].goal.max
    BY HistoryAssumption DEF Init
  <1>2. TypeOK
    <2>1. NoLease \in [run : RunId \union {NoRun}, proc : Proc \union {Nobody}]
      BY DEF NoLease
    <2>2. NoMessage \in Message
      BY DEF NoMessage, Message
    <2>3. Idle \in Task
      BY DEF Idle, Task
    <2> QED BY <1>1, <2>1, <2>2, <2>3 DEF Init, TypeOK
  <1>3. GoalRows(log) = DOMAIN log /\ DOMAIN log = 1 .. Len(log) /\ Len(log) \in Nat
    BY <1>1, ListFacts DEF GoalRows, GoalKinds
  <1>4. \A i \in DOMAIN log : log[i] \in Row
    BY <1>1, ListFacts
  <1>5. GoalsAgree(log)
    <2> SUFFICES ASSUME NEW i \in GoalRows(log), HasGoal(log, i)
                 PROVE  log[i].goal.used <= log[i].goal.max
      BY <1>1, <1>3 DEF GoalsAgree, HasGoal
    <2>1. log[i].goal \in Goal /\ log[i].goal.used = 0
      BY <1>1, <1>3, <1>4 DEF HasGoal, Row
    <2> QED BY <2>1 DEF Goal
  <1>6. Ascending(log)
    BY <1>1, <1>3 DEF Ascending
  <1>7. Chained(log)
    <2> SUFFICES ASSUME NEW i \in DOMAIN log, NEW j \in DOMAIN log, i < j,
                        \A k \in i + 1 .. j - 1 : k \notin DOMAIN log
                 PROVE  j = i + 1
      BY <1>1, <1>3 DEF Chained
    <2>1. i \in Nat /\ j \in Nat /\ i + 1 \in DOMAIN log
      BY <1>3
    <2> QED BY <2>1
  <1>8. Counted(log)
    BY <1>1, <1>3 DEF Counted, SameEdit, HasGoal
  <1>9. EvalsOfFrozen(log) /\ SchedsMade(log) /\ FollowsMade(log) /\ FollowedOnce(log)
    BY <1>1 DEF EvalsOfFrozen, SchedsMade, FollowsMade, FollowedOnce, IsEval, IsSched, IsFollow
  <1>10. StartedOK(log, lease.run) /\ RunsOK(log, lease)
    BY <1>1 DEF StartedOK, RunsOK, Init
  <1>11. \A p \in Proc : InboxOK(log, inbox[p])
    BY DEF Init, InboxOK, NoMessage
  <1>12. \A s \in Slot : TaskOK(log, ledger, tasks[s])
    BY DEF Init, TaskOK, Idle
  <1> QED BY <1>1, <1>2, <1>5, <1>6, <1>7, <1>8, <1>9, <1>10, <1>11, <1>12 DEF GoalInv, LogInv, Init

------------------------------------------------------------------------------
(* Steps that add no row, or one row *)

\* The rows and the lease stay.
LEMMA UnloggedInv ==
  ASSUME GoalInv, TypeOK', log' = log, lease' = lease,
         \A p \in Proc : inbox'[p] = inbox[p] \/ InboxOK(log, inbox'[p]),
         \A s \in Slot : tasks'[s] = tasks[s] \/ TaskOK(log, ledger', tasks'[s]),
         receipts' \subseteq ledger', ledger \subseteq ledger', ledger' \subseteq DepositsOf(log)
  PROVE  GoalInv'
  BY StepKeepsInv, GrowsReflexive DEF GoalInv, TypeOK

\* A row that is not about the goal, with what it does to the lease.
LEMMA OtherRowInv ==
  ASSUME GoalInv, TypeOK', NEW row \in Row, log' = Append(log, row),
         row.kind \in {"started", "user", "terminal"},
         row.kind = "started" =>
           /\ lease = NoLease /\ lease'.run = row.run /\ row.run # NoRun
           /\ row.rev = RevOf(log) /\ row.goal = CurOf(log)
           /\ ~IsMessage(row.run) =>
                /\ row.run = FollowupRun(row.rev) /\ StartsOf(log, row.run) = {}
                /\ \E j \in DOMAIN log :
                     log[j].rev = row.rev /\ log[j].goal = row.goal /\ MadeBy(log, j),
         row.kind # "started" =>
           lease' = lease \/ (lease' = NoLease /\ row.kind = "terminal" /\ row.run = lease.run),
         \A p \in Proc : inbox'[p] = inbox[p] \/ InboxOK(log', inbox'[p]),
         \A s \in Slot : tasks'[s] = tasks[s] \/ TaskOK(log', ledger', tasks'[s]),
         receipts' = receipts, ledger' = ledger
  PROVE  GoalInv'
  <1>0. log \in Seq(Row) /\ row.kind \notin GoalKinds /\ LogInv(log)
        /\ StartedOK(log, lease.run) /\ RunsOK(log, lease)
    BY DEF GoalInv, TypeOK, GoalKinds
  <1>1. LogInv(log')
    BY <1>0, AppendOtherInv
  <1>2. Grows(log, log') /\ DepositsOf(log) \subseteq DepositsOf(log')
    BY <1>0, AppendGrows, AppendKeepsDeposits
  <1>3. CASE row.kind = "started"
    <2>1. StartedOK(log', lease'.run)
      BY <1>0, <1>3, AppendKeepsLease
    <2>2. RunsOK(log', lease')
      <3>1. /\ DOMAIN log' = 1 .. Len(log) + 1 /\ Len(log) \in Nat
            /\ log'[Len(log) + 1] = row
        BY <1>0, AppendFacts
      <3>2. Len(log) + 1 \in StartsOf(log', lease'.run)
        BY <1>3, <3>1 DEF StartsOf
      <3>3. RevOf(log') = RevOf(log) /\ CurOf(log') = CurOf(log)
        BY <1>0, AppendOther
      <3> QED BY <1>3, <3>1, <3>2, <3>3 DEF RunsOK
    <2> QED BY <1>1, <1>2, <2>1, <2>2, StepKeepsInv DEF GoalInv
  <1>4. CASE row.kind # "started"
    <2>1. StartedOK(log', lease'.run) /\ RunsOK(log', lease')
      <3>1. CASE lease' = lease
        BY <1>0, <1>4, <3>1, AppendKeepsLease
      <3>2. CASE lease' = NoLease /\ row.kind = "terminal" /\ row.run = lease.run
        BY <1>0, <1>4, <3>2, AppendKeepsLease DEF RunsOK, NoLease
      <3> QED BY <1>4, <3>1, <3>2
    <2> QED BY <1>1, <1>2, <2>1, StepKeepsInv DEF GoalInv
  <1> QED BY <1>3, <1>4

\* A row about the goal, while no run is leased.
LEMMA GoalRowInv ==
  ASSUME GoalInv, TypeOK', NEW row, GoodGoalRow(log, row), log' = Append(log, row),
         lease = NoLease, lease' = lease, inbox' = inbox, receipts' = receipts, ledger' = ledger,
         \A s \in Slot : tasks'[s] = tasks[s] \/ TaskOK(log', ledger', tasks'[s])
  PROVE  GoalInv'
  <1>0. log \in Seq(Row) /\ row \in Row /\ row.kind # "started" /\ LogInv(log)
        /\ StartedOK(log, lease.run) /\ RunsOK(log, lease)
    BY DEF GoalInv, TypeOK, GoalKinds, GoodGoalRow
  <1>1. LogInv(log')
    BY <1>0, AppendGoalRowInv
  <1>2. Grows(log, log') /\ DepositsOf(log) \subseteq DepositsOf(log')
    BY <1>0, AppendGrows, AppendKeepsDeposits DEF GoodGoalRow
  <1>3. StartedOK(log', lease'.run) /\ RunsOK(log', lease')
    BY <1>0, AppendKeepsLease DEF RunsOK
  <1> QED BY <1>1, <1>2, <1>3, StepKeepsInv DEF GoalInv

------------------------------------------------------------------------------
(* The user *)

\* The row of a change: the goal is the current one, or has a limit of its own and
\* the revision of this change.
LEMMA ChangeInv ==
  ASSUME GoalInv, NEW kind \in {"updated", "policy", "checked"}, NEW g \in Goal, Change(kind, g),
         g.used <= g.max,
         \/ g.edit = Revision + 1
         \/ /\ Current # NoGoal /\ g.edit = Current.edit /\ g.max = Current.max
            /\ g.used = Current.used
  PROVE  GoalInv'
  <1> DEFINE h == [g EXCEPT !.rev = Revision + 1]
             row == GoalRow(kind, NoRun, h, "")
  <1>1. Revision = RevOf(log) /\ Current = CurOf(log) /\ RevOf(log) \in Nat
        /\ CurOf(log) \in Goal \union {NoGoal}
    BY QueriesOfLog, QueryTypes DEF GoalInv, TypeOK
  <1>2. h \in Goal /\ h.rev = Revision + 1 /\ h.edit = g.edit /\ h.max = g.max /\ h.used = g.used
    BY <1>1 DEF Goal
  <1> HIDE DEF h
  <1>3. row \in Row /\ row.kind = kind /\ row.goal = h /\ row.rev = h.rev
    BY <1>2 DEF Row, GoalRow, NewRow, Goal
  <1>4. log' = Append(log, row) /\ lease = NoLease
        /\ UNCHANGED <<receipts, lease, ledger, opened, inbox, tasks, sent, crashes>>
    BY DEF Change, MayChange, Write, h
  <1> HIDE DEF row
  <1>5. GoodGoalRow(log, row)
    <2>1. CurOf(log) # NoGoal => CurOf(log).used \in Nat
      BY <1>1 DEF Goal
    <2> QED BY <1>1, <1>2, <1>3, <2>1 DEF GoodGoalRow, GoalKinds
  <1>6. TypeOK'
    BY <1>3, <1>4, AppendFacts DEF GoalInv, TypeOK
  <1> QED BY <1>4, <1>5, <1>6, GoalRowInv

\* The goal the user sees has not counted more follow-ups than it allows.
LEMMA CurrentIsCounted ==
  ASSUME GoalInv, Current # NoGoal
  PROVE  Current \in Goal /\ Current.used <= Current.max
  <1>1. Current = CurOf(log) /\ CurOf(log) \in Goal \union {NoGoal}
    BY QueriesOfLog, QueryTypes DEF GoalInv, TypeOK
  <1>2. GoalRows(log) # {}
    BY <1>1 DEF CurOf
  <1>3. PICK m \in GoalRows(log) : CurOf(log) = log[m].goal
    BY <1>2, NewestGoalRow DEF GoalInv, TypeOK
  <1> QED BY <1>1, <1>3 DEF GoalInv, LogInv, GoalsAgree, HasGoal

LEMMA UserStepInv == GoalInv /\ UserStep => GoalInv'
  <1> SUFFICES ASSUME GoalInv, UserStep PROVE GoalInv'
    OBVIOUS
  <1>0. Revision \in Nat /\ (Current # NoGoal => Current \in Goal /\ Current.used <= Current.max)
    BY QueriesOfLog, QueryTypes, CurrentIsCounted DEF GoalInv, TypeOK
  <1>1. ASSUME NEW bound \in BOOLEAN, Upsert(bound) PROVE GoalInv'
    <2> DEFINE fresh == [rev |-> Revision + 1, edit |-> Revision + 1, bound |-> bound,
                         status |-> "active", mode |-> "manual", max |-> 1,
                         used |-> 0, streak |-> 0]
               tied == bound \/ Current.bound
               kept == [fresh EXCEPT !.mode = Current.mode, !.max = Current.max, !.bound = tied]
    <2>1. fresh \in Goal /\ fresh.used <= fresh.max /\ fresh.edit = Revision + 1
      BY <1>0 DEF Goal
    <2>b. tied \in BOOLEAN
      OBVIOUS
    <2>k. Change("updated", IF Current = NoGoal THEN fresh ELSE kept)
      BY <1>1 DEF Upsert
    <2> HIDE DEF tied, fresh
    <2>2. Current # NoGoal => kept \in Goal
      BY <1>0, <2>1, <2>b DEF Goal
    <2>2b. Current # NoGoal => kept.used <= kept.max /\ kept.edit = Revision + 1
      BY <1>0, <2>1, <2>b DEF Goal, fresh
    <2> HIDE DEF kept
    <2> QED BY <2>1, <2>2, <2>2b, <2>k, ChangeInv
  <1>2. ASSUME NEW mode \in {"manual", "auto"}, NEW max \in Limits, Configure(mode, max)
        PROVE  GoalInv'
    <2> DEFINE g == [Current EXCEPT !.edit = Revision + 1, !.mode = mode, !.max = max,
                                    !.used = 0, !.streak = 0]
    <2>0. Current \in Goal /\ max \in 1 .. 4 /\ Revision + 1 \in Nat \ {0}
      BY <1>0, <1>2, GoalAssumption DEF Configure
    <2>1. g \in Goal
      BY <2>0 DEF Goal
    <2>1b. g.used <= g.max /\ g.edit = Revision + 1
      BY <2>0 DEF Goal
    <2>2. Change("policy", g)
      BY <1>2 DEF Configure
    <2> HIDE DEF g
    <2> QED BY <2>1, <2>1b, <2>2, ChangeInv
  <1>3. CASE CheckByHand
    <2>1. PICK ending \in {"ended", "active"} :
            Current # NoGoal /\ Change("checked", [Current EXCEPT !.status = ending])
      BY <1>3 DEF CheckByHand
    <2> DEFINE g == [Current EXCEPT !.status = ending]
    <2>2. g \in Goal /\ g.used <= g.max /\ g.edit = Current.edit /\ g.max = Current.max
          /\ g.used = Current.used
      BY <1>0, <2>1 DEF Goal
    <2> HIDE DEF g
    <2> QED BY <2>1, <2>2, ChangeInv DEF g
  <1>4. CASE Clear
    <2> DEFINE row == NewRow("cleared", NoRun, Revision + 1, NoGoal, "")
    <2>1. row \in Row /\ row.kind = "cleared" /\ row.goal = NoGoal /\ row.rev = Revision + 1
      BY <1>0 DEF Row, NewRow
    <2>2. log' = Append(log, row) /\ lease = NoLease
          /\ UNCHANGED <<receipts, lease, ledger, opened, inbox, tasks, sent, crashes>>
      BY <1>4 DEF Clear, MayChange, Write
    <2> HIDE DEF row
    <2>3. GoodGoalRow(log, row)
      BY <2>1, QueriesOfLog DEF GoodGoalRow, GoalKinds
    <2>4. TypeOK'
      BY <2>1, <2>2, AppendFacts DEF GoalInv, TypeOK
    <2> QED BY <2>2, <2>3, <2>4, GoalRowInv
  <1> QED BY <1>1, <1>2, <1>3, <1>4 DEF UserStep

------------------------------------------------------------------------------
(* Messages, runs and processes *)

LEMMA LoggedTypes ==
  ASSUME TypeOK, NEW row \in Row
  PROVE  Append(log, row) \in Seq(Row)
  BY AppendFacts DEF TypeOK

LEMMA MessageStepsInv ==
  ASSUME GoalInv, NEW p \in Proc,
         ReceiveMessage(p) \/ BeginMessage(p) \/ RejectMessage(p) \/ CloseRejected(p) \/ TypeMessage(p)
  PROVE  GoalInv'
  <1>0. /\ TypeOK /\ log \in Seq(Row) /\ Revision = RevOf(log) /\ Current = CurOf(log)
        /\ RevOf(log) \in Nat /\ CurOf(log) \in Goal \union {NoGoal}
        /\ inbox[p] \in Message /\ inbox \in [Proc -> Message]
        /\ receipts \subseteq ledger /\ ledger \subseteq DepositsOf(log)
    BY QueriesOfLog, QueryTypes DEF GoalInv, TypeOK
  <1>n. NoMessage \in Message /\ \A L : InboxOK(L, NoMessage)
    BY DEF NoMessage, Message, InboxOK
  <1>1. CASE ReceiveMessage(p)
    <2> DEFINE m == [at |-> "begin", run |-> UserRun(sent + 1), rev |-> Revision, goal |-> Current]
    <2>1. m \in Message /\ InboxOK(log, m)
      BY <1>0 DEF Message, InboxOK, UserRun, RunId, IsMessage, TypeOK
    <2> HIDE DEF m
    <2>2. inbox' = [inbox EXCEPT ![p] = m] /\ sent' = sent + 1
          /\ UNCHANGED <<log, receipts, lease, ledger, opened, tasks, crashes>>
      BY <1>1 DEF ReceiveMessage, m
    <2>3. TypeOK' /\ \A q \in Proc : inbox'[q] = inbox[q] \/ InboxOK(log, inbox'[q])
      BY <1>0, <2>1, <2>2 DEF TypeOK
    <2> QED BY <1>0, <2>2, <2>3, UnloggedInv
  <1>2. CASE BeginMessage(p)
    <2> DEFINE row == NewRow("started", inbox[p].run, inbox[p].rev, inbox[p].goal, "")
    <2>1. row \in Row /\ row.kind = "started" /\ row.run = inbox[p].run
          /\ row.rev = inbox[p].rev /\ row.goal = inbox[p].goal
      BY <1>0 DEF Row, NewRow, Message
    <2> HIDE DEF row
    <2>2. /\ inbox[p].at = "begin" /\ lease = NoLease /\ Revision = inbox[p].rev
          /\ log' = Append(log, row) /\ lease' = [run |-> inbox[p].run, proc |-> p]
          /\ inbox' = [inbox EXCEPT ![p] = NoMessage]
          /\ UNCHANGED <<receipts, ledger, opened, tasks, sent, crashes>>
      BY <1>2 DEF BeginMessage, MayBegin, Write, row
    <2>3. IsMessage(row.run) /\ row.rev = RevOf(log) /\ row.goal = CurOf(log)
      BY <1>0, <2>1, <2>2 DEF GoalInv, InboxOK
    <2>4. row.run # NoRun
      BY <2>3 DEF IsMessage, NoRun
    <2>5. lease' \in [run : RunId \union {NoRun}, proc : Proc \union {Nobody}] /\ lease'.run = row.run
      BY <1>0, <2>1, <2>2 DEF Message
    <2>6. TypeOK' /\ \A q \in Proc : inbox'[q] = inbox[q] \/ InboxOK(log', inbox'[q])
      BY <1>0, <1>n, <2>1, <2>2, <2>5, LoggedTypes DEF TypeOK
    <2> QED BY <2>1, <2>2, <2>3, <2>4, <2>5, <2>6, OtherRowInv
  <1>3. CASE RejectMessage(p)
    <2> DEFINE row == RunRow("user", inbox[p].run, "")
    <2>1. row \in Row /\ row.kind = "user"
      BY <1>0 DEF Message, RunRow, NewRow, Row
    <2> HIDE DEF row
    <2>2. /\ log' = Append(log, row) /\ inbox' = [inbox EXCEPT ![p].at = "close"]
          /\ UNCHANGED <<receipts, lease, ledger, opened, tasks, sent, crashes>>
      BY <1>3 DEF RejectMessage, Write, row
    <2>3. inbox' \in [Proc -> Message] /\ inbox'[p].at = "close"
          /\ \A q \in Proc : q # p => inbox'[q] = inbox[q]
      BY <1>0, <2>2 DEF Message
    <2>4. TypeOK' /\ \A q \in Proc : inbox'[q] = inbox[q] \/ InboxOK(log', inbox'[q])
      BY <1>0, <2>1, <2>2, <2>3, LoggedTypes DEF TypeOK, InboxOK
    <2> QED BY <2>1, <2>2, <2>4, OtherRowInv
  <1>4. CASE CloseRejected(p)
    <2> DEFINE row == RunRow("terminal", inbox[p].run, "error")
    <2>1. row \in Row /\ row.kind = "terminal"
      BY <1>0 DEF Message, RunRow, NewRow, Row, Endings
    <2> HIDE DEF row
    <2>2. /\ log' = Append(log, row) /\ inbox' = [inbox EXCEPT ![p] = NoMessage]
          /\ UNCHANGED <<receipts, lease, ledger, opened, tasks, sent, crashes>>
      BY <1>4 DEF CloseRejected, Write, row
    <2>3. TypeOK' /\ \A q \in Proc : inbox'[q] = inbox[q] \/ InboxOK(log', inbox'[q])
      BY <1>0, <1>n, <2>1, <2>2, LoggedTypes DEF TypeOK
    <2> QED BY <2>1, <2>2, <2>3, OtherRowInv
  <1>5. CASE TypeMessage(p)
    <2> DEFINE row == RunRow("user", lease.run, "")
    <2>1. row \in Row /\ row.kind = "user"
      BY <1>0 DEF TypeOK, RunRow, NewRow, Row
    <2> HIDE DEF row
    <2>2. /\ log' = Append(log, row)
          /\ UNCHANGED <<receipts, lease, ledger, opened, inbox, tasks, sent, crashes>>
      BY <1>5 DEF TypeMessage, Write, row
    <2>3. TypeOK'
      BY <1>0, <2>1, <2>2, LoggedTypes DEF TypeOK
    <2> QED BY <2>1, <2>2, <2>3, OtherRowInv
  <1> QED BY <1>1, <1>2, <1>3, <1>4, <1>5

\* A task that begins has read nothing yet.
LEMMA NewTask ==
  ASSUME NEW p \in Proc, NEW r \in RunId \union {NoRun}
  PROVE  /\ PostTurn(p, r) \in Task /\ Reconcile(p) \in Task /\ Idle \in Task
         /\ \A L, D : TaskOK(L, D, PostTurn(p, r)) /\ TaskOK(L, D, Reconcile(p)) /\ TaskOK(L, D, Idle)
  BY DEF PostTurn, Reconcile, Idle, Task, TaskOK

LEMMA SpawnedTasks ==
  ASSUME TypeOK, NEW s \in Slot, NEW t \in Task, Spawn(s, t), \A L, D : TaskOK(L, D, t)
  PROVE  /\ tasks' \in [Slot -> Task]
         /\ \A x \in Slot : tasks'[x] = tasks[x] \/ TaskOK(log', ledger', tasks'[x])
  BY DEF TypeOK, Spawn

LEMMA NoLeaseType == NoLease \in [run : RunId \union {NoRun}, proc : Proc \union {Nobody}]
  BY DEF NoLease

LEMMA EndRunInv ==
  ASSUME GoalInv, NEW p \in Proc, NEW ending \in {"completed", "error", "cancelled"}, EndRun(p, ending)
  PROVE  GoalInv'
  <1> DEFINE row == RunRow("terminal", lease.run, ending)
  <1>0. TypeOK /\ lease.run \in RunId \union {NoRun}
    BY DEF GoalInv, TypeOK
  <1>1. row \in Row /\ row.kind = "terminal" /\ row.run = lease.run
    BY <1>0 DEF RunRow, NewRow, Row, Endings
  <1> HIDE DEF row
  <1>2. /\ log' = Append(log, row) /\ lease' = NoLease
        /\ UNCHANGED <<receipts, ledger, opened, inbox, sent, crashes>>
        /\ \/ tasks' = tasks
           \/ \E s \in Slot : Spawn(s, PostTurn(p, lease.run))
    BY DEF EndRun, Write, row
  <1>3. /\ tasks' \in [Slot -> Task]
        /\ \A x \in Slot : tasks'[x] = tasks[x] \/ TaskOK(log', ledger', tasks'[x])
    <2>1. CASE tasks' = tasks
      BY <1>0, <2>1 DEF TypeOK
    <2>2. ASSUME NEW s \in Slot, Spawn(s, PostTurn(p, lease.run))
          PROVE  /\ tasks' \in [Slot -> Task]
                 /\ \A x \in Slot : tasks'[x] = tasks[x] \/ TaskOK(log', ledger', tasks'[x])
      BY <1>0, <2>2, NewTask, SpawnedTasks
    <2> QED BY <1>2, <2>1, <2>2
  <1>4. TypeOK'
    BY <1>0, <1>1, <1>2, <1>3, LoggedTypes, NoLeaseType DEF TypeOK
  <1> QED BY <1>1, <1>2, <1>3, <1>4, OtherRowInv

LEMMA OpenInv ==
  ASSUME GoalInv, NEW p \in Proc, Open(p)
  PROVE  GoalInv'
  <1> DEFINE row == RunRow("terminal", lease.run, "interrupted")
  <1>0. /\ TypeOK /\ lease.run \in RunId \union {NoRun} /\ opened \in [Proc -> {"no", "hydrated", "open"}]
        /\ receipts \subseteq ledger /\ ledger \subseteq DepositsOf(log)
    BY DEF GoalInv, TypeOK
  <1>1. row \in Row /\ row.kind = "terminal" /\ row.run = lease.run
    BY <1>0 DEF RunRow, NewRow, Row, Endings
  <1> HIDE DEF row
  <1>2. /\ \/ log' = Append(log, row) /\ lease' = NoLease
           \/ UNCHANGED <<log, lease>>
        /\ \/ /\ opened' = [opened EXCEPT ![p] = "open"]
              /\ \E s \in Slot : Spawn(s, Reconcile(p))
           \/ opened' = [opened EXCEPT ![p] = "hydrated"] /\ tasks' = tasks
        /\ UNCHANGED <<receipts, ledger, inbox, sent, crashes>>
    BY DEF Open, Write, row
  <1>3. /\ tasks' \in [Slot -> Task]
        /\ \A x \in Slot : tasks'[x] = tasks[x] \/ TaskOK(log', ledger', tasks'[x])
    <2>1. CASE tasks' = tasks
      BY <1>0, <2>1 DEF TypeOK
    <2>2. ASSUME NEW s \in Slot, Spawn(s, Reconcile(p))
          PROVE  /\ tasks' \in [Slot -> Task]
                 /\ \A x \in Slot : tasks'[x] = tasks[x] \/ TaskOK(log', ledger', tasks'[x])
      BY <1>0, <2>2, NewTask, SpawnedTasks
    <2> QED BY <1>2, <2>1, <2>2
  <1>4. opened' \in [Proc -> {"no", "hydrated", "open"}]
    BY <1>0, <1>2
  <1>5. CASE log' = Append(log, row) /\ lease' = NoLease
    <2>1. TypeOK'
      BY <1>0, <1>1, <1>2, <1>3, <1>4, <1>5, LoggedTypes, NoLeaseType DEF TypeOK
    <2> QED BY <1>1, <1>2, <1>3, <1>5, <2>1, OtherRowInv
  <1>6. CASE UNCHANGED <<log, lease>>
    <2>1. TypeOK'
      BY <1>0, <1>2, <1>3, <1>4, <1>6 DEF TypeOK
    <2> QED BY <1>0, <1>2, <1>3, <1>6, <2>1, UnloggedInv
  <1> QED BY <1>2, <1>5, <1>6

\* The rows stay; the lease of the process that crashes has no owner left.
LEMMA CrashInv ==
  ASSUME GoalInv, NEW p \in Proc, Crash(p)
  PROVE  GoalInv'
  <1>0. /\ TypeOK /\ lease \in [run : RunId \union {NoRun}, proc : Proc \union {Nobody}]
        /\ receipts \subseteq ledger /\ ledger \subseteq DepositsOf(log)
        /\ inbox \in [Proc -> Message] /\ tasks \in [Slot -> Task]
    BY DEF GoalInv, TypeOK
  <1>1. /\ crashes' = crashes + 1 /\ opened' = [opened EXCEPT ![p] = "no"]
        /\ lease' = IF lease.proc = p THEN [lease EXCEPT !.proc = Nobody] ELSE lease
        /\ inbox' = [inbox EXCEPT ![p] = NoMessage]
        /\ tasks' = [s \in Slot |-> IF tasks[s].proc = p THEN Idle ELSE tasks[s]]
        /\ UNCHANGED <<log, receipts, ledger, sent>>
    BY DEF Crash
  <1>2. Idle \in Task /\ \A L, D : TaskOK(L, D, Idle)
    BY DEF Idle, Task, TaskOK
  <1>3. NoMessage \in Message /\ \A L : InboxOK(L, NoMessage)
    BY DEF NoMessage, Message, InboxOK
  <1>4. /\ lease' \in [run : RunId \union {NoRun}, proc : Proc \union {Nobody}]
        /\ lease'.run = lease.run
    BY <1>0, <1>1
  <1>5. lease = NoLease => lease' = NoLease
    BY <1>1, GoalAssumption DEF NoLease
  <1>6. TypeOK'
    BY <1>0, <1>1, <1>2, <1>3, <1>4 DEF TypeOK
  <1>7. StartedOK(log', lease'.run) /\ RunsOK(log', lease')
    BY <1>1, <1>4, <1>5 DEF GoalInv, RunsOK
  <1>8. LogInv(log') /\ Grows(log, log')
    BY <1>0, <1>1, GrowsReflexive DEF GoalInv, LogInv
  <1>9. /\ \A q \in Proc : inbox'[q] = inbox[q] \/ InboxOK(log', inbox'[q])
        /\ \A s \in Slot : tasks'[s] = tasks[s] \/ TaskOK(log', ledger', tasks'[s])
    BY <1>0, <1>1, <1>2, <1>3
  <1> QED BY <1>0, <1>1, <1>6, <1>7, <1>8, <1>9, StepKeepsInv

------------------------------------------------------------------------------
(* Tasks *)

\* What a step of one task must show when it adds no row.
LEMMA OneTaskInv ==
  ASSUME GoalInv, NEW s \in Slot, NEW t \in Task, tasks' = [tasks EXCEPT ![s] = t],
         TaskOK(log, ledger', t),
         UNCHANGED <<log, lease, opened, inbox, sent, crashes>>,
         receipts' \subseteq ledger', ledger \subseteq ledger', ledger' \subseteq DepositsOf(log),
         ledger' \subseteq Nat
  PROVE  GoalInv'
  <1>1. TypeOK' /\ \A x \in Slot : tasks'[x] = tasks[x] \/ TaskOK(log, ledger', tasks'[x])
    BY DEF GoalInv, TypeOK
  <1> QED BY <1>1, UnloggedInv

LEMMA FinishInv ==
  ASSUME GoalInv, NEW s \in Slot, Finish(s),
         UNCHANGED <<log, receipts, lease, ledger, opened, inbox, sent, crashes>>
  PROVE  GoalInv'
  <1>1. Idle \in Task /\ TaskOK(log, ledger', Idle)
    BY DEF Idle, Task, TaskOK
  <1> QED BY <1>1, OneTaskInv DEF Finish, GoalInv, TypeOK

LEMMA JudgeInv ==
  ASSUME GoalInv, NEW s \in Slot, Judge(s)
  PROVE  GoalInv'
  <1> DEFINE t == tasks[s]
             u == [t EXCEPT !.at = "write", !.goal = Current]
  <1>0. /\ Revision = RevOf(log) /\ Current = CurOf(log) /\ FrozenGoal(t.source) = FrozenOf(log, t.source)
        /\ CurOf(log) \in Goal \union {NoGoal} /\ RevOf(log) \in Nat
        /\ tasks \in [Slot -> Task] /\ t \in Task
        /\ receipts \subseteq ledger /\ ledger \subseteq DepositsOf(log) /\ ledger \subseteq Nat
    BY QueriesOfLog, QueryTypes DEF GoalInv, TypeOK
  <1>1. UNCHANGED <<log, receipts, lease, ledger, opened, inbox, sent, crashes>>
    BY DEF Judge
  <1>2. CASE Finish(s)
    BY <1>1, <1>2, FinishInv
  <1>3. CASE /\ FrozenGoal(t.source) # NoGoal /\ Current # NoGoal
             /\ Revision = FrozenGoal(t.source).rev
             /\ tasks' = [tasks EXCEPT ![s].at = "write", ![s].goal = Current]
    <2>1. u \in Task /\ tasks' = [tasks EXCEPT ![s] = u]
      BY <1>0, <1>3 DEF Task
    <2>2. u.at = "write" /\ u.goal = CurOf(log) /\ u.source = t.source
      BY <1>0 DEF Task
    <2> HIDE DEF u
    <2>3. CurOf(log).rev = RevOf(log)
      BY <1>0, <1>3, NewestIsGreatest DEF GoalInv
    <2>0. u.goal # NoGoal /\ FrozenOf(log, u.source) # NoGoal
      BY <1>0, <1>3, <2>2
    <2>4. /\ u.goal # NoGoal /\ FrozenOf(log, u.source) # NoGoal
          /\ u.goal.rev = FrozenOf(log, u.source).rev /\ u.goal.rev <= RevOf(log)
      <3>1. u.goal.rev = RevOf(log)
        BY <2>2, <2>3
      <3>2. FrozenOf(log, u.source).rev = RevOf(log)
        BY <1>0, <1>3, <2>2
      <3> QED BY <1>0, <2>0, <3>1, <3>2
    <2>5. TaskOK(log, ledger', u)
      BY <2>2, <2>4 DEF TaskOK
    <2> QED BY <1>0, <1>1, <2>1, <2>5, OneTaskInv
  <1> QED BY <1>2, <1>3 DEF Judge

\* The goal judged, as Evaluate writes it.
LEMMA JudgedGoal ==
  ASSUME NEW g \in Goal, NEW verdict, NEW streak \in Nat, g.used <= g.max
  PROVE  LET h == Judged(g, verdict, streak) IN
         /\ h \in Goal /\ h.rev = g.rev + 1 /\ h.edit = g.edit /\ h.max = g.max /\ h.mode = g.mode
         /\ h.used <= h.max
         /\ h.used = IF Willing(g, verdict, streak) THEN g.used + 1 ELSE g.used
  <1> DEFINE ended == verdict = "ended" \/ (g.mode = "auto" /\ verdict = "unmet" /\ streak >= 2)
             status == IF ended THEN "ended" ELSE "active"
             used == IF Willing(g, verdict, streak) THEN g.used + 1 ELSE g.used
             rev == g.rev + 1
             h == [g EXCEPT !.rev = rev, !.status = status, !.used = used, !.streak = streak]
  <1>1. Judged(g, verdict, streak) = h
    BY DEF Judged, Goal
  <1>2. used \in Nat /\ used <= g.max
    BY DEF Willing, Goal
  <1>3. status \in {"active", "ended"} /\ rev \in Nat \ {0}
    BY DEF Goal
  <1> HIDE DEF status, used, rev
  <1>4. h \in Goal
    BY <1>2, <1>3 DEF Goal
  <1>5. h.rev = rev /\ h.edit = g.edit /\ h.max = g.max /\ h.mode = g.mode /\ h.used = used
    BY DEF Goal
  <1> HIDE DEF h
  <1> QED BY <1>1, <1>2, <1>4, <1>5 DEF used, rev

LEMMA EvaluateInv ==
  ASSUME GoalInv, NEW s \in Slot, Evaluate(s)
  PROVE  GoalInv'
  <1> DEFINE t == tasks[s]
             r == t.source
             g == t.goal
             n == FrozenRevision(r)
  <1>0. /\ TypeOK /\ log \in Seq(Row) /\ LogInv(log)
        /\ Revision = RevOf(log) /\ Current = CurOf(log) /\ FrozenGoal(r) = FrozenOf(log, r)
        /\ RevOf(log) \in Nat /\ t \in Task /\ r \in RunId \union {NoRun}
        /\ receipts \subseteq ledger /\ ledger \subseteq DepositsOf(log) /\ ledger \subseteq Nat
        /\ StartedOK(log, lease.run)
    BY QueriesOfLog, QueryTypes DEF GoalInv, TypeOK, Task
  <1>1. PICK says \in Judgements :
          /\ t.at = "write" /\ lease = NoLease /\ Current # NoGoal /\ Revision = n
          /\ WriteEvaluation(s, says)
          /\ UNCHANGED <<receipts, lease, ledger, opened, inbox, sent, crashes>>
    BY DEF Evaluate, MayEvaluate
  <1>2. /\ g # NoGoal /\ g \in Goal /\ FrozenOf(log, r) # NoGoal /\ g.rev = FrozenOf(log, r).rev
        /\ n = g.rev /\ (g.rev = RevOf(log) => g = CurOf(log))
    BY <1>0, <1>1 DEF GoalInv, TaskOK, Task, FrozenRevision
  <1>3. g = Current /\ g = CurOf(log) /\ g.rev = RevOf(log) /\ g.used <= g.max
    BY <1>0, <1>1, <1>2, CurrentIsCounted
  <1> DEFINE streak == IF says.progress THEN 0 ELSE g.streak + 1
             willing == Willing(g, says.verdict, streak)
             h == Judged(g, says.verdict, streak)
             done == GoalRow("evaluated", r, h, IF says.deposit THEN "deposit" ELSE "")
             next == NewRow("scheduled", FollowupRun(g.rev + 1), g.rev + 1, NoGoal, "")
             u == [t EXCEPT !.at = "drain", !.goal = NoGoal, !.reserved = willing]
  <1>4. /\ log' = IF willing THEN Append(Append(log, done), next) ELSE Append(log, done)
        /\ tasks' = [tasks EXCEPT ![s].at = "drain", ![s].goal = NoGoal, ![s].reserved = willing]
    BY <1>1 DEF WriteEvaluation
  <1>5. willing \in BOOLEAN
    BY DEF Willing
  <1>6. streak \in Nat
    BY <1>2 DEF Goal
  <1> HIDE DEF streak
  <1>7. /\ h \in Goal /\ h.rev = g.rev + 1 /\ h.edit = g.edit /\ h.max = g.max /\ h.mode = g.mode
        /\ h.used <= h.max /\ h.used = IF willing THEN g.used + 1 ELSE g.used
    BY <1>2, <1>3, <1>6, JudgedGoal
  <1> HIDE DEF h, willing
  <1>8. done \in Row /\ done.kind = "evaluated" /\ done.run = r /\ done.goal = h /\ done.rev = h.rev
    BY <1>0, <1>7 DEF GoalRow, NewRow, Row, Goal
  <1>9. next \in Row /\ next.kind = "scheduled" /\ next.rev = g.rev + 1
    BY <1>2 DEF NewRow, Row, FollowupRun, RunId, Goal
  <1>10. u \in Task /\ tasks' = [tasks EXCEPT ![s] = u]
    BY <1>0, <1>4, <1>5 DEF Task, TypeOK
  <1>11. \A L, D : TaskOK(L, D, u)
    BY <1>0 DEF TaskOK, Task
  <1> HIDE DEF done, next, u
  <1>12. GoodGoalRow(log, done)
    <2>1. g.used \in Nat /\ h.used \in Nat /\ g.used <= h.used
      BY <1>2, <1>7 DEF Goal
    <2>2. done.goal.rev = done.rev /\ done.goal.used <= done.goal.max /\ done.rev = RevOf(log) + 1
      BY <1>3, <1>7, <1>8
    <2>3. /\ CurOf(log) # NoGoal /\ done.goal.edit = CurOf(log).edit
          /\ done.goal.max = CurOf(log).max /\ CurOf(log).used <= done.goal.used
          /\ done.goal.mode = CurOf(log).mode
      BY <1>2, <1>3, <1>7, <1>8, <2>1
    <2>4. FrozenOf(log, done.run) # NoGoal /\ done.rev = FrozenOf(log, done.run).rev + 1
      BY <1>2, <1>7, <1>8
    <2> QED BY <1>8, <2>2, <2>3, <2>4 DEF GoodGoalRow, GoalKinds
  <1>13. \A x \in Slot : tasks'[x] = tasks[x] \/ TaskOK(log', ledger', tasks'[x])
    BY <1>0, <1>10, <1>11 DEF TypeOK
  <1>14. Append(log, done) \in Seq(Row) /\ Append(Append(log, done), next) \in Seq(Row)
    BY <1>0, <1>8, <1>9, AppendFacts
  <1>15. TypeOK'
    <2>1. log' \in Seq(Row)
      BY <1>4, <1>14
    <2>2. tasks' \in [Slot -> Task]
      BY <1>0, <1>10 DEF TypeOK
    <2> QED BY <1>0, <1>1, <2>1, <2>2 DEF TypeOK
  <1>16. CASE ~willing
    BY <1>0, <1>1, <1>4, <1>12, <1>13, <1>15, <1>16, GoalRowInv
  <1>17. CASE willing
    <2> DEFINE M == Append(log, done)
    <2>1. LogInv(M) /\ MadeBy(M, Len(log) + 1)
      <3>1. done.goal # NoGoal /\ done.goal.used = CurOf(log).used + 1
        BY <1>3, <1>7, <1>8, <1>17, NoGoalAssumption
      <3> QED BY <1>0, <1>8, <1>12, <3>1, AppendGoalRowInv, CountedMayReserve
    <2>2. /\ Len(log) + 1 \in DOMAIN M /\ M[Len(log) + 1] = done
          /\ M \in Seq(Row) /\ next.kind \notin GoalKinds /\ log' = Append(M, next)
      BY <1>0, <1>4, <1>8, <1>9, <1>14, <1>17, AppendFacts DEF GoalKinds
    <2>3. Grows(log, M) /\ Grows(M, log')
      BY <1>0, <1>8, <1>9, <1>12, <2>2, AppendGrows DEF GoodGoalRow
    <2> HIDE DEF M
    <2>4. LogInv(log')
      BY <1>7, <1>8, <1>9, <2>1, <2>2, AppendOtherInv
    <2>5. Grows(log, log')
      BY <1>0, <1>4, <1>14, <1>17, <2>2, <2>3, GrowsComposes
    <2>6. StartedOK(log', lease'.run) /\ RunsOK(log', lease')
      <3>1. StartedOK(M, lease.run) /\ RunsOK(M, lease)
        BY <1>0, <1>1, <1>8, AppendKeepsLease DEF M, RunsOK
      <3> QED BY <1>1, <1>9, <2>2, <3>1, AppendKeepsLease
    <2>7. receipts' \subseteq ledger' /\ ledger \subseteq ledger' /\ ledger' \subseteq DepositsOf(log')
      BY <1>0, <1>1, <2>5 DEF Grows
    <2> QED BY <1>1, <1>13, <1>15, <2>4, <2>5, <2>6, <2>7, StepKeepsInv
  <1> QED BY <1>16, <1>17

LEMMA NotEvaluatedInv ==
  ASSUME GoalInv, NEW s \in Slot, EvaluatedAlready(s) \/ EvaluationRefused(s)
  PROVE  GoalInv'
  <1>1. CASE EvaluationRefused(s)
    BY <1>1, FinishInv DEF EvaluationRefused
  <1>2. CASE EvaluatedAlready(s)
    <2> DEFINE reserved == Reserved(FrozenRevision(tasks[s].source))
               u == [tasks[s] EXCEPT !.at = "drain", !.goal = NoGoal, !.reserved = reserved]
    <2>1. reserved \in BOOLEAN
      BY DEF Reserved
    <2>2. tasks' = [tasks EXCEPT ![s].at = "drain", ![s].goal = NoGoal, ![s].reserved = reserved]
      BY <1>2 DEF EvaluatedAlready
    <2> HIDE DEF reserved
    <2>3. u \in Task /\ u.at = "drain"
      BY <2>1 DEF GoalInv, TypeOK, Task
    <2>4. tasks' = [tasks EXCEPT ![s] = u]
      BY <2>2 DEF GoalInv, TypeOK, Task
    <2> HIDE DEF u
    <2>5. TaskOK(log, ledger', u)
      BY <2>3 DEF TaskOK
    <2> QED BY <1>2, <2>3, <2>4, <2>5, OneTaskInv DEF EvaluatedAlready, GoalInv, TypeOK
  <1> QED BY <1>1, <1>2

\* Where a task goes with deposits that are in the journal.
LEMMA DrainedTask ==
  ASSUME GoalInv, NEW t \in Task, NEW todo \in SUBSET DepositsOf(log), NEW D,
         NEW u, u = IF Drained(t, todo).at = "idle" THEN Idle ELSE Drained(t, todo)
  PROVE  u \in Task /\ TaskOK(log, D, u)
  <1> DEFINE at == IF todo # {} THEN "record"
                   ELSE IF t.job = "reconcile" THEN "look"
                   ELSE IF t.reserved THEN "pending" ELSE "idle"
             v == [t EXCEPT !.todo = todo, !.at = at]
  <1>1. DepositsOf(log) \subseteq Nat
    <2>1. \A i \in DOMAIN log : log[i].rev \in Nat
      BY ListFacts DEF GoalInv, TypeOK, Row
    <2> QED BY <2>1 DEF DepositsOf
  <1>2. at \in {"record", "look", "pending", "idle"} /\ (at = "record" => todo # {})
    OBVIOUS
  <1>3. Drained(t, todo) = v
    BY DEF Drained
  <1> HIDE DEF at
  <1>4. v \in Task /\ v.at = at /\ v.todo = todo
    BY <1>1, <1>2 DEF Task
  <1> HIDE DEF v
  <1>5. TaskOK(log, D, v)
    BY <1>2, <1>4 DEF TaskOK
  <1>6. Idle \in Task /\ TaskOK(log, D, Idle)
    BY DEF Idle, Task, TaskOK
  <1> QED BY <1>3, <1>4, <1>5, <1>6

LEMMA DrainInv ==
  ASSUME GoalInv, NEW s \in Slot,
         ReadDeposits(s) \/ RecordEvidence(s) \/ LedgerFails(s) \/ Acknowledge(s)
  PROVE  GoalInv'
  <1> DEFINE t == tasks[s]
  <1>0. /\ TypeOK /\ tasks \in [Slot -> Task] /\ t \in Task /\ TaskOK(log, ledger, t)
        /\ receipts \subseteq ledger /\ ledger \subseteq DepositsOf(log) /\ ledger \subseteq Nat
        /\ Deposits = DepositsOf(log) /\ t.todo \subseteq Nat
    BY QueriesOfLog DEF GoalInv, TypeOK, Task
  <1>1. t.at \in {"record", "receipt"} =>
          t.todo # {} /\ t.todo \subseteq DepositsOf(log) /\ Min(t.todo) \in t.todo
    BY <1>0, MinIsLeast DEF TaskOK
  <1>2. CASE ReadDeposits(s)
    <2> DEFINE u == IF Drained(t, PendingDeposits).at = "idle" THEN Idle
                                                              ELSE Drained(t, PendingDeposits)
    <2>1. PendingDeposits \in SUBSET DepositsOf(log)
      BY <1>0 DEF PendingDeposits
    <2>2. u \in Task /\ TaskOK(log, ledger', u)
      BY <1>0, <2>1, DrainedTask
    <2>3. tasks' = [tasks EXCEPT ![s] = u]
          /\ UNCHANGED <<log, receipts, lease, ledger, opened, inbox, sent, crashes>>
      BY <1>2 DEF ReadDeposits
    <2> HIDE DEF u
    <2> QED BY <1>0, <2>2, <2>3, OneTaskInv
  <1>3. CASE RecordEvidence(s)
    <2> DEFINE u == [t EXCEPT !.at = "receipt"]
    <2>1. t.at = "record" /\ ledger' = ledger \union {Min(t.todo)}
          /\ tasks' = [tasks EXCEPT ![s].at = "receipt"]
          /\ UNCHANGED <<log, receipts, lease, opened, inbox, sent, crashes>>
      BY <1>3 DEF RecordEvidence, Goto
    <2>2. u \in Task /\ u.at = "receipt" /\ u.todo = t.todo
      BY <1>0 DEF Task
    <2>3. tasks' = [tasks EXCEPT ![s] = u]
      BY <1>0, <2>1
    <2> HIDE DEF u
    <2>4. TaskOK(log, ledger', u)
      BY <1>1, <2>1, <2>2 DEF TaskOK
    <2>5. receipts' \subseteq ledger' /\ ledger \subseteq ledger'
          /\ ledger' \subseteq DepositsOf(log) /\ ledger' \subseteq Nat
      BY <1>0, <1>1, <2>1
    <2> QED BY <2>1, <2>2, <2>3, <2>4, <2>5, OneTaskInv
  <1>4. CASE LedgerFails(s)
    <2> DEFINE todo == t.todo \ {Min(t.todo)}
               u == IF Drained(t, todo).at = "idle" THEN Idle ELSE Drained(t, todo)
    <2>1. t.at = "record" /\ tasks' = [tasks EXCEPT ![s] = u]
          /\ UNCHANGED <<log, receipts, lease, ledger, opened, inbox, sent, crashes>>
      BY <1>4 DEF LedgerFails
    <2>2. todo \in SUBSET DepositsOf(log)
      BY <1>1, <2>1
    <2> HIDE DEF todo
    <2>3. u \in Task /\ TaskOK(log, ledger', u)
      BY <1>0, <2>2, DrainedTask
    <2> HIDE DEF u
    <2> QED BY <1>0, <2>1, <2>3, OneTaskInv
  <1>5. CASE Acknowledge(s)
    <2> DEFINE todo == t.todo \ {Min(t.todo)}
               u == IF Drained(t, todo).at = "idle" THEN Idle ELSE Drained(t, todo)
    <2>1. t.at = "receipt" /\ receipts' = receipts \union {Min(t.todo)}
          /\ tasks' = [tasks EXCEPT ![s] = u]
          /\ UNCHANGED <<log, lease, ledger, opened, inbox, sent, crashes>>
      BY <1>5 DEF Acknowledge
    <2>2. todo \in SUBSET DepositsOf(log)
      BY <1>1, <2>1
    <2> HIDE DEF todo
    <2>3. u \in Task /\ TaskOK(log, ledger', u)
      BY <1>0, <2>2, DrainedTask
    <2> HIDE DEF u
    <2>4. Min(t.todo) \in ledger
      BY <1>0, <2>1 DEF TaskOK
    <2>5. receipts' \subseteq ledger'
      BY <1>0, <2>1, <2>4
    <2>6. receipts' \subseteq Nat
      BY <1>0, <2>1, <2>5
    <2> QED BY <1>0, <2>1, <2>3, <2>5, <2>6, OneTaskInv
  <1> QED BY <1>2, <1>3, <1>4, <1>5

LEMMA LookInv ==
  ASSUME GoalInv, NEW s \in Slot, Look(s) \/ ReadPending(s)
  PROVE  GoalInv'
  <1> DEFINE t == tasks[s]
             u == [t EXCEPT !.at = "begin", !.rev = Revision]
  <1>0. /\ TypeOK /\ tasks \in [Slot -> Task] /\ t \in Task
        /\ receipts \subseteq ledger /\ ledger \subseteq DepositsOf(log) /\ ledger \subseteq Nat
        /\ Revision \in Nat
    BY QueriesOfLog, QueryTypes DEF GoalInv, TypeOK
  <1>1. UNCHANGED <<log, receipts, lease, ledger, opened, inbox, sent, crashes>>
    BY DEF Look, ReadPending
  <1>2. CASE Finish(s)
    BY <1>1, <1>2, FinishInv
  <1>3. CASE tasks' = [tasks EXCEPT ![s].at = "begin", ![s].rev = Revision]
    <2>1. u \in Task /\ u.at = "begin"
      BY <1>0 DEF Task
    <2>2. tasks' = [tasks EXCEPT ![s] = u]
      BY <1>0, <1>3 DEF Task
    <2> HIDE DEF u
    <2>3. TaskOK(log, ledger', u)
      BY <2>1 DEF TaskOK
    <2> QED BY <1>0, <1>1, <2>1, <2>2, <2>3, OneTaskInv
  <1>4. CASE Look(s) /\ Resumable
             /\ tasks' = [tasks EXCEPT ![s] = PostTurn(t.proc, log[Max(Rows({"terminal"}))].run)]
    <2> DEFINE r == log[Max(Rows({"terminal"}))].run
               v == PostTurn(t.proc, r)
    <2>1. Rows({"terminal"}) # {} /\ Rows({"terminal"}) \in SUBSET (1 .. Len(log)) /\ Len(log) \in Nat
      BY <1>0, <1>4, ListFacts DEF Resumable, Rows, TypeOK
    <2>2. Max(Rows({"terminal"})) \in DOMAIN log
      BY <2>1, MaxIsGreatest DEF Rows
    <2>3. r \in RunId \union {NoRun} /\ t.proc \in Proc \union {Nobody}
      BY <1>0, <2>2, ListFacts DEF TypeOK, Row, Task
    <2> HIDE DEF r
    <2>4. v \in Task /\ v.at = "read"
      BY <2>3 DEF PostTurn, Idle, Task
    <2>5. tasks' = [tasks EXCEPT ![s] = v]
      BY <1>4 DEF r
    <2> HIDE DEF v
    <2>6. TaskOK(log, ledger', v)
      BY <2>4 DEF TaskOK
    <2> QED BY <1>0, <1>1, <2>4, <2>5, <2>6, OneTaskInv
  <1> QED BY <1>2, <1>3, <1>4 DEF Look, ReadPending

LEMMA BeginFollowupInv ==
  ASSUME GoalInv, NEW s \in Slot, BeginFollowup(s) \/ FollowupRefused(s)
  PROVE  GoalInv'
  <1>1. CASE FollowupRefused(s)
    BY <1>1, FinishInv DEF FollowupRefused
  <1>2. CASE BeginFollowup(s)
    <2> DEFINE n == tasks[s].rev
               row == NewRow("started", FollowupRun(n), n, Current, "")
    <2>0. /\ TypeOK /\ log \in Seq(Row) /\ LogInv(log) /\ StartedOK(log, lease.run)
          /\ Revision = RevOf(log) /\ Current = CurOf(log)
          /\ CurOf(log) \in Goal \union {NoGoal}
          /\ tasks \in [Slot -> Task] /\ tasks[s] \in Task
          /\ Terminal(FollowupRun(n)) <=> EndedIn(log, FollowupRun(n))
      BY QueriesOfLog, QueryTypes DEF GoalInv, TypeOK
    <2>1. /\ lease = NoLease /\ Revision = n /\ ~Terminal(FollowupRun(n))
          /\ \E i \in Rows({"scheduled"}) : log[i].rev = n
          /\ log' = Append(log, row)
          /\ lease' = [run |-> FollowupRun(n), proc |-> tasks[s].proc]
          /\ tasks' = [tasks EXCEPT ![s] = Idle]
          /\ UNCHANGED <<receipts, ledger, opened, inbox, sent, crashes>>
      BY <1>2 DEF BeginFollowup, MayFollow, Write, Finish
    <2>2. n \in Nat /\ tasks[s].proc \in Proc \union {Nobody}
      BY <2>0 DEF Task
    <2> HIDE DEF n
    <2>3. /\ row \in Row /\ row.kind = "started" /\ row.run = FollowupRun(n) /\ row.rev = n
          /\ row.goal = CurOf(log) /\ FollowupRun(n) \in RunId
      BY <2>0, <2>2 DEF Row, NewRow, FollowupRun, RunId
    <2>4. FollowupRun(n) # NoRun /\ ~IsMessage(FollowupRun(n))
      BY DEF FollowupRun, NoRun, IsMessage
    <2> HIDE DEF row
    <2>5. StartsOf(log, row.run) = {}
      BY <2>0, <2>1, <2>3, <2>4 DEF StartsOf, StartedOK, NoLease
    <2>6. \E j \in DOMAIN log : log[j].rev = row.rev /\ log[j].goal = row.goal /\ MadeBy(log, j)
      <3>1. PICK j \in DOMAIN log : log[j].rev = n /\ MadeBy(log, j)
        BY <2>0, <2>1 DEF LogInv, SchedsMade, IsSched, Rows
      <3>2. log[j].goal = CurOf(log)
        BY <2>0, <2>1, <3>1, NewestIsGreatest DEF MadeBy, HasGoal
      <3> QED BY <2>3, <3>1, <3>2
    <2>7. lease' \in [run : RunId \union {NoRun}, proc : Proc \union {Nobody}] /\ lease'.run = row.run
      BY <2>1, <2>2, <2>3
    <2>8. Idle \in Task /\ TaskOK(log', ledger', Idle)
      BY DEF Idle, Task, TaskOK
    <2>9. TypeOK' /\ \A x \in Slot : tasks'[x] = tasks[x] \/ TaskOK(log', ledger', tasks'[x])
      BY <2>0, <2>1, <2>3, <2>7, <2>8, LoggedTypes DEF TypeOK
    <2> QED BY <2>0, <2>1, <2>3, <2>4, <2>5, <2>6, <2>7, <2>9, OtherRowInv
  <1> QED BY <1>1, <1>2

------------------------------------------------------------------------------
(* The theorems *)

LEMMA NextKeepsInv == GoalInv /\ [Next]_goalVars => GoalInv'
  <1> SUFFICES ASSUME GoalInv, [Next]_goalVars PROVE GoalInv'
    OBVIOUS
  <1>1. CASE UserStep
    BY <1>1, UserStepInv
  <1>2. ASSUME NEW p \in Proc, ProcStep(p) PROVE GoalInv'
    BY <1>2, MessageStepsInv, EndRunInv, OpenInv, CrashInv DEF ProcStep
  <1>3. ASSUME NEW s \in Slot, TaskProgress(s) \/ LedgerFails(s) PROVE GoalInv'
    BY <1>3, JudgeInv, EvaluateInv, NotEvaluatedInv, DrainInv, LookInv, BeginFollowupInv
       DEF TaskProgress
  <1>4. CASE UNCHANGED goalVars
    <2>1. UNCHANGED <<log, receipts, lease, ledger, opened, inbox, tasks, sent, crashes>>
      BY <1>4 DEF goalVars
    <2>2. TypeOK'
      BY <2>1 DEF GoalInv, TypeOK
    <2> QED BY <2>1, <2>2, UnloggedInv DEF GoalInv
  <1> QED BY <1>1, <1>2, <1>3, <1>4 DEF Next

\* The invariant holds throughout.
THEOREM GoalInvariant == Spec => []GoalInv
  BY InitGoalInv, NextKeepsInv, PTL DEF Spec

\* Every variable keeps its type.
THEOREM GoalTypes == Spec => []TypeOK
  <1>1. GoalInv => TypeOK
    BY DEF GoalInv
  <1> QED BY <1>1, GoalInvariant, PTL

\* However many tasks of however many processes look at a turn, it is evaluated once,
\* and a reservation becomes one run at most, of the goal its evaluation wrote
\* (append_thread_goal_post_turn, begin_run).
THEOREM TurnsAreJudgedOnce == Spec => []TurnsOnce
  <1>1. ASSUME GoalInv PROVE TurnsOnce
    <2>0. LogInv(log) /\ log \in Seq(Row)
      BY <1>1 DEF GoalInv, TypeOK
    <2>1. ASSUME NEW i \in Rows({"evaluated"}), NEW j \in Rows({"evaluated"}), log[i].run = log[j].run
          PROVE  i = j
      <3>1. IsEval(log, i) /\ IsEval(log, j) /\ i \in GoalRows(log) /\ j \in GoalRows(log)
        BY DEF Rows, IsEval, GoalRows, GoalKinds
      <3>2. log[i].rev = log[j].rev
        BY <2>0, <2>1, <3>1 DEF LogInv, EvalsOfFrozen, GoalRows
      <3>3. i \in Nat /\ j \in Nat /\ log[i].rev \in Nat /\ log[j].rev \in Nat
        BY <2>0, <3>1, GoalRowFacts
      <3>4. ~(i < j) /\ ~(j < i)
        BY <2>0, <3>1, <3>2, <3>3 DEF LogInv, Ascending
      <3> QED BY <3>3, <3>4
    <2>2. FollowupStarts = {i \in DOMAIN log : IsFollow(log, i)}
      BY DEF FollowupStarts, Rows, IsFollow
    <2>3. \A i, j \in FollowupStarts : log[i].run = log[j].run => i = j
      BY <2>0, <2>2 DEF LogInv, FollowedOnce
    <2>4. \A i \in FollowupStarts : \E j \in Rows({"evaluated"}) : j < i /\ log[j].goal = log[i].goal
      BY <2>0, <2>2 DEF LogInv, FollowsMade, MadeBy, IsEval, Rows
    <2> QED BY <2>1, <2>3, <2>4 DEF TurnsOnce
  <1> QED BY <1>1, GoalInvariant, PTL

\* The goal's revisions are one chain, and an evaluation, written long after the goal
\* was read, undoes no change of the user's (append_thread_goal_post_turn).
THEOREM NoEditIsLost == Spec => []NoLostEdit
  <1>1. ASSUME GoalInv PROVE NoLostEdit
    <2>1. Rows(GoalKinds) = GoalRows(log) /\ Chained(log)
      BY <1>1, QueriesOfLog DEF GoalInv, LogInv
    <2>2. ASSUME NEW i \in GoalRows(log), NEW j \in GoalRows(log), i < j,
                 ~\E k \in GoalRows(log) : i < k /\ k < j
          PROVE  \A k \in i + 1 .. j - 1 : k \notin GoalRows(log)
      <3>1. i \in Nat /\ j \in Nat
        BY <1>1, ListFacts DEF GoalInv, TypeOK, GoalRows
      <3> QED BY <2>2, <3>1
    <2> QED BY <2>1, <2>2 DEF NoLostEdit, Chained
  <1> QED BY <1>1, GoalInvariant, PTL

\* The run under way works on the goal as it is (begin_run).
THEOREM RunsWorkOnTheGoal == Spec => []RunsOnCurrentGoal
  <1>1. ASSUME GoalInv PROVE RunsOnCurrentGoal
    BY <1>1, QueriesOfLog DEF GoalInv, RunsOK, RunsOnCurrentGoal
  <1> QED BY <1>1, GoalInvariant, PTL

\* Follow-ups of one change of the goal have counted differently, up to its limit.
LEMMA FollowupsCountDifferently ==
  ASSUME GoalInv, NEW i \in FollowupStarts, NEW j \in FollowupStarts,
         log[i].goal.edit = log[j].goal.edit
  PROVE  /\ log[j].goal.used \in 1 .. log[i].goal.max /\ log[i].goal.max \in Nat
         /\ i # j => log[i].goal.used # log[j].goal.used
  <1>0. LogInv(log) /\ log \in Seq(Row) /\ IsFollow(log, i) /\ IsFollow(log, j)
        /\ i \in DOMAIN log /\ j \in DOMAIN log
    BY DEF GoalInv, TypeOK, FollowupStarts, Rows, IsFollow
  <1>1. PICK a \in DOMAIN log : log[a].rev = log[i].rev /\ log[a].goal = log[i].goal /\ MadeBy(log, a)
    BY <1>0 DEF LogInv, FollowsMade
  <1>2. PICK b \in DOMAIN log : log[b].rev = log[j].rev /\ log[b].goal = log[j].goal /\ MadeBy(log, b)
    BY <1>0 DEF LogInv, FollowsMade
  <1>3. SameEdit(log, a, b) /\ SameEdit(log, b, a) /\ HasGoal(log, a) /\ HasGoal(log, b)
        /\ a \in GoalRows(log) /\ b \in GoalRows(log)
    BY <1>1, <1>2 DEF MadeBy, SameEdit, HasGoal
  <1>4. /\ log[a].goal.max = log[b].goal.max /\ log[b].goal.used >= 1
        /\ log[b].goal.used <= log[b].goal.max
    BY <1>0, <1>2, <1>3 DEF LogInv, Counted, GoalsAgree, MadeBy
  <1>5. /\ log[a].goal \in Goal /\ log[b].goal \in Goal /\ a \in Nat /\ b \in Nat
    BY <1>0, <1>3, GoalRowFacts DEF HasGoal
  <1>6. /\ log[a].goal.max \in Nat /\ log[b].goal.max \in Nat
        /\ log[a].goal.used \in Nat /\ log[b].goal.used \in Nat
    BY <1>5 DEF Goal
  <1>7. i # j => a # b
    BY <1>0, <1>1, <1>2 DEF LogInv, FollowedOnce, FollowsMade
  <1>8. a # b => log[a].goal.used # log[b].goal.used
    <2>1. CASE a < b
      BY <1>2, <1>3, <1>6, <2>1 DEF MadeBy
    <2>2. CASE b < a
      BY <1>1, <1>3, <1>6, <2>2 DEF MadeBy
    <2> QED BY <1>5, <2>1, <2>2
  <1>9. log[j].goal.used \in 1 .. log[i].goal.max
    BY <1>1, <1>2, <1>4, <1>6
  <1> QED BY <1>1, <1>2, <1>6, <1>7, <1>8, <1>9

\* Between two changes by the user, no more follow-ups run than the policy allows
\* (evaluate_post_turn's counter, through every crash, message and racing task).
THEOREM FollowupsAreBounded == Spec => []FollowupsBounded
  <1>1. ASSUME GoalInv PROVE FollowupsBounded
    <2> SUFFICES ASSUME NEW i \in FollowupStarts
                 PROVE  Cardinality({j \in FollowupStarts : log[j].goal.edit = log[i].goal.edit})
                          <= log[i].goal.max
      BY DEF FollowupsBounded
    <2> DEFINE S == {j \in FollowupStarts : log[j].goal.edit = log[i].goal.edit}
               max == log[i].goal.max
               f == [j \in S |-> log[j].goal.used]
    <2>1. max \in Nat
      BY <1>1, FollowupsCountDifferently
    <2>2. \A j \in S : log[j].goal.used \in 1 .. max
      BY <1>1, FollowupsCountDifferently
    <2>3. \A j, k \in S : log[j].goal.used = log[k].goal.used => j = k
      BY <1>1, FollowupsCountDifferently
    <2> HIDE DEF S, max
    <2>4. f \in Injection(S, 1 .. max)
      BY <2>2, <2>3 DEF Injection, IsInjective
    <2>5. IsFiniteSet(1 .. max) /\ Cardinality(1 .. max) = max
      BY <2>1, FS_Interval
    <2>6. Cardinality(S) <= max
      BY <2>4, <2>5, FS_Injection
    <2> QED BY <2>6 DEF S, max
  <1> QED BY <1>1, GoalInvariant, PTL

------------------------------------------------------------------------------
(* The outbox *)

\* Only the transaction of an evaluation adds a deposit, and one at most.
LEMMA OtherRowKeepsDeposits ==
  ASSUME GoalInv, GoalInv', NEW row, log' = Append(log, row), row.kind # "evaluated"
  PROVE  Deposits' = Deposits
  <1>1. log \in Seq(Row) /\ log' \in Seq(Row)
    BY DEF GoalInv, TypeOK
  <1>2. log' = Append(log, row) /\ Len(log) + 1 \in DOMAIN log' /\ log'[Len(log) + 1] = row
    BY <1>1
  <1>3. row \in Row
    BY <1>1, <1>2, ListFacts
  <1>4. DepositsOf(log') = DepositsOf(log)
    BY <1>1, <1>3, AppendKeepsDeposits
  <1>5. Deposits = DepositsOf(log) /\ Deposits' = DepositsOf(log')
    BY DEF Deposits, DepositsOf, Rows
  <1> QED BY <1>4, <1>5

LEMMA StepsOfOutbox ==
  ASSUME GoalInv, GoalInv', Next, Revs = Nat
  PROVE  UNCHANGED <<Deposits, ledger, receipts>> \/ Box!OutboxNext
  <1>0. /\ log \in Seq(Row) /\ log' \in Seq(Row)
        /\ Deposits = DepositsOf(log) /\ Deposits' = DepositsOf(log')
        /\ ledger \subseteq Nat /\ ledger' \subseteq Nat
    BY DEF GoalInv, TypeOK, Deposits, DepositsOf, Rows
  <1>u. log' = log => Deposits' = Deposits
    BY <1>0
  <1>1. CASE UserStep
    <2>1. ASSUME NEW kind \in {"updated", "policy", "checked"}, NEW g, Change(kind, g)
          PROVE  UNCHANGED <<Deposits, ledger, receipts>>
      <3> DEFINE row == GoalRow(kind, NoRun, [g EXCEPT !.rev = Revision + 1], "")
      <3>1. log' = Append(log, row) /\ row.kind # "evaluated" /\ UNCHANGED <<ledger, receipts>>
        BY <2>1 DEF Change, Write, GoalRow, NewRow
      <3> HIDE DEF row
      <3> QED BY <3>1, OtherRowKeepsDeposits
    <2>2. ASSUME Clear PROVE UNCHANGED <<Deposits, ledger, receipts>>
      <3> DEFINE row == NewRow("cleared", NoRun, Revision + 1, NoGoal, "")
      <3>1. log' = Append(log, row) /\ row.kind # "evaluated" /\ UNCHANGED <<ledger, receipts>>
        BY <2>2 DEF Clear, Write, NewRow
      <3> HIDE DEF row
      <3> QED BY <3>1, OtherRowKeepsDeposits
    <2> QED BY <1>1, <2>1, <2>2 DEF UserStep, Upsert, Configure, CheckByHand
  <1>2. ASSUME NEW p \in Proc, ProcStep(p) PROVE UNCHANGED <<Deposits, ledger, receipts>>
    <2>1. UNCHANGED <<ledger, receipts>>
      BY <1>2 DEF ProcStep, ReceiveMessage, BeginMessage, RejectMessage, CloseRejected,
                  TypeMessage, EndRun, Open, Crash
    <2>2. \A kind, r, n, g, note : NewRow(kind, r, n, g, note).kind = kind
      BY DEF NewRow
    <2>3. \A kind, r, n, g, note :
            log' = Append(log, NewRow(kind, r, n, g, note)) /\ kind # "evaluated" =>
              Deposits' = Deposits
      BY <2>2, OtherRowKeepsDeposits
    <2>4. CASE ReceiveMessage(p) \/ Crash(p)
      BY <1>u, <2>1, <2>4 DEF ReceiveMessage, Crash
    <2>5. CASE BeginMessage(p)
      BY <2>1, <2>3, <2>5 DEF BeginMessage, Write
    <2>6. CASE RejectMessage(p) \/ CloseRejected(p) \/ TypeMessage(p)
      <3>1. \E kind \in {"user", "terminal"} : \E r, note :
              log' = Append(log, NewRow(kind, r, 0, NoGoal, note))
        <4>1. CASE RejectMessage(p)
          BY <4>1 DEF RejectMessage, Write, RunRow
        <4>2. CASE CloseRejected(p)
          BY <4>2 DEF CloseRejected, Write, RunRow
        <4>3. CASE TypeMessage(p)
          BY <4>3 DEF TypeMessage, Write, RunRow
        <4> QED BY <2>6, <4>1, <4>2, <4>3
      <3> QED BY <2>1, <2>3, <3>1
    <2>7. ASSUME NEW ending \in {"completed", "error", "cancelled"}, EndRun(p, ending)
          PROVE  Deposits' = Deposits
      BY <2>3, <2>7 DEF EndRun, Write, RunRow
    <2>8. CASE Open(p)
      BY <1>u, <2>1, <2>3, <2>8 DEF Open, Write, RunRow
    <2> QED BY <1>2, <2>1, <2>4, <2>5, <2>6, <2>7, <2>8 DEF ProcStep
  <1>3. ASSUME NEW s \in Slot, Evaluate(s)
        PROVE  UNCHANGED <<Deposits, ledger, receipts>> \/ Box!OutboxNext
    <2>1. UNCHANGED <<ledger, receipts>>
      BY <1>3 DEF Evaluate
    <2>2. \E row, next :
            /\ next.kind # "evaluated"
            /\ log' = Append(log, row) \/ log' = Append(Append(log, row), next)
      <3>1. PICK says \in Judgements : WriteEvaluation(s, says)
        BY <1>3 DEF Evaluate
      <3> DEFINE g == tasks[s].goal
                 streak == IF says.progress THEN 0 ELSE g.streak + 1
                 done == GoalRow("evaluated", tasks[s].source, Judged(g, says.verdict, streak),
                                 IF says.deposit THEN "deposit" ELSE "")
                 next == NewRow("scheduled", FollowupRun(g.rev + 1), g.rev + 1, NoGoal, "")
      <3>2. log' = Append(log, done) \/ log' = Append(Append(log, done), next)
        BY <3>1 DEF WriteEvaluation
      <3>3. next.kind # "evaluated"
        BY DEF NewRow
      <3> HIDE DEF done, next
      <3> QED BY <3>2, <3>3
    <2>p. PICK row, next :
            /\ next.kind # "evaluated"
            /\ log' = Append(log, row) \/ log' = Append(Append(log, row), next)
      BY <2>2
    <2>3. row \in Row
      BY <1>0, <2>p
    <2>4. Append(log, row) \in Seq(Row) /\ (log' = Append(Append(log, row), next) => next \in Row)
      BY <1>0, <2>p, <2>3
    <2>5. DepositsOf(log') = DepositsOf(Append(log, row))
      BY <2>p, <2>4, AppendKeepsDeposits
    <2>6. Deposits' = Deposits \/ (row.rev \notin Deposits /\ Deposits' = Deposits \union {row.rev})
      <3>1. Deposits \subseteq Deposits' /\ Deposits' \subseteq Deposits \union {row.rev}
        BY <1>0, <2>3, <2>5, AppendKeepsDeposits
      <3> HIDE DEF Deposits
      <3> QED BY <3>1
    <2>7. row.rev \in Revs
      BY <2>3 DEF Row
    <2> QED BY <2>1, <2>6, <2>7 DEF Box!OutboxNext, Box!Offer
  <1>4. ASSUME NEW s \in Slot, RecordEvidence(s)
        PROVE  UNCHANGED <<Deposits, ledger, receipts>> \/ Box!OutboxNext
    <2> DEFINE m == Min(tasks[s].todo)
    <2>1. /\ tasks[s].at = "record" /\ ledger' = ledger \union {m} /\ UNCHANGED <<log, receipts>>
      BY <1>4 DEF RecordEvidence
    <2>2. tasks[s].todo # {} /\ tasks[s].todo \subseteq Deposits /\ tasks[s].todo \subseteq Nat
      BY <1>0, <2>1 DEF GoalInv, TypeOK, TaskOK, Task
    <2>3. m \in Deposits /\ m \in Revs
      BY <2>2, MinIsLeast
    <2> QED BY <1>u, <2>1, <2>3 DEF Box!OutboxNext, Box!Deliver
  <1>5. ASSUME NEW s \in Slot, Acknowledge(s)
        PROVE  UNCHANGED <<Deposits, ledger, receipts>> \/ Box!OutboxNext
    <2> DEFINE m == Min(tasks[s].todo)
    <2>1. /\ tasks[s].at = "receipt" /\ receipts' = receipts \union {m} /\ UNCHANGED <<log, ledger>>
      BY <1>5 DEF Acknowledge
    <2>2. m \in ledger /\ m \in Revs
      BY <1>0, <2>1 DEF GoalInv, TaskOK
    <2> QED BY <1>u, <2>1, <2>2 DEF Box!OutboxNext, Box!Acknowledge
  <1>6. ASSUME NEW s \in Slot, BeginFollowup(s) PROVE UNCHANGED <<Deposits, ledger, receipts>>
    <2> DEFINE row == NewRow("started", FollowupRun(tasks[s].rev), tasks[s].rev, Current, "")
    <2>1. log' = Append(log, row) /\ row.kind # "evaluated" /\ UNCHANGED <<ledger, receipts>>
      BY <1>6 DEF BeginFollowup, Write, NewRow
    <2> HIDE DEF row
    <2> QED BY <2>1, OtherRowKeepsDeposits
  <1>7. ASSUME NEW s \in Slot,
               \/ Judge(s) \/ EvaluatedAlready(s) \/ EvaluationRefused(s) \/ ReadDeposits(s)
               \/ Look(s) \/ ReadPending(s) \/ FollowupRefused(s) \/ LedgerFails(s)
        PROVE  UNCHANGED <<Deposits, ledger, receipts>>
    BY <1>7, <1>u DEF Judge, EvaluatedAlready, EvaluationRefused, ReadDeposits, Look, ReadPending,
                      FollowupRefused, LedgerFails
  <1> QED BY <1>1, <1>2, <1>3, <1>4, <1>5, <1>6, <1>7 DEF Next, TaskProgress

\* The journal, the ledger and the receipts implement an outbox: evidence is recorded
\* once and acknowledged only when recorded (_drain_mastery_outbox), when the deposits
\* of no revision are left out.
THEOREM GoalImplementsOutbox == Revs = Nat => (Spec => ImplementsOutbox)
  <1> SUFFICES ASSUME Revs = Nat PROVE Spec => ImplementsOutbox
    OBVIOUS
  <1>1. Init => Box!OutboxInit
    <2> SUFFICES ASSUME Init PROVE Deposits = {} /\ ledger = {} /\ receipts = {}
      BY DEF Box!OutboxInit
    <2>1. \A i \in DOMAIN log : log[i].kind # "evaluated"
      BY HistoryAssumption DEF Init
    <2> QED BY <2>1 DEF Init, Deposits, Rows
  <1>2. GoalInv /\ GoalInv' /\ [Next]_goalVars =>
          [UNCHANGED <<Deposits, ledger, receipts>> \/ Box!OutboxNext]_goalVars
    BY StepsOfOutbox
  <1> QED BY <1>1, <1>2, GoalInvariant, PTL DEF Spec, ImplementsOutbox
=============================================================================

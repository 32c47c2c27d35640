------------------------- MODULE McpSessionPoolProofs -------------------------
(***************************************************************************)
(* Proofs about McpSessionPool, for every set of chats and servers, every  *)
(* number of calls and every capacity.                                     *)
(*                                                                         *)
(* The entries of the pool are popped in their order by a recursive        *)
(* function.  What it returns is proved by induction over the length of    *)
(* the sequence, from the fact that the natural numbers are well founded.  *)
(***************************************************************************)
EXTENDS McpSessionPool, FiniteSetTheorems, SequenceTheorems,
        WellFoundedInduction, TLAPS

------------------------------------------------------------------------------
(* The inductive invariant *)

Waits(c) == call[c].at = "wait"
ToShutDown(c) == Range(call[c].todo)

\* An owner that was told to stop, or that is at its end.
Stopped(o) == owner[o].told # "" \/ owner[o].at \in {"leaving", "done"}

\* Nothing refers to an owner that is not made yet.
OnlyMade ==
  /\ Registered \intersect Unmade = {}
  /\ \A c \in Call : call[c].owner \notin Unmade /\ ToShutDown(c) \intersect Unmade = {}

\* A call has owners to shut down exactly while it shuts some down; the first of them has
\* been told.  A call that makes or joins a session knows its owner.
CallsShaped ==
  \A c \in Call :
    /\ IsShutting(c) <=> call[c].todo # <<>>
    /\ IsShutting(c) => Stopped(Head(call[c].todo))
    /\ call[c].at \in {"join", "wait"} => call[c].owner \in Owner

\* A future that failed is the future of an owner at its end.
FailedAtEnd ==
  \A o \in Owner : owner[o].ready = "failed" => owner[o].at \in {"leaving", "done"}

\* A session being made is awaited by one call, which alone may put it in use.
OneMaker ==
  /\ \A c \in Call : Waits(c) => call[c].owner \notin Entries
  /\ \A c, d \in Call : Waits(c) /\ Waits(d) /\ call[c].owner = call[d].owner => c = d

\* A session in use, or one that its call may still put in use, is not told to stop and
\* nobody has it on the list of those to shut down.
Usable(o) ==
  \/ o \in Entries
  \/ o \in inflight /\ \E c \in Call : Waits(c) /\ call[c].owner = o

UsableKept ==
  \A o \in Owner : Usable(o) =>
    owner[o].told = "" /\ \A c \in Call : o \notin ToShutDown(c)

\* SessionsOwned, in the terms of this module.
Owned ==
  \A o \in Owner :
    \/ Stopped(o) \/ o \in Entries
    \/ \E c \in Call : o \in ToShutDown(c) \/ (Waits(c) /\ call[c].owner = o)

\* PoolCoherent, but for the lists of UsableKept.
Coherent ==
  /\ \A o \in Entries : owner[o].told = ""
  /\ \A o \in Entries, q \in inflight : owner[o].key # owner[q].key
  /\ closed => Registered = {}

PoolInv ==
  /\ TypeOK /\ Coherent /\ Owned
  /\ OnlyMade /\ CallsShaped /\ FailedAtEnd /\ OneMaker /\ UsableKept

------------------------------------------------------------------------------
(* Induction, and what popping keeps *)

\* A set of natural numbers has a least member.
LEMMA LeastElement ==
  ASSUME NEW T, T \subseteq Nat, T # {}
  PROVE  \E n \in T : \A m \in T : n <= m
<1> DEFINE R == OpToRel(<, Nat)
<1>1. IsWellFoundedOn(R, Nat)
  BY NatLessThanWellFounded
<1>2. \A x, y \in Nat : <<x, y>> \in R <=> x < y
  BY DEF OpToRel
<1> HIDE DEF R
<1>3. PICK x \in T : \A y \in T : ~ (<<y, x>> \in R)
  BY <1>1, WFMin
<1>4. \A y \in T : x \in Nat /\ y \in Nat /\ ~ (y < x)
  BY <1>2, <1>3
<1>5. \A y \in T : x <= y
  BY <1>4
<1> QED BY <1>5

\* Induction, over a set in place of a predicate.
LEMMA Induction ==
  ASSUME NEW T, 0 \in T, \A n \in Nat : n \in T => n + 1 \in T
  PROVE  Nat \subseteq T
<1> SUFFICES ASSUME NEW u \in Nat, u \notin T PROVE FALSE
  OBVIOUS
<1> DEFINE U == {n \in Nat : n \notin T}
<1>1. PICK n \in U : \A m \in U : n <= m
  BY LeastElement
<1>2. n \in Nat /\ n # 0
  OBVIOUS
<1>3. n - 1 \in Nat /\ n - 1 \notin U
  BY <1>1, <1>2
<1> QED BY <1>2, <1>3

\* The recursion of Kept, over the first m elements.
Recurs(s, S, f, m) ==
  f = [n \in 0 .. m |->
        IF n = 0 THEN <<>>
        ELSE IF s[n] \in S THEN Append(f[n - 1], s[n]) ELSE f[n - 1]]

\* The recursion has a solution.
LEMMA RecursionSolved ==
  ASSUME NEW s, NEW S
  PROVE  \A m \in Nat : \E f : Recurs(s, S, f, m)
<1> DEFINE T == {m \in Nat : \E f : Recurs(s, S, f, m)}
<1>1. 0 \in T
  <2>1. Recurs(s, S, [n \in 0 .. 0 |-> <<>>], 0)
    BY DEF Recurs
  <2> QED BY <2>1
<1>2. ASSUME NEW m \in Nat, m \in T PROVE m + 1 \in T
  <2>1. PICK f : Recurs(s, S, f, m)
    BY <1>2
  <2> DEFINE g == [n \in 0 .. (m + 1) |->
        IF n = m + 1 THEN IF s[n] \in S THEN Append(f[m], s[n]) ELSE f[m] ELSE f[n]]
  <2>2. \A n \in 0 .. m : g[n] = f[n]
    OBVIOUS
  <2>3. ASSUME NEW n \in 0 .. (m + 1)
        PROVE  g[n] = IF n = 0 THEN <<>>
                      ELSE IF s[n] \in S THEN Append(g[n - 1], s[n]) ELSE g[n - 1]
    <3>1. CASE n = m + 1
      <4>1. g[n - 1] = f[m] /\ n # 0
        BY <3>1, <2>2
      <4> QED BY <3>1, <4>1
    <3>2. CASE n # m + 1 /\ n = 0
      BY <3>2, <2>1, <2>2 DEF Recurs
    <3>3. CASE n # m + 1 /\ n # 0
      <4>1. n \in 0 .. m /\ n - 1 \in 0 .. m
        BY <3>3
      <4>2. f[n] = IF s[n] \in S THEN Append(f[n - 1], s[n]) ELSE f[n - 1]
        BY <4>1, <3>3, <2>1 DEF Recurs
      <4> HIDE DEF g
      <4> QED BY <3>3, <4>1, <4>2, <2>2
    <3> QED BY <3>1, <3>2, <3>3
  <2>4. g = [n \in 0 .. (m + 1) |-> g[n]]
    OBVIOUS
  <2> HIDE DEF g
  <2>5. Recurs(s, S, g, m + 1)
    BY <2>3, <2>4 DEF Recurs
  <2> QED BY <2>5
<1> HIDE DEF T
<1>3. Nat \subseteq T
  BY <1>1, <1>2, Induction
<1> QED BY <1>3 DEF T

\* Kept returns a sequence of the elements of s that are in S: without repetitions if s has
\* none, and shorter than s if s has any other element.
LEMMA KeptFacts ==
  ASSUME NEW X, NEW s \in Seq(X), NEW S
  PROVE  /\ Kept(s, S) \in Seq(X)
         /\ Range(Kept(s, S)) = Range(s) \intersect S
         /\ Len(Kept(s, S)) <= Len(s)
         /\ IsInjective(s) => IsInjective(Kept(s, S))
         /\ ~ (Range(s) \subseteq S) => Len(Kept(s, S)) < Len(s)
<1> DEFINE f == CHOOSE f : Recurs(s, S, f, Len(s))
<1>a. Len(s) \in Nat /\ DOMAIN s = 1 .. Len(s) /\ \A i \in 1 .. Len(s) : s[i] \in X
  BY LenProperties
<1>1. Recurs(s, S, f, Len(s))
  BY <1>a, RecursionSolved
<1>2. Kept(s, S) = f[Len(s)]
  BY DEF Kept, Recurs
<1> HIDE DEF f
<1>3. /\ f[0] = <<>>
      /\ \A n \in 0 .. Len(s) : n # 0 =>
           f[n] = IF s[n] \in S THEN Append(f[n - 1], s[n]) ELSE f[n - 1]
  <2>1. ASSUME NEW n \in 0 .. Len(s)
        PROVE  f[n] = IF n = 0 THEN <<>>
                      ELSE IF s[n] \in S THEN Append(f[n - 1], s[n]) ELSE f[n - 1]
    BY <1>1 DEF Recurs
  <2>2. 0 \in 0 .. Len(s)
    BY <1>a
  <2> QED BY <2>1, <2>2
<1> DEFINE Good(n) ==
      /\ f[n] \in Seq(X)
      /\ Len(f[n]) <= n
      /\ \A i \in DOMAIN f[n] : f[n][i] \in S /\ \E j \in 1 .. n : s[j] = f[n][i]
      /\ \A j \in 1 .. n : s[j] \in S => \E i \in DOMAIN f[n] : f[n][i] = s[j]
      /\ IsInjective(s) => \A i, j \in DOMAIN f[n] : f[n][i] = f[n][j] => i = j
      /\ (\E j \in 1 .. n : s[j] \notin S) => Len(f[n]) < n
    T == {n \in Nat : n <= Len(s) => Good(n)}
<1>4. 0 \in T
  <2>1. f[0] \in Seq(X) /\ Len(f[0]) = 0 /\ DOMAIN f[0] = {}
    BY <1>3, EmptySeq, LenProperties
  <2>2. 1 .. 0 = {}
    OBVIOUS
  <2>3. Good(0)
    BY <2>1, <2>2
  <2> QED BY <2>3
<1>5. ASSUME NEW n \in Nat, n \in T PROVE n + 1 \in T
  <2> SUFFICES ASSUME n + 1 <= Len(s) PROVE Good(n + 1)
    OBVIOUS
  <2>1. Good(n)
    BY <1>5, <1>a
  <2>2. n + 1 \in 1 .. Len(s) /\ n + 1 # 0 /\ (n + 1) - 1 = n /\ s[n + 1] \in X
    BY <1>a
  <2>3. f[n + 1] = IF s[n + 1] \in S THEN Append(f[n], s[n + 1]) ELSE f[n]
    BY <1>3, <2>2
  <2>4. \A j \in 1 .. (n + 1) : j \in 1 .. n \/ j = n + 1
    OBVIOUS
  <2>5. CASE s[n + 1] \notin S
    <3>1. f[n + 1] = f[n]
      BY <2>3, <2>5
    <3> QED BY <3>1, <2>1, <2>4, <2>5, LenProperties
  <2>6. CASE s[n + 1] \in S
    <3> DEFINE a == f[n]  b == f[n + 1]  e == s[n + 1]
    <3>1. a \in Seq(X) /\ Len(a) \in Nat /\ DOMAIN a = 1 .. Len(a)
      BY <2>1, LenProperties
    <3>2. b = Append(a, e)
      BY <2>3, <2>6
    <3>3. /\ b \in Seq(X) /\ Len(b) = Len(a) + 1 /\ DOMAIN b = 1 .. (Len(a) + 1)
          /\ \A i \in 1 .. Len(a) : b[i] = a[i]
          /\ b[Len(a) + 1] = e
      BY <3>1, <3>2, <2>2, AppendProperties, LenProperties
    <3>4. \A i \in DOMAIN b : i \in DOMAIN a \/ i = Len(a) + 1
      BY <3>1, <3>3
    <3>5. \A i \in DOMAIN b : b[i] \in S /\ \E j \in 1 .. (n + 1) : s[j] = b[i]
      <4> TAKE i \in DOMAIN b
      <4>1. CASE i \in DOMAIN a
        <5>1. b[i] = a[i]
          BY <4>1, <3>1, <3>3
        <5>2. a[i] \in S
          BY <4>1, <2>1
        <5>3. PICK j \in 1 .. n : s[j] = a[i]
          BY <4>1, <2>1
        <5>4. j \in 1 .. (n + 1)
          BY <1>5, <5>3
        <5> QED BY <5>1, <5>2, <5>3, <5>4
      <4>2. CASE i = Len(a) + 1
        <5>1. n + 1 \in 1 .. (n + 1)
          BY <1>5
        <5> QED BY <4>2, <5>1, <2>6, <3>3
      <4> QED BY <3>4, <4>1, <4>2
    <3>6. \A j \in 1 .. (n + 1) : s[j] \in S => \E i \in DOMAIN b : b[i] = s[j]
      <4> TAKE j \in 1 .. (n + 1)
      <4>1. CASE j \in 1 .. n
        <5> SUFFICES ASSUME s[j] \in S PROVE \E i \in DOMAIN b : b[i] = s[j]
          OBVIOUS
        <5>1. PICK i \in DOMAIN a : a[i] = s[j]
          BY <4>1, <2>1
        <5> QED BY <5>1, <3>1, <3>3
      <4>2. CASE j = n + 1
        <5>1. Len(a) + 1 \in DOMAIN b
          BY <3>1, <3>3
        <5> QED BY <4>2, <5>1, <3>3
      <4> QED BY <2>4, <4>1, <4>2
    <3>7. ASSUME IsInjective(s), NEW i \in DOMAIN b, NEW j \in DOMAIN b, b[i] = b[j]
          PROVE  i = j
      <4>1. \A k \in DOMAIN a : a[k] # e
        <5> SUFFICES ASSUME NEW k \in DOMAIN a, a[k] = e PROVE FALSE
          OBVIOUS
        <5>1. PICK m \in 1 .. n : s[m] = a[k]
          BY <2>1
        <5>2. m \in DOMAIN s /\ n + 1 \in DOMAIN s /\ m # n + 1
          BY <1>a, <2>2
        <5> QED BY <5>1, <5>2, <3>7 DEF IsInjective
      <4>2. CASE i \in DOMAIN a /\ j \in DOMAIN a
        <5>1. b[i] = a[i] /\ b[j] = a[j]
          BY <4>2, <3>1, <3>3
        <5>2. a[i] = a[j] => i = j
          BY <4>2, <2>1, <3>7
        <5> QED BY <5>1, <5>2, <3>7
      <4>3. CASE i \in DOMAIN a /\ j = Len(a) + 1
        BY <4>3, <4>1, <3>1, <3>3, <3>7
      <4>4. CASE i = Len(a) + 1 /\ j \in DOMAIN a
        BY <4>4, <4>1, <3>1, <3>3, <3>7
      <4> QED BY <3>4, <4>2, <4>3, <4>4
    <3>8. (\E j \in 1 .. (n + 1) : s[j] \notin S) => Len(b) < n + 1
      BY <2>1, <2>4, <2>6, <3>1, <3>3
    <3>9. Len(b) <= n + 1
      BY <2>1, <3>1, <3>3
    <3> QED BY <3>3, <3>5, <3>6, <3>7, <3>8, <3>9
  <2> QED BY <2>5, <2>6
<1> HIDE DEF T
<1>6. Nat \subseteq T
  BY <1>4, <1>5, Induction
<1>7. Good(Len(s))
  <2>1. Len(s) \in T /\ Len(s) <= Len(s)
    BY <1>6, <1>a
  <2> QED BY <2>1 DEF T
<1> DEFINE k == Kept(s, S)
<1>8. k = f[Len(s)]
  BY <1>2
<1>9. Range(k) = Range(s) \intersect S
  <2>1. \A x \in Range(k) : x \in Range(s) \intersect S
    BY <1>7, <1>8, <1>a DEF Range
  <2>2. \A x \in Range(s) \intersect S : x \in Range(k)
    <3> TAKE x \in Range(s) \intersect S
    <3>1. PICK j \in 1 .. Len(s) : s[j] = x
      BY <1>a DEF Range
    <3>2. PICK i \in DOMAIN k : k[i] = s[j]
      BY <1>7, <1>8, <3>1
    <3> QED BY <3>1, <3>2 DEF Range
  <2> QED BY <2>1, <2>2
<1>10. ~ (Range(s) \subseteq S) => \E j \in 1 .. Len(s) : s[j] \notin S
  BY <1>a DEF Range
<1> QED BY <1>7, <1>8, <1>9, <1>10 DEF IsInjective

------------------------------------------------------------------------------
(* The operators of the pool *)

LEMMA NotMadeTyped == SomeKey \in Key /\ NotMade \in Task
<1>1. Key # {}
  <2>1. PICK s \in Scope, m \in Server : TRUE
    BY PoolAssumption
  <2>2. <<s, m>> \in Key
    BY DEF Key
  <2> QED BY <2>2
<1>2. SomeKey \in Key
  BY <1>1 DEF SomeKey
<1> QED BY <1>2 DEF NotMade, Task

\* There is an owner to make as long as one is not made.
LEMMA FreshIsUnmade ==
  ASSUME Unmade # {}
  PROVE  Fresh \in Unmade
<1>1. Unmade \subseteq Nat
  BY PoolAssumption DEF Unmade, Owner
<1>2. \E o \in Unmade : \A q \in Unmade : o <= q
  BY <1>1, LeastElement
<1> QED BY <1>2 DEF Fresh

\* A set of owners is listed by its members.
LEMMA ListsItsMembers ==
  ASSUME NEW S, S \subseteq Owner
  PROVE  SetToSeq(S) \in Seq(Owner) /\ Range(SetToSeq(S)) \subseteq S
<1>1. IsFiniteSet(Owner)
  BY FS_Interval, PoolAssumption DEF Owner
<1>2. Cardinality(S) \in Nat /\ ExistsBijection(1 .. Cardinality(S), S)
  BY <1>1, FS_Subset, FS_CardinalityType
<1> DEFINE n == Cardinality(S)
<1>3. \E f \in [1 .. n -> S] : IsInjective(f)
  BY <1>2 DEF ExistsBijection, Bijection, Injection, IsInjective
<1>4. SetToSeq(S) \in [1 .. n -> S]
  BY <1>3 DEF SetToSeq
<1>5. SetToSeq(S) \in Seq(S)
  BY <1>2, <1>4, SeqDef
<1>6. SetToSeq(S) \in Seq(Owner)
  BY <1>5, SeqMonotonic
<1>7. Range(SetToSeq(S)) \subseteq S
  BY <1>5, RangeOfSeq
<1> QED BY <1>6, <1>7

\* What popping some of the sessions in use leaves: the others, at most one of a key.
LEMMA PoppedFacts ==
  ASSUME TypeOK, NEW S
  PROVE  /\ Popped(S) \in Seq(Owner)
         /\ Range(Popped(S)) = Entries \ S
         /\ Len(Popped(S)) \in Nat /\ Len(Popped(S)) <= Len(entries)
         /\ S \intersect Entries # {} => Len(Popped(S)) < Len(entries)
         /\ \A i, j \in DOMAIN Popped(S) :
              owner[Popped(S)[i]].key = owner[Popped(S)[j]].key => i = j
<1> DEFINE p == Popped(S)
<1>1. entries \in Seq(Owner) /\ IsInjective(entries)
  BY DEF TypeOK, IsInjective
<1>2. p = Kept(entries, Entries \ S)
  BY DEF Popped
<1>3. /\ p \in Seq(Owner) /\ Len(p) <= Len(entries) /\ IsInjective(p)
      /\ Range(p) = Range(entries) \intersect (Entries \ S)
      /\ ~ (Range(entries) \subseteq Entries \ S) => Len(p) < Len(entries)
  BY <1>1, <1>2, KeptFacts
<1>4. Range(p) = Entries \ S
  BY <1>3 DEF Entries
<1>5. S \intersect Entries # {} => Len(p) < Len(entries)
  BY <1>3 DEF Entries
<1>6. \A x, y \in Entries : owner[x].key = owner[y].key => x = y
  BY DEF TypeOK, Entries, Range
<1> HIDE DEF p
<1>7. \A i, j \in DOMAIN p : owner[p[i]].key = owner[p[j]].key => i = j
  <2>1. \A i \in DOMAIN p : p[i] \in Entries
    BY <1>4 DEF Range
  <2> QED BY <1>3, <1>6, <2>1 DEF IsInjective
<1> QED BY <1>3, <1>4, <1>5, <1>7, LenProperties DEF p

\* Each owner keeps its key, state and future; at most h is told to stop, and h is told.
OwnersTold(h) ==
  /\ owner' \in [Owner -> Task]
  /\ \A q \in Owner : /\ owner'[q].key = owner[q].key /\ owner'[q].at = owner[q].at
                      /\ owner'[q].ready = owner[q].ready
                      /\ q # h => owner'[q].told = owner[q].told
                      /\ Stopped(q) => Stopped(q)'
  /\ Unmade' = Unmade
  /\ Stopped(h)'

LEMMA StoppingTells ==
  ASSUME TypeOK, NEW todo \in Seq(Owner), todo # <<>>, NEW hard, Head(todo) \notin Unmade,
         owner' = Stopping(todo, hard)
  PROVE  OwnersTold(Head(todo))
<1> DEFINE h == Head(todo)
<1>1. h \in Owner
  BY HeadTailProperties
<1>4. owner \in [Owner -> Task]
  BY DEF TypeOK
<1> HIDE DEF h
<1>2. CASE owner[h].at \in {"leaving", "done"} \/ owner[h].told = "cancel"
  <2>1. owner' = owner
    BY <1>2 DEF Stopping, h
  <2> QED BY <1>2, <2>1 DEF OwnersTold, Stopped, Unmade, TypeOK, h
<1>3. CASE ~ (owner[h].at \in {"leaving", "done"} \/ owner[h].told = "cancel")
  <2> DEFINE told == IF h \in hard THEN "cancel" ELSE "stop"
  <2>1. owner' = [owner EXCEPT ![h].told = told]
    BY <1>3 DEF Stopping, h
  <2>2. told \in {"stop", "cancel"}
    OBVIOUS
  <2> HIDE DEF told
  <2>3. owner' \in [Owner -> Task]
    <3>1. [owner[h] EXCEPT !.told = told] \in Task
      BY <1>1, <1>4, <2>2 DEF Task
    <3> QED BY <1>1, <1>4, <2>1, <3>1
  <2>4. \A q \in Owner : q # h => owner'[q] = owner[q]
    BY <2>1 DEF TypeOK
  <2>5. /\ owner'[h].key = owner[h].key /\ owner'[h].at = owner[h].at
        /\ owner'[h].ready = owner[h].ready /\ owner'[h].told = told
    BY <1>1, <1>4, <2>1 DEF Task
  <2>6. owner'[h] # NotMade /\ owner[h] # NotMade
    <3>1. NotMade.at = "done"
      BY DEF NotMade
    <3>2. owner'[h].at # "done" /\ owner[h].at # "done"
      BY <2>5, <1>3
    <3> QED BY <3>1, <3>2
  <2>7. Unmade' = Unmade
    BY <2>4, <2>6 DEF Unmade
  <2>8. Stopped(h)'
    BY <2>2, <2>5 DEF Stopped
  <2> QED BY <2>3, <2>4, <2>5, <2>7, <2>8 DEF OwnersTold, Stopped, h
<1> QED BY <1>2, <1>3

------------------------------------------------------------------------------
(* The steps of the owner tasks *)

LEMMA Initially == Init => PoolInv
<1> SUFFICES ASSUME Init PROVE PoolInv
  OBVIOUS
<1>1. NotMade \in Task /\ Idle \in Pending
  BY NotMadeTyped, EmptySeq DEF Idle, Pending
<1>2. entries = <<>> /\ entries \in Seq(Owner) /\ Len(entries) = 0 /\ DOMAIN entries = {}
  BY EmptySeq DEF Init
<1>3. Entries = {} /\ Registered = {}
  BY <1>2 DEF Entries, Range, Registered, Init
<1>4. \A c \in Call : call[c] = Idle
  BY DEF Init
<1>5. \A c \in Call : ToShutDown(c) = {}
  BY <1>4, EmptySeq DEF ToShutDown, Range, Idle
<1>6. \A o \in Owner : owner[o] = NotMade
  BY DEF Init
<1>14. \A o \in Owner : owner[o].at = "done" /\ owner[o].ready = "pending"
  <2>1. NotMade.at = "done" /\ NotMade.ready = "pending"
    BY DEF NotMade
  <2> QED BY <1>6, <2>1
<1>15. \A c \in Call : ~ Waits(c)
  <2>1. Idle.at = "idle"
    BY DEF Idle
  <2> QED BY <1>4, <2>1 DEF Waits
<1>7. TypeOK
  <2>1. Len(entries) <= MaxSessions
    BY <1>2, PoolAssumption
  <2> QED BY <1>1, <1>2, <2>1 DEF Init, TypeOK
<1>8. Coherent
  BY <1>3 DEF Coherent, Init
<1>9. Owned
  BY <1>14 DEF Owned, Stopped
<1>10. OnlyMade
  BY <1>3, <1>4, <1>5 DEF OnlyMade, Unmade, Idle, Owner
<1>11. CallsShaped
  BY <1>4 DEF CallsShaped, IsShutting, Idle
<1>12. FailedAtEnd
  BY <1>14 DEF FailedAtEnd
<1>13. OneMaker /\ UsableKept
  BY <1>3, <1>15 DEF OneMaker, UsableKept, Usable, Registered
<1> QED BY <1>7, <1>8, <1>9, <1>10, <1>11, <1>12, <1>13 DEF PoolInv

\* What the step of an owner task is to the others: it keeps its key, an owner told or at
\* its end stays so, and only at its end has its future failed.
OwnerMoves(o) ==
  /\ UNCHANGED <<entries, inflight, closed, call>>
  /\ owner' \in [Owner -> Task]
  /\ \A q \in Owner : q # o => owner'[q] = owner[q]
  /\ owner'[o].key = owner[o].key
  /\ owner[o] # NotMade /\ owner'[o] # NotMade
  /\ Stopped(o) => Stopped(o)'
  /\ owner[o].told = "" => owner'[o].told = ""
  /\ owner'[o].ready = "failed" => owner'[o].at \in {"leaving", "done"}

LEMMA MovesMoves ==
  ASSUME TypeOK, FailedAtEnd, NEW o \in Owner,
         NEW at \in {"opening", "done"},
         owner[o].at = "born", at = "done" => owner[o].told # "", Moves(o, at)
  PROVE  OwnerMoves(o)
<1>1. owner \in [Owner -> Task] /\ owner[o] \in Task
  BY DEF TypeOK
<1>2. owner' = [owner EXCEPT ![o].at = at]
  BY DEF Moves
<1>3. owner' \in [Owner -> Task]
  BY <1>1, <1>2 DEF Task
<1>4. \A q \in Owner : q # o => owner'[q] = owner[q]
  BY <1>1, <1>2
<1>5. /\ owner'[o].key = owner[o].key /\ owner'[o].at = at
      /\ owner'[o].ready = owner[o].ready /\ owner'[o].told = owner[o].told
  BY <1>1, <1>2 DEF Task
<1>6. owner[o].ready # "failed"
  BY DEF FailedAtEnd
<1>7. owner[o] # NotMade /\ owner'[o] # NotMade
  <2>1. NotMade.at = "done" /\ NotMade.told = ""
    BY DEF NotMade
  <2> QED BY <1>5, <2>1
<1>8. Stopped(o) => Stopped(o)'
  BY <1>5 DEF Stopped
<1> QED BY <1>3, <1>4, <1>5, <1>6, <1>7, <1>8 DEF OwnerMoves, Moves

LEMMA EndsMoves ==
  ASSUME TypeOK, NEW o \in Owner, NEW at \in {"leaving", "done"},
         owner[o].at # "done", Ends(o, at)
  PROVE  OwnerMoves(o)
<1>1. owner \in [Owner -> Task] /\ owner[o] \in Task
  BY DEF TypeOK
<1> DEFINE r == IF owner[o].ready = "pending" THEN "failed" ELSE owner[o].ready
           n == [key |-> owner[o].key, at |-> at, told |-> "", ready |-> r]
<1>2. owner' = [owner EXCEPT ![o] = n]
  BY DEF Ends
<1>3. r \in {"session", "failed"}
  BY <1>1 DEF Task
<1>5. n.key = owner[o].key /\ n.at = at /\ n.told = "" /\ n.ready = r
  BY <1>1 DEF Task
<1>4. n \in Task
  BY <1>1, <1>3 DEF Task
<1> HIDE DEF r
<1> HIDE DEF n
<1>6. owner' \in [Owner -> Task] /\ owner'[o] = n
  BY <1>1, <1>2, <1>4
<1>7. \A q \in Owner : q # o => owner'[q] = owner[q]
  BY <1>1, <1>2
<1>8. owner[o] # NotMade /\ owner'[o] # NotMade
  <2>1. NotMade.at = "done" /\ NotMade.ready = "pending"
    BY DEF NotMade
  <2> QED BY <1>3, <1>5, <1>6, <2>1
<1>9. Stopped(o)' /\ owner'[o].told = "" /\ owner'[o].at \in {"leaving", "done"}
  BY <1>5, <1>6 DEF Stopped
<1> QED BY <1>5, <1>6, <1>7, <1>8, <1>9 DEF OwnerMoves, Ends

LEMMA OwnerStepMoves ==
  ASSUME TypeOK, FailedAtEnd, NEW o \in Owner, OwnerStep(o)
  PROVE  OwnerMoves(o)
<1>1. CASE Starts(o)
  BY <1>1, MovesMoves DEF Starts
<1>2. CASE NeverStarts(o)
  BY <1>2, MovesMoves DEF NeverStarts
<1>3. CASE Initialized(o)
  <2>1. owner \in [Owner -> Task] /\ owner[o] \in Task
    BY DEF TypeOK
  <2>2. owner' = [owner EXCEPT ![o].at = "serving", ![o].ready = "session"]
    BY <1>3 DEF Initialized
  <2>3. owner' \in [Owner -> Task]
    BY <2>1, <2>2 DEF Task
  <2>4. \A q \in Owner : q # o => owner'[q] = owner[q]
    BY <2>1, <2>2
  <2>5. /\ owner'[o].key = owner[o].key /\ owner'[o].at = "serving"
        /\ owner'[o].ready = "session" /\ owner'[o].told = owner[o].told
    BY <2>1, <2>2 DEF Task
  <2>6. owner[o] # NotMade /\ owner'[o] # NotMade
    <3>1. NotMade.at = "done"
      BY DEF NotMade
    <3> QED BY <1>3, <2>5, <3>1 DEF Initialized
  <2>7. Stopped(o) => Stopped(o)'
    BY <1>3, <2>5 DEF Stopped, Initialized
  <2> QED BY <1>3, <2>3, <2>4, <2>5, <2>6, <2>7 DEF OwnerMoves, Initialized
<1>4. CASE OpenFails(o)
  BY <1>4, EndsMoves DEF OpenFails
<1>5. CASE Dies(o)
  BY <1>5, EndsMoves DEF Dies
<1>6. CASE Closes(o)
  BY <1>6, EndsMoves DEF Closes, OpenFails
<1>7. CASE Left(o)
  BY <1>7, EndsMoves DEF Left
<1> QED BY <1>1, <1>2, <1>3, <1>4, <1>5, <1>6, <1>7 DEF OwnerStep

LEMMA OwnerMovesKeeps ==
  ASSUME PoolInv, NEW o \in Owner, OwnerMoves(o)
  PROVE  PoolInv'
<1> USE DEF OwnerMoves
<1>1. \A q \in Owner : owner'[q].key = owner[q].key
  OBVIOUS
<1>2. \A q \in Owner : Stopped(q) => Stopped(q)'
  BY DEF Stopped
<1>3. Unmade' = Unmade
  BY DEF Unmade
<1>4. Entries' = Entries /\ Registered' = Registered /\ Entries \subseteq Owner
  BY RangeOfSeq DEF Entries, Registered, PoolInv, TypeOK
<1>5. \A c \in Call : call'[c] = call[c] /\ ToShutDown(c)' = ToShutDown(c)
  BY DEF ToShutDown
<1>6. TypeOK'
  <2>1. \A i \in DOMAIN entries : entries[i] \in Owner
    <3>1. entries \in Seq(Owner)
      BY DEF PoolInv, TypeOK
    <3> QED BY <3>1, LenProperties
  <2>2. inflight \subseteq Owner
    BY DEF PoolInv, TypeOK
  <2>3. \A i, j \in DOMAIN entries : owner'[entries[i]].key = owner'[entries[j]].key => i = j
    BY <1>1, <2>1 DEF PoolInv, TypeOK
  <2>4. \A p, q \in inflight : owner'[p].key = owner'[q].key => p = q
    <3>1. \A p, q \in inflight : owner[p].key = owner[q].key => p = q
      BY DEF PoolInv, TypeOK
    <3> QED BY <1>1, <2>2, <3>1
  <2> QED BY <2>3, <2>4 DEF PoolInv, TypeOK
<1>7. Coherent'
  <2>1. \A q \in Entries : owner'[q].told = ""
    BY <1>4 DEF PoolInv, Coherent
  <2>2. \A p \in Entries, q \in inflight : owner'[p].key # owner'[q].key
    <3>1. \A p \in Entries, q \in inflight : owner[p].key # owner[q].key
      BY DEF PoolInv, Coherent
    <3>2. inflight \subseteq Owner
      BY DEF PoolInv, TypeOK
    <3> QED BY <1>1, <1>4, <3>1, <3>2
  <2> QED BY <1>4, <2>1, <2>2 DEF PoolInv, Coherent
<1>8. Owned'
  BY <1>2, <1>4, <1>5 DEF PoolInv, Owned, Waits
<1>9. OnlyMade'
  BY <1>3, <1>4, <1>5 DEF PoolInv, OnlyMade
<1>10. CallsShaped'
  <2>1. \A c \in Call : IsShutting(c) => Head(call[c].todo) \in Owner
    BY HeadTailProperties DEF PoolInv, CallsShaped, TypeOK, Pending
  <2> QED BY <1>2, <1>5, <2>1 DEF PoolInv, CallsShaped, IsShutting
<1>11. FailedAtEnd'
  BY DEF PoolInv, FailedAtEnd
<1>12. OneMaker'
  BY <1>4, <1>5 DEF PoolInv, OneMaker, Waits
<1>13. UsableKept'
  <2>1. \A q \in Owner : Usable(q)' => Usable(q)
    BY <1>4, <1>5 DEF Usable, Waits
  <2>2. \A q \in Owner : owner[q].told = "" => owner'[q].told = ""
    OBVIOUS
  <2> QED BY <1>5, <2>1, <2>2 DEF PoolInv, UsableKept
<1> QED
  BY <1>6, <1>7, <1>8, <1>9, <1>10, <1>11, <1>12, <1>13 DEF PoolInv

------------------------------------------------------------------------------
(* The steps of the calls that put no session in use *)

\* The first owner of a list and those after it are the owners of the list.
LEMMA ListParts ==
  ASSUME NEW s \in Seq(Owner), s # <<>>
  PROVE  /\ Head(s) \in Owner /\ Head(s) \in Range(s)
         /\ Tail(s) \in Seq(Owner) /\ Range(Tail(s)) \subseteq Range(s)
         /\ \A o \in Range(s) : o = Head(s) \/ o \in Range(Tail(s))
         /\ \A i \in DOMAIN Tail(s) : i + 1 \in DOMAIN s /\ Tail(s)[i] = s[i + 1]
         /\ Len(s) \in Nat /\ Len(Tail(s)) = Len(s) - 1 /\ 1 \in DOMAIN s /\ Head(s) = s[1]
<1>1. Len(s) \in Nat \ {0} /\ DOMAIN s = 1 .. Len(s)
  BY EmptySeq, LenProperties
<1>2. /\ Tail(s) \in Seq(Owner) /\ Len(Tail(s)) = Len(s) - 1
      /\ \A i \in 1 .. Len(Tail(s)) : Tail(s)[i] = s[i + 1]
  BY HeadTailProperties
<1>3. DOMAIN Tail(s) = 1 .. (Len(s) - 1)
  BY <1>2, LenProperties
<1>4. 1 \in DOMAIN s /\ Head(s) = s[1] /\ Head(s) \in Owner
  BY <1>1, HeadTailProperties DEF Head
<1>5. \A i \in DOMAIN Tail(s) : i + 1 \in DOMAIN s /\ Tail(s)[i] = s[i + 1]
  BY <1>1, <1>2, <1>3
<1>6. Range(Tail(s)) \subseteq Range(s)
  BY <1>5 DEF Range
<1>7. ASSUME NEW o \in Range(s), o # Head(s) PROVE o \in Range(Tail(s))
  <2>1. PICK i \in DOMAIN s : s[i] = o
    BY DEF Range
  <2>2. i - 1 \in DOMAIN Tail(s) /\ (i - 1) + 1 = i
    BY <1>1, <1>3, <1>4, <1>7, <2>1
  <2>3. Tail(s)[i - 1] = o
    BY <1>5, <2>1, <2>2
  <2> QED BY <2>2, <2>3 DEF Range
<1>8. Head(s) \in Range(s)
  BY <1>4 DEF Range
<1> QED BY <1>1, <1>2, <1>4, <1>5, <1>6, <1>7, <1>8

LEMMA Typing ==
  ASSUME TypeOK
  PROVE  /\ owner \in [Owner -> Task] /\ call \in [Call -> Pending] /\ closed \in BOOLEAN
         /\ entries \in Seq(Owner) /\ Len(entries) \in Nat /\ Entries \subseteq Owner
         /\ Len(entries) <= MaxSessions /\ inflight \subseteq Owner
         /\ \A c \in Call : /\ call[c].todo \in Seq(Owner) /\ ToShutDown(c) \subseteq Owner
                            /\ call[c].todo = <<>> <=> ToShutDown(c) = {}
         /\ \A p, q \in Entries : owner[p].key = owner[q].key => p = q
         /\ \A p, q \in inflight : owner[p].key = owner[q].key => p = q
<1>1. /\ owner \in [Owner -> Task] /\ call \in [Call -> Pending] /\ closed \in BOOLEAN
      /\ entries \in Seq(Owner) /\ inflight \subseteq Owner /\ Len(entries) <= MaxSessions
      /\ \A i, j \in DOMAIN entries : owner[entries[i]].key = owner[entries[j]].key => i = j
      /\ \A p, q \in inflight : owner[p].key = owner[q].key => p = q
  BY DEF TypeOK
<1>2. Len(entries) \in Nat /\ Entries \subseteq Owner
  BY <1>1, LenProperties, RangeOfSeq DEF Entries
<1>3. \A p, q \in Entries : owner[p].key = owner[q].key => p = q
  BY <1>1 DEF Entries, Range
<1>4. ASSUME NEW c \in Call
      PROVE  /\ call[c].todo \in Seq(Owner) /\ ToShutDown(c) \subseteq Owner
             /\ call[c].todo = <<>> <=> ToShutDown(c) = {}
  <2>1. call[c].todo \in Seq(Owner)
    BY <1>1 DEF Pending
  <2>2. call[c].todo = <<>> => ToShutDown(c) = {}
    <3>1. DOMAIN <<>> = {}
      BY EmptySeq, LenProperties
    <3> QED BY <3>1 DEF ToShutDown, Range
  <2>3. call[c].todo # <<>> => ToShutDown(c) # {}
    BY <2>1, ListParts DEF ToShutDown
  <2> QED BY <2>1, <2>2, <2>3, RangeOfSeq DEF ToShutDown
<1> QED BY <1>1, <1>2, <1>3, <1>4

\* A step of the call c after which no session is in use, or being made, that was not so
\* before.  Owners it leaves behind are at their end, or on its list.
Releases(c) ==
  /\ owner' \in [Owner -> Task] /\ call' \in [Call -> Pending]
  /\ \A q \in Owner : /\ owner'[q].key = owner[q].key /\ owner'[q].at = owner[q].at
                      /\ owner'[q].ready = owner[q].ready
                      /\ Stopped(q) => Stopped(q)'
                      /\ Usable(q)' => owner'[q].told = owner[q].told
  /\ Unmade' = Unmade
  /\ \A d \in Call : d # c => call'[d] = call[d]
  /\ IsShutting(c)' <=> call'[c].todo # <<>>
  /\ (IsShutting(c) => Stopped(Head(call[c].todo)))'
  /\ call'[c].at = "join" => call'[c].owner \in Owner
  /\ Waits(c)' => call'[c] = call[c]
  /\ call'[c].owner \notin Unmade
  /\ ToShutDown(c)' \intersect Unmade = {}
  /\ \A o \in ToShutDown(c)' : ~ Usable(o)'
  /\ \A o \in Owner :
       \/ o \in ToShutDown(c) \/ (o \in Entries /\ o \notin Entries')
       \/ (Waits(c) /\ call[c].owner = o)
       => Stopped(o) \/ o \in ToShutDown(c)' \/ (Waits(c)' /\ call[c].owner = o)
  /\ entries' \in Seq(Owner) /\ Len(entries') <= MaxSessions /\ Entries' \subseteq Entries
  /\ \A i, j \in DOMAIN entries' : owner[entries'[i]].key = owner[entries'[j]].key => i = j
  /\ inflight' \subseteq inflight
  /\ closed' \in BOOLEAN /\ (closed' => closed \/ Registered' = {})

LEMMA ReleasesKeeps ==
  ASSUME PoolInv, NEW c \in Call, Releases(c)
  PROVE  PoolInv'
<1>0. /\ TypeOK /\ Coherent /\ Owned /\ OnlyMade /\ CallsShaped /\ FailedAtEnd
      /\ OneMaker /\ UsableKept
  BY DEF PoolInv
<1>t. Entries \subseteq Owner /\ inflight \subseteq Owner
  BY <1>0, Typing
<1>1. \A d \in Call : d # c => /\ call'[d] = call[d] /\ ToShutDown(d)' = ToShutDown(d)
                               /\ Waits(d)' = Waits(d)
  BY DEF Releases, ToShutDown, Waits
<1>2. \A d \in Call : Waits(d)' => Waits(d) /\ call'[d].owner = call[d].owner
  BY <1>1 DEF Releases, Waits
<1>3. \A o \in Owner : Usable(o)' => Usable(o)
  BY <1>2 DEF Releases, Usable
<1>4. Entries' \subseteq Entries /\ inflight' \subseteq inflight
  BY DEF Releases
<1>5. UsableKept'
  <2> SUFFICES ASSUME NEW o \in Owner, Usable(o)'
               PROVE  owner'[o].told = "" /\ \A d \in Call : o \notin ToShutDown(d)'
    BY DEF UsableKept
  <2>1. owner[o].told = "" /\ \A d \in Call : o \notin ToShutDown(d)
    BY <1>0, <1>3 DEF UsableKept
  <2>2. owner'[o].told = ""
    BY <2>1 DEF Releases
  <2>3. o \notin ToShutDown(c)'
    BY DEF Releases
  <2> QED BY <2>1, <2>2, <2>3, <1>1
<1>6. TypeOK'
  <2>1. /\ owner' \in [Owner -> Task] /\ call' \in [Call -> Pending]
        /\ closed' \in BOOLEAN /\ entries' \in Seq(Owner) /\ inflight' \subseteq Owner
        /\ Len(entries') <= MaxSessions
    BY <1>t DEF Releases
  <2>2. \A i \in DOMAIN entries' : entries'[i] \in Owner
    BY <2>1, LenProperties
  <2>3. \A i, j \in DOMAIN entries' : owner'[entries'[i]].key = owner'[entries'[j]].key => i = j
    BY <2>2 DEF Releases
  <2>4. \A p, q \in inflight : owner[p].key = owner[q].key => p = q
    BY <1>0 DEF TypeOK
  <2>5. \A p, q \in inflight' : owner'[p].key = owner'[q].key => p = q
    BY <2>4, <1>t, <1>4 DEF Releases
  <2> QED BY <2>1, <2>3, <2>5 DEF TypeOK
<1>7. Coherent'
  <2>1. \A o \in Entries' : owner'[o].told = ""
    BY <1>4, <1>t, <1>5 DEF UsableKept, Usable
  <2>2. \A o \in Entries, q \in inflight : owner[o].key # owner[q].key
    BY <1>0 DEF Coherent
  <2>3. \A o \in Entries', q \in inflight' : owner'[o].key # owner'[q].key
    BY <2>2, <1>4, <1>t DEF Releases
  <2>4. closed' => Registered' = {}
    BY <1>0, <1>4 DEF Releases, Coherent, Registered
  <2> QED BY <2>1, <2>3, <2>4 DEF Coherent
<1>8. Owned'
  <2> SUFFICES ASSUME NEW o \in Owner, ~ Stopped(o)', o \notin Entries'
               PROVE  \E d \in Call : o \in ToShutDown(d)' \/ (Waits(d)' /\ call'[d].owner = o)
    BY DEF Owned
  <2>1. ~ Stopped(o)
    BY DEF Releases
  <2>2. ASSUME o \in ToShutDown(c) \/ o \in Entries \/ (Waits(c) /\ call[c].owner = o)
        PROVE  o \in ToShutDown(c)' \/ (Waits(c)' /\ call'[c].owner = o)
    BY <2>1, <2>2, <1>2 DEF Releases
  <2>3. o \in Entries \/ \E d \in Call : o \in ToShutDown(d) \/ (Waits(d) /\ call[d].owner = o)
    BY <1>0, <2>1 DEF Owned
  <2> QED BY <1>1, <2>2, <2>3
<1>9. OnlyMade'
  <2>1. Registered' \subseteq Registered /\ Unmade' = Unmade
    BY <1>4 DEF Releases, Registered
  <2>2. call'[c].owner \notin Unmade /\ ToShutDown(c)' \intersect Unmade = {}
    BY DEF Releases
  <2> QED BY <1>0, <1>1, <2>1, <2>2 DEF OnlyMade
<1>10. CallsShaped'
  <2> SUFFICES ASSUME NEW d \in Call
               PROVE  /\ IsShutting(d)' <=> call'[d].todo # <<>>
                      /\ (IsShutting(d) => Stopped(Head(call[d].todo)))'
                      /\ call'[d].at \in {"join", "wait"} => call'[d].owner \in Owner
    BY DEF CallsShaped
  <2>1. CASE d = c
    BY <2>1, <1>0 DEF Releases, CallsShaped, Waits
  <2>2. CASE d # c
    <3>1. call'[d] = call[d]
      BY <2>2, <1>1
    <3>2. /\ IsShutting(d) <=> call[d].todo # <<>>
          /\ IsShutting(d) => Stopped(Head(call[d].todo))
          /\ call[d].at \in {"join", "wait"} => call[d].owner \in Owner
      BY <1>0 DEF CallsShaped
    <3>3. IsShutting(d) => Head(call[d].todo) \in Owner
      BY <3>2, <1>0, Typing, ListParts
    <3>4. (IsShutting(d) => Stopped(Head(call[d].todo)))'
      <4>1. IsShutting(d)' <=> IsShutting(d)
        BY <3>1 DEF IsShutting
      <4>2. ASSUME IsShutting(d) PROVE Stopped(Head(call[d].todo))'
        <5> DEFINE h == Head(call[d].todo)
        <5>1. h \in Owner /\ Stopped(h) /\ Head(call'[d].todo) = h
          BY <4>2, <3>1, <3>2, <3>3
        <5> HIDE DEF h
        <5>2. \A q \in Owner : Stopped(q) => owner'[q].told # "" \/ owner'[q].at \in {"leaving", "done"}
          BY DEF Releases, Stopped
        <5> QED BY <5>1, <5>2 DEF Stopped
      <4> QED BY <4>1, <4>2
    <3>5. IsShutting(d)' <=> call'[d].todo # <<>>
      BY <3>1, <3>2 DEF IsShutting
    <3>6. call'[d].at \in {"join", "wait"} => call'[d].owner \in Owner
      BY <3>1, <3>2
    <3> QED BY <3>4, <3>5, <3>6
  <2> QED BY <2>1, <2>2
<1>11. FailedAtEnd'
  BY <1>0 DEF Releases, FailedAtEnd
<1>12. OneMaker'
  BY <1>0, <1>2, <1>4 DEF OneMaker
<1> QED BY <1>5, <1>6, <1>7, <1>8, <1>9, <1>10, <1>11, <1>12 DEF PoolInv

\* One more session in use, of a key that has none.
LEMMA AppendFacts ==
  ASSUME NEW p \in Seq(Owner), NEW o \in Owner,
         \A i, j \in DOMAIN p : owner[p[i]].key = owner[p[j]].key => i = j,
         \A q \in Range(p) : owner[q].key # owner[o].key
  PROVE  /\ Append(p, o) \in Seq(Owner) /\ Len(Append(p, o)) = Len(p) + 1
         /\ Range(Append(p, o)) = Range(p) \union {o}
         /\ \A i, j \in DOMAIN Append(p, o) :
              owner[Append(p, o)[i]].key = owner[Append(p, o)[j]].key => i = j
<1> DEFINE e == Append(p, o)
<1>1. Len(p) \in Nat /\ DOMAIN p = 1 .. Len(p)
  BY LenProperties
<1>2. /\ e \in Seq(Owner) /\ Len(e) = Len(p) + 1 /\ DOMAIN e = 1 .. (Len(p) + 1)
      /\ \A i \in 1 .. Len(p) : e[i] = p[i]
      /\ e[Len(p) + 1] = o
  BY AppendProperties, LenProperties
<1> HIDE DEF e
<1>3. \A i \in DOMAIN e : (i \in DOMAIN p /\ e[i] = p[i]) \/ (i = Len(p) + 1 /\ e[i] = o)
  BY <1>1, <1>2
<1>4. Range(e) = Range(p) \union {o}
  <2>1. \A x \in Range(e) : x \in Range(p) \union {o}
    BY <1>3 DEF Range
  <2>2. \A i \in DOMAIN p : i \in DOMAIN e /\ e[i] = p[i]
    BY <1>1, <1>2
  <2>3. Len(p) + 1 \in DOMAIN e
    BY <1>1, <1>2
  <2>4. \A x \in Range(p) \union {o} : x \in Range(e)
    BY <1>2, <2>2, <2>3 DEF Range
  <2> QED BY <2>1, <2>4
<1>5. ASSUME NEW i \in DOMAIN e, NEW j \in DOMAIN e, owner[e[i]].key = owner[e[j]].key
      PROVE  i = j
  <2>1. \A n \in DOMAIN p : p[n] \in Range(p)
    BY DEF Range
  <2>2. CASE i \in DOMAIN p /\ e[i] = p[i] /\ j \in DOMAIN p /\ e[j] = p[j]
    BY <1>5, <2>2
  <2>3. CASE i \in DOMAIN p /\ e[i] = p[i] /\ e[j] = o
    BY <1>5, <2>1, <2>3
  <2>4. CASE e[i] = o /\ j \in DOMAIN p /\ e[j] = p[j]
    BY <1>5, <2>1, <2>4
  <2>5. CASE i = Len(p) + 1 /\ j = Len(p) + 1
    BY <2>5
  <2> QED BY <1>3, <2>2, <2>3, <2>4, <2>5
<1> QED BY <1>2, <1>4, <1>5 DEF e

\* An owner that nobody tells: what Releases says of the owners.
LEMMA OwnersSame ==
  ASSUME TypeOK, owner' = owner
  PROVE  /\ owner' \in [Owner -> Task] /\ Unmade' = Unmade
         /\ \A q \in Owner : Stopped(q)' = Stopped(q)
  BY DEF TypeOK, Unmade, Stopped

\* A call that becomes p.
LEMMA BecomesFacts ==
  ASSUME TypeOK, NEW c \in Call, NEW p \in Pending, Becomes(c, p)
  PROVE  /\ call' \in [Call -> Pending] /\ call'[c] = p
         /\ \A d \in Call : d # c => call'[d] = call[d]
         /\ ToShutDown(c)' = Range(p.todo)
<1>1. call \in [Call -> Pending] /\ call' = [call EXCEPT ![c] = p]
  BY DEF TypeOK, Becomes
<1> QED BY <1>1 DEF ToShutDown

LEMMA IdleFacts ==
  /\ Idle \in Pending /\ Idle.at = "idle" /\ Idle.owner = 0 /\ Idle.todo = <<>>
  /\ Range(Idle.todo) = {} /\ 0 \notin Unmade
<1>1. Idle \in Pending /\ Idle.at = "idle" /\ Idle.owner = 0 /\ Idle.todo = <<>>
  BY EmptySeq DEF Idle, Pending
<1>2. Range(<<>>) = {}
  <2>1. DOMAIN <<>> = {}
    BY EmptySeq, LenProperties
  <2> QED BY <2>1 DEF Range
<1>3. 0 \notin Unmade
  BY PoolAssumption DEF Unmade, Owner
<1> QED BY <1>1, <1>2, <1>3

\* get_session finds the session in use.
LEMMA TakeReleases ==
  ASSUME PoolInv, NEW c \in Call, NEW k \in Key, Take(k), UNCHANGED closed
  PROVE  Releases(c)
<1>0. TypeOK /\ Coherent /\ OnlyMade /\ CallsShaped /\ UsableKept
  BY DEF PoolInv
<1>1. PICK o \in InUse(k) : entries' = Append(Popped({o}), o)
  BY DEF Take
<1>2. UNCHANGED <<owner, inflight, call, closed>>
  BY DEF Take
<1>3. o \in Entries /\ o \in Owner
  BY <1>0, Typing DEF InUse, OfKey
<1> DEFINE p == Popped({o})
<1>4. /\ p \in Seq(Owner) /\ Range(p) = Entries \ {o} /\ Len(p) \in Nat
      /\ Len(p) < Len(entries)
      /\ \A i, j \in DOMAIN p : owner[p[i]].key = owner[p[j]].key => i = j
  <2>1. {o} \intersect Entries # {}
    BY <1>3
  <2> QED BY <1>0, <2>1, PoppedFacts
<1> HIDE DEF p
<1>5. \A q \in Range(p) : owner[q].key # owner[o].key
  BY <1>0, <1>3, <1>4, Typing
<1>6. /\ entries' \in Seq(Owner) /\ Len(entries') = Len(p) + 1
      /\ Range(entries') = Range(p) \union {o}
      /\ \A i, j \in DOMAIN entries' : owner[entries'[i]].key = owner[entries'[j]].key => i = j
  BY <1>1, <1>3, <1>4, <1>5, AppendFacts DEF p
<1>7. Entries' = Entries
  BY <1>3, <1>4, <1>6 DEF Entries
<1>8. Len(entries') <= MaxSessions
  <2>1. Len(entries) <= MaxSessions /\ Len(entries) \in Nat
    BY <1>0, Typing
  <2> QED BY <1>4, <1>6, <2>1, PoolAssumption
<1>9. Releases(c)
  <2>1. \A d \in Call : call'[d] = call[d] /\ Waits(d)' = Waits(d) /\ ToShutDown(d)' = ToShutDown(d)
    BY <1>2 DEF Waits, ToShutDown
  <2>2. \A q \in Owner : Usable(q)' => Usable(q)
    BY <1>2, <1>7, <2>1 DEF Usable
  <2>3. /\ owner' \in [Owner -> Task] /\ Unmade' = Unmade
        /\ \A q \in Owner : Stopped(q)' = Stopped(q)
    BY <1>0, <1>2, OwnersSame
  <2>4. call' \in [Call -> Pending] /\ closed' \in BOOLEAN
    BY <1>0, <1>2, Typing
  <2>5. \A q \in ToShutDown(c)' : ~ Usable(q)'
    BY <1>0, <2>1, <2>2, Typing DEF UsableKept
  <2>6. /\ IsShutting(c)' <=> call'[c].todo # <<>>
        /\ (IsShutting(c) => Stopped(Head(call[c].todo)))'
        /\ call'[c].at = "join" => call'[c].owner \in Owner
    BY <1>0, <1>2 DEF CallsShaped, IsShutting, Stopped
  <2>7. call'[c].owner \notin Unmade /\ ToShutDown(c)' \intersect Unmade = {}
    BY <1>0, <2>1 DEF OnlyMade
  <2> QED BY <1>2, <1>6, <1>7, <1>8, <2>1, <2>3, <2>4, <2>5, <2>6, <2>7 DEF Releases
<1> QED BY <1>9

\* The sessions of S leave the pool, the others stay in their order.
Leave(S) ==
  /\ entries' \in Seq(Owner) /\ Len(entries') <= MaxSessions /\ Entries' = Entries \ S
  /\ \A i, j \in DOMAIN entries' : owner[entries'[i]].key = owner[entries'[j]].key => i = j

LEMMA PoppedLeave ==
  ASSUME PoolInv, NEW S, entries' = Popped(S)
  PROVE  Leave(S)
<1>0. TypeOK
  BY DEF PoolInv
<1> DEFINE p == Popped(S)
<1>1. /\ p \in Seq(Owner) /\ Range(p) = Entries \ S /\ Len(p) \in Nat /\ Len(p) <= Len(entries)
      /\ \A i, j \in DOMAIN p : owner[p[i]].key = owner[p[j]].key => i = j
  BY <1>0, PoppedFacts
<1>2. Len(entries) \in Nat /\ Len(entries) <= MaxSessions
  BY <1>0, Typing
<1> HIDE DEF p
<1>3. entries' = p
  BY DEF p
<1>4. Len(p) <= MaxSessions
  BY <1>1, <1>2, PoolAssumption
<1> QED BY <1>1, <1>3, <1>4 DEF Leave, Entries

LEMMA NoneLeave ==
  ASSUME PoolInv, UNCHANGED entries
  PROVE  Leave({})
BY DEF PoolInv, TypeOK, Leave, Entries

\* A call that waits for nothing any more, or for the session of another, and leaves no
\* owner behind that is not at its end or told.
LEMMA SettlesReleases ==
  ASSUME PoolInv, NEW c \in Call, NEW p \in Pending, NEW S,
         Becomes(c, p), UNCHANGED <<owner, closed>>, inflight' \subseteq inflight, Leave(S),
         p.todo = <<>>, p.at \in {"idle", "join"}, p.at = "join" => p.owner \in Owner,
         p.owner \notin Unmade, ~ Waits(c),
         \A o \in ToShutDown(c) : Stopped(o),
         \A o \in Entries \intersect S : Stopped(o)
  PROVE  Releases(c)
<1>0. TypeOK /\ Coherent /\ OnlyMade /\ CallsShaped /\ UsableKept
  BY DEF PoolInv
<1>1. /\ call' \in [Call -> Pending] /\ call'[c] = p
      /\ \A d \in Call : d # c => call'[d] = call[d]
      /\ ToShutDown(c)' = Range(p.todo)
  BY <1>0, BecomesFacts
<1>2. ToShutDown(c)' = {}
  BY <1>1, IdleFacts
<1>3. ~ Waits(c)' /\ ~ IsShutting(c)'
  BY <1>1 DEF Waits, IsShutting
<1>4. Entries' = Entries \ S
  BY DEF Leave
<1>5. /\ owner' \in [Owner -> Task] /\ Unmade' = Unmade
      /\ \A q \in Owner : Stopped(q)' = Stopped(q)
  BY <1>0, OwnersSame
<1>6. closed' \in BOOLEAN
  BY <1>0, Typing
<1>7. \A o \in Owner :
        o \in ToShutDown(c) \/ (o \in Entries /\ o \notin Entries') => Stopped(o)
  BY <1>4
<1>8. call'[c].todo = <<>> /\ call'[c].owner \notin Unmade
      /\ (call'[c].at = "join" => call'[c].owner \in Owner)
  BY <1>1
<1> QED BY <1>1, <1>2, <1>3, <1>4, <1>5, <1>6, <1>7, <1>8 DEF Releases, Leave

\* get_session waits for the session that someone else makes.
LEMMA JoinReleases ==
  ASSUME PoolInv, NEW c \in Call, call[c] = Idle, NEW k \in Key, Join(c, k), UNCHANGED closed
  PROVE  Releases(c)
<1>0. TypeOK /\ OnlyMade
  BY DEF PoolInv
<1>1. PICK o \in BeingMade(k) : Becomes(c, [Idle EXCEPT !.at = "join", !.owner = o])
  BY DEF Join
<1> DEFINE p == [Idle EXCEPT !.at = "join", !.owner = o]
<1>2. o \in inflight /\ o \in Owner /\ o \notin Unmade
  BY <1>0, Typing DEF BeingMade, OfKey, OnlyMade, Registered
<1>3. p \in Pending /\ p.at = "join" /\ p.owner = o /\ p.todo = <<>>
  BY <1>2, EmptySeq DEF Idle, Pending
<1>4. Leave(OfKey(Entries, k))
  BY PoppedLeave DEF Join
<1>5. \A q \in Entries \intersect OfKey(Entries, k) : Stopped(q)
  BY DEF Join, InUse, OfKey, Over, Stopped
<1>6. ~ Waits(c) /\ ToShutDown(c) = {}
  BY IdleFacts DEF Waits, ToShutDown
<1>7. UNCHANGED <<owner, inflight>>
  BY DEF Join
<1> HIDE DEF p
<1>8. Becomes(c, p)
  BY <1>1 DEF p
<1> QED BY <1>2, <1>3, <1>4, <1>5, <1>6, <1>7, <1>8, SettlesReleases

\* A call that joined returns, or is interrupted.
LEMMA JoinedReleases ==
  ASSUME PoolInv, NEW c \in Call, call[c].at = "join",
         Becomes(c, Idle), UNCHANGED <<owner, entries, inflight, closed>>
  PROVE  Releases(c)
<1>0. TypeOK /\ CallsShaped
  BY DEF PoolInv
<1>1. ~ Waits(c) /\ ~ IsShutting(c)
  BY DEF Waits, IsShutting
<1>2. ToShutDown(c) = {}
  BY <1>0, <1>1, Typing DEF CallsShaped
<1>3. Leave({})
  BY NoneLeave
<1> QED BY <1>1, <1>2, <1>3, IdleFacts, SettlesReleases

\* A call that shuts owners down, which are neither in use nor being made any more.
LEMMA ShutsReleases ==
  ASSUME PoolInv, NEW c \in Call, NEW p \in Pending, NEW S,
         Becomes(c, p), p.at \in {"evict", "undo", "close"}, p.owner = call[c].owner,
         p.todo # <<>>, OwnersTold(Head(p.todo)), Range(p.todo) \intersect Unmade = {},
         Leave(S), Entries \intersect S \subseteq Range(p.todo), inflight' \subseteq inflight,
         closed' \in BOOLEAN, closed' => closed \/ Registered' = {},
         \A o \in ToShutDown(c) : o \in Range(p.todo) \/ Stopped(o),
         Waits(c) => call[c].owner \in Range(p.todo),
         \A o \in Range(p.todo) : ~ Usable(o)'
  PROVE  Releases(c)
<1>0. TypeOK /\ OnlyMade
  BY DEF PoolInv
<1>1. /\ call' \in [Call -> Pending] /\ call'[c] = p
      /\ \A d \in Call : d # c => call'[d] = call[d]
      /\ ToShutDown(c)' = Range(p.todo)
  BY <1>0, BecomesFacts
<1>2. ~ Waits(c)' /\ IsShutting(c)' /\ call'[c].todo # <<>> /\ call'[c].at # "join"
  BY <1>1 DEF Waits, IsShutting
<1>3. (IsShutting(c) => Stopped(Head(call[c].todo)))'
  <2>1. Stopped(Head(p.todo))'
    BY DEF OwnersTold
  <2> QED BY <1>1, <2>1 DEF Stopped
<1>4. Head(p.todo) \in Range(p.todo)
  <2>1. p.todo \in Seq(Owner)
    BY DEF Pending
  <2> QED BY <2>1, ListParts
<1>5. /\ owner' \in [Owner -> Task] /\ Unmade' = Unmade
      /\ \A q \in Owner : /\ owner'[q].key = owner[q].key /\ owner'[q].at = owner[q].at
                          /\ owner'[q].ready = owner[q].ready
                          /\ Stopped(q) => Stopped(q)'
                          /\ Usable(q)' => owner'[q].told = owner[q].told
  BY <1>4 DEF OwnersTold
<1>6. call'[c].owner \notin Unmade
  BY <1>0, <1>1 DEF OnlyMade
<1>7. \A o \in Owner :
       \/ o \in ToShutDown(c) \/ (o \in Entries /\ o \notin Entries')
       \/ (Waits(c) /\ call[c].owner = o)
       => Stopped(o) \/ o \in ToShutDown(c)'
  BY <1>1 DEF Leave
<1>8. Entries' \subseteq Entries
  BY DEF Leave
<1> QED BY <1>1, <1>2, <1>3, <1>5, <1>6, <1>7, <1>8 DEF Releases, Leave

\* What a call becomes that begins to shut down, or goes on with, a list of owners.
LEMMA ShuttingFacts ==
  ASSUME TypeOK, NEW c \in Call, NEW at \in {"evict", "undo", "close"},
         NEW todo \in Seq(Owner), NEW hard \in SUBSET Owner,
         todo # <<>>, Head(todo) \notin Unmade, Shutting(c, at, todo, hard)
  PROVE  \E p \in Pending : /\ Becomes(c, p) /\ p.at = at /\ p.owner = call[c].owner
                            /\ p.todo = todo /\ OwnersTold(Head(todo))
<1> DEFINE p == [call[c] EXCEPT !.at = at, !.todo = todo, !.hard = hard]
<1>1. call[c] \in Pending
  BY Typing
<1>2. p \in Pending /\ p.at = at /\ p.owner = call[c].owner /\ p.todo = todo
  BY <1>1 DEF Pending
<1>3. Becomes(c, p)
  BY DEF Shutting
<1> HIDE DEF p
<1>4. OwnersTold(Head(todo))
  BY StoppingTells DEF Shutting
<1> QED BY <1>2, <1>3, <1>4

LEMMA OneOwner ==
  ASSUME NEW o \in Owner
  PROVE  <<o>> \in Seq(Owner) /\ <<o>> # <<>> /\ Head(<<o>>) = o /\ Range(<<o>>) = {o}
<1>1. <<o>> \in Seq(Owner) /\ <<o>> # <<>> /\ Head(<<o>>) = o
  OBVIOUS
<1>2. DOMAIN <<o>> = {1} /\ <<o>>[1] = o
  OBVIOUS
<1> QED BY <1>1, <1>2 DEF Range

\* The call that makes a session gives it up.
LEMMA UndoReleases ==
  ASSUME PoolInv, NEW c \in Call, Waits(c), NEW p \in Pending,
         Becomes(c, p), p.at = "undo", p.owner = call[c].owner,
         p.todo = <<call[c].owner>>, OwnersTold(call[c].owner),
         UNCHANGED <<entries, inflight, closed>>
  PROVE  Releases(c)
<1>0. TypeOK /\ Coherent /\ OnlyMade /\ CallsShaped /\ OneMaker
  BY DEF PoolInv
<1>1. PICK o \in Owner : o = call[c].owner /\ o \notin Unmade /\ o \notin Entries
  BY <1>0 DEF CallsShaped, Waits, OnlyMade, OneMaker
<1>2. p.todo # <<>> /\ Head(p.todo) = o /\ Range(p.todo) = {o}
  BY <1>1, OneOwner
<1>3. ~ Usable(o)'
  <2>1. /\ call'[c] = p /\ \A d \in Call : d # c => call'[d] = call[d]
    BY <1>0, BecomesFacts
  <2>2. \A d \in Call : Waits(d)' => d # c /\ Waits(d) /\ call'[d].owner = call[d].owner
    BY <2>1 DEF Waits
  <2>3. \A d \in Call : Waits(d)' => call'[d].owner # o
    BY <1>0, <1>1, <2>2 DEF OneMaker
  <2>4. Entries' = Entries
    BY DEF Entries
  <2>5. o \notin Entries'
    BY <1>1, <2>4
  <2> QED BY <2>3, <2>5 DEF Usable
<1>4. ToShutDown(c) = {}
  BY <1>0, Typing DEF CallsShaped, Waits, IsShutting
<1>5. Leave({})
  BY NoneLeave
<1>6. closed' \in BOOLEAN
  BY <1>0, Typing
<1>7. OwnersTold(Head(p.todo)) /\ Range(p.todo) \intersect Unmade = {}
      /\ (Waits(c) => call[c].owner \in Range(p.todo))
      /\ \A q \in Range(p.todo) : ~ Usable(q)'
  BY <1>1, <1>2, <1>3
<1> QED BY <1>2, <1>4, <1>5, <1>6, <1>7, ShutsReleases

LEMMA RejectReleases ==
  ASSUME PoolInv, NEW c \in Call, Reject(c) \/ (Waits(c) /\ GiveUp(c))
  PROVE  Releases(c)
<1>0. TypeOK /\ OnlyMade /\ CallsShaped
  BY DEF PoolInv
<1>1. Waits(c)
  BY DEF Waits, Reject
<1> DEFINE o == call[c].owner
<1>2. o \in Owner /\ o \notin Unmade
  BY <1>0, <1>1 DEF CallsShaped, Waits, OnlyMade
<1>3. \E hard \in SUBSET Owner : Shutting(c, "undo", <<o>>, hard)
  <2>1. CASE Reject(c)
    BY <2>1 DEF Reject
  <2>2. CASE GiveUp(c)
    <3>1. Shutting(c, "undo", <<o>>, {o})
      BY <2>2 DEF GiveUp
    <3> QED BY <1>2, <3>1
  <2> QED BY <2>1, <2>2
<1>4. UNCHANGED <<entries, inflight, closed>>
  BY DEF Reject, GiveUp
<1>5. \E p \in Pending : /\ Becomes(c, p) /\ p.at = "undo" /\ p.owner = o
                         /\ p.todo = <<o>> /\ OwnersTold(o)
  <2>1. <<o>> \in Seq(Owner) /\ <<o>> # <<>> /\ Head(<<o>>) = o
    BY <1>2, OneOwner
  <2>2. PICK hard \in SUBSET Owner : Shutting(c, "undo", <<o>>, hard)
    BY <1>3
  <2>3. call[c].owner = o
    OBVIOUS
  <2> DEFINE todo == <<o>>
  <2> HIDE DEF o
  <2>4. todo \in Seq(Owner) /\ todo # <<>> /\ Head(todo) = o /\ Head(todo) \notin Unmade
        /\ Shutting(c, "undo", todo, hard)
    BY <1>2, <2>1, <2>2
  <2> HIDE DEF todo
  <2>5. \E p \in Pending : /\ Becomes(c, p) /\ p.at = "undo" /\ p.owner = call[c].owner
                            /\ p.todo = todo /\ OwnersTold(Head(todo))
    BY <1>0, <2>4, ShuttingFacts
  <2> QED BY <2>3, <2>4, <2>5 DEF todo
<1> QED BY <1>1, <1>4, <1>5, UndoReleases

\* An owner that is told already, or at its end, is told.
LEMMA StoppedIsTold ==
  ASSUME TypeOK, NEW h \in Owner, Stopped(h), UNCHANGED owner
  PROVE  OwnersTold(h)
BY OwnersSame DEF OwnersTold

LEMMA MakingFailsReleases ==
  ASSUME PoolInv, NEW c \in Call, MakingFails(c)
  PROVE  Releases(c)
<1>0. TypeOK /\ CallsShaped /\ FailedAtEnd
  BY DEF PoolInv
<1> DEFINE o == call[c].owner
           p == [call[c] EXCEPT !.at = "undo", !.todo = <<o>>]
<1>1. Waits(c) /\ UNCHANGED <<owner, entries, inflight, closed>> /\ Becomes(c, p)
      /\ owner[o].ready = "failed"
  BY DEF MakingFails, Waits
<1>2. o \in Owner
  BY <1>0, <1>1 DEF CallsShaped, Waits
<1>3. call[c] \in Pending /\ <<o>> \in Seq(Owner)
  BY <1>0, <1>2, Typing, OneOwner
<1>4. p \in Pending /\ p.at = "undo" /\ p.owner = o /\ p.todo = <<o>>
  BY <1>3 DEF Pending
<1>5. OwnersTold(o)
  <2>1. owner[o].at \in {"leaving", "done"}
    BY <1>0, <1>1, <1>2 DEF FailedAtEnd
  <2>2. Stopped(o) /\ UNCHANGED owner
    BY <1>1, <2>1 DEF Stopped
  <2> HIDE DEF o, p
  <2> QED BY <1>0, <1>2, <2>2, StoppedIsTold
<1> HIDE DEF p
<1> QED BY <1>1, <1>4, <1>5, UndoReleases

\* A wait for an owner to shut down is over, or interrupted.
LEMMA AdvanceReleases ==
  ASSUME PoolInv, NEW c \in Call, IsShutting(c), Advance(c)
  PROVE  Releases(c)
<1>0. TypeOK /\ OnlyMade /\ CallsShaped /\ UsableKept
  BY DEF PoolInv
<1> DEFINE todo == call[c].todo
           rest == Tail(todo)
<1>1. todo \in Seq(Owner) /\ todo # <<>> /\ call[c] \in Pending /\ ~ Waits(c)
  BY <1>0, Typing DEF CallsShaped, IsShutting, Waits
<1>2. /\ rest \in Seq(Owner) /\ Range(rest) \subseteq Range(todo)
      /\ \A o \in Range(todo) : o = Head(todo) \/ o \in Range(rest)
  BY <1>1, ListParts
<1>3. Stopped(Head(todo))
  BY <1>0 DEF CallsShaped
<1>4. ToShutDown(c) = Range(todo)
  BY DEF ToShutDown
<1> HIDE DEF todo, rest
<1>5. CASE rest # <<>>
  <2>1. Shutting(c, call[c].at, rest, call[c].hard) /\ UNCHANGED <<entries, inflight, closed>>
    BY <1>5 DEF Advance, todo, rest
  <2>2. call[c].at \in {"evict", "undo", "close"} /\ call[c].hard \in SUBSET Owner
    BY <1>1 DEF IsShutting, Pending
  <2>3. Range(rest) \intersect Unmade = {}
    BY <1>0, <1>2, <1>4 DEF OnlyMade
  <2>4. Head(rest) \in Range(rest)
    BY <1>2, <1>5, ListParts
  <2>5. Head(rest) \notin Unmade
    BY <2>3, <2>4
  <2>6. PICK p \in Pending : /\ Becomes(c, p) /\ p.at = call[c].at /\ p.owner = call[c].owner
                             /\ p.todo = rest /\ OwnersTold(Head(rest))
    BY <1>0, <1>2, <1>5, <2>1, <2>2, <2>5, ShuttingFacts
  <2>7. \A o \in Owner : Usable(o)' => Usable(o)
    <3>1. call'[c] = p /\ \A d \in Call : d # c => call'[d] = call[d]
      BY <1>0, <2>6, BecomesFacts
    <3>2. \A d \in Call : Waits(d)' => Waits(d) /\ call'[d].owner = call[d].owner
      BY <2>2, <2>6, <3>1 DEF Waits
    <3>3. Entries' = Entries /\ inflight' = inflight
      BY <2>1 DEF Entries
    <3> QED BY <3>2, <3>3 DEF Usable
  <2>8. \A o \in Range(rest) : o \in Owner /\ ~ Usable(o)
    <3>1. ToShutDown(c) \subseteq Owner
      BY <1>0, Typing
    <3>2. \A o \in ToShutDown(c) : ~ Usable(o)
      BY <1>0, <3>1 DEF UsableKept
    <3> QED BY <1>2, <1>4, <3>1, <3>2
  <2>9. \A o \in Range(p.todo) : ~ Usable(o)'
    BY <2>6, <2>7, <2>8
  <2>10. \A o \in ToShutDown(c) : o \in Range(p.todo) \/ Stopped(o)
    BY <1>2, <1>3, <1>4, <2>6
  <2>11. Leave({}) /\ closed' \in BOOLEAN /\ (closed' => closed)
    BY <1>0, <2>1, Typing, NoneLeave
  <2>12. p.todo # <<>> /\ OwnersTold(Head(p.todo)) /\ Range(p.todo) \intersect Unmade = {}
         /\ p.at \in {"evict", "undo", "close"} /\ inflight' \subseteq inflight
    BY <1>5, <2>1, <2>2, <2>3, <2>6
  <2> QED BY <1>1, <2>6, <2>9, <2>10, <2>11, <2>12, ShutsReleases
<1>6. CASE rest = <<>>
  <2>1. /\ Becomes(c, Idle) /\ UNCHANGED <<owner, entries, closed>>
        /\ inflight' = IF call[c].at = "undo" THEN inflight \ {call[c].owner} ELSE inflight
    BY <1>6 DEF Advance, todo, rest
  <2>2. Range(rest) = {}
    <3>1. DOMAIN <<>> = {}
      BY EmptySeq, LenProperties
    <3> QED BY <1>6, <3>1 DEF Range
  <2>3. \A o \in ToShutDown(c) : Stopped(o)
    BY <1>2, <1>3, <1>4, <2>2
  <2>4. Leave({}) /\ inflight' \subseteq inflight
    BY <2>1, NoneLeave
  <2> QED BY <1>1, <2>1, <2>3, <2>4, IdleFacts, SettlesReleases
<1> QED BY <1>5, <1>6

LEMMA InterruptReleases ==
  ASSUME PoolInv, NEW c \in Call, Interrupt(c)
  PROVE  Releases(c)
<1>1. CASE call[c].at = "join" /\ Becomes(c, Idle) /\ UNCHANGED <<owner, entries, inflight, closed>>
  BY <1>1, JoinedReleases
<1>2. CASE call[c].at = "wait" /\ GiveUp(c)
  BY <1>2, RejectReleases DEF Waits
<1>3. CASE MakingFails(c)
  BY <1>3, MakingFailsReleases
<1>4. CASE IsShutting(c) /\ Advance(c)
  BY <1>4, AdvanceReleases
<1> QED BY <1>1, <1>2, <1>3, <1>4 DEF Interrupt

\* The sessions of some keys are closed, those in use first.
LEMMA CloseReleases ==
  ASSUME PoolInv, NEW c \in Call, NEW keys, CloseOwners(c, keys),
         closed' \in BOOLEAN, closed' => closed \/ keys = Key
  PROVE  Releases(c)
<1>0. TypeOK /\ OnlyMade /\ CallsShaped /\ UsableKept
  BY DEF PoolInv
<1> DEFINE kept == Kept(entries, Using(keys))
           made == SetToSeq(Making(keys))
           todo == kept \o made
<1>1. /\ Using(keys) \subseteq Entries /\ Making(keys) \subseteq inflight
      /\ Entries \subseteq Owner /\ inflight \subseteq Owner
  BY <1>0, Typing DEF Using, Making, OfKeys
<1>2. kept \in Seq(Owner) /\ Range(kept) = Using(keys)
  <2>1. entries \in Seq(Owner)
    BY <1>0, Typing
  <2>2. kept \in Seq(Owner) /\ Range(kept) = Range(entries) \intersect Using(keys)
    BY <2>1, KeptFacts
  <2> QED BY <1>1, <2>2 DEF Entries
<1>3. made \in Seq(Owner) /\ Range(made) \subseteq Making(keys)
  BY <1>1, ListsItsMembers
<1> HIDE DEF kept, made
<1>4. todo \in Seq(Owner) /\ Range(todo) = Range(kept) \union Range(made)
  BY <1>2, <1>3, ConcatProperties, RangeConcatenation
<1>5. /\ call[c] = Idle /\ entries' = Popped(Using(keys)) /\ inflight' = inflight \ Making(keys)
      /\ IF todo = <<>> THEN UNCHANGED <<owner, call>>
                        ELSE Shutting(c, "close", todo, Making(keys))
  BY DEF CloseOwners, Closing, kept, made
<1> HIDE DEF todo
<1>6. Leave(Using(keys)) /\ ~ Waits(c) /\ ToShutDown(c) = {}
  BY <1>5, PoppedLeave, IdleFacts DEF Waits, ToShutDown
<1>7. closed' => closed \/ Registered' = {}
  <2> SUFFICES ASSUME keys = Key PROVE Registered' = {}
    OBVIOUS
  <2>1. \A o \in Owner : owner[o].key \in Key
    BY <1>0, Typing DEF Task
  <2>2. Using(keys) = Entries /\ Making(keys) = inflight
    BY <1>1, <2>1 DEF Using, Making, OfKeys
  <2> QED BY <1>5, <1>6, <2>2 DEF Registered, Leave
<1>8. CASE todo = <<>>
  <2>1. Using(keys) = {}
    <3>1. DOMAIN <<>> = {}
      BY EmptySeq, LenProperties
    <3> QED BY <1>2, <1>4, <1>8, <3>1 DEF Range
  <2>2. UNCHANGED <<owner, call>>
    BY <1>5, <1>8
  <2>3. /\ owner' \in [Owner -> Task] /\ Unmade' = Unmade
        /\ \A q \in Owner : Stopped(q)' = Stopped(q)
    BY <1>0, <2>2, OwnersSame
  <2>4. call' \in [Call -> Pending] /\ call'[c] = Idle
    BY <1>0, <1>5, <2>2, Typing
  <2>5. ~ Waits(c)' /\ ~ IsShutting(c)' /\ ToShutDown(c)' = {}
    BY <2>4, IdleFacts DEF Waits, IsShutting, ToShutDown
  <2>6. Entries' = Entries
    BY <1>6, <2>1 DEF Leave
  <2> QED BY <1>5, <1>6, <1>7, <2>2, <2>3, <2>4, <2>5, <2>6, IdleFacts DEF Releases, Leave
<1>9. CASE todo # <<>>
  <2>1. Shutting(c, "close", todo, Making(keys)) /\ Making(keys) \in SUBSET Owner
    BY <1>1, <1>5, <1>9
  <2>2. Range(todo) \intersect Unmade = {}
    BY <1>0, <1>1, <1>2, <1>3, <1>4 DEF OnlyMade, Registered
  <2>3. Head(todo) \notin Unmade
    BY <1>4, <1>9, <2>2, ListParts
  <2>4. PICK p \in Pending : /\ Becomes(c, p) /\ p.at = "close" /\ p.owner = call[c].owner
                             /\ p.todo = todo /\ OwnersTold(Head(todo))
    BY <1>0, <1>4, <1>9, <2>1, <2>3, ShuttingFacts
  <2>5. \A o \in Range(todo) : ~ Usable(o)'
    <3>1. \A o \in Entries : o \notin inflight
      BY DEF PoolInv, Coherent
    <3>2. Entries' = Entries \ Using(keys)
      BY <1>6 DEF Leave
    <3>3. \A o \in Range(todo) : o \notin Entries' /\ o \notin inflight'
      BY <1>1, <1>2, <1>3, <1>4, <1>5, <3>1, <3>2
    <3> QED BY <3>3 DEF Usable
  <2>6. Entries \intersect Using(keys) \subseteq Range(todo) /\ inflight' \subseteq inflight
    BY <1>2, <1>4, <1>5
  <2> QED BY <1>6, <1>7, <1>9, <2>2, <2>4, <2>5, <2>6, ShutsReleases
<1> QED BY <1>8, <1>9

------------------------------------------------------------------------------
(* A session is made, and put in use *)

LEMMA MakeKeeps ==
  ASSUME PoolInv, NEW c \in Call, call[c] = Idle, ~ closed, NEW k \in Key,
         Make(c, k), UNCHANGED closed
  PROVE  PoolInv'
<1>0. /\ TypeOK /\ Coherent /\ Owned /\ OnlyMade /\ CallsShaped /\ FailedAtEnd
      /\ OneMaker /\ UsableKept
  BY DEF PoolInv
<1>1. PICK n \in Owner : n = Fresh /\ n \in Unmade
  BY FreshIsUnmade DEF Make, Unmade
<1> DEFINE task == [at |-> "born", key |-> k, ready |-> "pending", told |-> ""]
           p == [Idle EXCEPT !.at = "wait", !.owner = n]
<1>2. /\ owner' = [owner EXCEPT ![n] = task]
      /\ inflight' = Replaced(k) \union {n}
      /\ entries' = Popped(OfKey(Entries, k))
      /\ Becomes(c, p)
      /\ InUse(k) = {} /\ BeingMade(k) = {}
  BY <1>1 DEF Make
<1>t. /\ owner \in [Owner -> Task] /\ Entries \subseteq Owner /\ inflight \subseteq Owner
      /\ closed' \in BOOLEAN
  BY <1>0, Typing
<1>3. /\ owner' \in [Owner -> Task] /\ \A q \in Owner : q # n => owner'[q] = owner[q]
      /\ owner'[n] = task /\ task # NotMade
  <2>1. task \in Task
    BY DEF Task
  <2>2. NotMade.at = "done" /\ task.at = "born"
    BY DEF NotMade
  <2> HIDE DEF task
  <2> QED BY <1>2, <1>t, <2>1, <2>2
<1>4. owner'[n].at = "born" /\ owner'[n].key = k /\ owner'[n].ready = "pending" /\ owner'[n].told = ""
  <2>1. task.at = "born" /\ task.key = k /\ task.ready = "pending" /\ task.told = ""
    OBVIOUS
  <2> HIDE DEF task
  <2> QED BY <1>3, <2>1
<1>5. Unmade' = Unmade \ {n} /\ Unmade \subseteq Owner
  BY <1>3 DEF Unmade
<1> HIDE DEF task
<1>6. p \in Pending /\ p.at = "wait" /\ p.owner = n /\ p.todo = <<>>
  BY EmptySeq DEF Idle, Pending
<1> HIDE DEF p
<1>7. /\ call' \in [Call -> Pending] /\ call'[c] = p
      /\ \A d \in Call : d # c => call'[d] = call[d]
      /\ ToShutDown(c)' = {}
  BY <1>0, <1>2, <1>6, BecomesFacts, IdleFacts
<1>8. Leave(OfKey(Entries, k))
  BY <1>2, PoppedLeave
<1>9. /\ Entries' = Entries \ OfKey(Entries, k)
      /\ inflight' = (inflight \ OfKey(inflight, k)) \union {n}
  BY <1>2, <1>8 DEF Leave, Replaced
<1>10. n \notin Entries /\ n \notin inflight /\ n \notin Entries'
  BY <1>0, <1>1, <1>9 DEF OnlyMade, Registered
<1>11. \A d \in Call : call[d].owner # n /\ n \notin ToShutDown(d)
  BY <1>0, <1>1 DEF OnlyMade
<1>12. \A d \in Call : d # c => /\ ToShutDown(d)' = ToShutDown(d) /\ Waits(d)' = Waits(d)
                                /\ call'[d].owner = call[d].owner
  BY <1>7 DEF ToShutDown, Waits
<1>13. Waits(c)' /\ call'[c].owner = n /\ ~ Waits(c) /\ ToShutDown(c) = {}
  BY <1>6, <1>7, IdleFacts DEF Waits, ToShutDown
<1>14. TypeOK'
  <2>1. entries' \in Seq(Owner) /\ Len(entries') <= MaxSessions
    BY <1>8 DEF Leave
  <2>2. \A i \in DOMAIN entries' : entries'[i] \in Entries' /\ entries'[i] \in Owner
    BY <2>1, LenProperties DEF Entries, Range
  <2>3. \A i, j \in DOMAIN entries' : owner'[entries'[i]].key = owner'[entries'[j]].key => i = j
    BY <1>3, <1>8, <1>10, <2>2 DEF Leave
  <2>4. \A q, r \in inflight : owner[q].key = owner[r].key => q = r
    BY <1>0, Typing
  <2>5. \A q \in inflight' : q = n \/ (q \in inflight /\ q \in Owner /\ owner[q].key # k /\ owner'[q] = owner[q])
    BY <1>3, <1>9, <1>10, <1>t DEF OfKey
  <2>6. \A q, r \in inflight' : owner'[q].key = owner'[r].key => q = r
    BY <1>4, <2>4, <2>5
  <2>7. inflight' \subseteq Owner
    BY <1>9, <1>t
  <2> QED BY <1>3, <1>7, <1>t, <2>1, <2>3, <2>6, <2>7 DEF TypeOK
<1>15. \A q \in Entries' : q \in Entries /\ q \in Owner /\ owner'[q] = owner[q] /\ owner[q].key # k
  BY <1>3, <1>9, <1>10, <1>t DEF OfKey
<1>16. Coherent'
  <2>1. \A q \in Entries' : owner'[q].told = ""
    BY <1>0, <1>15 DEF Coherent
  <2>2. \A q \in Entries', r \in inflight' : owner'[q].key # owner'[r].key
    <3> TAKE q \in Entries', r \in inflight'
    <3>1. CASE r = n
      BY <3>1, <1>4, <1>15
    <3>2. CASE r # n
      <4>1. r \in inflight /\ owner'[r] = owner[r]
        BY <3>2, <1>3, <1>9, <1>t
      <4> QED BY <4>1, <1>0, <1>15 DEF Coherent
    <3> QED BY <3>1, <3>2
  <2>3. ~ closed'
    OBVIOUS
  <2> QED BY <2>1, <2>2, <2>3 DEF Coherent
<1>17. Owned'
  <2> SUFFICES ASSUME NEW q \in Owner, ~ Stopped(q)', q \notin Entries'
               PROVE  \E d \in Call : q \in ToShutDown(d)' \/ (Waits(d)' /\ call'[d].owner = q)
    BY DEF Owned
  <2>1. CASE q = n
    BY <2>1, <1>13
  <2>2. CASE q # n
    <3>1. ~ Stopped(q)
      BY <2>2, <1>3 DEF Stopped
    <3>2. q \notin Entries
      BY <3>1, <1>2, <1>9 DEF InUse, OfKey, Over, Stopped
    <3>3. PICK d \in Call : q \in ToShutDown(d) \/ (Waits(d) /\ call[d].owner = q)
      BY <3>1, <3>2, <1>0 DEF Owned
    <3>4. d # c
      BY <3>3, <1>13
    <3> QED BY <3>3, <3>4, <1>12
  <2> QED BY <2>1, <2>2
<1>18. OnlyMade'
  <2>1. Registered' \intersect Unmade' = {}
    BY <1>0, <1>5, <1>9 DEF OnlyMade, Registered
  <2>2. \A d \in Call : call'[d].owner \notin Unmade' /\ ToShutDown(d)' \intersect Unmade' = {}
    BY <1>0, <1>5, <1>7, <1>12, <1>13 DEF OnlyMade
  <2> QED BY <2>1, <2>2 DEF OnlyMade
<1>19. CallsShaped'
  <2> SUFFICES ASSUME NEW d \in Call
               PROVE  /\ IsShutting(d)' <=> call'[d].todo # <<>>
                      /\ (IsShutting(d) => Stopped(Head(call[d].todo)))'
                      /\ call'[d].at \in {"join", "wait"} => call'[d].owner \in Owner
    BY DEF CallsShaped
  <2>1. CASE d = c
    BY <2>1, <1>6, <1>7 DEF IsShutting
  <2>2. CASE d # c
    <3>1. /\ IsShutting(d) <=> call[d].todo # <<>>
          /\ IsShutting(d) => Stopped(Head(call[d].todo))
          /\ call[d].at \in {"join", "wait"} => call[d].owner \in Owner
      BY <1>0 DEF CallsShaped
    <3>2. IsShutting(d) => Head(call[d].todo) \in Owner /\ Head(call[d].todo) # n
      <4>1. IsShutting(d) => Head(call[d].todo) \in Owner /\ Head(call[d].todo) \in ToShutDown(d)
        BY <3>1, <1>0, Typing, ListParts DEF ToShutDown
      <4> QED BY <4>1, <1>11
    <3>3. call'[d] = call[d]
      BY <2>2, <1>7
    <3> QED BY <3>1, <3>2, <3>3, <1>3 DEF IsShutting, Stopped
  <2> QED BY <2>1, <2>2
<1>20. FailedAtEnd'
  BY <1>0, <1>3, <1>4 DEF FailedAtEnd
<1>21. OneMaker'
  BY <1>0, <1>9, <1>10, <1>11, <1>12, <1>13 DEF OneMaker
<1>22. UsableKept'
  <2> SUFFICES ASSUME NEW q \in Owner, Usable(q)'
               PROVE  owner'[q].told = "" /\ \A d \in Call : q \notin ToShutDown(d)'
    BY DEF UsableKept
  <2>1. CASE q = n
    BY <2>1, <1>4, <1>7, <1>11, <1>12
  <2>2. CASE q # n
    <3>1. \A d \in Call : Waits(d)' /\ call'[d].owner = q => Waits(d) /\ call[d].owner = q
      BY <2>2, <1>12, <1>13
    <3>2. Usable(q)
      BY <2>2, <3>1, <1>9 DEF Usable
    <3> QED BY <2>2, <3>2, <1>0, <1>3, <1>7, <1>12 DEF UsableKept
  <2> QED BY <2>1, <2>2
<1> QED BY <1>14, <1>16, <1>17, <1>18, <1>19, <1>20, <1>21, <1>22 DEF PoolInv

\* A session enters the pool; those of S, which make room for it, leave to be shut down.
LEMMA EntersKeeps ==
  ASSUME PoolInv, NEW c \in Call, NEW o \in inflight, Waits(c), o = call[c].owner,
         ~ closed, UNCHANGED closed, inflight' = inflight \ {o},
         NEW S \in SUBSET Entries, NEW p \in Pending, Becomes(c, p),
         p.at \in {"idle", "evict"}, p.at = "evict" <=> p.todo # <<>>, p.owner \notin Unmade,
         Range(p.todo) = S,
         owner' \in [Owner -> Task], Unmade' = Unmade,
         \A q \in Owner : /\ owner'[q].key = owner[q].key /\ owner'[q].at = owner[q].at
                          /\ owner'[q].ready = owner[q].ready
                          /\ Stopped(q) => Stopped(q)'
                          /\ q \notin S => owner'[q].told = owner[q].told,
         \A q \in S : Stopped(q)',
         entries' \in Seq(Owner), Len(entries') <= MaxSessions,
         Entries' = (Entries \ S) \union {o},
         \A i, j \in DOMAIN entries' : owner[entries'[i]].key = owner[entries'[j]].key => i = j
  PROVE  PoolInv'
<1>0. /\ TypeOK /\ Coherent /\ Owned /\ OnlyMade /\ CallsShaped /\ FailedAtEnd
      /\ OneMaker /\ UsableKept
  BY DEF PoolInv
<1>t. Entries \subseteq Owner /\ inflight \subseteq Owner /\ o \in Owner
  BY <1>0, Typing
<1>1. /\ call' \in [Call -> Pending] /\ call'[c] = p
      /\ \A d \in Call : d # c => call'[d] = call[d]
      /\ ToShutDown(c)' = S
  BY <1>0, BecomesFacts
<1>2. \A d \in Call : d # c => /\ ToShutDown(d)' = ToShutDown(d) /\ Waits(d)' = Waits(d)
                               /\ call'[d].owner = call[d].owner
  BY <1>1 DEF ToShutDown, Waits
<1>3. ~ Waits(c)' /\ ToShutDown(c) = {}
  BY <1>0, <1>1, Typing DEF CallsShaped, Waits, IsShutting
<1>4. o \notin Entries /\ o \notin S /\ owner[o].told = "" /\ \A d \in Call : o \notin ToShutDown(d)
  <2>1. o \notin Entries
    BY <1>0 DEF OneMaker
  <2>2. Usable(o)
    BY DEF Usable
  <2> QED BY <1>0, <1>t, <2>1, <2>2 DEF UsableKept
<1>5. \A d \in Call : Waits(d)' => d # c /\ Waits(d) /\ call'[d].owner = call[d].owner
                                   /\ call[d].owner # o
  BY <1>0, <1>2, <1>3 DEF OneMaker
<1>6. TypeOK'
  <2>1. \A i \in DOMAIN entries' : entries'[i] \in Owner
    BY LenProperties
  <2>2. \A i, j \in DOMAIN entries' : owner'[entries'[i]].key = owner'[entries'[j]].key => i = j
    BY <2>1
  <2>3. \A q, r \in inflight : owner[q].key = owner[r].key => q = r
    BY <1>0, Typing
  <2>4. \A q, r \in inflight' : owner'[q].key = owner'[r].key => q = r
    BY <2>3, <1>t
  <2>5. closed' \in BOOLEAN /\ inflight' \subseteq Owner
    BY <1>0, <1>t, Typing
  <2> QED BY <1>1, <2>2, <2>4, <2>5 DEF TypeOK
<1>7. Coherent'
  <2>1. \A q \in Entries' : q \in Owner /\ q \notin S /\ owner[q].told = ""
    BY <1>0, <1>4, <1>t DEF Coherent
  <2>2. \A q \in Entries' : owner'[q].told = ""
    BY <2>1
  <2>3. \A q \in Entries', r \in inflight' : owner'[q].key # owner'[r].key
    <3> TAKE q \in Entries', r \in inflight'
    <3>1. owner'[q].key = owner[q].key /\ owner'[r].key = owner[r].key
      BY <1>t, <2>1
    <3>2. CASE q = o
      <4>1. \A x, y \in inflight : owner[x].key = owner[y].key => x = y
        BY <1>0, Typing
      <4> QED BY <3>1, <3>2, <4>1
    <3>3. CASE q # o
      <4>1. q \in Entries /\ r \in inflight
        BY <3>3
      <4>2. owner[q].key # owner[r].key
        BY <1>0, <4>1 DEF Coherent
      <4> QED BY <3>1, <4>2
    <3> QED BY <3>2, <3>3
  <2> QED BY <2>2, <2>3 DEF Coherent
<1>8. Owned'
  <2> SUFFICES ASSUME NEW q \in Owner, ~ Stopped(q)', q \notin Entries'
               PROVE  \E d \in Call : q \in ToShutDown(d)' \/ (Waits(d)' /\ call'[d].owner = q)
    BY DEF Owned
  <2>1. ~ Stopped(q) /\ q # o /\ q \notin S /\ q \notin Entries
    OBVIOUS
  <2>2. PICK d \in Call : q \in ToShutDown(d) \/ (Waits(d) /\ call[d].owner = q)
    BY <1>0, <2>1 DEF Owned
  <2>3. d # c
    BY <1>3, <2>1, <2>2
  <2> QED BY <1>2, <2>2, <2>3
<1>9. OnlyMade'
  <2>1. Registered' \subseteq Registered
    BY DEF Registered
  <2>2. S \intersect Unmade = {}
    BY <1>0 DEF OnlyMade, Registered
  <2>3. \A d \in Call : call'[d].owner \notin Unmade /\ ToShutDown(d)' \intersect Unmade = {}
    BY <1>0, <1>1, <1>2, <2>2 DEF OnlyMade
  <2> QED BY <1>0, <2>1, <2>3 DEF OnlyMade
<1>10. CallsShaped'
  <2> SUFFICES ASSUME NEW d \in Call
               PROVE  /\ IsShutting(d)' <=> call'[d].todo # <<>>
                      /\ (IsShutting(d) => Stopped(Head(call[d].todo)))'
                      /\ call'[d].at \in {"join", "wait"} => call'[d].owner \in Owner
    BY DEF CallsShaped
  <2>1. CASE d = c
    <3>1. IsShutting(c)' <=> call'[c].todo # <<>>
      BY <1>1 DEF IsShutting
    <3>2. call'[c].at \notin {"join", "wait"}
      BY <1>1
    <3>3. (IsShutting(c) => Stopped(Head(call[c].todo)))'
      <4>1. p.todo \in Seq(Owner)
        BY DEF Pending
      <4>2. p.todo # <<>> => Head(p.todo) \in S
        BY <4>1, ListParts
      <4>3. p.todo # <<>> => Stopped(Head(p.todo))'
        BY <4>2 DEF Stopped
      <4> QED BY <1>1, <3>1, <4>2 DEF Stopped
    <3> QED BY <2>1, <3>1, <3>2, <3>3
  <2>2. CASE d # c
    <3>1. /\ IsShutting(d) <=> call[d].todo # <<>>
          /\ IsShutting(d) => Stopped(Head(call[d].todo))
          /\ call[d].at \in {"join", "wait"} => call[d].owner \in Owner
      BY <1>0 DEF CallsShaped
    <3>2. IsShutting(d) => Head(call[d].todo) \in Owner
      BY <3>1, <1>0, Typing, ListParts
    <3>3. call'[d] = call[d]
      BY <2>2, <1>1
    <3> QED BY <3>1, <3>2, <3>3 DEF IsShutting, Stopped
  <2> QED BY <2>1, <2>2
<1>11. FailedAtEnd'
  BY <1>0 DEF FailedAtEnd
<1>12. OneMaker'
  BY <1>0, <1>5 DEF OneMaker
<1>13. UsableKept'
  <2> SUFFICES ASSUME NEW q \in Owner, Usable(q)'
               PROVE  owner'[q].told = "" /\ \A d \in Call : q \notin ToShutDown(d)'
    BY DEF UsableKept
  <2>1. q \notin S
    <3>1. \A x \in Entries : x \notin inflight
      BY <1>0 DEF Coherent
    <3> QED BY <1>4, <3>1 DEF Usable
  <2>2. q = o \/ Usable(q)
    BY <1>5 DEF Usable
  <2>3. owner[q].told = "" /\ \A d \in Call : q \notin ToShutDown(d)
    BY <1>0, <1>4, <2>2 DEF UsableKept
  <2>4. owner'[q].told = ""
    BY <2>1, <2>3
  <2>5. \A d \in Call : q \notin ToShutDown(d)'
    <3> TAKE d \in Call
    <3>1. CASE d = c
      BY <1>1, <2>1, <3>1
    <3>2. CASE d # c
      BY <1>2, <2>3, <3>2
    <3> QED BY <3>1, <3>2
  <2> QED BY <2>4, <2>5
<1> QED BY <1>6, <1>7, <1>8, <1>9, <1>10, <1>11, <1>12, <1>13 DEF PoolInv

LEMMA RegisterKeeps ==
  ASSUME PoolInv, NEW c \in Call, Register(c)
  PROVE  PoolInv'
<1>0. TypeOK /\ Coherent /\ OnlyMade /\ OneMaker
  BY DEF PoolInv
<1>1. PICK o \in inflight : o = call[c].owner
  BY DEF Register, StillCurrent
<1>2. /\ Waits(c) /\ ~ closed /\ UNCHANGED closed /\ inflight' = inflight \ {o}
      /\ IF Full
           THEN /\ entries' = Append(Tail(entries), o)
                /\ Shutting(c, "evict", <<Head(entries)>>, {})
           ELSE /\ entries' = Append(entries, o)
                /\ Becomes(c, Idle) /\ UNCHANGED owner
  BY <1>1 DEF Register, StillCurrent, Waits
<1>t. /\ owner \in [Owner -> Task] /\ Entries \subseteq Owner /\ o \in Owner
      /\ entries \in Seq(Owner) /\ Len(entries) \in Nat /\ Len(entries) <= MaxSessions
      /\ MaxSessions \in Nat \ {0}
      /\ DOMAIN entries = 1 .. Len(entries)
  BY <1>0, Typing, PoolAssumption, LenProperties
<1>3. o \notin Entries
  BY <1>0, <1>1, <1>2 DEF OneMaker
<1>4. \A q \in Entries : owner[q].key # owner[o].key
  BY <1>0 DEF Coherent
<1>5. \A i, j \in DOMAIN entries : owner[entries[i]].key = owner[entries[j]].key => i = j
  BY <1>0 DEF TypeOK
<1>6. CASE ~ Full
  <2>1. entries' = Append(entries, o) /\ Becomes(c, Idle) /\ UNCHANGED owner
    BY <1>2, <1>6
  <2>2. /\ entries' \in Seq(Owner) /\ Len(entries') = Len(entries) + 1
        /\ Range(entries') = Range(entries) \union {o}
        /\ \A i, j \in DOMAIN entries' : owner[entries'[i]].key = owner[entries'[j]].key => i = j
    BY <1>t, <1>4, <1>5, <2>1, AppendFacts DEF Entries
  <2>3. Entries' = (Entries \ {}) \union {o}
    BY <2>2 DEF Entries
  <2>4. Len(entries') <= MaxSessions
    BY <1>6, <1>t, <2>2 DEF Full
  <2>5. /\ owner' \in [Owner -> Task] /\ Unmade' = Unmade
        /\ \A q \in Owner : Stopped(q)' = Stopped(q)
    BY <1>0, <2>1, OwnersSame
  <2> QED BY <1>1, <1>2, <2>1, <2>2, <2>3, <2>4, <2>5, IdleFacts, EntersKeeps
<1>7. CASE Full
  <2>1. entries' = Append(Tail(entries), o) /\ Shutting(c, "evict", <<Head(entries)>>, {})
    BY <1>2, <1>7
  <2>2. entries # <<>>
    BY <1>7, <1>t, EmptySeq DEF Full
  <2> DEFINE t == Tail(entries)
  <2>3. PICK h \in Owner : h = Head(entries) /\ h \in Entries /\ h = entries[1]
    BY <1>t, <2>2, ListParts DEF Entries
  <2>4. /\ t \in Seq(Owner) /\ Range(t) \subseteq Entries /\ Len(t) = Len(entries) - 1
        /\ \A q \in Entries : q = h \/ q \in Range(t)
        /\ \A i \in DOMAIN t : i + 1 \in DOMAIN entries /\ t[i] = entries[i + 1]
    BY <1>t, <2>2, <2>3, ListParts DEF Entries
  <2>5. DOMAIN t = 1 .. Len(t) /\ Len(t) \in Nat /\ 1 \in DOMAIN entries
    BY <1>t, <2>2, <2>4, LenProperties, ListParts
  <2> HIDE DEF t
  <2>6. h \notin Range(t)
    <3> SUFFICES ASSUME NEW i \in DOMAIN t, t[i] = h PROVE FALSE
      BY DEF Range
    <3>1. i + 1 = 1
      BY <1>5, <2>3, <2>4, <2>5
    <3> QED BY <2>5, <3>1
  <2>7. \A i, j \in DOMAIN t : owner[t[i]].key = owner[t[j]].key => i = j
    <3> TAKE i, j \in DOMAIN t
    <3> HAVE owner[t[i]].key = owner[t[j]].key
    <3>1. i + 1 = j + 1
      BY <1>5, <2>4
    <3> QED BY <2>5, <3>1
  <2>8. Range(t) = Entries \ {h}
    BY <2>4, <2>6
  <2>9. /\ entries' \in Seq(Owner) /\ Len(entries') = Len(t) + 1
        /\ Range(entries') = Range(t) \union {o}
        /\ \A i, j \in DOMAIN entries' : owner[entries'[i]].key = owner[entries'[j]].key => i = j
    <3>1. \A q \in Range(t) : owner[q].key # owner[o].key
      BY <1>4, <2>8
    <3>2. entries' = Append(t, o)
      BY <2>1 DEF t
    <3> QED BY <1>t, <2>4, <2>7, <3>1, <3>2, AppendFacts
  <2>10. Entries' = (Entries \ {h}) \union {o}
    BY <2>8, <2>9 DEF Entries
  <2>11. Len(entries') <= MaxSessions
    BY <1>t, <2>4, <2>5, <2>9
  <2>12. h \notin Unmade
    BY <1>0, <2>3 DEF OnlyMade, Registered
  <2>13. PICK p \in Pending : /\ Becomes(c, p) /\ p.at = "evict" /\ p.owner = call[c].owner
                              /\ p.todo = <<h>> /\ OwnersTold(h)
    <3> DEFINE todo == <<h>>
    <3>1. todo \in Seq(Owner) /\ todo # <<>> /\ Head(todo) = h /\ Shutting(c, "evict", todo, {})
      BY <2>1, <2>3, OneOwner
    <3> HIDE DEF todo
    <3>2. \E p \in Pending : /\ Becomes(c, p) /\ p.at = "evict" /\ p.owner = call[c].owner
                             /\ p.todo = todo /\ OwnersTold(Head(todo))
      BY <1>0, <2>12, <3>1, ShuttingFacts
    <3> QED BY <3>1, <3>2 DEF todo
  <2>14. p.todo # <<>> /\ Range(p.todo) = {h} /\ p.owner \notin Unmade
    BY <1>0, <2>13, OneOwner DEF OnlyMade
  <2>15. /\ owner' \in [Owner -> Task] /\ Unmade' = Unmade
         /\ \A q \in Owner : /\ owner'[q].key = owner[q].key /\ owner'[q].at = owner[q].at
                             /\ owner'[q].ready = owner[q].ready
                             /\ Stopped(q) => Stopped(q)'
                             /\ q \notin {h} => owner'[q].told = owner[q].told
         /\ \A q \in {h} : Stopped(q)'
    BY <2>13 DEF OwnersTold
  <2>16. {h} \in SUBSET Entries
    BY <2>3
  <2> QED BY <1>1, <1>2, <2>9, <2>10, <2>11, <2>13, <2>14, <2>15, <2>16, EntersKeeps
<1> QED BY <1>6, <1>7

------------------------------------------------------------------------------
(* The theorems *)

LEMMA CallStepKeeps ==
  ASSUME PoolInv, NEW c \in Call, CallStep(c)
  PROVE  PoolInv'
<1>0. closed \in BOOLEAN
  BY Typing DEF PoolInv
<1>1. CASE \E k \in Key : GetSession(c, k)
  <2>1. PICK k \in Key : GetSession(c, k)
    BY <1>1
  <2>2. call[c] = Idle /\ ~ closed /\ UNCHANGED closed
    BY <2>1 DEF GetSession
  <2>3. CASE Take(k)
    BY <2>2, <2>3, TakeReleases, ReleasesKeeps
  <2>4. CASE Join(c, k)
    BY <2>2, <2>4, JoinReleases, ReleasesKeeps
  <2>5. CASE Make(c, k)
    BY <2>2, <2>5, MakeKeeps
  <2> QED BY <2>1, <2>3, <2>4, <2>5 DEF GetSession
<1>2. CASE \E keys : CloseOwners(c, keys) /\ closed' \in BOOLEAN /\ (closed' => closed \/ keys = Key)
  BY <1>2, CloseReleases, ReleasesKeeps
<1>3. CASE Joined(c)
  BY <1>3, JoinedReleases, ReleasesKeeps DEF Joined
<1>4. CASE Register(c)
  BY <1>4, RegisterKeeps
<1>5. CASE Reject(c)
  BY <1>5, RejectReleases, ReleasesKeeps
<1>6. CASE MakingFails(c)
  BY <1>6, MakingFailsReleases, ReleasesKeeps
<1>7. CASE ShutDown(c)
  BY <1>7, AdvanceReleases, ReleasesKeeps DEF ShutDown
<1>8. CASE Interrupt(c)
  BY <1>8, InterruptReleases, ReleasesKeeps
<1>9. (\E k \in Key : CloseSession(c, k)) \/ (\E s \in Scope : CloseScope(c, s))
      \/ InvalidateRevision(c) \/ Close(c)
      => \E keys : CloseOwners(c, keys) /\ closed' \in BOOLEAN /\ (closed' => closed \/ keys = Key)
  <2>1. ASSUME NEW keys, CloseOwners(c, keys), UNCHANGED closed
        PROVE  \E ks : CloseOwners(c, ks) /\ closed' \in BOOLEAN /\ (closed' => closed \/ ks = Key)
    BY <1>0, <2>1
  <2>2. ASSUME CloseOwners(c, Key), closed' = TRUE
        PROVE  \E ks : CloseOwners(c, ks) /\ closed' \in BOOLEAN /\ (closed' => closed \/ ks = Key)
    BY <2>2
  <2>3. ASSUME NEW k \in Key, CloseSession(c, k)
        PROVE  CloseOwners(c, {k}) /\ UNCHANGED closed
    BY <2>3 DEF CloseSession
  <2>4. ASSUME NEW s \in Scope, CloseScope(c, s)
        PROVE  CloseOwners(c, {s} \X Server) /\ UNCHANGED closed
    BY <2>4 DEF CloseScope
  <2>5. ASSUME InvalidateRevision(c)
        PROVE  CloseOwners(c, Key) /\ UNCHANGED closed
    BY <2>5 DEF InvalidateRevision
  <2>6. ASSUME Close(c)
        PROVE  CloseOwners(c, Key) /\ closed' = TRUE
    BY <2>6 DEF Close
  <2> QED BY <2>1, <2>2, <2>3, <2>4, <2>5, <2>6
<1> QED BY <1>1, <1>2, <1>3, <1>4, <1>5, <1>6, <1>7, <1>8, <1>9 DEF CallStep, Resume

LEMMA StutterKeeps ==
  ASSUME PoolInv, UNCHANGED poolVars
  PROVE  PoolInv'
<1>1. UNCHANGED <<owner, entries, inflight, closed, call>>
  BY DEF poolVars
<1>2. /\ Entries' = Entries /\ Unmade' = Unmade /\ Registered' = Registered
      /\ \A o \in Owner : Stopped(o)' = Stopped(o)
      /\ \A c \in Call : ToShutDown(c)' = ToShutDown(c) /\ Waits(c)' = Waits(c)
  BY <1>1 DEF Entries, Unmade, Registered, Stopped, ToShutDown, Waits
<1>3. \A o \in Owner : Usable(o)' = Usable(o)
  BY <1>1, <1>2 DEF Usable
<1>4. TypeOK' /\ FailedAtEnd' /\ CallsShaped'
  BY <1>1 DEF PoolInv, TypeOK, FailedAtEnd, CallsShaped, IsShutting, Stopped
<1>5. Coherent' /\ OnlyMade'
  BY <1>1, <1>2 DEF PoolInv, Coherent, OnlyMade
<1>6. Owned'
  BY <1>1, <1>2 DEF PoolInv, Owned
<1>7. OneMaker'
  BY <1>1, <1>2 DEF PoolInv, OneMaker
<1>8. UsableKept'
  BY <1>1, <1>2, <1>3 DEF PoolInv, UsableKept
<1> QED BY <1>4, <1>5, <1>6, <1>7, <1>8 DEF PoolInv

\* The inductive invariant holds, whatever the calls, their interruptions and the servers do.
THEOREM PoolInvariant == Spec => []PoolInv
<1>1. Init => PoolInv
  BY Initially
<1>2. PoolInv /\ [Next]_poolVars => PoolInv'
  <2> SUFFICES ASSUME PoolInv, [Next]_poolVars PROVE PoolInv'
    OBVIOUS
  <2>1. ASSUME NEW o \in Owner, OwnerStep(o) PROVE PoolInv'
    <3>1. TypeOK /\ FailedAtEnd
      BY DEF PoolInv
    <3> QED BY <2>1, <3>1, OwnerStepMoves, OwnerMovesKeeps
  <2>2. ASSUME NEW c \in Call, CallStep(c) PROVE PoolInv'
    BY <2>2, CallStepKeeps
  <2>3. CASE UNCHANGED poolVars
    BY <2>3, StutterKeeps
  <2> QED BY <2>1, <2>2, <2>3 DEF Next
<1> QED BY <1>1, <1>2, PTL DEF Spec

\* The variables keep their types, and no more sessions are in use than the capacity of
\* the pool allows, however many are registered, evicted and closed around each other.
THEOREM PoolTyped == Spec => []TypeOK
<1>1. PoolInv => TypeOK
  BY DEF PoolInv
<1> QED BY <1>1, PoolInvariant, PTL

\* The pool gives out no session that is being closed or is still to be closed, makes none
\* for a key that has one, and stays empty once it is closed.
THEOREM PoolKeepsCoherent == Spec => []PoolCoherent
<1>1. PoolInv => PoolCoherent
  <2> SUFFICES ASSUME PoolInv PROVE PoolCoherent
    OBVIOUS
  <2>1. \A c \in Call : call[c].todo \in Seq(Owner)
    BY Typing DEF PoolInv
  <2>2. \A c \in Call, o \in Entries : o \notin ToShutDown(c)
    BY Typing DEF PoolInv, UsableKept, Usable
  <2>3. \A c \in Call, o \in Entries : ~Contains(call[c].todo, o)
    BY <2>1, <2>2, LenProperties DEF ToShutDown, Range, Contains
  <2> QED BY <2>3 DEF PoolInv, Coherent, PoolCoherent
<1> QED BY <1>1, PoolInvariant, PTL

\* No session is left to itself, whichever calls are cancelled or time out.
THEOREM NoSessionLeftAlone == Spec => []SessionsOwned
<1>1. PoolInv => SessionsOwned
  <2> SUFFICES ASSUME PoolInv PROVE SessionsOwned
    OBVIOUS
  <2>1. \A c \in Call : call[c].todo \in Seq(Owner)
    BY Typing DEF PoolInv
  <2>2. \A c \in Call : \A o \in ToShutDown(c) : Contains(call[c].todo, o)
    BY <2>1, LenProperties DEF ToShutDown, Range, Contains
  <2> QED BY <2>2 DEF PoolInv, Owned, SessionsOwned, Stopped, Waits
<1> QED BY <1>1, PoolInvariant, PTL

\* A chat has one session with a server at most, whether in use or being made: replacing
\* the owners that are over never leaves two.
OneSessionPerKey ==
  \A o, q \in Registered : owner[o].key = owner[q].key => o = q

THEOREM KeysHaveOneSession == Spec => []OneSessionPerKey
<1>1. PoolInv => OneSessionPerKey
  <2> SUFFICES ASSUME PoolInv, NEW o \in Registered, NEW q \in Registered,
                      owner[o].key = owner[q].key
               PROVE  o = q
    BY DEF OneSessionPerKey
  <2>1. CASE o \in Entries /\ q \in Entries
    BY <2>1 DEF PoolInv, TypeOK, Entries, Range
  <2>2. CASE o \in inflight /\ q \in inflight
    BY <2>2 DEF PoolInv, TypeOK
  <2>3. ~(o \in Entries /\ q \in inflight) /\ ~(q \in Entries /\ o \in inflight)
    BY DEF PoolInv, Coherent
  <2> QED BY <2>1, <2>2, <2>3 DEF Registered
<1> QED BY <1>1, PoolInvariant, PTL

\* A session in use, or one that its call is about to put in use, is on no list of sessions
\* to shut down: no close that is still under way will end a session given out after it.
THEOREM UsableSessionsLeftOpen == Spec => []UsableKept
<1>1. PoolInv => UsableKept
  BY DEF PoolInv
<1> QED BY <1>1, PoolInvariant, PTL
=============================================================================

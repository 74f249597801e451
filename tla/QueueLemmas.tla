----------------------------- MODULE QueueLemmas -----------------------------
(* What the proofs about the inbound queues need to know of lists: the      *)
(* list that a loop keeps, and the list that a sort makes of a set.         *)
EXTENDS QueryStatus, FiniteSets, FiniteSetTheorems, WellFoundedInduction, TLAPS

----------------------------------------------------------------------------
(* Induction on naturals for a set instead of a predicate: a set that is    *)
(* not all of Nat has a least element outside.                              *)

LEMMA LessIsWellFounded == IsWellFoundedOn({ss \in Nat \X Nat : ss[1] < ss[2]}, Nat)
  BY NatLessThanWellFounded DEF OpToRel

LEMMA Induction ==
    ASSUME NEW T, 0 \in T, \A n \in Nat : n \in T => n + 1 \in T
    PROVE  Nat \subseteq T
  <1> DEFINE R == {ss \in Nat \X Nat : ss[1] < ss[2]}
  <1> SUFFICES ASSUME Nat \ T # {} PROVE FALSE
    OBVIOUS
  <1>1. PICK x \in Nat \ T : \A y \in Nat \ T : ~(<<y, x>> \in R)
    BY LessIsWellFounded, WFMin
  <1>2. x - 1 \in Nat /\ x - 1 < x /\ x = (x - 1) + 1
    OBVIOUS
  <1>3. <<x - 1, x>> \in R
    BY <1>2
  <1>4. x - 1 \in T
    BY <1>1, <1>2, <1>3
  <1>5. QED
    BY <1>2, <1>4

----------------------------------------------------------------------------
(* Sequences over any set.                                                  *)

LEMMA SeqGrows ==
    ASSUME NEW S, NEW T, S \subseteq T, NEW s \in Seq(S)
    PROVE  s \in Seq(T)
  OBVIOUS

LEMMA SameSeq ==
    ASSUME NEW T, NEW s \in Seq(T), NEW t \in Seq(T), Len(s) = Len(t),
           \A i \in 1 .. Len(s) : s[i] = t[i]
    PROVE  s = t
  OBVIOUS

LEMMA TailIs ==
    ASSUME NEW T, NEW s \in Seq(T), s # <<>>
    PROVE  /\ Tail(s) \in Seq(T)
           /\ Len(Tail(s)) = Len(s) - 1
           /\ \A i \in 1 .. Len(s) - 1 : Tail(s)[i] = s[i + 1]
  OBVIOUS

LEMMA AppendIs ==
    ASSUME NEW T, NEW s \in Seq(T), NEW e \in T
    PROVE  /\ Append(s, e) \in Seq(T)
           /\ Len(Append(s, e)) = Len(s) + 1
           /\ Append(s, e)[Len(s) + 1] = e
           /\ \A i \in 1 .. Len(s) : Append(s, e)[i] = s[i]
  OBVIOUS

LEMMA CutIs ==
    ASSUME NEW T, NEW s \in Seq(T), NEW m \in 0 .. Len(s)
    PROVE  /\ SubSeq(s, 1, m) \in Seq(T)
           /\ Len(SubSeq(s, 1, m)) = m
           /\ \A i \in 1 .. m : SubSeq(s, 1, m)[i] = s[i]
  OBVIOUS

----------------------------------------------------------------------------
(* The loop of GetQueuedQueriesForMember: what is kept is a list of the     *)
(* elements of S in their order, each at the place that the elements of S   *)
(* up to it give it.                                                        *)

\* One turn of the loop.
KeepStep(kept, line, S, n) ==
    IF n = 0 THEN <<>>
    ELSE IF line[n] \in S THEN Append(kept[n - 1], line[n]) ELSE kept[n - 1]

LEMMA KeptExists ==
    ASSUME NEW line, NEW S
    PROVE  \A m \in Nat : \E f : f = [n \in 0 .. m |-> KeepStep(f, line, S, n)]
  <1> DEFINE T == {m \in Nat : \E f : f = [n \in 0 .. m |-> KeepStep(f, line, S, n)]}
  <1>1. 0 \in T
    <2> DEFINE f == [n \in 0 .. 0 |-> <<>>]
    <2>1. f = [n \in 0 .. 0 |-> KeepStep(f, line, S, n)]
      BY DEF KeepStep
    <2>2. QED
      BY <2>1
  <1>2. ASSUME NEW m \in Nat, m \in T PROVE m + 1 \in T
    <2>1. PICK f : f = [n \in 0 .. m |-> KeepStep(f, line, S, n)]
      BY <1>2
    <2> DEFINE g == [n \in 0 .. m + 1 |-> KeepStep(f, line, S, n)]
    <2>2. ASSUME NEW n \in 0 .. m + 1 PROVE g[n] = KeepStep(g, line, S, n)
      <3>1. CASE n = 0
        BY <3>1 DEF KeepStep
      <3>2. CASE n # 0
        <4>1. n - 1 \in 0 .. m /\ n - 1 \in 0 .. m + 1
          BY <3>2
        <4>2. g[n - 1] = KeepStep(f, line, S, n - 1)
          BY <4>1
        <4>3. f[n - 1] = KeepStep(f, line, S, n - 1)
          BY <4>1, <2>1
        <4>4. QED
          BY <4>2, <4>3, <3>2 DEF KeepStep
      <3>3. QED
        BY <3>1, <3>2
    <2>3. g = [n \in 0 .. m + 1 |-> KeepStep(g, line, S, n)]
      BY <2>2
    <2>4. \E h : h = [n \in 0 .. m + 1 |-> KeepStep(h, line, S, n)]
      <3> HIDE DEF g
      <3>1. QED
        BY <2>3
    <2>5. QED
      BY <2>4
  <1>3. QED
    BY <1>1, <1>2, Induction

\* The loop, as equations.
LEMMA KeptLoop ==
    ASSUME NEW T, NEW line \in Seq(T), NEW S
    PROVE  \E f : /\ f = [n \in 0 .. Len(line) |-> KeepStep(f, line, S, n)]
                  /\ Kept(line, S) = f[Len(line)]
  <1> DEFINE f == CHOOSE g : g = [n \in 0 .. Len(line) |-> KeepStep(g, line, S, n)]
  <1>1. f = [n \in 0 .. Len(line) |-> KeepStep(f, line, S, n)]
    BY KeptExists
  <1>2. Kept(line, S) = f[Len(line)]
    BY DEF Kept, KeepStep
  <1>3. QED
    BY <1>1, <1>2

\* How many of the first n elements are in S.
CountIn(line, S, n) == Cardinality({i \in 1 .. n : line[i] \in S})

LEMMA CountFacts ==
    ASSUME NEW line, NEW S, NEW n \in Nat
    PROVE  /\ CountIn(line, S, 0) = 0
           /\ CountIn(line, S, n) \in Nat
           /\ line[n + 1] \in S => CountIn(line, S, n + 1) = CountIn(line, S, n) + 1
           /\ line[n + 1] \notin S => CountIn(line, S, n + 1) = CountIn(line, S, n)
  <1> DEFINE C(m) == {i \in 1 .. m : line[i] \in S}
  <1>1. C(0) = {}
    OBVIOUS
  <1>2. IsFiniteSet(C(n))
    <2>1. C(n) \subseteq 1 .. n /\ IsFiniteSet(1 .. n)
      BY FS_Interval
    <2>2. QED
      BY <2>1, FS_Subset
  <1>3. line[n + 1] \in S => C(n + 1) = C(n) \cup {n + 1} /\ n + 1 \notin C(n)
    OBVIOUS
  <1>4. line[n + 1] \notin S => C(n + 1) = C(n)
    OBVIOUS
  <1>5. Cardinality(C(n)) \in Nat
    BY <1>2, FS_CardinalityType
  <1>6. n + 1 \notin C(n) => Cardinality(C(n) \cup {n + 1}) = Cardinality(C(n)) + 1
    BY <1>2, FS_AddElement
  <1>7. Cardinality(C(0)) = 0
    BY <1>1, FS_EmptySet
  <1> HIDE DEF C
  <1>8. \A m : CountIn(line, S, m) = Cardinality(C(m))
    BY DEF CountIn, C
  <1>9. QED
    BY <1>3, <1>4, <1>5, <1>6, <1>7, <1>8

\* What has been kept of the first n elements.
KeptOf(k, T, line, S, n) ==
    /\ k \in Seq(T)
    /\ Len(k) = CountIn(line, S, n)
    /\ \A j \in 1 .. Len(k) : \E i \in 1 .. n :
          k[j] = line[i] /\ line[i] \in S /\ CountIn(line, S, i) = j

LEMMA KeptFacts ==
    ASSUME NEW T, NEW line \in Seq(T), NEW S
    PROVE  KeptOf(Kept(line, S), T, line, S, Len(line))
  <1>1. PICK f : /\ f = [n \in 0 .. Len(line) |-> KeepStep(f, line, S, n)]
                 /\ Kept(line, S) = f[Len(line)]
    BY KeptLoop
  <1> DEFINE G == {n \in Nat : n <= Len(line) => KeptOf(f[n], T, line, S, n)}
  <1>2. 0 \in G
    <2>1. f[0] = <<>>
      BY <1>1 DEF KeepStep
    <2>2. <<>> \in Seq(T) /\ Len(<<>>) = 0
      OBVIOUS
    <2>3. \A j \in 1 .. Len(<<>>) : FALSE
      BY <2>2
    <2>4. KeptOf(<<>>, T, line, S, 0)
      BY <2>2, <2>3, CountFacts DEF KeptOf
    <2>5. QED
      BY <2>1, <2>4
  <1>3. ASSUME NEW n \in Nat, n \in G PROVE n + 1 \in G
    <2> SUFFICES ASSUME n + 1 <= Len(line) PROVE KeptOf(f[n + 1], T, line, S, n + 1)
      OBVIOUS
    <2>1. n <= Len(line) /\ n + 1 \in 0 .. Len(line) /\ n + 1 \in 1 .. Len(line) /\ (n + 1) - 1 = n
      OBVIOUS
    <2>2. KeptOf(f[n], T, line, S, n)
      BY <1>3, <2>1
    <2>3. f[n + 1] = IF line[n + 1] \in S THEN Append(f[n], line[n + 1]) ELSE f[n]
      <3>1. f[n + 1] = KeepStep(f, line, S, n + 1)
        BY <1>1, <2>1
      <3>2. n + 1 # 0
        OBVIOUS
      <3>3. QED
        BY <3>1, <3>2, <2>1 DEF KeepStep
    <2>4. line[n + 1] \in T
      BY <2>1
    <2>5. CASE line[n + 1] \notin S
      BY <2>2, <2>3, <2>5, CountFacts DEF KeptOf
    <2>6. CASE line[n + 1] \in S
      <3> DEFINE k == f[n]
      <3> DEFINE e == line[n + 1]
      <3>1. k \in Seq(T) /\ e \in T /\ Len(k) = CountIn(line, S, n)
        BY <2>2, <2>4 DEF KeptOf
      <3>2. CountIn(line, S, n + 1) = Len(k) + 1
        BY <2>6, <3>1, CountFacts
      <3>3. /\ Append(k, e) \in Seq(T)
            /\ Len(Append(k, e)) = Len(k) + 1
            /\ \A j \in 1 .. Len(k) : Append(k, e)[j] = k[j]
            /\ Append(k, e)[Len(k) + 1] = e
        BY <3>1
      <3>4. ASSUME NEW j \in 1 .. Len(Append(k, e))
            PROVE  \E i \in 1 .. n + 1 :
                     Append(k, e)[j] = line[i] /\ line[i] \in S /\ CountIn(line, S, i) = j
        <4>1. CASE j = Len(k) + 1
          BY <4>1, <2>6, <3>2, <3>3
        <4>2. CASE j # Len(k) + 1
          <5>1. j \in 1 .. Len(k)
            BY <3>1, <3>3, <4>2
          <5>2. PICK i \in 1 .. n : k[j] = line[i] /\ line[i] \in S /\ CountIn(line, S, i) = j
            BY <2>2, <5>1 DEF KeptOf
          <5>3. i \in 1 .. n + 1
            OBVIOUS
          <5>4. QED
            BY <3>3, <5>1, <5>2, <5>3
        <4>3. QED
          BY <4>1, <4>2
      <3>5. f[n + 1] = Append(k, e)
        BY <2>3, <2>6
      <3> HIDE DEF k, e
      <3>6. QED
        BY <3>2, <3>3, <3>4, <3>5 DEF KeptOf
    <2>7. QED
      BY <2>5, <2>6
  <1>4. Len(line) \in G
    <2> HIDE DEF G
    <2>1. QED
      BY <1>2, <1>3, Induction
  <1>5. QED
    BY <1>1, <1>4

----------------------------------------------------------------------------
(* Sorting: a finite set with a strict total order R can be listed in that  *)
(* order, and a list in order has every element in one place.               *)

IsStrictOrder(R, M) ==
    /\ \A p \in M : <<p, p>> \notin R
    /\ \A p, q, r \in M : <<p, q>> \in R /\ <<q, r>> \in R => <<p, r>> \in R
    /\ \A p, q \in M : p # q => <<p, q>> \in R \/ <<q, p>> \in R

InOrder(line, R, n) == \A i, j \in 1 .. n : i < j => <<line[i], line[j]>> \in R

\* The elements up to q.
UpTo(M, R, q) == {p \in M : p = q \/ <<p, q>> \in R}

LEMMA Ranks ==
    ASSUME NEW M, IsFiniteSet(M), NEW R, IsStrictOrder(R, M)
    PROVE  /\ Cardinality(M) \in Nat
           /\ \A q \in M : Cardinality(UpTo(M, R, q)) \in 1 .. Cardinality(M)
           /\ \A p, q \in M : <<p, q>> \in R =>
                 Cardinality(UpTo(M, R, p)) < Cardinality(UpTo(M, R, q))
  <1>1. Cardinality(M) \in Nat
    BY FS_CardinalityType
  <1>2. ASSUME NEW q \in M
        PROVE  /\ IsFiniteSet(UpTo(M, R, q))
               /\ Cardinality(UpTo(M, R, q)) \in Nat
               /\ Cardinality(UpTo(M, R, q)) <= Cardinality(M)
               /\ Cardinality(UpTo(M, R, q)) # 0
    <2>1. UpTo(M, R, q) \subseteq M /\ q \in UpTo(M, R, q)
      BY DEF UpTo
    <2>2. IsFiniteSet(UpTo(M, R, q)) /\ Cardinality(UpTo(M, R, q)) <= Cardinality(M)
      BY <2>1, FS_Subset
    <2>3. Cardinality(UpTo(M, R, q)) \in Nat
      BY <2>2, FS_CardinalityType
    <2>4. Cardinality(UpTo(M, R, q)) # 0
      BY <2>1, <2>2, FS_EmptySet
    <2>5. QED
      BY <2>2, <2>3, <2>4
  <1>3. ASSUME NEW p \in M, NEW q \in M, <<p, q>> \in R
        PROVE  Cardinality(UpTo(M, R, p)) < Cardinality(UpTo(M, R, q))
    <2>1. UpTo(M, R, p) \subseteq UpTo(M, R, q)
      BY <1>3 DEF UpTo, IsStrictOrder
    <2>2. q \in UpTo(M, R, q) /\ q \notin UpTo(M, R, p)
      BY <1>3 DEF UpTo, IsStrictOrder
    <2>3. IsFiniteSet(UpTo(M, R, q)) /\ UpTo(M, R, p) # UpTo(M, R, q)
      BY <1>2, <2>2
    <2>4. /\ Cardinality(UpTo(M, R, p)) <= Cardinality(UpTo(M, R, q))
          /\ Cardinality(UpTo(M, R, q)) # Cardinality(UpTo(M, R, p))
      BY <2>1, <2>3, FS_Subset
    <2>5. QED
      BY <1>2, <2>4
  <1>4. \A q \in M : Cardinality(UpTo(M, R, q)) \in 1 .. Cardinality(M)
    BY <1>1, <1>2
  <1>5. QED
    BY <1>1, <1>3, <1>4

LEMMA SortedExists ==
    ASSUME NEW M, IsFiniteSet(M), NEW R, IsStrictOrder(R, M)
    PROVE  \E line \in [1 .. Cardinality(M) -> M] : InOrder(line, R, Cardinality(M))
  <1> DEFINE n == Cardinality(M)
  <1> DEFINE rank == [q \in M |-> Cardinality(UpTo(M, R, q))]
  <1>1. n \in Nat /\ IsFiniteSet(1 .. n) /\ Cardinality(1 .. n) = n
    BY Ranks, FS_Interval
  <1>2. rank \in [M -> 1 .. n] /\ \A p, q \in M : <<p, q>> \in R => rank[p] < rank[q]
    BY Ranks
  <1> HIDE DEF rank
  <1>3. ASSUME NEW p \in M, NEW q \in M, rank[p] = rank[q]
        PROVE  p = q
    <2>1. rank[p] \in Nat /\ rank[q] \in Nat
      BY <1>1, <1>2
    <2>2. <<p, q>> \notin R /\ <<q, p>> \notin R
      BY <1>2, <1>3, <2>1
    <2>3. QED
      BY <2>2 DEF IsStrictOrder
  <1>4. rank \in Injection(M, 1 .. n)
    BY <1>2, <1>3 DEF Injection, IsInjective
  <1>5. rank \in Surjection(M, 1 .. n)
    BY <1>1, <1>4, FS_Injection
  <1>6. \A i \in 1 .. n : \E q \in M : rank[q] = i
    BY <1>5 DEF Surjection
  <1> DEFINE line == [i \in 1 .. n |-> CHOOSE q \in M : rank[q] = i]
  <1>7. \A i \in 1 .. n : line[i] \in M /\ rank[line[i]] = i
    BY <1>6
  <1>8. line \in [1 .. n -> M]
    BY <1>7
  <1> HIDE DEF line
  <1>9. ASSUME NEW i \in 1 .. n, NEW j \in 1 .. n, i < j
        PROVE  <<line[i], line[j]>> \in R
    <2>1. line[i] \in M /\ line[j] \in M /\ rank[line[i]] = i /\ rank[line[j]] = j
      BY <1>7
    <2>2. line[i] # line[j]
      BY <1>1, <1>9, <2>1
    <2>3. <<line[j], line[i]>> \notin R
      BY <1>1, <1>2, <1>9, <2>1
    <2>4. QED
      BY <2>1, <2>2, <2>3 DEF IsStrictOrder
  <1>10. QED
    BY <1>8, <1>9 DEF InOrder

\* The list holds the elements of M in their order.
Lists(line, M, R) ==
    /\ line \in [1 .. Cardinality(M) -> M]
    /\ InOrder(line, R, Cardinality(M))

FoundOnce(line, M, q) ==
    \E i \in 1 .. Cardinality(M) : \A j \in 1 .. Cardinality(M) : line[j] = q <=> j = i

LEMMA SortedOnce ==
    ASSUME NEW M, IsFiniteSet(M), NEW R, IsStrictOrder(R, M),
           NEW line, Lists(line, M, R), NEW q \in M
    PROVE  FoundOnce(line, M, q)
  <1> DEFINE n == Cardinality(M)
  <1>0. line \in [1 .. n -> M] /\ InOrder(line, R, n)
    BY DEF Lists
  <1>1. n \in Nat /\ IsFiniteSet(1 .. n) /\ Cardinality(1 .. n) = n
    BY FS_CardinalityType, FS_Interval
  <1>2. ASSUME NEW i \in 1 .. n, NEW j \in 1 .. n, line[i] = line[j]
        PROVE  i = j
    <2>1. line[i] \in M /\ <<line[i], line[j]>> \notin R /\ <<line[j], line[i]>> \notin R
      BY <1>0, <1>2 DEF IsStrictOrder
    <2>2. ~(i < j) /\ ~(j < i)
      BY <1>0, <2>1 DEF InOrder
    <2>3. QED
      BY <1>1, <2>2
  <1>3. line \in Injection(1 .. n, M)
    BY <1>0, <1>2 DEF Injection, IsInjective
  <1>4. line \in Surjection(1 .. n, M)
    BY <1>1, <1>3, FS_Injection
  <1>5. PICK i \in 1 .. n : line[i] = q
    BY <1>4 DEF Surjection
  <1>6. QED
    BY <1>2, <1>5 DEF FoundOnce
==============================================================================

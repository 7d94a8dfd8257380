----------------------------- MODULE DataLemmas -----------------------------
(***************************************************************************)
(* Facts about numbers, sets and sequences that the proofs about several   *)
(* modules use.                                                            *)
(***************************************************************************)
EXTENDS Retaining, Sequences, FiniteSetsExt, WellFoundedInduction,
        SequenceTheorems, FiniteSetTheorems, TLAPS

(* Induction over the natural numbers, for a set instead of a predicate: the
   provers instantiate a set, and not an operator.  With it the proofs follow
   what a fold computes, one element after the other. *)

(* A set that holds 0 and the next of each of its numbers holds them all. *)
LEMMA SetInduction ==
  ASSUME NEW T, 0 \in T, \A n \in Nat : n \in T => n + 1 \in T
  PROVE  \A n \in Nat : n \in T
<1> SUFFICES ASSUME NEW b \in Nat, b \notin T PROVE FALSE
  OBVIOUS
<1> DEFINE R == {p \in Nat \X Nat : p[1] < p[2]}
           U == Nat \ T
<1>1. IsWellFoundedOn(R, Nat)
  <2>1. R = OpToRel(<, Nat)
    BY Zenon DEF OpToRel
  <2> QED
    BY <2>1, NatLessThanWellFounded
<1>2. U \subseteq Nat /\ U # {}
  OBVIOUS
<1>3. PICK x \in U : \A y \in U : ~ (<<y, x>> \in R)
  <2> HIDE DEF R, U
  <2> QED
    BY <1>1, <1>2, WFMin
<1>4. x \in Nat /\ x \notin T /\ x # 0
  OBVIOUS
<1>5. x - 1 \in Nat /\ (x - 1) + 1 = x /\ x - 1 < x
  BY <1>4
<1>6. x - 1 \in U
  BY <1>4, <1>5
<1>7. <<x - 1, x>> \in R
  BY <1>4, <1>5
<1> QED
  BY <1>3, <1>6, <1>7

(* The same up to a bound. *)
LEMMA SetInductionUpTo ==
  ASSUME NEW T, NEW b \in Nat, 0 \in T, \A n \in 0 .. b - 1 : n \in T => n + 1 \in T
  PROVE  \A n \in 0 .. b : n \in T
<1> DEFINE U == {n \in Nat : n <= b => n \in T}
<1>1. 0 \in U
  OBVIOUS
<1>2. \A n \in Nat : n \in U => n + 1 \in U
  OBVIOUS
<1>3. \A n \in Nat : n \in U
  <2> HIDE DEF U
  <2> QED
    BY <1>1, <1>2, SetInduction
<1> QED
  BY <1>3

-----------------------------------------------------------------------------
(* The greatest and the least of a set. *)

(* An element that none exceeds is the greatest. *)
LEMMA MaxIs ==
  ASSUME NEW S \in SUBSET Int, NEW m \in S, \A y \in S : y <= m
  PROVE  Max(S) = m
<1> DEFINE Top(x) == x \in S /\ \A y \in S : x >= y
<1>1. Top(m)
  OBVIOUS
<1>2. \A x : Top(x) => x = m
  OBVIOUS
<1>3. Max(S) = CHOOSE x : Top(x)
  BY DEF Max
<1> HIDE DEF Top
<1> QED
  BY <1>1, <1>2, <1>3

(* One that exceeds none is the least. *)
LEMMA MinIs ==
  ASSUME NEW S \in SUBSET Int, NEW m \in S, \A y \in S : m <= y
  PROVE  Min(S) = m
<1> DEFINE Low(x) == x \in S /\ \A y \in S : x =< y
<1>1. Low(m)
  OBVIOUS
<1>2. \A x : Low(x) => x = m
  OBVIOUS
<1>3. Min(S) = CHOOSE x : Low(x)
  BY DEF Min
<1> HIDE DEF Low
<1> QED
  BY <1>1, <1>2, <1>3

(* Every set of naturals up to a bound has a greatest. *)
LEMMA BoundedHasMax ==
  ASSUME NEW n \in Nat, NEW S \in SUBSET (1 .. n), S # {}
  PROVE  \E m \in S : \A y \in S : y <= m
<1> DEFINE T == {k \in Nat : \A U \in SUBSET (1 .. k) :
                              U # {} => \E m \in U : \A y \in U : y <= m}
<1>1. 0 \in T
  <2>1. 1 .. 0 = {}
    OBVIOUS
  <2> QED
    BY <2>1
<1>2. ASSUME NEW k \in Nat, k \in T PROVE k + 1 \in T
  <2> SUFFICES ASSUME NEW U \in SUBSET (1 .. k + 1), U # {}
               PROVE  \E m \in U : \A y \in U : y <= m
    OBVIOUS
  <2>1. CASE k + 1 \in U
    BY <2>1
  <2>2. CASE k + 1 \notin U
    <3>1. \A y \in U : y \in 1 .. k
      BY <2>2
    <3> QED
      BY <1>2, <3>1
  <2> QED
    BY <2>1, <2>2
<1>3. n \in T
  <2> HIDE DEF T
  <2> QED
    BY <1>1, <1>2, SetInduction
<1> QED
  BY <1>3

(* So Max takes an element. *)
LEMMA MaxIn ==
  ASSUME NEW n \in Nat, NEW S \in SUBSET (1 .. n), S # {}
  PROVE  Max(S) \in S
<1>1. PICK m \in S : \A y \in S : y <= m
  BY BoundedHasMax
<1>2. S \in SUBSET Int
  OBVIOUS
<1> QED
  BY <1>1, <1>2, MaxIs

(* And a least. *)
LEMMA BoundedHasMin ==
  ASSUME NEW n \in Nat, NEW S \in SUBSET (1 .. n), S # {}
  PROVE  \E m \in S : \A y \in S : m <= y
<1> DEFINE T == {k \in Nat : \A U \in SUBSET (1 .. k) :
                              U # {} => \E m \in U : \A y \in U : m <= y}
<1>1. 0 \in T
  <2>1. 1 .. 0 = {}
    OBVIOUS
  <2> QED
    BY <2>1
<1>2. ASSUME NEW k \in Nat, k \in T PROVE k + 1 \in T
  <2> SUFFICES ASSUME NEW U \in SUBSET (1 .. k + 1), U # {}
               PROVE  \E m \in U : \A y \in U : m <= y
    OBVIOUS
  <2>0. \A y \in U \ {k + 1} : y \in 1 .. k
    OBVIOUS
  <2>1. CASE U = {k + 1}
    BY <2>1
  <2>2. CASE U \ {k + 1} # {}
    <3>1. PICK m \in U \ {k + 1} : \A y \in U \ {k + 1} : m <= y
      BY <1>2, <2>0, <2>2
    <3> QED
      BY <2>0, <3>1
  <2> QED
    BY <2>1, <2>2
<1>3. n \in T
  <2> HIDE DEF T
  <2> QED
    BY <1>1, <1>2, SetInduction
<1> QED
  BY <1>3

-----------------------------------------------------------------------------
(* Folding from left to right. *)

(* The sets of positions such a fold goes through. *)
LEMMA UpTo ==
  ASSUME NEW n \in Nat, NEW k \in 0 .. n - 1
  PROVE  /\ 1 .. k + 1 \in SUBSET (1 .. n) /\ 1 .. k + 1 # {}
         /\ Max(1 .. k + 1) = k + 1
         /\ (1 .. k + 1) \ {k + 1} = 1 .. k
<1>1. k \in Nat /\ k + 1 <= n /\ k + 1 \in 1 .. k + 1
  OBVIOUS
<1>2. \A x \in 1 .. k + 1 : x \in 1 .. n
  BY <1>1
<1>3. Max(1 .. k + 1) = k + 1
  <2>1. 1 .. k + 1 \in SUBSET Int /\ \A y \in 1 .. k + 1 : y <= k + 1
    BY <1>1
  <2> QED
    BY <1>1, <2>1, MaxIs
<1>4. (1 .. k + 1) \ {k + 1} = 1 .. k
  BY <1>1
<1> QED
  BY <1>1, <1>2, <1>3, <1>4

(* The recursion by which FoldLeft goes through n elements: from base, one step
   after the other; as far as its values are those of V; and the values it comes
   to after each element. *)
Recursion(g, base, n, step) ==
  g = [s \in SUBSET (1 .. n) |->
         IF s = {} THEN base ELSE step[<<g[s \ {Max(s)}], Max(s)>>]]

Obeys(g, V, base, n, step) ==
  /\ g[{}] = base
  /\ \A s \in SUBSET (1 .. n) :
       s # {} /\ g[s \ {Max(s)}] \in V => g[s] = step[<<g[s \ {Max(s)}], Max(s)>>]

Goes(run, base, n, step) ==
  run[0] = base /\ \A k \in 0 .. n - 1 : run[k + 1] = step[<<run[k], k + 1>>]

Path(run, V, base, n, step, last) ==
  run \in [0 .. n -> V] /\ Goes(run, base, n, step) /\ run[n] = last

(* The recursion of a fold has a solution among the values of its step. *)
LEMMA FoldSolves ==
  ASSUME NEW V, NEW base \in V, NEW b \in Nat, NEW step \in [V \X (1 .. b) -> V]
  PROVE  \E g : Recursion(g, base, b, step) /\ \A s \in SUBSET (1 .. b) : g[s] \in V
<1> DEFINE P(n, g) == /\ g = [s \in SUBSET (1 .. n) |->
                                IF s = {} THEN base ELSE step[<<g[s \ {Max(s)}], Max(s)>>]]
                      /\ \A s \in SUBSET (1 .. n) : g[s] \in V
           T == {n \in 0 .. b : \E g : P(n, g)}
<1>1. 0 \in T
  <2> DEFINE g0 == [s \in SUBSET (1 .. 0) |-> base]
  <2>1. \A s \in SUBSET (1 .. 0) : s = {}
    OBVIOUS
  <2>2. P(0, g0)
    BY <2>1
  <2>3. 0 \in 0 .. b
    OBVIOUS
  <2> QED
    BY <2>2, <2>3
<1>2. ASSUME NEW n \in 0 .. b - 1, n \in T PROVE n + 1 \in T
  <2> PICK g : P(n, g)
    BY <1>2
  <2>0. n \in Nat /\ n + 1 \in 1 .. b /\ n + 1 \in 0 .. b
    OBVIOUS
  <2> DEFINE h == [s \in SUBSET (1 .. n + 1) |->
                     IF n + 1 \in s THEN step[<<g[s \ {n + 1}], n + 1>>] ELSE g[s]]
  <2>1. ASSUME NEW s \in SUBSET (1 .. n + 1), n + 1 \in s
        PROVE  h[s] = step[<<h[s \ {Max(s)}], Max(s)>>] /\ h[s] \in V
    <3>1. Max(s) = n + 1
      <4>1. s \in SUBSET Int /\ \A y \in s : y <= n + 1
        BY <2>0
      <4> QED
        BY <2>1, <4>1, MaxIs
    <3>2. s \ {n + 1} \in SUBSET (1 .. n + 1) /\ n + 1 \notin s \ {n + 1}
      OBVIOUS
    <3>3. s \ {n + 1} \in SUBSET (1 .. n)
      <4>1. \A x \in 1 .. n + 1 : x # n + 1 => x \in 1 .. n
        BY <2>0
      <4> QED
        BY <4>1
    <3>4. h[s \ {n + 1}] = g[s \ {n + 1}] /\ g[s \ {n + 1}] \in V
      BY <3>2, <3>3
    <3>5. h[s] = step[<<g[s \ {n + 1}], n + 1>>]
      BY <2>1
    <3> HIDE DEF h
    <3> QED
      BY <2>0, <3>1, <3>4, <3>5
  <2>2. ASSUME NEW s \in SUBSET (1 .. n + 1), n + 1 \notin s
        PROVE  /\ s # {} => h[s] = step[<<h[s \ {Max(s)}], Max(s)>>]
               /\ s = {} => h[s] = base
               /\ h[s] \in V
    <3>1. s \in SUBSET (1 .. n) /\ s \ {Max(s)} \in SUBSET (1 .. n)
      <4>1. \A x \in 1 .. n + 1 : x # n + 1 => x \in 1 .. n
        BY <2>0
      <4> QED
        BY <2>2, <4>1
    <3>2. /\ s # {} => g[s] = step[<<g[s \ {Max(s)}], Max(s)>>]
          /\ s = {} => g[s] = base
          /\ g[s] \in V
      BY <3>1
    <3>3. h[s] = g[s] /\ h[s \ {Max(s)}] = g[s \ {Max(s)}]
      BY <2>2, <3>1
    <3> QED
      BY <3>2, <3>3
  <2>3. h = [s \in SUBSET (1 .. n + 1) |-> h[s]]
    OBVIOUS
  <2>4. P(n + 1, h)
    <3> HIDE DEF h
    <3>1. \A s \in SUBSET (1 .. n + 1) :
            h[s] = IF s = {} THEN base ELSE step[<<h[s \ {Max(s)}], Max(s)>>]
      BY <2>1, <2>2
    <3> QED
      BY <2>1, <2>2, <2>3, <3>1
  <2> HIDE DEF P, h
  <2> QED
    BY <2>0, <2>4
<1>3. \A n \in 0 .. b : n \in T
  <2> HIDE DEF T
  <2> QED
    BY <1>1, <1>2, SetInductionUpTo
<1>4. b \in T
  <2> HIDE DEF T
  <2> QED
    BY <1>3
<1> QED
  BY <1>4 DEF Recursion

(* What such a recursion comes to, one element after the other. *)
LEMMA FoldRun ==
  ASSUME NEW V, NEW base \in V, NEW n \in Nat, NEW step \in [V \X (1 .. n) -> V], NEW iter,
         Obeys(iter, V, base, n, step)
  PROVE  \E run : Path(run, V, base, n, step, iter[1 .. n])
<1> USE DEF Obeys
<1> DEFINE T == {k \in 0 .. n : iter[1 .. k] \in V}
<1>1. 1 .. 0 = {} /\ 0 \in T
  OBVIOUS
<1>2. ASSUME NEW k \in 0 .. n - 1, iter[1 .. k] \in V
      PROVE  iter[1 .. k + 1] = step[<<iter[1 .. k], k + 1>>] /\ iter[1 .. k + 1] \in V
  <2>1. iter[1 .. k + 1] = step[<<iter[1 .. k], k + 1>>]
    BY <1>2, UpTo
  <2>2. k + 1 \in 1 .. n
    OBVIOUS
  <2> QED
    BY <1>2, <2>1, <2>2
<1>3. ASSUME NEW k \in 0 .. n - 1, k \in T PROVE k + 1 \in T
  <2>1. k + 1 \in 0 .. n
    OBVIOUS
  <2> QED
    BY <1>2, <1>3, <2>1
<1>4. \A k \in 0 .. n : k \in T
  <2> HIDE DEF T
  <2> QED
    BY <1>1, <1>3, SetInductionUpTo
<1> DEFINE run == [k \in 0 .. n |-> iter[1 .. k]]
<1>5. run \in [0 .. n -> V]
  BY <1>4
<1>6. run[0] = base /\ run[n] = iter[1 .. n]
  BY <1>1
<1>7. ASSUME NEW k \in 0 .. n - 1 PROVE run[k + 1] = step[<<run[k], k + 1>>]
  <2>1. k \in 0 .. n /\ k + 1 \in 0 .. n
    OBVIOUS
  <2> QED
    BY <1>2, <1>4, <2>1
<1> HIDE DEF run
<1> QED
  BY <1>5, <1>6, <1>7 DEF Goes, Path

-----------------------------------------------------------------------------
(* Retaining. *)

(* A position behind all that are kept adds its element at the end. *)
LEMMA RetainGrows ==
  ASSUME NEW q, NEW n \in Nat, NEW K \in SUBSET (1 .. n), NEW S,
         Retain(q, K) \in Seq(S)
  PROVE  Retain(q, K \cup {n + 1}) = Append(Retain(q, K), q[n + 1])
<1> DEFINE L == K \cup {n + 1}
           Rank(M, i) == Cardinality({k \in M : k <= i})
           Nth(M, j) == CHOOSE i \in M : Rank(M, i) = j
<1>1. \A M : IsFiniteSet(M) => Cardinality(M) \in Nat
  BY FS_CardinalityType
<1>2. IsFiniteSet(1 .. n) /\ IsFiniteSet(K)
  <2>1. 1 \in Int /\ n \in Int
    OBVIOUS
  <2>2. IsFiniteSet(1 .. n)
    BY <2>1, FS_Interval
  <2> QED
    BY <2>2, FS_Subset
<1>3. n + 1 \notin K /\ IsFiniteSet(L) /\ Cardinality(L) = Cardinality(K) + 1
  BY <1>2, FS_AddElement
\* The ranks in K stay what they are, and n + 1 has the rank after them.
<1>4. \A i \in K : {k \in L : k <= i} = {k \in K : k <= i}
  OBVIOUS
<1>5. {k \in L : k <= n + 1} = L
  <2>1. \A k \in L : k <= n + 1
    OBVIOUS
  <2> QED
    BY <2>1
<1>6. \A i \in K : Rank(L, i) = Rank(K, i) /\ Rank(K, i) <= Cardinality(K) /\ Rank(K, i) \in Nat
  <2> SUFFICES ASSUME NEW i \in K
               PROVE  Rank(L, i) = Rank(K, i) /\ Rank(K, i) <= Cardinality(K) /\ Rank(K, i) \in Nat
    OBVIOUS
  <2>1. {k \in K : k <= i} \in SUBSET K
    OBVIOUS
  <2> QED
    BY <1>1, <1>2, <1>4, <2>1, FS_Subset
<1>7. Rank(L, n + 1) = Cardinality(K) + 1
  BY <1>3, <1>5
<1>8. Cardinality(K) \in Nat
  BY <1>1, <1>2
<1> HIDE DEF Rank
<1>9. \A j \in 1 .. Cardinality(K) : Nth(L, j) = Nth(K, j)
  <2> SUFFICES ASSUME NEW j \in 1 .. Cardinality(K) PROVE Nth(L, j) = Nth(K, j)
    OBVIOUS
  <2>1. \A i \in K : i \in L /\ Rank(L, i) = Rank(K, i)
    BY <1>6
  <2>2. \A i \in L : Rank(L, i) = j => i \in K
    BY <1>7, <1>8
  <2>3. \A i : (i \in L /\ Rank(L, i) = j) <=> (i \in K /\ Rank(K, i) = j)
    <3> HIDE DEF L
    <3> QED
      BY <2>1, <2>2
  <2> HIDE DEF L
  <2> QED
    BY <2>3
<1>10. Nth(L, Cardinality(K) + 1) = n + 1
  <2>1. \A i \in K : Rank(L, i) # Cardinality(K) + 1
    <3> SUFFICES ASSUME NEW i \in K PROVE Rank(L, i) # Cardinality(K) + 1
      OBVIOUS
    <3>1. Rank(L, i) <= Cardinality(K) /\ Rank(L, i) \in Nat
      BY <1>6
    <3> HIDE DEF L
    <3> QED
      BY <1>8, <3>1
  <2>2. \A i : (i \in L /\ Rank(L, i) = Cardinality(K) + 1) <=> i = n + 1
    BY <1>7, <2>1
  <2> HIDE DEF L
  <2> QED
    BY <2>2
<1>11. \A M : Retain(q, M) = [j \in 1 .. Cardinality(M) |-> q[Nth(M, j)]]
  BY DEF Retain, Rank
<1> HIDE DEF Nth, L
<1>12. \A j \in 1 .. Cardinality(K) : Retain(q, K)[j] = q[Nth(K, j)]
  BY <1>11
<1>13. \A j \in 1 .. Cardinality(K) + 1 :
         q[Nth(L, j)] = IF j = Cardinality(K) + 1 THEN q[n + 1] ELSE Retain(q, K)[j]
  BY <1>8, <1>9, <1>10, <1>12
<1>14. Retain(q, L) = [j \in 1 .. Cardinality(K) + 1 |->
                         IF j = Cardinality(K) + 1 THEN q[n + 1] ELSE Retain(q, K)[j]]
  BY <1>3, <1>11, <1>13
<1>15. Len(Retain(q, K)) = Cardinality(K)
  <2>1. Len(Retain(q, K)) \in Nat /\ DOMAIN Retain(q, K) = 1 .. Len(Retain(q, K))
    BY LenProperties
  <2>2. DOMAIN Retain(q, K) = 1 .. Cardinality(K)
    BY <1>11
  <2> QED
    BY <1>8, <2>1, <2>2
<1>16. Append(Retain(q, K), q[n + 1])
        = [j \in 1 .. Cardinality(K) + 1 |->
             IF j = Cardinality(K) + 1 THEN q[n + 1] ELSE Retain(q, K)[j]]
  BY <1>8, <1>15
<1>17. Retain(q, L) = Append(Retain(q, K), q[n + 1])
  BY <1>14, <1>16
<1> QED
  BY <1>17 DEF L

(* Nothing kept, nothing left. *)
LEMMA RetainNone ==
  ASSUME NEW q
  PROVE  Retain(q, {}) = <<>>
<1>1. Cardinality({}) = 0
  BY FS_EmptySet
<1>2. DOMAIN Retain(q, {}) = 1 .. 0
  BY <1>1 DEF Retain
<1>3. Retain(q, {}) = [j \in 1 .. 0 |-> Retain(q, {})[j]]
  BY <1>1 DEF Retain
<1> QED
  BY <1>3

-----------------------------------------------------------------------------
(* Sequences. *)

(* A line at the end of the second half is one at the end of the whole. *)
LEMMA ConcatAppend ==
  ASSUME NEW S, NEW a \in Seq(S), NEW b \in Seq(S), NEW x \in S
  PROVE  a \o Append(b, x) = Append(a \o b, x)
<1>1. b \o <<x>> = Append(b, x) /\ (a \o b) \o <<x>> = Append(a \o b, x)
  BY AppendProperties, ConcatProperties
<1>2. <<x>> \in Seq(S)
  OBVIOUS
<1> QED
  BY <1>1, <1>2, ConcatAssociative

(* Nor does it matter in which half an element is. *)
LEMMA MoveHead ==
  ASSUME NEW S, NEW a \in Seq(S), NEW b \in Seq(S), b # <<>>
  PROVE  Append(a, Head(b)) \o Tail(b) = a \o b
<1>1. Head(b) \in S /\ Tail(b) \in Seq(S) /\ <<Head(b)>> \in Seq(S)
  BY HeadTailProperties
<1>2. b = <<Head(b)>> \o Tail(b)
  <2>1. Len(b) \in Nat \ {0} /\ Len(Tail(b)) = Len(b) - 1 /\ Len(<<Head(b)>>) = 1
    BY EmptySeq, HeadTailProperties
  <2>2. \A i \in 1 .. Len(Tail(b)) : Tail(b)[i] = b[i + 1]
    BY HeadTailProperties
  <2>3. /\ <<Head(b)>> \o Tail(b) \in Seq(S) /\ Len(<<Head(b)>> \o Tail(b)) = Len(b)
        /\ \A i \in 1 .. Len(b) : (<<Head(b)>> \o Tail(b))[i] =
              IF i <= 1 THEN <<Head(b)>>[i] ELSE Tail(b)[i - 1]
    BY <1>1, <2>1, ConcatProperties
  <2>4. Head(b) = b[1] /\ <<Head(b)>>[1] = Head(b)
    OBVIOUS
  <2>5. \A i \in 1 .. Len(b) : b[i] = (<<Head(b)>> \o Tail(b))[i]
    BY <2>1, <2>2, <2>3, <2>4
  <2> QED
    BY <2>3, <2>5, SeqEqual
<1>3. Append(a, Head(b)) = a \o <<Head(b)>>
  BY <1>1, AppendProperties
<1> QED
  BY <1>1, <1>2, <1>3, ConcatAssociative
=============================================================================

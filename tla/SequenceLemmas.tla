--------------------------- MODULE SequenceLemmas ---------------------------
(***************************************************************************)
(* What appending to a sequence and cutting it do to its elements, for     *)
(* sequences whose elements have no type of their own: a ledger is a       *)
(* sequence of the events that it holds. And what one more number adds to  *)
(* a sum: the library's sums are folds in an order that CHOOSE determines, *)
(* so that any order gives the same sum has to be proved first. And that   *)
(* there is a fold over an interval, whatever its step does.               *)
(***************************************************************************)
EXTENDS Integers, FiniteSets, Functions, SequenceTheorems, FiniteSetTheorems, TLAPS

(* A sequence is a sequence of its own elements.                           *)
LEMMA OwnElements ==
  ASSUME NEW S, NEW t \in Seq(S)
  PROVE  t \in Seq({t[i] : i \in DOMAIN t})
<1>1. \A i \in 1..Len(t) : t[i] \in {t[j] : j \in DOMAIN t}
  OBVIOUS
<1>. QED  BY <1>1

(* Appending keeps the elements there are and adds the new one at the end. *)
LEMMA AppendOwn ==
  ASSUME NEW s, s \in Seq({s[i] : i \in DOMAIN s}), NEW e
  PROVE  LET t == Append(s, e)
         IN  /\ t \in Seq({t[i] : i \in DOMAIN t})
             /\ Len(t) = Len(s) + 1
             /\ \A i \in 1..Len(s) : t[i] = s[i]
             /\ t[Len(t)] = e
<1> DEFINE S == {s[i] : i \in DOMAIN s} \cup {e}
           t == Append(s, e)
<1>1. s \in Seq(S) /\ e \in S
  OBVIOUS
<1>2. /\ t \in Seq(S) /\ Len(t) = Len(s) + 1
      /\ \A i \in 1..Len(s) : t[i] = s[i]
      /\ t[Len(t)] = e
  BY <1>1
<1>. HIDE DEF S, t
<1>3. t \in Seq({t[i] : i \in DOMAIN t})
  BY <1>2, OwnElements
<1>. QED  BY <1>2, <1>3 DEF t

(* A sequence of its own elements, whatever they are.                      *)
Own(s) == s \in Seq({s[i] : i \in DOMAIN s})
LEMMA OneMoreOwn ==
  ASSUME NEW s, Own(s), NEW e
  PROVE  LET t == Append(s, e)
         IN  /\ Own(t) /\ Len(t) = Len(s) + 1
             /\ (\A i \in 1..Len(s) : t[i] = s[i]) /\ t[Len(t)] = e
<1>1. s \in Seq({s[i] : i \in DOMAIN s})
  BY DEF Own
<1>. QED
  BY <1>1, AppendOwn DEF Own

(* Cutting a sequence keeps its first elements.                            *)
LEMMA PrefixOwn ==
  ASSUME NEW s, s \in Seq({s[i] : i \in DOMAIN s}), NEW n \in 0..Len(s)
  PROVE  LET t == SubSeq(s, 1, n)
         IN  /\ t \in Seq({t[i] : i \in DOMAIN t})
             /\ Len(t) = n
             /\ \A i \in 1..n : t[i] = s[i]
<1> DEFINE S == {s[i] : i \in DOMAIN s}
           t == SubSeq(s, 1, n)
<1>1. s \in Seq(S)
  OBVIOUS
<1>2. t \in Seq(S) /\ Len(t) = n /\ \A i \in 1..n : t[i] = s[i]
  BY <1>1
<1>. HIDE DEF S, t
<1>3. t \in Seq({t[i] : i \in DOMAIN t})
  BY <1>2, OwnElements
<1>. QED  BY <1>2, <1>3 DEF t

(* The empty sequence holds nothing.                                       *)
LEMMA EmptyOwn == <<>> \in Seq({<<>>[i] : i \in DOMAIN <<>>}) /\ Len(<<>>) = 0
<1>1. <<>> \in Seq({})
  OBVIOUS
<1>. QED  BY <1>1, OwnElements

(* A set of positions that is not empty has a last one.                    *)
LEMMA LastPosition ==
  ASSUME NEW n \in Nat, NEW S \in SUBSET (1..n), S # {}
  PROVE  \E k \in S : \A j \in S : j <= k
<1> DEFINE T == {k..n : k \in S}
<1>1. IsFiniteSet(1..n)
  BY FS_Interval
<1>2. FiniteSubsetsOf(1..n) = SUBSET (1..n)
  BY <1>1, FS_FiniteSubsetsOfFinite
<1>3. T \subseteq FiniteSubsetsOf(1..n) /\ T # {}
  <2>1. \A k \in S : k..n \in SUBSET (1..n)
    OBVIOUS
  <2>2. \A t \in T : t \in SUBSET (1..n)
    BY <2>1
  <2>3. \E t : t \in T
    OBVIOUS
  <2>. HIDE DEF T
  <2>. QED  BY <1>2, <2>2, <2>3
<1>4. PICK x \in T : \A y \in T : <<y, x>> \notin StrictSubsetOrdering(1..n)
  BY <1>3, FS_StrictSubsetOrderingWellFounded, WFMin
<1>5. PICK k \in S : x = k..n
  BY <1>4
<1>6. ASSUME NEW j \in S, j > k
      PROVE  FALSE
  <2>1. j..n \in T /\ j..n \subseteq k..n /\ k \in k..n /\ k \notin j..n
    BY <1>6
  <2>2. j..n \in SUBSET (1..n) /\ k..n \in SUBSET (1..n)
    OBVIOUS
  <2>. QED  BY <2>1, <2>2, <1>4, <1>5 DEF StrictSubsetOrdering
<1>. QED  BY <1>6

(* What holds of 0 and is inherited by the next number holds up to n.      *)
LEMMA UpTo ==
  ASSUME NEW n \in Nat, NEW S, 0 \in S, \A k \in 0..n : k \in S => k + 1 \in S
  PROVE  n \in S
<1> SUFFICES ASSUME n \notin S PROVE FALSE
  OBVIOUS
<1> DEFINE T == {k \in 1..(n + 1) : n + 1 - k \notin S}
<1>1. T \in SUBSET (1..(n + 1)) /\ 1 \in T /\ n + 1 \in Nat
  OBVIOUS
<1>2. PICK k \in T : \A j \in T : j <= k
  <2>1. T # {}
    BY <1>1
  <2>. HIDE DEF T
  <2>. QED  BY <1>1, <2>1, LastPosition
<1>3. k \in 1..(n + 1) /\ n + 1 - k \notin S
  OBVIOUS
<1>4. k # n + 1
  BY <1>3
<1>5. k + 1 \in 1..(n + 1) /\ k + 1 \notin T
  BY <1>2, <1>3, <1>4
<1>6. n - k \in 0..n /\ n - k \in S
  BY <1>3, <1>5
<1>. QED  BY <1>3, <1>6

(* A finite set of natural numbers has a largest one.                      *)
LEMMA HasLargest ==
  ASSUME NEW S, S \subseteq Nat, IsFiniteSet(S), S # {}
  PROVE  \E m \in S : \A x \in S : x <= m
<1>1. PICK n \in Nat : ExistsBijection(1..n, S)
  BY FS_NatBijection
<1>2. PICK f \in [1..n -> S] : \A x \in S : \E k \in 1..n : f[k] = x
  BY <1>1 DEF ExistsBijection, Bijection, Surjection
<1>3. n >= 1
  <2>1. PICK x : x \in S
    OBVIOUS
  <2>2. PICK k \in 1..n : f[k] = x
    BY <1>2, <2>1
  <2>. QED  BY <2>2
<1> DEFINE Largest(k) == \E m \in 1..k : \A j \in 1..k : f[j] <= f[m]
           P == {k \in 0..(n + 1) : k \in 1..n => Largest(k)}
<1>4. ASSUME NEW k \in 0..n, k \in P PROVE k + 1 \in P
  <2> SUFFICES ASSUME k + 1 \in 1..n PROVE Largest(k + 1)
    OBVIOUS
  <2>0. \A j \in 1..n : f[j] \in Nat
    BY <1>2
  <2>1. CASE k = 0
    BY <2>0, <2>1
  <2>2. CASE k # 0
    <3>1. PICK m \in 1..k : \A j \in 1..k : f[j] <= f[m]
      BY <1>4, <2>2
    <3>2. CASE f[k + 1] <= f[m]
      BY <3>1, <3>2
    <3>3. CASE f[m] <= f[k + 1]
      <4>1. f[m] \in Nat /\ f[k + 1] \in Nat
        BY <2>0, <3>1
      <4>2. \A j \in 1..k : f[j] <= f[k + 1]
        BY <2>0, <3>1, <3>3, <4>1
      <4>3. \A j \in 1..(k + 1) : j \in 1..k \/ j = k + 1
        OBVIOUS
      <4>4. \A j \in 1..(k + 1) : f[j] <= f[k + 1]
        BY <4>1, <4>2, <4>3
      <4>5. k + 1 \in 1..(k + 1)
        OBVIOUS
      <4>. QED  BY <4>4, <4>5
    <3>. QED  BY <2>0, <3>1, <3>2, <3>3
  <2>. QED  BY <2>1, <2>2
<1>5. n \in P
  <2>1. 0 \in P
    OBVIOUS
  <2>. HIDE DEF P
  <2>. QED  BY <1>4, <2>1, UpTo
<1>6. PICK m \in 1..n : \A j \in 1..n : f[j] <= f[m]
  BY <1>3, <1>5
<1>. QED  BY <1>2, <1>6

-----------------------------------------------------------------------------
(* A sum is computed element by element: g[s] is the sum of f over s, and  *)
(* Pick says whose number is taken first.                                  *)
Pick(s) == CHOOSE x \in s : TRUE
Sums(f, S, g) == g = [s \in SUBSET S |-> IF s = {} THEN 0 ELSE f[Pick(s)] + g[s \ {Pick(s)}]]

AnyOrder(f, S, g) == \A s \in SUBSET S : \A x \in s : g[s] = f[x] + g[s \ {x}]

(* The sum of the library is such a function.                              *)
LEMMA SumIsFold ==
  ASSUME NEW f, NEW S
  PROVE  SumFunctionOnSet(f, S) = (CHOOSE g : Sums(f, S, g))[S]
  BY DEF SumFunctionOnSet, FoldFunctionOnSet, MapThenFoldSet, Sums, Pick

LEMMA PickOne ==
  ASSUME NEW s, IsFiniteSet(s), s # {}
  PROVE  /\ Pick(s) \in s /\ IsFiniteSet(s \ {Pick(s)})
         /\ Cardinality(s) \in Nat \ {0}
         /\ Cardinality(s \ {Pick(s)}) = Cardinality(s) - 1
<1>1. Pick(s) \in s
  BY DEF Pick
<1>2. /\ IsFiniteSet(s \ {Pick(s)})
      /\ Cardinality(s \ {Pick(s)}) = IF Pick(s) \in s THEN Cardinality(s) - 1 ELSE Cardinality(s)
  BY FS_RemoveElement
<1>3. Cardinality(s) \in Nat /\ (Cardinality(s) = 0 <=> s = {})
  BY FS_CardinalityType, FS_EmptySet
<1>. QED  BY <1>1, <1>2, <1>3

(* There is such a function of the subsets, by their size.                 *)
LEMMA SumsExist ==
  ASSUME NEW S, IsFiniteSet(S), NEW f \in [S -> Nat]
  PROVE  \E g \in [SUBSET S -> Nat] : Sums(f, S, g)
<1> DEFINE n == Cardinality(S)
           Upto(m) == {s \in SUBSET S : Cardinality(s) <= m}
           Next(g, s) == IF s = {} THEN 0 ELSE f[Pick(s)] + g[s \ {Pick(s)}]
           Part(m) == \E g \in [Upto(m) -> Nat] : \A s \in Upto(m) : g[s] = Next(g, s)
<1>0. /\ n \in Nat
      /\ \A s \in SUBSET S : IsFiniteSet(s) /\ Cardinality(s) \in 0..n
  <2>1. n \in Nat
    BY FS_CardinalityType
  <2>2. ASSUME NEW s \in SUBSET S PROVE IsFiniteSet(s) /\ Cardinality(s) \in 0..n
    <3>1. IsFiniteSet(s) /\ Cardinality(s) <= n
      BY FS_Subset
    <3>2. Cardinality(s) \in Nat
      BY <3>1, FS_CardinalityType
    <3>. QED  BY <2>1, <3>1, <3>2
  <2>. QED  BY <2>1, <2>2
<1>1. Part(0)
  <2>1. \A s \in Upto(0) : s = {}
    BY <1>0, FS_EmptySet
  <2>2. [s \in Upto(0) |-> 0] \in [Upto(0) -> Nat]
    OBVIOUS
  <2>. QED  BY <2>1, <2>2
<1>2. ASSUME NEW m \in 0..n, Part(m) PROVE Part(m + 1)
  <2>1. PICK g \in [Upto(m) -> Nat] : \A s \in Upto(m) : g[s] = Next(g, s)
    BY <1>2
  <2> DEFINE h == [s \in Upto(m + 1) |-> IF s \in Upto(m) THEN g[s] ELSE Next(g, s)]
  <2>2. ASSUME NEW s \in Upto(m + 1), s # {}
        PROVE  s \ {Pick(s)} \in Upto(m) /\ Pick(s) \in S
    BY <1>0, <2>2, PickOne
  <2>3. \A s \in Upto(m + 1) : Next(g, s) \in Nat
    BY <2>2
  <2>4. Upto(m) \subseteq Upto(m + 1)
    BY <1>0
  <2>5. h \in [Upto(m + 1) -> Nat]
    BY <2>3
  <2>6. \A s \in Upto(m) : h[s] = g[s]
    BY <2>4
  <2>7. \A s \in Upto(m + 1) : h[s] = Next(g, s)
    BY <2>1
  <2>8. \A s \in Upto(m + 1) : Next(h, s) = Next(g, s)
    <3>1. ASSUME NEW s \in Upto(m + 1), s # {} PROVE h[s \ {Pick(s)}] = g[s \ {Pick(s)}]
      <4>1. s \ {Pick(s)} \in Upto(m)
        BY <2>2, <3>1
      <4>. HIDE DEF h
      <4>. QED  BY <2>6, <4>1
    <3>. HIDE DEF h, Upto
    <3>. QED  BY <3>1
  <2>. QED  BY <2>5, <2>7, <2>8
<1>3. Part(n)
  <2> DEFINE P == {m \in 0..(n + 1) : Part(m)}
  <2>1. 0 \in P /\ \A k \in 0..n : k \in P => k + 1 \in P
    <3>1. \A k \in 0..n : Part(k) => Part(k + 1)
      BY <1>2
    <3>. HIDE DEF Part, n
    <3>. QED  BY <1>0, <1>1, <3>1
  <2>2. n \in P
    <3>. HIDE DEF P
    <3>. QED  BY <1>0, <2>1, UpTo
  <2>. QED  BY <2>2
<1>4. Upto(n) = SUBSET S
  BY <1>0
<1>5. PICK g \in [SUBSET S -> Nat] : \A s \in SUBSET S : g[s] = Next(g, s)
  BY <1>3, <1>4
<1>6. g = [s \in SUBSET S |-> Next(g, s)]
  BY <1>5
<1>. QED  BY <1>5, <1>6 DEF Sums

(* Two such functions agree on a set if the numbers summed do.             *)
LEMMA SumsAgree ==
  ASSUME NEW S, NEW T, NEW f, NEW e, NEW g, NEW h, Sums(f, S, g), Sums(e, T, h),
         NEW U, IsFiniteSet(U), U \subseteq S, U \subseteq T, \A x \in U : f[x] = e[x]
  PROVE  g[U] = h[U]
<1> DEFINE n == Cardinality(U)
           Same(m) == \A s \in SUBSET U : Cardinality(s) = m => g[s] = h[s]
<1>1. n \in Nat /\ \A s \in SUBSET U : IsFiniteSet(s)
  BY FS_CardinalityType, FS_Subset
<1>2. \A s \in SUBSET U : /\ g[s] = IF s = {} THEN 0 ELSE f[Pick(s)] + g[s \ {Pick(s)}]
                          /\ h[s] = IF s = {} THEN 0 ELSE e[Pick(s)] + h[s \ {Pick(s)}]
  BY DEF Sums
<1>3. Same(0)
  BY <1>1, <1>2, FS_EmptySet
<1>4. ASSUME NEW m \in 0..n, Same(m) PROVE Same(m + 1)
  <2> SUFFICES ASSUME NEW s \in SUBSET U, Cardinality(s) = m + 1 PROVE g[s] = h[s]
    OBVIOUS
  <2>1. s # {}
    BY <1>1, FS_EmptySet
  <2>2. Pick(s) \in U /\ s \ {Pick(s)} \in SUBSET U /\ Cardinality(s \ {Pick(s)}) = m
    <3>1. Pick(s) \in s /\ Cardinality(s \ {Pick(s)}) = Cardinality(s) - 1
      BY <1>1, <2>1, PickOne
    <3>. QED  BY <3>1
  <2>3. g[s \ {Pick(s)}] = h[s \ {Pick(s)}]
    BY <1>4, <2>2
  <2>. QED  BY <1>2, <2>1, <2>2, <2>3
<1>5. Same(n)
  <2> DEFINE P == {m \in 0..(n + 1) : Same(m)}
  <2>1. 0 \in P /\ \A k \in 0..n : k \in P => k + 1 \in P
    <3>1. \A k \in 0..n : Same(k) => Same(k + 1)
      BY <1>4
    <3>. HIDE DEF Same, n
    <3>. QED  BY <1>1, <1>3, <3>1
  <2>2. n \in P
    <3>. HIDE DEF P
    <3>. QED  BY <1>1, <2>1, UpTo
  <2>. QED  BY <2>2
<1>. QED  BY <1>5

(* Which element is taken first makes no difference.                       *)
LEMMA SumsAnyOrder ==
  ASSUME NEW S, IsFiniteSet(S), NEW f \in [S -> Nat], NEW g \in [SUBSET S -> Nat], Sums(f, S, g)
  PROVE  AnyOrder(f, S, g)
<1> SUFFICES \A s \in SUBSET S : \A x \in s : g[s] = f[x] + g[s \ {x}]
  BY DEF AnyOrder
<1> DEFINE n == Cardinality(S)
           Any(m) == \A s \in SUBSET S : Cardinality(s) = m => \A x \in s : g[s] = f[x] + g[s \ {x}]
<1>1. n \in Nat /\ \A s \in SUBSET S : IsFiniteSet(s) /\ Cardinality(s) \in 0..n
  <2>1. ASSUME NEW s \in SUBSET S PROVE IsFiniteSet(s) /\ Cardinality(s) <= n
    BY FS_Subset
  <2>. QED  BY <2>1, FS_CardinalityType
<1>2. \A s \in SUBSET S : s # {} => g[s] = f[Pick(s)] + g[s \ {Pick(s)}]
  BY DEF Sums
<1>3. Any(0)
  BY <1>1, FS_EmptySet
<1>4. ASSUME NEW m \in 0..n, Any(m) PROVE Any(m + 1)
  <2> SUFFICES ASSUME NEW s \in SUBSET S, Cardinality(s) = m + 1, NEW x \in s
               PROVE  g[s] = f[x] + g[s \ {x}]
    OBVIOUS
  <2> DEFINE p == Pick(s)
  <2>1. p \in s /\ Cardinality(s \ {p}) = m
    BY <1>1, PickOne
  <2>2. g[s] = f[p] + g[s \ {p}]
    BY <1>2
  <2>3. CASE x = p
    BY <2>2, <2>3
  <2>4. CASE x # p
    <3>1. Cardinality(s \ {x}) = m
      BY <1>1, FS_RemoveElement
    <3>2. g[s \ {p}] = f[x] + g[(s \ {p}) \ {x}]
      BY <1>4, <2>1, <2>4
    <3>3. g[s \ {x}] = f[p] + g[(s \ {x}) \ {p}]
      BY <1>4, <2>1, <2>4, <3>1
    <3>4. g[s \ {x}] = f[p] + g[(s \ {p}) \ {x}]
      <4>1. (s \ {p}) \ {x} = (s \ {x}) \ {p}
        OBVIOUS
      <4>. QED  BY <3>3, <4>1
    <3>5. f[p] \in Nat /\ f[x] \in Nat /\ g[(s \ {p}) \ {x}] \in Nat
      BY <2>1
    <3>. HIDE DEF p
    <3>. QED  BY <2>2, <3>2, <3>4, <3>5
  <2>. QED  BY <2>3, <2>4
<1>5. \A k \in 0..n : Any(k)
  <2> SUFFICES ASSUME NEW k \in 0..n PROVE Any(k)
    OBVIOUS
  <2> DEFINE P == {m \in 0..(n + 1) : Any(m)}
  <2>1. 0 \in P /\ \A j \in 0..k : j \in P => j + 1 \in P
    <3>1. \A j \in 0..n : Any(j) => Any(j + 1)
      BY <1>4
    <3>. HIDE DEF Any, n
    <3>. QED  BY <1>1, <1>3, <3>1
  <2>2. k \in P
    <3>1. k \in Nat
      BY <1>1
    <3>. HIDE DEF P
    <3>. QED  BY <2>1, <3>1, UpTo
  <2>. QED  BY <2>2
<1>. QED  BY <1>1, <1>5

(* What the sum of all the numbers is, in any order.                       *)
LEMMA SumFirst ==
  ASSUME NEW T, IsFiniteSet(T), NEW e \in [T -> Nat], NEW x \in T,
         NEW f \in [T \ {x} -> Nat], \A y \in T \ {x} : e[y] = f[y]
  PROVE  SumFunction(e) = SumFunction(f) + e[x]
<1> DEFINE S == T \ {x}
<1>1. IsFiniteSet(S) /\ S \subseteq T
  BY FS_Subset
<1>2. PICK g \in [SUBSET S -> Nat] : Sums(f, S, g)
  BY <1>1, SumsExist
<1>3. PICK h \in [SUBSET T -> Nat] : Sums(e, T, h)
  BY SumsExist
<1>4. SumFunctionOnSet(f, S) = g[S]
  <2> DEFINE c == CHOOSE j : Sums(f, S, j)
  <2>1. Sums(f, S, c)
    BY <1>2
  <2>. HIDE DEF c
  <2>2. c[S] = g[S]
    BY <1>1, <1>2, <2>1, SumsAgree
  <2>. QED  BY <2>2, SumIsFold DEF c
<1>5. SumFunctionOnSet(e, T) = h[T]
  <2> DEFINE c == CHOOSE j : Sums(e, T, j)
  <2>1. Sums(e, T, c)
    BY <1>3
  <2>. HIDE DEF c
  <2>2. c[T] = h[T]
    BY <1>3, <2>1, SumsAgree
  <2>. QED  BY <2>2, SumIsFold DEF c
<1>6. h[T] = e[x] + h[S]
  <2>1. AnyOrder(e, T, h)
    BY <1>3, SumsAnyOrder
  <2>. QED  BY <2>1 DEF AnyOrder
<1>7. h[S] = g[S]
  BY <1>1, <1>2, <1>3, SumsAgree
<1>8. h[S] \in Nat /\ e[x] \in Nat /\ DOMAIN f = S /\ DOMAIN e = T
  OBVIOUS
<1>. QED  BY <1>4, <1>5, <1>6, <1>7, <1>8 DEF SumFunction

(* Finitely many numbers; and the same with one more, at x.                *)
Numbers(f) == IsFiniteSet(DOMAIN f) /\ f \in [DOMAIN f -> Nat]
OneMore(e, f, x) ==
  x \notin DOMAIN f /\ e \in [DOMAIN f \cup {x} -> Nat] /\ \A y \in DOMAIN f : e[y] = f[y]

(* What one more number adds to a sum.                                     *)
LEMMA SumAdds ==
  ASSUME NEW f, Numbers(f), NEW x, NEW e, OneMore(e, f, x)
  PROVE  SumFunction(e) = SumFunction(f) + e[x]
<1>1. PICK S : S = DOMAIN f
  OBVIOUS
<1>2. PICK T : T = S \cup {x}
  OBVIOUS
<1>3. IsFiniteSet(S) /\ f \in [S -> Nat] /\ x \notin S
  BY <1>1 DEF Numbers, OneMore
<1>4. IsFiniteSet(T) /\ x \in T /\ T \ {x} = S
  BY <1>2, <1>3, FS_AddElement
<1>5. e \in [T -> Nat] /\ \A y \in S : e[y] = f[y]
  BY <1>1, <1>2 DEF OneMore
<1>6. f \in [T \ {x} -> Nat] /\ \A y \in T \ {x} : e[y] = f[y]
  BY <1>3, <1>4, <1>5
<1>. QED  BY <1>4, <1>5, <1>6, SumFirst

(* A sum of natural numbers is one, and 0 if there is none.                *)
LEMMA SumIsNat ==
  ASSUME NEW f, Numbers(f)
  PROVE  SumFunction(f) \in Nat /\ (DOMAIN f = {} => SumFunction(f) = 0)
<1>0. PICK S : S = DOMAIN f /\ IsFiniteSet(S) /\ f \in [S -> Nat]
  BY DEF Numbers
<1>1. PICK g \in [SUBSET S -> Nat] : Sums(f, S, g)
  BY <1>0, SumsExist
<1> DEFINE c == CHOOSE j : Sums(f, S, j)
<1>2. Sums(f, S, c)
  BY <1>1
<1>. HIDE DEF c
<1>3. c[S] = g[S]
  BY <1>0, <1>1, <1>2, SumsAgree
<1>4. g[S] \in Nat /\ (S = {} => g[S] = 0)
  BY <1>0, <1>1 DEF Sums
<1>5. SumFunction(f) = c[S]
  BY <1>0, SumIsFold DEF SumFunction, c
<1>. QED  BY <1>0, <1>3, <1>4, <1>5

(* A sum grows with the numbers it is of.                                  *)
LEMMA SumIsMonotone ==
  ASSUME NEW S, IsFiniteSet(S), NEW f \in [S -> Nat], NEW e \in [S -> Nat], \A x \in S : f[x] <= e[x]
  PROVE  SumFunction(f) <= SumFunction(e)
<1>1. PICK g \in [SUBSET S -> Nat] : Sums(f, S, g)
  BY SumsExist
<1>2. PICK h \in [SUBSET S -> Nat] : Sums(e, S, h)
  BY SumsExist
<1> DEFINE n == Cardinality(S)
           Q == {m \in 0..(n + 1) : \A s \in SUBSET S : Cardinality(s) <= m => g[s] <= h[s]}
<1>3. n \in Nat /\ \A s \in SUBSET S : IsFiniteSet(s) /\ Cardinality(s) \in Nat /\ Cardinality(s) <= n
  BY FS_CardinalityType, FS_Subset
<1>4. /\ g[{}] = 0 /\ h[{}] = 0
      /\ \A s \in SUBSET S : s # {} => /\ g[s] = f[Pick(s)] + g[s \ {Pick(s)}]
                                       /\ h[s] = e[Pick(s)] + h[s \ {Pick(s)}]
  BY <1>1, <1>2 DEF Sums
<1>5. 0 \in Q
  <2>1. ASSUME NEW s \in SUBSET S, Cardinality(s) <= 0 PROVE g[s] <= h[s]
    <3>1. s = {}
      BY <1>3, <2>1, FS_EmptySet
    <3>. QED  BY <1>4, <3>1
  <2>. QED  BY <1>3, <2>1
<1>6. ASSUME NEW m \in 0..n, m \in Q PROVE m + 1 \in Q
  <2>1. ASSUME NEW s \in SUBSET S, Cardinality(s) <= m + 1 PROVE g[s] <= h[s]
    <3>1. CASE s = {}
      BY <1>4, <3>1
    <3>2. CASE s # {}
      <4>1. Pick(s) \in s /\ Cardinality(s \ {Pick(s)}) = Cardinality(s) - 1
        BY <1>3, <3>2, PickOne
      <4>2. s \ {Pick(s)} \in SUBSET S /\ Cardinality(s \ {Pick(s)}) <= m
        BY <1>3, <2>1, <4>1
      <4>3. g[s \ {Pick(s)}] <= h[s \ {Pick(s)}]
        BY <1>6, <4>2
      <4>4. /\ f[Pick(s)] \in Nat /\ e[Pick(s)] \in Nat /\ f[Pick(s)] <= e[Pick(s)]
            /\ g[s \ {Pick(s)}] \in Nat /\ h[s \ {Pick(s)}] \in Nat
        BY <4>1, <4>2
      <4>. QED  BY <1>4, <3>2, <4>3, <4>4
    <3>. QED  BY <3>1, <3>2
  <2>. QED  BY <1>3, <2>1
<1>. HIDE DEF Q
<1>7. n \in Q
  BY <1>3, <1>5, <1>6, UpTo
<1>8. g[S] <= h[S]
  BY <1>3, <1>7 DEF Q
<1> DEFINE c == CHOOSE j : Sums(f, S, j)
           d == CHOOSE j : Sums(e, S, j)
<1>9. Sums(f, S, c) /\ Sums(e, S, d)
  BY <1>1, <1>2
<1>. HIDE DEF c, d
<1>10. c[S] = g[S] /\ d[S] = h[S]
  BY <1>1, <1>2, <1>9, SumsAgree
<1>11. SumFunction(f) = c[S] /\ SumFunction(e) = d[S]
  <2>1. DOMAIN f = S /\ DOMAIN e = S
    OBVIOUS
  <2>. QED  BY <2>1, SumIsFold DEF SumFunction, c, d
<1>. QED  BY <1>8, <1>10, <1>11

-----------------------------------------------------------------------------
(* A left fold over a sequence goes through its positions from the last    *)
(* one down, the greatest of those that are left.                          *)
Greatest(S) == CHOOSE x \in S : \A y \in S : x >= y

LEMMA GreatestOfInterval ==
  ASSUME NEW n \in Nat, NEW S \in SUBSET (1..n), n \in S
  PROVE  Greatest(S) = n
<1>1. \A x \in S : (\A y \in S : x >= y) <=> x = n
  BY Z3
<1>. QED  BY <1>1, Zenon DEF Greatest

LEMMA GreatestOfSome ==
  ASSUME NEW n \in Nat, NEW S \in SUBSET (1..n), S # {}
  PROVE  Greatest(S) \in S /\ \A y \in S : Greatest(S) >= y
<1>1. \E x \in S : \A y \in S : y <= x
  BY LastPosition
<1>2. \E x \in S : \A y \in S : x >= y
  BY <1>1, Z3
<1>. QED  BY <1>2, Zenon DEF Greatest

(* A fold from the left over positions 1..n exists when each step is a     *)
(* function on one set of values.                                          *)
FoldOver(n, base, step, f) ==
  \A s \in SUBSET (1..n) :
    f[s] = IF s = {} THEN base ELSE step[Greatest(s)][f[s \ {Greatest(s)}]]

LEMMA FoldsExist ==
  ASSUME NEW n \in Nat, NEW V, NEW base \in V, NEW step \in [1..n -> [V -> V]]
  PROVE  \E f \in [SUBSET (1..n) -> V] : FoldOver(n, base, step, f)
<1> DEFINE P == {k \in 0..n : \E f \in [SUBSET (1..k) -> V] : FoldOver(k, base, step, f)}
<1>1. 0 \in P
  <2> DEFINE f == [s \in SUBSET (1..0) |-> base]
  <2>1. f \in [SUBSET (1..0) -> V] /\ SUBSET (1..0) = {{}}
    OBVIOUS
  <2>2. FoldOver(0, base, step, f)
    BY <2>1 DEF FoldOver
  <2>. QED  BY <2>1, <2>2
<1>2. ASSUME NEW k \in 0..n, k \in P, k + 1 \in 0..n
      PROVE  k + 1 \in P
  <2>1. PICK f \in [SUBSET (1..k) -> V] : FoldOver(k, base, step, f)
    BY <1>2
  <2> DEFINE g == [s \in SUBSET (1..(k + 1)) |->
                     IF k + 1 \in s THEN step[k + 1][f[s \ {k + 1}]] ELSE f[s]]
  <2>2. ASSUME NEW s \in SUBSET (1..(k + 1)), k + 1 \in s
        PROVE  /\ s \ {k + 1} \in SUBSET (1..k) /\ g[s] = step[k + 1][f[s \ {k + 1}]]
               /\ g[s] \in V /\ g[s \ {k + 1}] = f[s \ {k + 1}] /\ Greatest(s) = k + 1 /\ s # {}
    <3>1. s \ {k + 1} \in SUBSET (1..k) /\ s \ {k + 1} \in SUBSET (1..(k + 1)) /\ k + 1 \notin s \ {k + 1}
      OBVIOUS
    <3>2. Greatest(s) = k + 1
      BY <2>2, GreatestOfInterval
    <3>3. step[k + 1] \in [V -> V] /\ f[s \ {k + 1}] \in V
      BY <1>2, <3>1
    <3>. QED  BY <2>2, <3>1, <3>2, <3>3
  <2>3. ASSUME NEW s \in SUBSET (1..(k + 1)), k + 1 \notin s
        PROVE  s \in SUBSET (1..k) /\ g[s] = f[s] /\ f[s] \in V
    <3>1. s \in SUBSET (1..k)
      BY <2>3
    <3>. QED  BY <2>3, <3>1
  <2>4. g \in [SUBSET (1..(k + 1)) -> V]
    <3>1. \A s \in SUBSET (1..(k + 1)) : g[s] \in V
      BY <2>2, <2>3
    <3>. QED  BY <3>1
  <2>5. FoldOver(k + 1, base, step, g)
    <3> SUFFICES ASSUME NEW s \in SUBSET (1..(k + 1))
                 PROVE  g[s] = IF s = {} THEN base ELSE step[Greatest(s)][g[s \ {Greatest(s)}]]
      BY Zenon DEF FoldOver
    <3>. HIDE DEF g
    <3>1. CASE k + 1 \in s
      BY <2>2, <3>1
    <3>2. CASE k + 1 \notin s /\ s = {}
      BY <2>1, <2>3, <3>2 DEF FoldOver
    <3>3. CASE k + 1 \notin s /\ s # {}
      <4>1. s \in SUBSET (1..k) /\ g[s] = f[s] /\ f[s] = step[Greatest(s)][f[s \ {Greatest(s)}]]
        BY <2>1, <2>3, <3>3 DEF FoldOver
      <4>2. s \ {Greatest(s)} \in SUBSET (1..(k + 1)) /\ k + 1 \notin s \ {Greatest(s)}
        BY <3>3
      <4>3. g[s \ {Greatest(s)}] = f[s \ {Greatest(s)}]
        BY <2>3, <4>2
      <4>. QED  BY <3>3, <4>1, <4>3
    <3>. QED  BY <3>1, <3>2, <3>3
  <2>. HIDE DEF g
  <2>. QED  BY <1>2, <2>4, <2>5
<1>. HIDE DEF P
<1>3. ASSUME NEW k \in 0..n, k \in P, k + 1 \in 0..n PROVE k + 1 \in P
  BY <1>2, <1>3
<1>4. \A k \in 0..n : k \in P \cup {n + 1} => k + 1 \in P \cup {n + 1}
  <2>1. \A k \in 0..n : k = n \/ k + 1 \in 0..n
    OBVIOUS
  <2>. QED  BY <1>3, <2>1
<1>5. n \in P
  BY <1>1, <1>4, UpTo
<1>. QED  BY <1>5 DEF P
=============================================================================

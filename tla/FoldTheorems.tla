---------------------------- MODULE FoldTheorems ----------------------------
(***************************************************************************)
(* Induction over data for the proofs of this project: least numbers,      *)
(* maxima and minima of sets of numbers, and sums over finite sets.        *)
(*                                                                         *)
(* Everything rests on one fact of the library without a parameter that is *)
(* an operator, the well-foundedness of the strict subsets of a finite     *)
(* set: a proof by induction is a proof that a set of counterexamples has  *)
(* no minimal element.                                                     *)
(***************************************************************************)
EXTENDS Integers, FiniteSets, FiniteSetsExt, FiniteSetTheorems, TLAPS

-----------------------------------------------------------------------------
(* Minimal elements.                                                       *)

\* A family of finite sets has a minimal member.
LEMMA MinimalSet ==
    ASSUME NEW F, F # {}, \A s \in F : IsFiniteSet(s)
    PROVE  \E m \in F : \A s \in F : s \subseteq m => s = m
<1> DEFINE S == UNION F
           R == StrictSubsetOrdering(S)
<1>1. IsWellFoundedOn(R, FiniteSubsetsOf(S))
  BY FS_StrictSubsetOrderingWellFounded
<1>2. F \subseteq FiniteSubsetsOf(S)
  BY DEF FiniteSubsetsOf
<1> HIDE DEF R
<1>3. PICK m \in F : \A s \in F : ~(<<s, m>> \in R)
  BY <1>1, <1>2, WFMin
<1>4. ASSUME NEW s \in F, s \subseteq m, s # m PROVE FALSE
  <2>1. <<s, m>> \in R
    BY <1>4 DEF R, StrictSubsetOrdering
  <2> QED BY <1>3, <2>1
<1> QED BY <1>4

\* A set of natural numbers has a least member.
LEMMA LeastNatural ==
    ASSUME NEW T \in SUBSET Nat, T # {}
    PROVE  \E k \in T : \A n \in T : k <= n
<1> DEFINE F == {1 .. n : n \in T}
<1>1. F # {} /\ \A s \in F : IsFiniteSet(s)
  <2>1. \A n \in T : IsFiniteSet(1 .. n)
    BY FS_Interval
  <2> QED BY <2>1
<1> HIDE DEF F
<1>2. PICK m \in F : \A s \in F : s \subseteq m => s = m
  BY <1>1, MinimalSet
<1>3. PICK k \in T : m = 1 .. k
  BY DEF F
<1>4. ASSUME NEW n \in T, n < k PROVE FALSE
  <2>1. 1 .. n \subseteq 1 .. k
    BY <1>4
  <2>2. k \in 1 .. k /\ k \notin 1 .. n
    BY <1>4
  <2>3. 1 .. n \in F
    BY DEF F
  <2> QED BY <1>2, <1>3, <2>1, <2>2, <2>3
<1> QED BY <1>4

\* Min of a set of natural numbers is its least member.
LEMMA MinOfNaturals ==
    ASSUME NEW T \in SUBSET Nat, T # {}
    PROVE  Min(T) \in T /\ \A n \in T : Min(T) <= n
BY LeastNatural DEF Min

\* Max of a bounded set of numbers is its greatest member.
LEMMA MaxOfNaturals ==
    ASSUME NEW n \in Nat, NEW T \in SUBSET (1 .. n), T # {}
    PROVE  Max(T) \in T /\ \A i \in T : i <= Max(T)
<1> DEFINE U == {b \in Nat : \A i \in T : i <= b}
<1>1. n \in U
  OBVIOUS
<1>2. PICK k \in U : \A b \in U : k <= b
  <2> HIDE DEF U
  <2>1. U \in SUBSET Nat
    BY DEF U
  <2> QED BY <1>1, <2>1, LeastNatural
<1>3. k \in T
  <2> SUFFICES ASSUME k \notin T PROVE FALSE
    OBVIOUS
  <2>1. k > 0
    <3>1. PICK i \in T : TRUE
      OBVIOUS
    <3> QED BY <3>1
  <2>2. k - 1 \in U
    BY <2>1
  <2> QED BY <1>2, <2>2
<1>4. \A i \in T : i <= k
  OBVIOUS
<1>5. \E x \in T : \A y \in T : x >= y
  BY <1>3, <1>4
<1>6. Max(T) \in T /\ \A y \in T : Max(T) >= y
  BY <1>5 DEF Max
<1> QED BY <1>6

-----------------------------------------------------------------------------
(* Sums.                                                                   *)

\* The sum of a function over a set.
SumOver(g, S) == MapThenSumSet(LAMBDA x : g[x], S)

AnyOf(s) == CHOOSE x \in s : TRUE

\* The function that the fold behind MapThenSumSet computes, on the sets D.
Sums(h, g, D) ==
    h = [s \in D |-> IF s = {} THEN 0 ELSE g[AnyOf(s)] + h[s \ {AnyOf(s)}]]

\* The member that a fold takes next.
LEMMA AnyOfIsMember ==
    ASSUME NEW s, s # {}
    PROVE  AnyOf(s) \in s
BY Zenon DEF AnyOf

\* The fold is defined: there is such a function on the subsets of up to n
\* elements, for every n.
LEMMA SumsExist ==
    ASSUME NEW g, NEW S, IsFiniteSet(S)
    PROVE  \E h : Sums(h, g, SUBSET S)
<1> DEFINE D(n) == {s \in SUBSET S : Cardinality(s) <= n}
           Bad == {n \in Nat : ~ \E h : Sums(h, g, D(n))}
<1>1. \A s \in SUBSET S : IsFiniteSet(s) /\ Cardinality(s) \in Nat
  BY FS_Subset, FS_CardinalityType
<1>2. 0 \notin Bad
  <2> DEFINE h == [s \in D(0) |-> 0]
  <2>1. \A s \in D(0) : s = {}
    BY <1>1, FS_EmptySet
  <2>2. Sums(h, g, D(0))
    BY <2>1 DEF Sums
  <2> QED BY <2>2
<1>3. ASSUME NEW n \in Nat, n \notin Bad PROVE n + 1 \notin Bad
  <2>1. PICK h : Sums(h, g, D(n))
    BY <1>3
  <2> DEFINE V(f, s) == IF s = {} THEN 0 ELSE g[AnyOf(s)] + f[s \ {AnyOf(s)}]
             k == [s \in D(n + 1) |-> V(h, s)]
  <2>2. \A s \in D(n) : s \in D(n + 1) /\ h[s] = k[s]
    <3> SUFFICES ASSUME NEW s \in D(n) PROVE s \in D(n + 1) /\ h[s] = k[s]
      OBVIOUS
    <3>1. s \in D(n + 1)
      BY <1>1
    <3>2. h[s] = V(h, s)
      <4> HIDE DEF D
      <4> QED BY <2>1 DEF Sums
    <3> QED BY <3>1, <3>2
  <2>3. \A s \in D(n + 1) : s # {} => s \ {AnyOf(s)} \in D(n)
    <3> SUFFICES ASSUME NEW s \in D(n + 1), s # {}
                 PROVE  s \ {AnyOf(s)} \in D(n)
      OBVIOUS
    <3>1. AnyOf(s) \in s
      BY AnyOfIsMember
    <3>2. Cardinality(s \ {AnyOf(s)}) = Cardinality(s) - 1
      BY <1>1, <3>1, FS_RemoveElement
    <3> QED BY <1>1, <3>2
  <2> HIDE DEF D
  <2>4. \A s \in D(n + 1) : V(h, s) = V(k, s)
    BY <2>2, <2>3
  <2>5. k = [s \in D(n + 1) |-> V(k, s)]
    BY <2>4
  <2> HIDE DEF k
  <2>6. Sums(k, g, D(n + 1))
    BY <2>5 DEF Sums
  <2> QED BY <2>6
<1>4. Bad = {}
  <2> SUFFICES ASSUME Bad # {} PROVE FALSE
    OBVIOUS
  <2> HIDE DEF Bad
  <2>1. Bad \in SUBSET Nat
    BY DEF Bad
  <2>2. PICK k \in Bad : \A n \in Bad : k <= n
    BY <2>1, LeastNatural
  <2>3. k - 1 \in Nat /\ k - 1 \notin Bad
    BY <1>2, <2>1, <2>2
  <2> QED BY <1>3, <2>1, <2>3
<1>5. PICK h : Sums(h, g, D(Cardinality(S)))
  BY <1>1, <1>4
<1>6. D(Cardinality(S)) = SUBSET S
  BY FS_Subset
<1> QED BY <1>5, <1>6

\* Which member the fold takes first does not matter.
TakesAnyOut(h, g, S) ==
    /\ \A s \in SUBSET S : h[s] \in Nat
    /\ \A s \in SUBSET S : \A x \in s : h[s] = g[x] + h[s \ {x}]

\* By induction on the subsets of S.
LEMMA SumsTakeOut ==
    ASSUME NEW g, NEW S, IsFiniteSet(S), \A x \in S : g[x] \in Nat,
           NEW h, Sums(h, g, SUBSET S)
    PROVE  TakesAnyOut(h, g, S)
<1> DEFINE Good(s) == /\ h[s] \in Nat
                      /\ \A x \in s : h[s] = g[x] + h[s \ {x}]
           Bad == {s \in SUBSET S : ~Good(s)}
<1>1. h[{}] = 0 /\ \A s \in SUBSET S : s # {} =>
                       h[s] = g[AnyOf(s)] + h[s \ {AnyOf(s)}]
  BY DEF Sums
<1>2. Bad = {}
  <2> SUFFICES ASSUME Bad # {} PROVE FALSE
    OBVIOUS
  <2>1. \A s \in Bad : IsFiniteSet(s)
    BY FS_Subset
  <2> HIDE DEF Bad
  <2>2. PICK s \in Bad : \A t \in Bad : t \subseteq s => t = s
    BY <2>1, MinimalSet
  <2>3. s \subseteq S /\ ~Good(s)
    BY DEF Bad
  <2>4. \A y \in s : Good(s \ {y})
    BY <2>2, <2>3 DEF Bad
  <2> DEFINE y == AnyOf(s)
  <2>5. CASE s = {}
    BY <1>1, <2>3, <2>5
  <2>6. CASE s # {}
    <3>1. y \in s /\ y \in S /\ g[y] \in Nat
      BY <2>3, <2>6, AnyOfIsMember
    <3>2. h[s] = g[y] + h[s \ {y}]
      BY <1>1, <2>3, <2>6
    <3> HIDE DEF y
    <3>3. h[s] \in Nat
      BY <2>4, <3>1, <3>2
    <3>4. ASSUME NEW x \in s PROVE h[s] = g[x] + h[s \ {x}]
      <4>1. CASE x = y
        BY <3>2, <4>1
      <4>2. CASE x # y
        <5>1. x \in s \ {y} /\ y \in s \ {x} /\ g[x] \in Nat
          BY <2>3, <3>1, <4>2
        <5>2. (s \ {y}) \ {x} = (s \ {x}) \ {y}
          OBVIOUS
        <5>3. h[s \ {y}] = g[x] + h[(s \ {x}) \ {y}]
          BY <2>4, <3>1, <5>1, <5>2
        <5>4. h[s \ {x}] = g[y] + h[(s \ {x}) \ {y}]
          BY <2>4, <5>1
        <5>5. h[s \ {y}] \in Nat /\ h[s \ {x}] \in Nat
          BY <2>4, <3>1
        <5>6. h[(s \ {x}) \ {y}] \in Int
          <6>1. (s \ {x}) \ {y} \notin Bad
            BY <2>2, <3>1
          <6> QED BY <2>3, <6>1 DEF Bad
        <5> QED BY <3>1, <3>2, <5>1, <5>3, <5>4, <5>5, <5>6
      <4> QED BY <4>1, <4>2
    <3> QED BY <2>3, <3>3, <3>4
  <2> QED BY <2>5, <2>6
<1>3. \A s \in SUBSET S : Good(s)
  BY <1>2
<1> QED BY <1>3 DEF TakesAnyOut

\* h sums g on the subsets of S and i sums k on those of T; g and k agree on
\* the finite set U.
BothSum(h, g, S, i, k, T, U) ==
    /\ Sums(h, g, SUBSET S)
    /\ Sums(i, k, SUBSET T)
    /\ U \subseteq S /\ U \subseteq T /\ IsFiniteSet(U)
    /\ \A x \in U : g[x] = k[x]

\* Then they have the same sum over U.
LEMMA SumsAgree ==
    ASSUME NEW h, NEW g, NEW S, NEW i, NEW k, NEW T, NEW U,
           BothSum(h, g, S, i, k, T, U)
    PROVE  h[U] = i[U]
<1> USE DEF BothSum
<1> DEFINE Bad == {s \in SUBSET U : h[s] # i[s]}
<1>1. \A s \in Bad : IsFiniteSet(s)
  BY FS_Subset
<1>2. Bad = {}
  <2> SUFFICES ASSUME Bad # {} PROVE FALSE
    OBVIOUS
  <2> HIDE DEF Bad
  <2>1. PICK s \in Bad : \A t \in Bad : t \subseteq s => t = s
    BY <1>1, MinimalSet
  <2>2. s \in SUBSET S /\ s \in SUBSET T /\ s \subseteq U /\ h[s] # i[s]
    BY DEF Bad
  <2>3. s # {}
    BY <2>2 DEF Sums
  <2> DEFINE y == AnyOf(s)
  <2>4. y \in s
    BY <2>3, AnyOfIsMember
  <2>5. h[s] = g[y] + h[s \ {y}] /\ i[s] = k[y] + i[s \ {y}]
    BY <2>2, <2>3 DEF Sums
  <2> HIDE DEF y
  <2>6. h[s \ {y}] = i[s \ {y}]
    BY <2>1, <2>2, <2>4 DEF Bad
  <2>7. g[y] = k[y]
    BY <2>2, <2>4
  <2> QED BY <2>2, <2>5, <2>6, <2>7
<1> QED BY <1>2

\* SumOver is that function at the whole set.
LEMMA SumIsSums ==
    ASSUME NEW g, NEW S, IsFiniteSet(S)
    PROVE  \E h : Sums(h, g, SUBSET S) /\ SumOver(g, S) = h[S]
<1> DEFINE H == CHOOSE h : Sums(h, g, SUBSET S)
<1>1. Sums(H, g, SUBSET S)
  BY SumsExist
<1>2. SumOver(g, S) = H[S]
  BY DEF SumOver, MapThenSumSet, MapThenFoldSet, Sums, AnyOf
<1> QED BY <1>1, <1>2

\* What the proofs use: the sum over nothing, over a set with one member more,
\* and of functions that agree.
LEMMA SumEmpty ==
    ASSUME NEW g
    PROVE  SumOver(g, {}) = 0
<1>1. PICK h : Sums(h, g, SUBSET {}) /\ SumOver(g, {}) = h[{}]
  BY FS_EmptySet, SumIsSums
<1> QED BY <1>1 DEF Sums

\* One member more adds its value.
LEMMA SumTakeOut ==
    ASSUME NEW P, NEW g \in [P -> Nat], NEW S \in SUBSET P, IsFiniteSet(S),
           NEW x \in S
    PROVE  /\ SumOver(g, S) = g[x] + SumOver(g, S \ {x})
           /\ SumOver(g, S) \in Nat /\ SumOver(g, S \ {x}) \in Nat
<1>1. PICK h : Sums(h, g, SUBSET S) /\ SumOver(g, S) = h[S]
  BY SumIsSums
<1>2. IsFiniteSet(S \ {x})
  BY FS_RemoveElement
<1>3. PICK i : Sums(i, g, SUBSET (S \ {x})) /\ SumOver(g, S \ {x}) = i[S \ {x}]
  BY <1>2, SumIsSums
<1>4. h[S \ {x}] = i[S \ {x}]
  <2> DEFINE U == S \ {x}
  <2>1. BothSum(h, g, S, i, g, U, U)
    BY <1>1, <1>2, <1>3 DEF BothSum
  <2> HIDE DEF U
  <2>2. h[U] = i[U]
    BY <2>1, SumsAgree
  <2> QED BY <2>2 DEF U
<1>5. h[S] = g[x] + h[S \ {x}] /\ h[S] \in Nat /\ h[S \ {x}] \in Nat
  <2>1. TakesAnyOut(h, g, S)
    BY <1>1, SumsTakeOut
  <2> QED BY <2>1 DEF TakesAnyOut
<1> QED BY <1>1, <1>3, <1>4, <1>5

\* Functions that agree on a set have the same sum.
LEMMA SumSame ==
    ASSUME NEW g, NEW k, NEW S, IsFiniteSet(S), \A x \in S : g[x] = k[x]
    PROVE  SumOver(g, S) = SumOver(k, S)
<1>1. PICK h : Sums(h, g, SUBSET S) /\ SumOver(g, S) = h[S]
  BY SumIsSums
<1>2. PICK i : Sums(i, k, SUBSET S) /\ SumOver(k, S) = i[S]
  BY SumIsSums
<1>3. BothSum(h, g, S, i, k, S, S)
  BY <1>1, <1>2 DEF BothSum
<1> QED BY <1>1, <1>2, <1>3, SumsAgree
=============================================================================

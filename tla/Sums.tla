-------------------------------- MODULE Sums --------------------------------
(***************************************************************************)
(* What MapThenSumSet of the community modules computes: a recursive       *)
(* function over the subsets of a finite set.  The induction is over sets: *)
(* a set of subsets that is closed under adding one element holds them     *)
(* all.                                                                    *)
(***************************************************************************)
EXTENDS Integers, FiniteSets, FiniteSetsExt, FiniteSetTheorems, TLAPS

\* The element that the library takes out first.
Chosen(s) == CHOOSE x \in s : TRUE

\* g[s] is the sum of f over s, for every s within S.
IsFold(g, f, S) ==
  g = [s \in SUBSET S |-> IF s = {} THEN 0 ELSE f[Chosen(s)] + g[s \ {Chosen(s)}]]

LEMMA ChosenIsIn == \A s : s # {} => Chosen(s) \in s
  BY DEF Chosen

\* Every set of finite sets has one that includes no other of them.
LEMMA LeastSubset ==
  ASSUME NEW S, IsFiniteSet(S), NEW T \in SUBSET SUBSET S, T # {}
  PROVE \E t \in T : \A u \in T : u \subseteq t => u = t
<1>1. IsWellFoundedOn(StrictSubsetOrdering(S), FiniteSubsetsOf(S))
  BY FS_StrictSubsetOrderingWellFounded
<1>2. T \subseteq FiniteSubsetsOf(S)
  BY FS_FiniteSubsetsOfFinite
<1>3. PICK t \in T : \A u \in T : ~(<<u, t>> \in StrictSubsetOrdering(S))
  BY <1>1, <1>2, WFMin
<1> QED
  BY <1>3 DEF StrictSubsetOrdering

LEMMA SubsetInduction ==
  ASSUME NEW S, IsFiniteSet(S), NEW P, {} \in P,
         \A s \in SUBSET S : s # {} /\ (\A x \in s : s \ {x} \in P) => s \in P
  PROVE SUBSET S \subseteq P
<1> DEFINE T == (SUBSET S) \ P
<1> SUFFICES ASSUME T # {} PROVE FALSE
  OBVIOUS
<1>1. PICK t \in T : \A u \in T : u \subseteq t => u = t
  <2>1. T \in SUBSET SUBSET S
    OBVIOUS
  <2> HIDE DEF T
  <2> QED
    BY <2>1, LeastSubset
<1>2. \A x \in t : t \ {x} \in P
  BY <1>1
<1> QED
  BY <1>1, <1>2

\* Two folds agree wherever both are defined.
LEMMA FoldsAgree ==
  ASSUME NEW S, IsFiniteSet(S), NEW f, NEW r \in SUBSET S, NEW q \in SUBSET S,
         NEW g, IsFold(g, f, r), NEW h, IsFold(h, f, q)
  PROVE \A s \in SUBSET (r \cap q) : g[s] = h[s]
<1> DEFINE R == r \cap q
           P == {s \in SUBSET R : g[s] = h[s]}
<1>1. {} \in P
  BY DEF IsFold
<1>2. ASSUME NEW s \in SUBSET R, s # {}, \A x \in s : s \ {x} \in P
      PROVE s \in P
  <2>1. Chosen(s) \in s
    BY <1>2, ChosenIsIn
  <2>2. g[s \ {Chosen(s)}] = h[s \ {Chosen(s)}]
    BY <1>2, <2>1
  <2>3. /\ g[s] = f[Chosen(s)] + g[s \ {Chosen(s)}]
        /\ h[s] = f[Chosen(s)] + h[s \ {Chosen(s)}]
    BY <1>2 DEF IsFold
  <2> QED
    BY <2>2, <2>3
<1>3. IsFiniteSet(R)
  BY FS_Subset
<1> HIDE DEF P, R
<1>4. SUBSET R \subseteq P
  BY <1>1, <1>2, <1>3, SubsetInduction
<1> QED
  BY <1>4 DEF P, R

\* The recursion of the library is well founded: such a function exists.
LEMMA FoldExists ==
  ASSUME NEW S, IsFiniteSet(S), NEW f
  PROVE \E g : IsFold(g, f, S)
<1> DEFINE P == {s \in SUBSET S : \E g : IsFold(g, f, s)}
<1>1. {} \in P
  <2>1. IsFold([s \in SUBSET {} |-> 0], f, {})
    BY DEF IsFold
  <2> QED
    BY <2>1
<1>2. ASSUME NEW s \in SUBSET S, s # {}, \A x \in s : s \ {x} \in P
      PROVE s \in P
  <2> DEFINE G(x) == CHOOSE g : IsFold(g, f, s \ {x})
             Left(t) == CHOOSE x \in s : x \notin t
             V(t) == G(Left(t))[t]
             h == [t \in SUBSET s |->
                     IF t = {} THEN 0 ELSE f[Chosen(t)] + V(t \ {Chosen(t)})]
  <2>1. \A x \in s : IsFold(G(x), f, s \ {x})
    BY <1>2
  <2>2. ASSUME NEW t \in SUBSET s, t # s
        PROVE Left(t) \in s /\ t \in SUBSET (s \ {Left(t)})
    BY <2>2
  <2> HIDE DEF G, Left
  <2>3. ASSUME NEW x \in s, NEW t \in SUBSET (s \ {x}) PROVE V(t) = G(x)[t]
    <3>1. Left(t) \in s /\ t \in SUBSET (s \ {Left(t)})
      BY <2>2
    <3>2. /\ t \in SUBSET ((s \ {Left(t)}) \cap (s \ {x}))
          /\ s \ {x} \in SUBSET S /\ s \ {Left(t)} \in SUBSET S
      BY <3>1
    <3>3. IsFold(G(Left(t)), f, s \ {Left(t)}) /\ IsFold(G(x), f, s \ {x})
      BY <2>1, <3>1
    <3>4. \A u \in SUBSET ((s \ {Left(t)}) \cap (s \ {x})) : G(Left(t))[u] = G(x)[u]
      BY <3>2, <3>3, FoldsAgree
    <3> QED
      BY <3>2, <3>4
  <2>4. ASSUME NEW t \in SUBSET s, t # s PROVE h[t] = V(t)
    <3> DEFINE x == Left(t)
    <3>1. x \in s /\ t \in SUBSET (s \ {x}) /\ IsFold(G(x), f, s \ {x})
      BY <2>1, <2>2, <2>4
    <3> HIDE DEF x
    <3>2. G(x)[t] = IF t = {} THEN 0 ELSE f[Chosen(t)] + G(x)[t \ {Chosen(t)}]
      BY <3>1 DEF IsFold
    <3>3. V(t) = G(x)[t] /\ V(t \ {Chosen(t)}) = G(x)[t \ {Chosen(t)}]
      <4>1. t \ {Chosen(t)} \in SUBSET (s \ {x})
        BY <3>1
      <4> HIDE DEF V
      <4> QED
        BY <2>3, <3>1, <4>1
    <3> HIDE DEF V
    <3> QED
      BY <3>2, <3>3
  <2>5. IsFold(h, f, s)
    <3>1. \A t \in SUBSET s : t # {} => t \ {Chosen(t)} \in SUBSET s /\ t \ {Chosen(t)} # s
      BY ChosenIsIn
    <3> HIDE DEF V
    <3>2. \A t \in SUBSET s : t # {} => h[t \ {Chosen(t)}] = V(t \ {Chosen(t)})
      <4> HIDE DEF h
      <4> QED
        BY <2>4, <3>1
    <3>3. h = [t \in SUBSET s |-> IF t = {} THEN 0 ELSE f[Chosen(t)] + h[t \ {Chosen(t)}]]
      BY <3>2
    <3> QED
      BY <3>3 DEF IsFold
  <2> HIDE DEF h
  <2> QED
    BY <2>5
<1>3. SUBSET S \subseteq P
  <2> HIDE DEF P
  <2> QED
    BY <1>1, <1>2, SubsetInduction
<1> QED
  BY <1>3

\* The sum of a function over a set, which is what MapThenSumSet computes.
Total(f, S) == (CHOOSE g : IsFold(g, f, S))[S]

LEMMA TotalIsFold ==
  ASSUME NEW S, IsFiniteSet(S), NEW f, NEW g, IsFold(g, f, S)
  PROVE Total(f, S) = g[S]
<1> DEFINE h == CHOOSE k : IsFold(k, f, S)
<1>1. IsFold(h, f, S)
  OBVIOUS
<1> HIDE DEF h
<1>2. g[S] = h[S]
  BY <1>1, FoldsAgree
<1> QED
  BY <1>2 DEF Total, h

\* A change of f moves the sum by what the values of f moved.
LEMMA FoldMoves ==
  ASSUME NEW S, IsFiniteSet(S), NEW a, NEW f1 \in [S -> Int], NEW f2 \in [S -> Int],
         \A x \in S : x # a => f2[x] = f1[x],
         NEW g1, IsFold(g1, f1, S), NEW g2, IsFold(g2, f2, S)
  PROVE \A s \in SUBSET S :
          /\ g1[s] \in Int
          /\ g2[s] = g1[s] + (IF a \in s THEN f2[a] - f1[a] ELSE 0)
<1> DEFINE P == {s \in SUBSET S :
                   /\ g1[s] \in Int
                   /\ g2[s] = g1[s] + (IF a \in s THEN f2[a] - f1[a] ELSE 0)}
<1>1. {} \in P
  BY DEF IsFold
<1>2. ASSUME NEW s \in SUBSET S, s # {}, \A x \in s : s \ {x} \in P
      PROVE s \in P
  <2> DEFINE x == Chosen(s)
  <2>1. x \in s /\ x \in S /\ s \ {x} \in P
    BY <1>2, ChosenIsIn
  <2>2. g1[s] = f1[x] + g1[s \ {x}] /\ g2[s] = f2[x] + g2[s \ {x}]
    BY <1>2 DEF IsFold
  <2> HIDE DEF x
  <2>3. f1[x] \in Int /\ f2[x] \in Int
    BY <2>1
  <2>4. CASE x = a
    BY <2>1, <2>2, <2>3, <2>4
  <2>5. CASE x # a
    <3>1. f2[x] = f1[x] /\ (a \in s <=> a \in s \ {x})
      BY <2>1, <2>5
    <3>2. a \in s => f1[a] \in Int /\ f2[a] \in Int
      OBVIOUS
    <3> QED
      BY <2>1, <2>2, <2>3, <3>1, <3>2
  <2> QED
    BY <2>4, <2>5
<1>3. SUBSET S \subseteq P
  <2> HIDE DEF P
  <2> QED
    BY <1>1, <1>2, SubsetInduction
<1> QED
  BY <1>3

\* The sum of a function on integers is an integer.
LEMMA TotalType ==
  ASSUME NEW S, IsFiniteSet(S), NEW f \in [S -> Int]
  PROVE Total(f, S) \in Int
<1>1. PICK g : IsFold(g, f, S)
  BY FoldExists
<1>2. S \in SUBSET S
  OBVIOUS
<1>3. g[S] \in Int
  BY <1>1, <1>2, FoldMoves
<1> QED
  BY <1>1, <1>3, TotalIsFold

\* Changing a function at one place moves its sum by the difference there.
LEMMA TotalMoves ==
  ASSUME NEW S, IsFiniteSet(S), NEW f1 \in [S -> Int], NEW f2 \in [S -> Int], NEW a \in S,
         \A x \in S : x # a => f2[x] = f1[x]
  PROVE Total(f2, S) = Total(f1, S) + f2[a] - f1[a]
<1>1. PICK g1 : IsFold(g1, f1, S)
  BY FoldExists
<1>2. PICK g2 : IsFold(g2, f2, S)
  BY FoldExists
<1>3. S \in SUBSET S
  OBVIOUS
<1>4. g1[S] \in Int /\ g2[S] = g1[S] + (f2[a] - f1[a])
  BY <1>1, <1>2, <1>3, FoldMoves
<1>5. f1[a] \in Int /\ f2[a] \in Int
  OBVIOUS
<1>6. Total(f1, S) = g1[S] /\ Total(f2, S) = g2[S]
  BY <1>1, <1>2, TotalIsFold
<1> QED
  BY <1>4, <1>5, <1>6

\* The sum of a function on natural numbers is one.
LEMMA TotalIsNatural ==
  ASSUME NEW S, IsFiniteSet(S), NEW f \in [S -> Nat]
  PROVE Total(f, S) \in Nat
<1>1. PICK g : IsFold(g, f, S)
  BY FoldExists
<1> DEFINE P == {s \in SUBSET S : g[s] \in Nat}
<1>2. {} \in P
  BY <1>1 DEF IsFold
<1>3. ASSUME NEW s \in SUBSET S, s # {}, \A x \in s : s \ {x} \in P
      PROVE s \in P
  <2>1. Chosen(s) \in s /\ f[Chosen(s)] \in Nat
    BY <1>3, ChosenIsIn
  <2>2. g[s] = f[Chosen(s)] + g[s \ {Chosen(s)}]
    BY <1>1, <1>3 DEF IsFold
  <2>3. g[s \ {Chosen(s)}] \in Nat
    BY <1>3, <2>1
  <2> QED
    BY <2>1, <2>2, <2>3
<1>4. SUBSET S \subseteq P
  <2> HIDE DEF P
  <2> QED
    BY <1>2, <1>3, SubsetInduction
<1>5. g[S] \in Nat
  BY <1>4
<1> QED
  BY <1>1, <1>5, TotalIsFold

\* The sum of zeros.
LEMMA TotalOfZeros ==
  ASSUME NEW S, IsFiniteSet(S), NEW f, \A x \in S : f[x] = 0
  PROVE Total(f, S) = 0
<1>1. PICK g : IsFold(g, f, S)
  BY FoldExists
<1> DEFINE P == {s \in SUBSET S : g[s] = 0}
<1>2. {} \in P
  BY <1>1 DEF IsFold
<1>3. ASSUME NEW s \in SUBSET S, s # {}, \A x \in s : s \ {x} \in P
      PROVE s \in P
  <2>1. Chosen(s) \in s
    BY <1>3, ChosenIsIn
  <2>2. g[s] = f[Chosen(s)] + g[s \ {Chosen(s)}]
    BY <1>1, <1>3 DEF IsFold
  <2> QED
    BY <1>3, <2>1, <2>2
<1>4. SUBSET S \subseteq P
  <2> HIDE DEF P
  <2> QED
    BY <1>2, <1>3, SubsetInduction
<1>5. g[S] = 0
  BY <1>4
<1> QED
  BY <1>1, <1>5, TotalIsFold
=============================================================================

----------------------------- MODULE SumTheorems -----------------------------
(***************************************************************************)
(* What the sums of the community modules are.  Their fold is a recursive  *)
(* function that its definition only chooses: here it is shown to exist    *)
(* and to follow what its summands do.  Induction over subsets is stated   *)
(* of a set of subsets, and rests on a least counterexample.               *)
(***************************************************************************)
EXTENDS Integers, Functions, TLAPS, FiniteSetTheorems, WellFoundedInduction

\* The element a fold takes first.
Pick(s) == CHOOSE x \in s : TRUE

\* The sums of f over the subsets in D, one element at a time.
IsSum(g, f, D) ==
    g = [s \in D |-> IF s = {} THEN 0 ELSE f[Pick(s)] + g[s \ {Pick(s)}]]

\* The subsets of S of at most n elements.
UpTo(S, n) == {s \in SUBSET S : Cardinality(s) <= n}

\* Among natural numbers that there are, one is the least.
LEMMA LeastNat ==
    ASSUME NEW T, T \subseteq Nat, T # {}
    PROVE  \E x \in T : \A y \in T : x <= y
  <1> DEFINE R == {ss \in Nat \X Nat : ss[1] < ss[2]}
  <1>1. IsWellFoundedOn(R, Nat)
    BY NatLessThanWellFounded DEF OpToRel
  <1>2. PICK x \in T : \A y \in T : <<y, x>> \notin R
    BY <1>1, WFMin
  <1>3. ASSUME NEW y \in T
        PROVE  x <= y
    <2>1. x \in Nat /\ y \in Nat
      OBVIOUS
    <2>2. y < x => <<y, x>> \in R
      BY <2>1
    <2> QED
      BY <1>2, <2>1, <2>2
  <1> QED
    BY <1>3

\* What is left without the element taken is smaller by one.
LEMMA Picked ==
    ASSUME NEW s, s # {}, IsFiniteSet(s)
    PROVE  /\ Pick(s) \in s
           /\ IsFiniteSet(s \ {Pick(s)})
           /\ Cardinality(s \ {Pick(s)}) = Cardinality(s) - 1
           /\ Cardinality(s) \in Nat
           /\ Cardinality(s) # 0
  <1>1. Pick(s) \in s
    BY DEF Pick
  <1> QED
    BY <1>1, FS_RemoveElement, FS_CardinalityType, FS_EmptySet

\* Induction over the subsets of a finite set, in the order of the fold.
LEMMA SubsetsInTurn ==
    ASSUME NEW S, IsFiniteSet(S), NEW Good, {} \in Good,
           \A s \in SUBSET S : s # {} /\ s \ {Pick(s)} \in Good => s \in Good
    PROVE  S \in Good
  <1> DEFINE Wrong == {n \in Nat : \E s \in SUBSET S :
                                     Cardinality(s) = n /\ s \notin Good}
  <1>1. \A s \in SUBSET S : IsFiniteSet(s) /\ Cardinality(s) \in Nat
    BY FS_Subset, FS_CardinalityType
  <1>2. ASSUME Wrong # {} PROVE FALSE
    <2>1. PICK n \in Wrong : \A m \in Wrong : n <= m
      BY <1>2, LeastNat
    <2>2. PICK s \in SUBSET S : Cardinality(s) = n /\ s \notin Good
      BY <2>1
    <2> DEFINE r == s \ {Pick(s)}
    <2>3. s # {}
      BY <2>2
    <2>4. r \in SUBSET S /\ Cardinality(r) = n - 1 /\ n - 1 \in Nat
      BY <1>1, <2>1, <2>2, <2>3, Picked
    <2>5. r \in Good
      BY <2>1, <2>4
    <2> QED
      BY <2>2, <2>3, <2>5
  <1> QED
    BY <1>1, <1>2

\* A finite set has such sums: those of at most n elements give those of n + 1.
LEMMA SumExists ==
    ASSUME NEW f, NEW S, IsFiniteSet(S)
    PROVE  \E g : IsSum(g, f, SUBSET S)
  <1> DEFINE Lacks == {n \in Nat : ~ \E g : IsSum(g, f, UpTo(S, n))}
  <1>0. \A s \in SUBSET S : IsFiniteSet(s) /\ Cardinality(s) \in Nat
    BY FS_Subset, FS_CardinalityType
  <1>1. Lacks = {}
    <2>1. SUFFICES ASSUME Lacks # {} PROVE FALSE
      OBVIOUS
    <2>2. PICK n \in Lacks : \A m \in Lacks : n <= m
      BY <2>1, LeastNat
    <2>3. n # 0
      <3>1. \A s \in UpTo(S, 0) : s = {}
        BY <1>0, FS_EmptySet DEF UpTo
      <3>2. IsSum([s \in UpTo(S, 0) |-> 0], f, UpTo(S, 0))
        BY <3>1 DEF IsSum
      <3>3. \E g : IsSum(g, f, UpTo(S, 0))
        BY <3>2
      <3> QED
        BY <2>2, <3>3
    <2>4. n - 1 \in Nat /\ n - 1 \notin Lacks
      BY <2>2, <2>3
    <2>5. PICK g : IsSum(g, f, UpTo(S, n - 1))
      BY <2>4
    <2> DEFINE h == [s \in UpTo(S, n) |->
                       IF s = {} THEN 0 ELSE f[Pick(s)] + g[s \ {Pick(s)}]]
    <2>6. \A s \in UpTo(S, n) : s # {} => s \ {Pick(s)} \in UpTo(S, n - 1)
      BY <1>0, <2>2, <2>3, Picked DEF UpTo
    <2>7. \A s \in UpTo(S, n - 1) : s \in UpTo(S, n) /\ h[s] = g[s]
      <3>1. \A s \in UpTo(S, n - 1) : s \in UpTo(S, n)
        BY <1>0, <2>2 DEF UpTo
      <3>2. \A s \in UpTo(S, n - 1) :
              g[s] = IF s = {} THEN 0 ELSE f[Pick(s)] + g[s \ {Pick(s)}]
        BY <2>5 DEF IsSum
      <3> QED
        BY <3>1, <3>2
    <2>8. IsSum(h, f, UpTo(S, n))
      <3>1. \A s \in UpTo(S, n) : s # {} => h[s \ {Pick(s)}] = g[s \ {Pick(s)}]
        BY <2>6, <2>7
      <3> QED
        BY <3>1 DEF IsSum
    <2>9. \E k : IsSum(k, f, UpTo(S, n))
      BY <2>8
    <2> QED
      BY <2>2, <2>9
  <1>2. Cardinality(S) \in Nat
    BY FS_CardinalityType
  <1>3. \A s \in SUBSET S : Cardinality(s) <= Cardinality(S)
    BY FS_Subset
  <1>4. UpTo(S, Cardinality(S)) = SUBSET S
    BY <1>3 DEF UpTo
  <1>5. \A n \in Nat : \E g : IsSum(g, f, UpTo(S, n))
    BY <1>1
  <1>6. \E g : IsSum(g, f, UpTo(S, Cardinality(S)))
    BY <1>2, <1>5
  <1> QED
    BY <1>4, <1>6

\* Such sums of natural numbers are natural numbers.
LEMMA SumsAreNatural ==
    ASSUME NEW S, IsFiniteSet(S), NEW f, \A x \in S : f[x] \in Nat,
           NEW g, IsSum(g, f, SUBSET S)
    PROVE  g[S] \in Nat
  <1> DEFINE Good == {s \in SUBSET S : g[s] \in Nat}
  <1>1. {} \in Good
    BY DEF IsSum
  <1>2. ASSUME NEW s \in SUBSET S, s # {}, s \ {Pick(s)} \in Good
        PROVE  s \in Good
    <2>1. Pick(s) \in S
      BY <1>2, FS_Subset, Picked
    <2>2. g[s] = f[Pick(s)] + g[s \ {Pick(s)}]
      BY <1>2 DEF IsSum
    <2> QED
      BY <1>2, <2>1, <2>2
  <1> HIDE DEF Good
  <1>3. S \in Good
    BY <1>1, <1>2, SubsetsInTurn
  <1> QED
    BY <1>3 DEF Good

\* SumFunctionOnSet, its definitions expanded.
LEMMA SumIsChosen ==
    ASSUME NEW f, NEW S
    PROVE  SumFunctionOnSet(f, S) = (CHOOSE g : IsSum(g, f, SUBSET S))[S]
  BY DEF SumFunctionOnSet, FoldFunctionOnSet, MapThenFoldSet, Pick, IsSum

\* Two functions that differ by k at c alone have sums that differ by k.
LEMMA SumShifts ==
    ASSUME NEW S, IsFiniteSet(S), NEW f, NEW g, NEW c, NEW k \in Int,
           \A x \in S : f[x] \in Int /\ g[x] = f[x] + (IF x = c THEN k ELSE 0)
    PROVE  /\ SumFunctionOnSet(f, S) \in Int
           /\ SumFunctionOnSet(g, S)
                = SumFunctionOnSet(f, S) + (IF c \in S THEN k ELSE 0)
  <1>1. PICK F : IsSum(F, f, SUBSET S) /\ SumFunctionOnSet(f, S) = F[S]
    BY SumExists, SumIsChosen
  <1>2. PICK G : IsSum(G, g, SUBSET S) /\ SumFunctionOnSet(g, S) = G[S]
    BY SumExists, SumIsChosen
  <1> DEFINE Good == {s \in SUBSET S :
                        /\ F[s] \in Int
                        /\ G[s] = F[s] + (IF c \in s THEN k ELSE 0)}
  <1>3. {} \in Good
    BY <1>1, <1>2 DEF IsSum
  <1>4. ASSUME NEW s \in SUBSET S, s # {}, s \ {Pick(s)} \in Good
        PROVE  s \in Good
    <2> DEFINE p == Pick(s)
               r == s \ {p}
    <2>1. p \in s /\ p \in S /\ p \notin r
      BY <1>4, FS_Subset, Picked
    <2>2. F[s] = f[p] + F[r] /\ G[s] = g[p] + G[r]
      BY <1>1, <1>2, <1>4 DEF IsSum
    <2>3. f[p] \in Int /\ g[p] = f[p] + (IF p = c THEN k ELSE 0)
      BY <2>1
    <2>4. F[r] \in Int /\ G[r] = F[r] + (IF c \in r THEN k ELSE 0)
      BY <1>4
    <2>5. c \in s <=> c \in r \/ p = c
      BY <2>1
    <2> HIDE DEF p, r
    <2> QED
      BY <2>1, <2>2, <2>3, <2>4, <2>5
  <1> HIDE DEF Good
  <1>5. S \in Good
    BY <1>3, <1>4, SubsetsInTurn
  <1> QED
    BY <1>1, <1>2, <1>5 DEF Good

\* Sums of functions that agree are equal.
LEMMA SumsAgree ==
    ASSUME NEW S, IsFiniteSet(S), NEW f, NEW g,
           \A x \in S : f[x] \in Int /\ g[x] = f[x]
    PROVE  /\ SumFunctionOnSet(f, S) \in Int
           /\ SumFunctionOnSet(g, S) = SumFunctionOnSet(f, S)
  <1>1. PICK c : c \notin S
    <2>1. {x \in S : x \notin x} \notin S
      OBVIOUS
    <2> QED
      BY <2>1
  <1>2. \A x \in S : f[x] \in Int /\ g[x] = f[x] + (IF x = c THEN 0 ELSE 0)
    OBVIOUS
  <1>3. /\ SumFunctionOnSet(f, S) \in Int
        /\ SumFunctionOnSet(g, S)
             = SumFunctionOnSet(f, S) + (IF c \in S THEN 0 ELSE 0)
    BY <1>2, SumShifts, 0 \in Int
  <1> QED
    BY <1>3
=============================================================================

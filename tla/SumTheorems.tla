------------------------------ MODULE SumTheorems ------------------------------
(***************************************************************************)
(* What the sums of the community module Functions are: the sum over a     *)
(* finite set is the term of any member plus the sum over the others.      *)
(* Induction over the subsets of a finite set is done with a counterexample *)
(* that is minimal for inclusion (LeastSubset).                             *)
(***************************************************************************)
EXTENDS Functions, FiniteSets, FiniteSetTheorems, WellFoundedInduction, TLAPS

Pick(s) == CHOOSE x \in s : TRUE

\* The recursive equation by which the sums over the subsets of S are defined.
IsSum(g, f, S) ==
    g = [s \in SUBSET S |-> IF s = {} THEN 0 ELSE f[Pick(s)] + g[s \ {Pick(s)}]]

\* A non-empty set of subsets of a finite set has a minimal member.
LEMMA LeastSubset ==
    ASSUME NEW S, IsFiniteSet(S), NEW T, T \subseteq SUBSET S, T # {}
    PROVE  \E m \in T : \A t \in T : t \subseteq m => t = m
<1>1. IsWellFoundedOn(StrictSubsetOrdering(S), SUBSET S)
    BY FS_StrictSubsetOrderingWellFounded, FS_FiniteSubsetsOfFinite
<1>2. PICK m \in T : \A t \in T : <<t, m>> \notin StrictSubsetOrdering(S)
    BY <1>1, WFMin
<1>3. ASSUME NEW t \in T, t \subseteq m, t # m
      PROVE  FALSE
    BY <1>2, <1>3 DEF StrictSubsetOrdering
<1> QED
    BY <1>2, <1>3

\* Solutions of the equation on two sets agree on the subsets of both.
LEMMA SumUnique ==
    ASSUME NEW f, NEW S, IsFiniteSet(S), NEW U \in SUBSET S, NEW W \in SUBSET S,
           NEW g, NEW h, IsSum(g, f, U), IsSum(h, f, W), NEW s \in SUBSET (U \cap W)
    PROVE  g[s] = h[s]
<1> DEFINE T == {t \in SUBSET (U \cap W) : g[t] # h[t]}
<1>1. SUFFICES ASSUME T # {} PROVE FALSE
    OBVIOUS
<1>2. PICK m \in T : \A t \in T : t \subseteq m => t = m
    <2>1. T \subseteq SUBSET S
        OBVIOUS
    <2> HIDE DEF T
    <2> QED
        BY <1>1, <2>1, LeastSubset
<1>3. m # {}
    BY DEF IsSum
<1>4. Pick(m) \in m
    BY <1>3 DEF Pick
<1>5. g[m \ {Pick(m)}] = h[m \ {Pick(m)}]
    BY <1>2, <1>4
<1>6. /\ g[m] = f[Pick(m)] + g[m \ {Pick(m)}]
      /\ h[m] = f[Pick(m)] + h[m \ {Pick(m)}]
    <2>1. m \in SUBSET U /\ m \in SUBSET W
        OBVIOUS
    <2> QED
        BY <1>3, <2>1 DEF IsSum
<1> QED
    BY <1>5, <1>6

\* The equation has a solution on every finite set.
LEMMA SumExists ==
    ASSUME NEW f, NEW S, IsFiniteSet(S)
    PROVE  \E g : IsSum(g, f, S)
<1> DEFINE T == {U \in SUBSET S : ~ \E g : IsSum(g, f, U)}
<1>1. SUFFICES ASSUME T # {} PROVE FALSE
    OBVIOUS
<1>2. PICK m \in T : \A t \in T : t \subseteq m => t = m
    <2>1. T \subseteq SUBSET S
        OBVIOUS
    <2> HIDE DEF T
    <2> QED
        BY <1>1, <2>1, LeastSubset
<1> DEFINE Part(s) == CHOOSE g : IsSum(g, f, s)
           less(s) == s \ {Pick(s)}
           full == [s \in SUBSET m |-> IF s = {} THEN 0 ELSE f[Pick(s)] + Part(less(s))[less(s)]]
<1>3. \A s \in SUBSET m : s # {} => less(s) \in SUBSET m /\ less(s) # m
    BY DEF Pick
<1>4. ASSUME NEW s \in SUBSET m, s # m
      PROVE  IsSum(Part(s), f, s)
    <2>1. \E g : IsSum(g, f, s)
        BY <1>2, <1>4
    <2> QED
        BY <2>1
<1>5. ASSUME NEW s \in SUBSET m, s # m
      PROVE  full[s] = Part(s)[s]
    <2>1. Part(s)[s] = IF s = {} THEN 0 ELSE f[Pick(s)] + Part(s)[less(s)]
        <3>1. IsSum(Part(s), f, s) /\ s \in SUBSET s
            BY <1>4, <1>5
        <3> HIDE DEF Part
        <3> QED
            BY <3>1 DEF IsSum
    <2>2. CASE s # {}
        <3>1. less(s) \in SUBSET m /\ less(s) # m
            BY <1>3, <2>2
        <3>2. IsSum(Part(s), f, s) /\ IsSum(Part(less(s)), f, less(s))
            BY <1>4, <1>5, <3>1
        <3>3. Part(s)[less(s)] = Part(less(s))[less(s)]
            <4>1. less(s) \in SUBSET (s \cap less(s)) /\ s \in SUBSET S /\ less(s) \in SUBSET S
                BY <1>2
            <4> HIDE DEF Part, less
            <4> QED
                BY <3>2, <4>1, SumUnique
        <3> QED
            BY <2>1, <2>2, <3>3
    <2> QED
        BY <2>1, <2>2
<1>6. IsSum(full, f, m)
    <2>1. ASSUME NEW s \in SUBSET m, s # {}
          PROVE  full[less(s)] = Part(less(s))[less(s)]
        <3>1. less(s) \in SUBSET m /\ less(s) # m
            BY <1>3, <2>1
        <3> HIDE DEF full, Part, less
        <3> QED
            BY <1>5, <3>1
    <2>2. full = [s \in SUBSET m |-> IF s = {} THEN 0 ELSE f[Pick(s)] + full[less(s)]]
        <3>1. \A s \in SUBSET m :
                  (IF s = {} THEN 0 ELSE f[Pick(s)] + Part(less(s))[less(s)])
                  = IF s = {} THEN 0 ELSE f[Pick(s)] + full[less(s)]
            <4> HIDE DEF full, Part, less
            <4> QED
                BY <2>1
        <3> DEFINE G == [s \in SUBSET m |-> IF s = {} THEN 0 ELSE f[Pick(s)] + full[less(s)]]
        <3>2. full = G
            <4> HIDE DEF Part, less
            <4> QED
                BY <3>1
        <3> QED
            BY <3>2
    <2> HIDE DEF full
    <2> QED
        BY <2>2 DEF IsSum
<1> QED
    BY <1>6

LEMMA SumChosen ==
    ASSUME NEW f, NEW S
    PROVE  SumFunctionOnSet(f, S) = (CHOOSE g : IsSum(g, f, S))[S]
BY DEF SumFunctionOnSet, FoldFunctionOnSet, MapThenFoldSet, IsSum, Pick

\* The sum over nothing.
LEMMA SumEmpty ==
    ASSUME NEW f
    PROVE  SumFunctionOnSet(f, {}) = 0
<1>1. \E g : IsSum(g, f, {})
    BY SumExists, FS_EmptySet
<1>2. PICK g : IsSum(g, f, {}) /\ SumFunctionOnSet(f, {}) = g[{}]
    BY <1>1, SumChosen
<1> QED
    BY <1>2 DEF IsSum

\* The sum over a set, of the member that is picked and the rest.
LEMMA SumPicks ==
    ASSUME NEW f, NEW S, IsFiniteSet(S), S # {}
    PROVE  /\ Pick(S) \in S
           /\ SumFunctionOnSet(f, S) = f[Pick(S)] + SumFunctionOnSet(f, S \ {Pick(S)})
<1> DEFINE R == S \ {Pick(S)}
<1>1. Pick(S) \in S
    BY DEF Pick
<1>2. IsFiniteSet(R)
    BY FS_Subset
<1>3. PICK g : IsSum(g, f, S) /\ SumFunctionOnSet(f, S) = g[S]
    BY SumChosen, SumExists
<1>4. PICK h : IsSum(h, f, R) /\ SumFunctionOnSet(f, R) = h[R]
    <2> HIDE DEF R
    <2> QED
        BY <1>2, SumChosen, SumExists
<1>5. g[R] = h[R]
    <2>1. R \in SUBSET S /\ S \in SUBSET S /\ R \in SUBSET (S \cap R)
        OBVIOUS
    <2> HIDE DEF R
    <2> QED
        BY <1>3, <1>4, <2>1, SumUnique
<1>6. g[S] = f[Pick(S)] + g[R]
    BY <1>3 DEF IsSum
<1> QED
    BY <1>1, <1>3, <1>4, <1>5, <1>6

-----------------------------------------------------------------------------
(* Sums of integers.                                                       *)

\* A sum of integers is one.
LEMMA SumIsInt ==
    ASSUME NEW f, NEW S, IsFiniteSet(S), \A x \in S : f[x] \in Int
    PROVE  SumFunctionOnSet(f, S) \in Int
<1> DEFINE T == {s \in SUBSET S : SumFunctionOnSet(f, s) \notin Int}
<1>1. SUFFICES ASSUME T # {} PROVE FALSE
    OBVIOUS
<1>2. PICK m \in T : \A t \in T : t \subseteq m => t = m
    <2>1. T \subseteq SUBSET S
        OBVIOUS
    <2> HIDE DEF T
    <2> QED
        BY <1>1, <2>1, LeastSubset
<1>3. m # {} /\ IsFiniteSet(m)
    <2>1. m \in SUBSET S /\ IsFiniteSet(m)
        BY FS_Subset
    <2>2. SumFunctionOnSet(f, {}) = 0
        BY SumEmpty
    <2> QED
        BY <2>1, <2>2
<1>4. /\ Pick(m) \in m
      /\ SumFunctionOnSet(f, m) = f[Pick(m)] + SumFunctionOnSet(f, m \ {Pick(m)})
    BY <1>3, SumPicks
<1>5. SumFunctionOnSet(f, m \ {Pick(m)}) \in Int
    BY <1>2, <1>4
<1> QED
    BY <1>4, <1>5

\* A sum of integers is any member's term and the rest.
LEMMA SumSplits ==
    ASSUME NEW f, NEW S, IsFiniteSet(S), \A x \in S : f[x] \in Int, NEW y \in S
    PROVE  /\ IsFiniteSet(S \ {y})
           /\ SumFunctionOnSet(f, S) = f[y] + SumFunctionOnSet(f, S \ {y})
<1> DEFINE rest(s, x) == SumFunctionOnSet(f, s \ {x})
           T == {s \in SUBSET S : \E x \in s : SumFunctionOnSet(f, s) # f[x] + rest(s, x)}
<1>1. SUFFICES ASSUME T # {} PROVE FALSE
    BY FS_Subset
<1>2. PICK m \in T : \A t \in T : t \subseteq m => t = m
    <2>1. T \subseteq SUBSET S
        OBVIOUS
    <2> HIDE DEF T
    <2> QED
        BY <1>1, <2>1, LeastSubset
<1>3. PICK x \in m : SumFunctionOnSet(f, m) # f[x] + rest(m, x)
    OBVIOUS
<1> DEFINE p == Pick(m)
<1>4. p \in m /\ SumFunctionOnSet(f, m) = f[p] + rest(m, p)
    BY <1>3, SumPicks, FS_Subset
<1>5. x # p
    BY <1>3, <1>4
<1>6. SumFunctionOnSet(f, m \ {p}) = f[x] + rest(m \ {p}, x)
    BY <1>2, <1>4, <1>5
<1>7. SumFunctionOnSet(f, m \ {x}) = f[p] + rest(m \ {x}, p)
    BY <1>2, <1>3, <1>4, <1>5
<1>8. (m \ {p}) \ {x} = (m \ {x}) \ {p}
    OBVIOUS
<1>9. f[x] \in Int /\ f[p] \in Int /\ SumFunctionOnSet(f, (m \ {x}) \ {p}) \in Int
    BY <1>4, SumIsInt, FS_Subset
<1> DEFINE common == SumFunctionOnSet(f, (m \ {x}) \ {p})
<1>10. /\ SumFunctionOnSet(f, m \ {p}) = f[x] + common
       /\ SumFunctionOnSet(f, m \ {x}) = f[p] + common
    BY <1>6, <1>7, <1>8
<1>11. f[p] + (f[x] + common) = f[x] + (f[p] + common)
    <2> HIDE DEF p, common
    <2> QED
        BY <1>9 DEF common
<1>12. SumFunctionOnSet(f, m) = f[x] + rest(m, x)
    BY <1>4, <1>10, <1>11
<1> QED
    BY <1>3, <1>12

\* Equal terms have equal sums.
LEMMA SumSame ==
    ASSUME NEW f, NEW g, NEW S, IsFiniteSet(S), \A x \in S : f[x] = g[x]
    PROVE  SumFunctionOnSet(f, S) = SumFunctionOnSet(g, S)
<1> DEFINE T == {s \in SUBSET S : SumFunctionOnSet(f, s) # SumFunctionOnSet(g, s)}
<1>1. SUFFICES ASSUME T # {} PROVE FALSE
    OBVIOUS
<1>2. PICK m \in T : \A t \in T : t \subseteq m => t = m
    <2>1. T \subseteq SUBSET S
        OBVIOUS
    <2> HIDE DEF T
    <2> QED
        BY <1>1, <2>1, LeastSubset
<1>3. m # {} /\ IsFiniteSet(m)
    <2>1. m \in SUBSET S /\ IsFiniteSet(m)
        BY FS_Subset
    <2>2. SumFunctionOnSet(f, {}) = 0 /\ SumFunctionOnSet(g, {}) = 0
        BY SumEmpty
    <2> QED
        BY <2>1, <2>2
<1>4. /\ Pick(m) \in m
      /\ SumFunctionOnSet(f, m) = f[Pick(m)] + SumFunctionOnSet(f, m \ {Pick(m)})
      /\ SumFunctionOnSet(g, m) = g[Pick(m)] + SumFunctionOnSet(g, m \ {Pick(m)})
    BY <1>3, SumPicks
<1>5. SumFunctionOnSet(f, m \ {Pick(m)}) = SumFunctionOnSet(g, m \ {Pick(m)})
    BY <1>2, <1>4
<1> QED
    BY <1>4, <1>5

\* Terms that are nowhere larger have a sum that is not larger.
LEMMA SumAtMost ==
    ASSUME NEW f, NEW g, NEW S, IsFiniteSet(S),
           \A x \in S : f[x] \in Int /\ g[x] \in Int /\ f[x] <= g[x]
    PROVE  SumFunctionOnSet(f, S) <= SumFunctionOnSet(g, S)
<1> DEFINE T == {s \in SUBSET S : ~(SumFunctionOnSet(f, s) <= SumFunctionOnSet(g, s))}
<1>1. SUFFICES ASSUME T # {} PROVE FALSE
    OBVIOUS
<1>2. PICK m \in T : \A t \in T : t \subseteq m => t = m
    <2>1. T \subseteq SUBSET S
        OBVIOUS
    <2> HIDE DEF T
    <2> QED
        BY <1>1, <2>1, LeastSubset
<1>3. m # {} /\ IsFiniteSet(m)
    <2>1. m \in SUBSET S /\ IsFiniteSet(m)
        BY FS_Subset
    <2>2. SumFunctionOnSet(f, {}) = 0 /\ SumFunctionOnSet(g, {}) = 0
        BY SumEmpty
    <2> QED
        BY <2>1, <2>2
<1> DEFINE r == m \ {Pick(m)}
<1>4. /\ Pick(m) \in m
      /\ SumFunctionOnSet(f, m) = f[Pick(m)] + SumFunctionOnSet(f, r)
      /\ SumFunctionOnSet(g, m) = g[Pick(m)] + SumFunctionOnSet(g, r)
    BY <1>3, SumPicks
<1>5. SumFunctionOnSet(f, r) <= SumFunctionOnSet(g, r)
    BY <1>2, <1>4
<1>6. SumFunctionOnSet(f, r) \in Int /\ SumFunctionOnSet(g, r) \in Int
    <2>1. r \subseteq S /\ IsFiniteSet(r)
        BY FS_Subset
    <2> HIDE DEF r
    <2> QED
        BY <2>1, SumIsInt
<1>7. f[Pick(m)] \in Int /\ g[Pick(m)] \in Int /\ f[Pick(m)] <= g[Pick(m)]
    BY <1>4
<1> HIDE DEF r
<1> QED
    BY <1>4, <1>5, <1>6, <1>7

\* Where all terms are zero, so is the sum.
LEMMA SumOfZeros ==
    ASSUME NEW f, NEW S, IsFiniteSet(S), \A x \in S : f[x] = 0
    PROVE  SumFunctionOnSet(f, S) = 0
<1> DEFINE T == {s \in SUBSET S : SumFunctionOnSet(f, s) # 0}
<1>1. SUFFICES ASSUME T # {} PROVE FALSE
    OBVIOUS
<1>2. PICK m \in T : \A t \in T : t \subseteq m => t = m
    <2>1. T \subseteq SUBSET S
        OBVIOUS
    <2> HIDE DEF T
    <2> QED
        BY <1>1, <2>1, LeastSubset
<1>3. m # {} /\ IsFiniteSet(m)
    <2>1. m \in SUBSET S /\ IsFiniteSet(m)
        BY FS_Subset
    <2>2. SumFunctionOnSet(f, {}) = 0
        BY SumEmpty
    <2> QED
        BY <2>1, <2>2
<1>4. /\ Pick(m) \in m
      /\ SumFunctionOnSet(f, m) = f[Pick(m)] + SumFunctionOnSet(f, m \ {Pick(m)})
    BY <1>3, SumPicks
<1>5. SumFunctionOnSet(f, m \ {Pick(m)}) = 0
    BY <1>2, <1>4
<1> QED
    BY <1>4, <1>5

\* When one term changes, the sum changes by as much.
LEMMA SumChanges ==
    ASSUME NEW f, NEW g, NEW S, IsFiniteSet(S), NEW y \in S,
           \A x \in S : f[x] \in Int /\ g[x] \in Int,
           \A x \in S : x # y => g[x] = f[x]
    PROVE  /\ SumFunctionOnSet(f, S) \in Int
           /\ SumFunctionOnSet(g, S) = SumFunctionOnSet(f, S) + (g[y] - f[y])
<1> DEFINE r == S \ {y}
<1>1. /\ IsFiniteSet(r)
      /\ SumFunctionOnSet(f, S) = f[y] + SumFunctionOnSet(f, r)
      /\ SumFunctionOnSet(g, S) = g[y] + SumFunctionOnSet(g, r)
    BY SumSplits
<1>2. SumFunctionOnSet(f, r) = SumFunctionOnSet(g, r)
    <2>1. \A x \in r : f[x] = g[x]
        OBVIOUS
    <2> HIDE DEF r
    <2> QED
        BY <1>1, <2>1, SumSame
<1>3. SumFunctionOnSet(f, r) \in Int /\ SumFunctionOnSet(f, S) \in Int
    <2>1. \A x \in r : f[x] \in Int
        OBVIOUS
    <2> HIDE DEF r
    <2> QED
        BY <1>1, <2>1, SumIsInt
<1> HIDE DEF r
<1> QED
    BY <1>1, <1>2, <1>3

\* A new member adds its term.
LEMMA SumGrows ==
    ASSUME NEW f, NEW g, NEW S, IsFiniteSet(S), NEW y, y \notin S,
           \A x \in S : g[x] \in Int /\ g[x] = f[x], g[y] \in Int
    PROVE  /\ SumFunctionOnSet(f, S) \in Int
           /\ SumFunctionOnSet(g, S \cup {y}) = SumFunctionOnSet(f, S) + g[y]
<1>1. IsFiniteSet(S \cup {y}) /\ (S \cup {y}) \ {y} = S
    BY FS_AddElement
<1>2. SumFunctionOnSet(g, S \cup {y}) = g[y] + SumFunctionOnSet(g, S)
    BY <1>1, SumSplits
<1>3. SumFunctionOnSet(g, S) \in Int
    BY SumIsInt
<1>4. SumFunctionOnSet(g, S) = SumFunctionOnSet(f, S)
    BY SumSame
<1> QED
    BY <1>2, <1>3, <1>4

\* The sum of the sums is the sum over the pairwise sums.
LEMMA SumAdds ==
    ASSUME NEW f, NEW g, NEW h, NEW S, IsFiniteSet(S),
           \A x \in S : f[x] \in Int /\ g[x] \in Int /\ h[x] = f[x] + g[x]
    PROVE  SumFunctionOnSet(h, S) = SumFunctionOnSet(f, S) + SumFunctionOnSet(g, S)
<1> DEFINE T == {s \in SUBSET S :
                    SumFunctionOnSet(h, s) # SumFunctionOnSet(f, s) + SumFunctionOnSet(g, s)}
<1>1. SUFFICES ASSUME T # {} PROVE FALSE
    OBVIOUS
<1>2. PICK m \in T : \A t \in T : t \subseteq m => t = m
    <2>1. T \subseteq SUBSET S
        OBVIOUS
    <2> HIDE DEF T
    <2> QED
        BY <1>1, <2>1, LeastSubset
<1>3. m # {} /\ IsFiniteSet(m)
    <2>1. m \in SUBSET S /\ IsFiniteSet(m)
        BY FS_Subset
    <2>2. /\ SumFunctionOnSet(f, {}) = 0 /\ SumFunctionOnSet(g, {}) = 0
          /\ SumFunctionOnSet(h, {}) = 0
        BY SumEmpty
    <2>3. SumFunctionOnSet(h, {}) = SumFunctionOnSet(f, {}) + SumFunctionOnSet(g, {})
        BY <2>2
    <2> QED
        BY <2>1, <2>3
<1> DEFINE r == m \ {Pick(m)}
<1>4. /\ Pick(m) \in m
      /\ SumFunctionOnSet(f, m) = f[Pick(m)] + SumFunctionOnSet(f, r)
      /\ SumFunctionOnSet(g, m) = g[Pick(m)] + SumFunctionOnSet(g, r)
      /\ SumFunctionOnSet(h, m) = h[Pick(m)] + SumFunctionOnSet(h, r)
    BY <1>3, SumPicks
<1>5. SumFunctionOnSet(h, r) = SumFunctionOnSet(f, r) + SumFunctionOnSet(g, r)
    BY <1>2, <1>4
<1>6. SumFunctionOnSet(f, r) \in Int /\ SumFunctionOnSet(g, r) \in Int
    <2>1. r \subseteq S /\ IsFiniteSet(r)
        BY FS_Subset
    <2> HIDE DEF r
    <2> QED
        BY <2>1, SumIsInt
<1>7. /\ f[Pick(m)] \in Int /\ g[Pick(m)] \in Int
      /\ h[Pick(m)] = f[Pick(m)] + g[Pick(m)]
    BY <1>4
<1>8. SumFunctionOnSet(h, m) = SumFunctionOnSet(f, m) + SumFunctionOnSet(g, m)
    <2> HIDE DEF r
    <2> QED
        BY <1>4, <1>5, <1>6, <1>7
<1> QED
    BY <1>8

\* The sum over a part is the sum over the whole of terms that are zero outside the part.
LEMMA SumOfPart ==
    ASSUME NEW f, NEW g, NEW S, IsFiniteSet(S), NEW P, P \subseteq S,
           \A x \in P : f[x] \in Int /\ g[x] = f[x],
           \A x \in S \ P : g[x] = 0
    PROVE  SumFunctionOnSet(f, P) = SumFunctionOnSet(g, S)
<1> DEFINE T == {s \in SUBSET S : SumFunctionOnSet(f, s \cap P) # SumFunctionOnSet(g, s)}
<1>1. SUFFICES ASSUME T # {} PROVE FALSE
    <2>1. S \cap P = P
        OBVIOUS
    <2> QED
        BY <2>1
<1>2. PICK m \in T : \A t \in T : t \subseteq m => t = m
    <2>1. T \subseteq SUBSET S
        OBVIOUS
    <2> HIDE DEF T
    <2> QED
        BY <1>1, <2>1, LeastSubset
<1>3. m # {} /\ IsFiniteSet(m)
    <2>1. m \in SUBSET S /\ IsFiniteSet(m)
        BY FS_Subset
    <2>2. SumFunctionOnSet(f, {}) = 0 /\ SumFunctionOnSet(g, {}) = 0
        BY SumEmpty
    <2>3. {} \cap P = {}
        OBVIOUS
    <2> QED
        BY <2>1, <2>2, <2>3
<1> DEFINE p == Pick(m)
           r == m \ {p}
<1>4. p \in m /\ SumFunctionOnSet(g, m) = g[p] + SumFunctionOnSet(g, r)
    BY <1>3, SumPicks
<1>5. SumFunctionOnSet(f, r \cap P) = SumFunctionOnSet(g, r)
    BY <1>2, <1>4
<1>6. /\ IsFiniteSet(m \cap P) /\ IsFiniteSet(r \cap P)
      /\ \A x \in m \cap P : f[x] \in Int
      /\ \A x \in r \cap P : f[x] \in Int
    BY <1>3, FS_Subset
<1>7. SumFunctionOnSet(f, r \cap P) \in Int
    <2> HIDE DEF r
    <2> QED
        BY <1>6, SumIsInt
<1>8. CASE p \in P
    <2>1. (m \cap P) \ {p} = r \cap P /\ p \in m \cap P
        BY <1>4, <1>8
    <2>2. SumFunctionOnSet(f, m \cap P) = f[p] + SumFunctionOnSet(f, (m \cap P) \ {p})
        <3> HIDE DEF p, r
        <3> QED
            BY <1>6, <2>1, SumSplits
    <2>3. g[p] = f[p]
        BY <1>8
    <2> QED
        BY <1>4, <1>5, <2>1, <2>2, <2>3
<1>9. CASE p \notin P
    <2>1. m \cap P = r \cap P
        BY <1>9
    <2>2. g[p] = 0
        BY <1>4, <1>9
    <2>3. SumFunctionOnSet(f, m \cap P) = SumFunctionOnSet(g, m)
        <3>1. SumFunctionOnSet(g, m) = 0 + SumFunctionOnSet(g, r)
            BY <1>4, <2>2
        <3>2. SumFunctionOnSet(f, m \cap P) = SumFunctionOnSet(f, r \cap P)
            BY <2>1
        <3> HIDE DEF p, r
        <3> QED
            BY <3>1, <3>2, <1>5, <1>7
    <2> QED
        BY <2>3
<1> QED
    BY <1>8, <1>9

\* The sum over the images of a set is the sum over the set, where no two images are the same.
LEMMA SumOfImage ==
    ASSUME NEW S, IsFiniteSet(S), NEW r, NEW f, NEW g,
           \A x \in S : \A y \in S : r[x] = r[y] => x = y,
           \A x \in S : g[x] \in Int /\ f[r[x]] = g[x]
    PROVE  /\ IsFiniteSet({r[x] : x \in S})
           /\ SumFunctionOnSet(f, {r[x] : x \in S}) = SumFunctionOnSet(g, S)
<1> DEFINE image(s) == {r[x] : x \in s}
<1>1. \A s \in SUBSET S : IsFiniteSet(image(s))
    <2> SUFFICES ASSUME NEW s \in SUBSET S PROVE IsFiniteSet(image(s))
        OBVIOUS
    <2>1. [x \in s |-> r[x]] \in Surjection(s, image(s))
        BY DEF Surjection
    <2>2. IsFiniteSet(s)
        BY FS_Subset
    <2> HIDE DEF image
    <2> QED
        BY <2>1, <2>2, FS_Surjection
<1> DEFINE T == {s \in SUBSET S : SumFunctionOnSet(f, image(s)) # SumFunctionOnSet(g, s)}
<1>2. SUFFICES ASSUME T # {} PROVE FALSE
    BY <1>1
<1>3. PICK m \in T : \A t \in T : t \subseteq m => t = m
    <2>1. T \subseteq SUBSET S
        OBVIOUS
    <2> HIDE DEF T
    <2> QED
        BY <1>2, <2>1, LeastSubset
<1>4. m # {} /\ IsFiniteSet(m)
    <2>1. m \in SUBSET S /\ IsFiniteSet(m)
        BY FS_Subset
    <2>2. SumFunctionOnSet(f, {}) = 0 /\ SumFunctionOnSet(g, {}) = 0
        BY SumEmpty
    <2>3. image({}) = {}
        OBVIOUS
    <2> HIDE DEF image
    <2> QED
        BY <2>1, <2>2, <2>3
<1> DEFINE p == Pick(m)
<1>5. p \in m /\ SumFunctionOnSet(g, m) = g[p] + SumFunctionOnSet(g, m \ {p})
    BY <1>4, SumPicks
<1>6. SumFunctionOnSet(f, image(m)) = f[r[p]] + SumFunctionOnSet(f, image(m) \ {r[p]})
    <2>1. r[p] \in image(m) /\ \A y \in image(m) : f[y] \in Int
        BY <1>5
    <2>2. IsFiniteSet(image(m))
        BY <1>1
    <2> HIDE DEF image, p
    <2> QED
        BY <2>1, <2>2, SumSplits
<1>7. image(m) \ {r[p]} = image(m \ {p})
    BY <1>5
<1>8. SumFunctionOnSet(f, image(m \ {p})) = SumFunctionOnSet(g, m \ {p})
    <2> HIDE DEF image
    <2> QED
        BY <1>3, <1>5
<1>9. f[r[p]] = g[p]
    BY <1>5
<1>10. SumFunctionOnSet(f, image(m)) = SumFunctionOnSet(g, m)
    <2> HIDE DEF image, p
    <2> QED
        BY <1>5, <1>6, <1>7, <1>8, <1>9
<1> QED
    BY <1>10

\* Naturals sum up to a natural.
LEMMA SumIsNat ==
    ASSUME NEW f, NEW S, IsFiniteSet(S), \A x \in S : f[x] \in Nat
    PROVE  SumFunctionOnSet(f, S) \in Nat
<1>1. PICK g : g = [x \in S |-> 0]
    OBVIOUS
<1>2. SumFunctionOnSet(g, S) = 0
    BY <1>1, SumOfZeros
<1>3. SumFunctionOnSet(f, S) \in Int
    BY SumIsInt
<1>4. SumFunctionOnSet(g, S) <= SumFunctionOnSet(f, S)
    BY <1>1, SumAtMost
<1> QED
    BY <1>2, <1>3, <1>4

\* A non-empty set of naturals has a least member.
LEMMA LeastNumber ==
    ASSUME NEW T, T \subseteq Nat, T # {}
    PROVE  \E k \in T : \A j \in T : k <= j
<1>1. PICK n \in T : TRUE
    OBVIOUS
<1> DEFINE C == {1 .. k : k \in {j \in T : j <= n}}
<1>2. IsFiniteSet(1 .. n) /\ C \subseteq SUBSET (1 .. n) /\ C # {}
    <2>1. n \in Nat /\ n <= n
        BY <1>1
    <2>2. IsFiniteSet(1 .. n)
        BY <2>1, FS_Interval
    <2>3. ASSUME NEW k \in T, k <= n
          PROVE  1 .. k \subseteq 1 .. n
        <3>1. k \in Nat
            OBVIOUS
        <3> QED
            BY <2>1, <2>3, <3>1
    <2>4. 1 .. n \in C
        BY <1>1, <2>1
    <2> QED
        BY <2>2, <2>3, <2>4
<1>3. PICK m \in C : \A t \in C : t \subseteq m => t = m
    <2>1. PICK S : S = 1 .. n
        OBVIOUS
    <2>2. IsFiniteSet(S) /\ C \subseteq SUBSET S /\ C # {}
        BY <1>2, <2>1
    <2> HIDE DEF C
    <2> QED
        BY <2>2, LeastSubset
<1>4. PICK k \in T : k <= n /\ m = 1 .. k
    OBVIOUS
<1>5. ASSUME NEW j \in T, j < k
      PROVE  FALSE
    <2>1. (1 .. j) \in C /\ 1 .. j \subseteq m
        BY <1>1, <1>4, <1>5
    <2>2. 1 .. j = 1 .. k
        BY <1>3, <1>4, <2>1
    <2>3. k \in 1 .. k /\ k \notin 1 .. j
        BY <1>4, <1>5
    <2> QED
        BY <2>2, <2>3
<1>6. \A j \in T : k <= j
    BY <1>4, <1>5
<1> QED
    BY <1>4, <1>6

LEMMA WithoutLast ==
    ASSUME NEW n \in Nat
    PROVE  (1 .. n + 1) \ {n + 1} = 1 .. n
OBVIOUS

\* A sum over an interval is the last term and the rest.
LEMMA SumOfLast ==
    ASSUME NEW n \in Nat, NEW f, \A i \in 1 .. n + 1 : f[i] \in Int
    PROVE  /\ SumFunctionOnSet(f, 1 .. n) \in Int
           /\ SumFunctionOnSet(f, 1 .. n + 1) = f[n + 1] + SumFunctionOnSet(f, 1 .. n)
<1>1. PICK S : S = 1 .. n + 1
    OBVIOUS
<1>2. PICK y : y = n + 1
    OBVIOUS
<1>3. IsFiniteSet(S) /\ y \in S /\ \A x \in S : f[x] \in Int
    BY <1>1, <1>2, FS_Interval
<1>4. S \ {y} = 1 .. n
    BY <1>1, <1>2, WithoutLast
<1>5. /\ IsFiniteSet(S \ {y})
      /\ SumFunctionOnSet(f, S) = f[y] + SumFunctionOnSet(f, S \ {y})
    BY <1>3, SumSplits
<1>6. SumFunctionOnSet(f, S \ {y}) \in Int
    BY <1>3, <1>5, SumIsInt
<1> QED
    BY <1>1, <1>2, <1>4, <1>5, <1>6

\* The sum over a sequence that goes on with another is that of the first and that of the second.
LEMMA SumOfBoth ==
    ASSUME NEW m \in Nat, NEW n \in Nat, NEW f, NEW g, NEW h,
           \A i \in 1 .. m : f[i] \in Int /\ h[i] = f[i],
           \A i \in 1 .. n : g[i] \in Int /\ h[m + i] = g[i]
    PROVE  SumFunctionOnSet(h, 1 .. m + n) = SumFunctionOnSet(f, 1 .. m) + SumFunctionOnSet(g, 1 .. n)
<1> DEFINE F == SumFunctionOnSet(f, 1 .. m)
           G(k) == SumFunctionOnSet(g, 1 .. k)
           H(k) == SumFunctionOnSet(h, 1 .. m + k)
           T == {k \in 0 .. n : H(k) # F + G(k)}
<1>1. SUFFICES ASSUME T # {} PROVE FALSE
    OBVIOUS
<1>2. PICK k \in T : \A j \in T : k <= j
    <2>1. T \subseteq Nat
        OBVIOUS
    <2> HIDE DEF T
    <2> QED
        BY <1>1, <2>1, LeastNumber
<1>3. \A j \in Nat : IsFiniteSet(1 .. j)
    BY FS_Interval
<1>4. F \in Int
    BY <1>3, SumIsInt
<1>5. k # 0
    <2>1. SumFunctionOnSet(g, {}) = 0
        BY SumEmpty
    <2>2. 1 .. 0 = {} /\ m + 0 = m
        OBVIOUS
    <2>3. SumFunctionOnSet(h, 1 .. m) = F
        BY <1>3, SumSame
    <2>4. G(0) = 0 /\ H(0) = F
        BY <2>1, <2>2, <2>3
    <2> QED
        BY <1>4, <2>4
<1>6. PICK j \in 0 .. n : k = j + 1
    <2>1. k \in 0 .. n /\ k - 1 \in 0 .. n /\ k = (k - 1) + 1
        BY <1>5
    <2> QED
        BY <2>1
<1>7. j \in Nat /\ m + j \in Nat /\ j + 1 \in 1 .. n /\ m + (j + 1) = (m + j) + 1
    BY <1>6
<1>8. H(j) = F + G(j)
    <2>1. j \notin T
        <3> HIDE DEF T
        <3> QED
            BY <1>2, <1>6, <1>7
    <2> QED
        BY <1>6, <2>1
<1>9. \A i \in 1 .. (m + j) + 1 : h[i] \in Int
    <2> SUFFICES ASSUME NEW i \in 1 .. (m + j) + 1 PROVE h[i] \in Int
        OBVIOUS
    <2>1. CASE i <= m
        BY <2>1
    <2>2. CASE i > m
        <3>1. i - m \in 1 .. n /\ m + (i - m) = i
            BY <1>7, <2>2
        <3> QED
            BY <3>1
    <2> QED
        BY <2>1, <2>2
<1>10. H(j + 1) = h[m + (j + 1)] + H(j)
    BY <1>7, <1>9, SumOfLast
<1>11. G(j) \in Int /\ G(j + 1) = g[j + 1] + G(j)
    <2>1. \A i \in 1 .. j + 1 : g[i] \in Int
        BY <1>7
    <2> QED
        BY <1>7, <2>1, SumOfLast
<1>12. h[m + (j + 1)] = g[j + 1] /\ g[j + 1] \in Int
    BY <1>7
<1>13. H(j + 1) = F + G(j + 1)
    <2> HIDE DEF F, G, H
    <2> QED
        BY <1>4, <1>8, <1>10, <1>11, <1>12
<1> QED
    BY <1>2, <1>6, <1>13

\* What is lost when each term is rounded down to a multiple of d.
LEMMA SumOfRounded ==
    ASSUME NEW f, NEW g, NEW S, IsFiniteSet(S), NEW d \in Nat \ {0},
           \A x \in S : f[x] \in Int /\ g[x] \in Int /\ d * g[x] <= f[x] /\ f[x] < d * g[x] + d
    PROVE  /\ d * SumFunctionOnSet(g, S) <= SumFunctionOnSet(f, S)
           /\ SumFunctionOnSet(f, S) <= d * SumFunctionOnSet(g, S) + (d - 1) * Cardinality(S)
<1> DEFINE F(s) == SumFunctionOnSet(f, s)
           G(s) == SumFunctionOnSet(g, s)
           ok(s) == d * G(s) <= F(s) /\ F(s) <= d * G(s) + (d - 1) * Cardinality(s)
           T == {s \in SUBSET S : ~ok(s)}
<1>1. SUFFICES ASSUME T # {} PROVE FALSE
    OBVIOUS
<1>2. PICK m \in T : \A t \in T : t \subseteq m => t = m
    <2>1. T \subseteq SUBSET S
        OBVIOUS
    <2> HIDE DEF T
    <2> QED
        BY <1>1, <2>1, LeastSubset
<1>3. m # {} /\ IsFiniteSet(m)
    <2>1. m \in SUBSET S /\ IsFiniteSet(m)
        BY FS_Subset
    <2>2. F({}) = 0 /\ G({}) = 0 /\ Cardinality({}) = 0
        BY SumEmpty, FS_EmptySet
    <2>3. ok({})
        <3> HIDE DEF F, G
        <3> QED
            BY <2>2
    <2> QED
        BY <2>1, <2>3
<1> DEFINE p == Pick(m)
           r == m \ {p}
<1>4. p \in m /\ F(m) = f[p] + F(r) /\ G(m) = g[p] + G(r)
    BY <1>3, SumPicks
<1>5. ok(r)
    BY <1>2, <1>4
<1>6. /\ IsFiniteSet(r) /\ Cardinality(r) = Cardinality(m) - 1
      /\ Cardinality(m) \in Nat /\ Cardinality(r) \in Nat
    <2>1. IsFiniteSet(r) /\ Cardinality(r) = Cardinality(m) - 1
        BY <1>3, <1>4, FS_RemoveElement
    <2> HIDE DEF r
    <2> QED
        BY <1>3, <2>1, FS_CardinalityType
<1>7. F(r) \in Int /\ G(r) \in Int
    <2>1. \A x \in r : f[x] \in Int /\ g[x] \in Int
        OBVIOUS
    <2> HIDE DEF r
    <2> QED
        BY <1>6, <2>1, SumIsInt
<1>8. f[p] \in Int /\ g[p] \in Int /\ d * g[p] <= f[p] /\ f[p] < d * g[p] + d
    BY <1>4
<1>9. ok(m)
    <2>1. PICK a \in Int, b \in Int, u \in Int, v \in Int, n \in Nat :
              a = F(r) /\ b = G(r) /\ u = f[p] /\ v = g[p] /\ n = Cardinality(r)
        BY <1>6, <1>7, <1>8
    <2>2. F(m) = u + a /\ G(m) = v + b /\ Cardinality(m) = n + 1
        <3> HIDE DEF F, G, r, p
        <3> QED
            BY <1>4, <1>6, <2>1
    <2>3. d * b <= a /\ a <= d * b + (d - 1) * n /\ d * v <= u /\ u < d * v + d
        <3> HIDE DEF F, G, r, p
        <3> QED
            BY <1>5, <1>8, <2>1
    <2>4. d * (v + b) = d * v + d * b /\ (d - 1) * (n + 1) = (d - 1) * n + (d - 1)
        OBVIOUS
    <2>5. PICK db \in Int, dv \in Int, dn \in Int : db = d * b /\ dv = d * v /\ dn = (d - 1) * n
        OBVIOUS
    <2>6. /\ dv + db <= u + a
          /\ u + a <= dv + db + (dn + (d - 1))
        BY <2>3, <2>5
    <2> HIDE DEF F, G
    <2> QED
        BY <2>2, <2>4, <2>5, <2>6
<1> QED
    BY <1>2, <1>9

=============================================================================

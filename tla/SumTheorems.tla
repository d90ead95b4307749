------------------------------ MODULE SumTheorems ------------------------------
(***************************************************************************)
(* Sums over finite sets, which SumFunctionOnSet of Functions defines by   *)
(* recursion over the set.  The induction theorems of the library take an  *)
(* operator, which no prover here can give them; SetOfNaturals says the    *)
(* same of a set of numbers, and follows from the theorem on least         *)
(* elements, which takes a set.                                            *)
(***************************************************************************)
EXTENDS Functions, FiniteSetTheorems, TLAPS

LEMMA LeastNatural ==
  ASSUME NEW T \in SUBSET Nat, T # {}
  PROVE  \E n \in T : \A m \in T : n <= m
<1> DEFINE R == OpToRel(<, Nat)
<1>1. \A m, n \in Nat : m < n => <<m, n>> \in R
  BY DEF OpToRel
<1>2. IsWellFoundedOn(R, Nat)
  BY NatLessThanWellFounded, Zenon
<1> HIDE DEF R
<1>3. PICK n \in T : \A m \in T : <<m, n>> \notin R
  BY <1>2, WFMin, Zenon
<1>4. ASSUME NEW m \in T
      PROVE  n <= m
  <2>1. m \in Nat /\ n \in Nat
    OBVIOUS
  <2>2. ~ (m < n)
    BY <1>1, <1>3, <2>1, Zenon
  <2> QED BY <2>1, <2>2
<1> QED BY <1>4

LEMMA SetOfNaturals ==
  ASSUME NEW G, 0 \in G, \A n \in Nat : n \in G => n + 1 \in G
  PROVE  Nat \subseteq G
<1> SUFFICES ASSUME Nat \ G # {}
             PROVE  FALSE
  OBVIOUS
<1>1. PICK n \in Nat \ G : \A m \in Nat \ G : n <= m
  BY LeastNatural
<1>2. n # 0 /\ n - 1 \in Nat /\ n - 1 \in G
  BY <1>1
<1> QED BY <1>1, <1>2

-----------------------------------------------------------------------------
(* The recursion.                                                          *)

Some(s) == CHOOSE x \in s : TRUE

Rest(s) == s \ {Some(s)}

\* The value at s of a sum of w, given the values f of smaller sums.
SumStep(w, f, s) == IF s = {} THEN 0 ELSE w[Some(s)] + f[Rest(s)]

Recursion(w, S, f) == f = [s \in SUBSET S |-> SumStep(w, f, s)]

\* SUBSET S up to sets of n elements.
Below(S, n) == {s \in SUBSET S : Cardinality(s) < n}

LEMMA SumByRecursion ==
  ASSUME NEW w, NEW S
  PROVE  SumFunctionOnSet(w, S) = (CHOOSE f : Recursion(w, S, f))[S]
BY DEF SumFunctionOnSet, FoldFunctionOnSet, MapThenFoldSet, Recursion, SumStep,
       Some, Rest

LEMMA RestFacts ==
  ASSUME NEW S, IsFiniteSet(S), NEW s \in SUBSET S
  PROVE  /\ IsFiniteSet(s) /\ Cardinality(s) \in Nat
         /\ s # {} => /\ Some(s) \in s
                      /\ Rest(s) \in SUBSET S
                      /\ Cardinality(Rest(s)) = Cardinality(s) - 1
<1>1. IsFiniteSet(s) /\ Cardinality(s) \in Nat
  BY FS_Subset, FS_CardinalityType
<1>2. ASSUME s # {}
      PROVE  Some(s) \in s
  BY <1>2 DEF Some
<1>3. ASSUME s # {}
      PROVE  Cardinality(Rest(s)) = Cardinality(s) - 1
  BY <1>1, <1>2, <1>3, FS_RemoveElement DEF Rest
<1> QED BY <1>1, <1>2, <1>3 DEF Rest

LEMMA BelowAll ==
  ASSUME NEW S, IsFiniteSet(S)
  PROVE  /\ Cardinality(S) + 1 \in Nat
         /\ Below(S, Cardinality(S) + 1) = SUBSET S
         /\ Below(S, 0) = {}
<1>1. Cardinality(S) \in Nat
  BY FS_CardinalityType
<1>2. \A s \in SUBSET S : Cardinality(s) \in Nat /\ Cardinality(s) <= Cardinality(S)
  BY RestFacts, FS_Subset
<1> QED BY <1>1, <1>2 DEF Below

LEMMA BelowNext ==
  ASSUME NEW S, IsFiniteSet(S), NEW n \in Nat, NEW s \in Below(S, n + 1)
  PROVE  s \in SUBSET S /\ (s # {} => Some(s) \in S /\ Rest(s) \in Below(S, n))
BY RestFacts DEF Below

LEMMA BelowWithout ==
  ASSUME NEW S, IsFiniteSet(S), NEW n \in Nat, NEW s \in Below(S, n + 1), NEW x \in s
  PROVE  s \ {x} \in Below(S, n)
<1>1. /\ s \in SUBSET S /\ IsFiniteSet(s) /\ Cardinality(s) \in Nat
      /\ Cardinality(s) < n + 1
  BY RestFacts DEF Below
<1>2. Cardinality(s \ {x}) = Cardinality(s) - 1
  BY <1>1, FS_RemoveElement
<1> QED BY <1>1, <1>2 DEF Below

\* There is a function as the recursion wants it: for the sets of less than n
\* elements for every n.
LEMMA RecursionExists ==
  ASSUME NEW S, IsFiniteSet(S), NEW w, \A x \in S : w[x] \in Nat
  PROVE  \E f \in [SUBSET S -> Nat] : Recursion(w, S, f)
<1> DEFINE G == {n \in Nat : \E f \in [SUBSET S -> Nat] :
                   \A s \in Below(S, n) : f[s] = SumStep(w, f, s)}
<1>1. 0 \in G
  <2>1. [s \in SUBSET S |-> 0] \in [SUBSET S -> Nat]
    OBVIOUS
  <2> QED BY <2>1, BelowAll
<1>2. ASSUME NEW n \in Nat, n \in G
      PROVE  n + 1 \in G
  <2>1. PICK f \in [SUBSET S -> Nat] : \A s \in Below(S, n) : f[s] = SumStep(w, f, s)
    BY <1>2
  <2> DEFINE g == [s \in SUBSET S |-> IF s \in Below(S, n + 1) THEN SumStep(w, f, s)
                                      ELSE 0]
  <2>2. \A s \in Below(S, n + 1) : SumStep(w, f, s) \in Nat
    BY BelowNext DEF SumStep, Below
  <2>3. g \in [SUBSET S -> Nat]
    BY <2>2
  <2>4. \A s \in Below(S, n) : s \in Below(S, n + 1)
    BY RestFacts DEF Below
  <2>5. \A s \in Below(S, n) : s \in SUBSET S /\ g[s] = f[s]
    BY <2>1, <2>4 DEF Below
  <2>6. ASSUME NEW s \in Below(S, n + 1)
        PROVE  g[s] = SumStep(w, g, s)
    <3>1. g[s] = SumStep(w, f, s)
      BY DEF Below
    <3>2. s # {} => g[Rest(s)] = f[Rest(s)]
      BY <2>5, BelowNext
    <3> HIDE DEF g
    <3> QED BY <3>1, <3>2 DEF SumStep
  <2> HIDE DEF g
  <2> QED BY <2>3, <2>6
<1>3. Cardinality(S) + 1 \in G
  <2> HIDE DEF G
  <2> QED BY <1>1, <1>2, SetOfNaturals, BelowAll
<1>4. PICK f \in [SUBSET S -> Nat] : \A s \in SUBSET S : f[s] = SumStep(w, f, s)
  BY <1>3, BelowAll
<1>5. f = [s \in SUBSET S |-> f[s]]
  OBVIOUS
<1> QED BY <1>4, <1>5 DEF Recursion

\* There is one only, also on the subsets of a larger set.
LEMMA RecursionIsUnique ==
  ASSUME NEW T, IsFiniteSet(T), NEW S \in SUBSET T, NEW w,
         NEW f, NEW g, Recursion(w, S, f), Recursion(w, T, g)
  PROVE  \A s \in SUBSET S : f[s] = g[s]
<1> DEFINE G == {n \in Nat : \A s \in Below(S, n) : f[s] = g[s]}
<1>0. IsFiniteSet(S)
  BY FS_Subset
<1>1. 0 \in G
  BY <1>0, BelowAll
<1>2. ASSUME NEW n \in Nat, n \in G
      PROVE  n + 1 \in G
  <2> SUFFICES ASSUME NEW s \in Below(S, n + 1)
               PROVE  f[s] = g[s]
    OBVIOUS
  <2>1. s \in SUBSET S /\ (s # {} => Rest(s) \in Below(S, n))
    BY <1>0, BelowNext
  <2>2. f[s] = SumStep(w, f, s) /\ g[s] = SumStep(w, g, s)
    BY <2>1 DEF Recursion
  <2>3. s # {} => f[Rest(s)] = g[Rest(s)]
    BY <1>2, <2>1
  <2> QED BY <2>2, <2>3 DEF SumStep
<1>3. Cardinality(S) + 1 \in G
  <2> HIDE DEF G
  <2> QED BY <1>0, <1>1, <1>2, SetOfNaturals, BelowAll
<1> QED BY <1>0, <1>3, BelowAll

-----------------------------------------------------------------------------
(* The sum.                                                                *)

LEMMA SumFacts ==
  ASSUME NEW S, IsFiniteSet(S), NEW w, \A x \in S : w[x] \in Nat
  PROVE  \E f \in [SUBSET S -> Nat] :
           /\ \A s \in SUBSET S : f[s] = SumFunctionOnSet(w, s)
           /\ \A s \in SUBSET S : f[s] = SumStep(w, f, s)
<1> DEFINE F(s) == CHOOSE f : Recursion(w, s, f)
<1>1. \A s \in SUBSET S : Recursion(w, s, F(s))
  <2> TAKE s \in SUBSET S
  <2>1. \E f : Recursion(w, s, f)
    BY RecursionExists, FS_Subset
  <2> QED BY <2>1, Zenon
<1>2. PICK f \in [SUBSET S -> Nat] : Recursion(w, S, f)
  BY RecursionExists
<1>3. \A s \in SUBSET S : SumFunctionOnSet(w, s) = F(s)[s]
  BY SumByRecursion
<1> HIDE DEF F
<1>4. ASSUME NEW s \in SUBSET S
      PROVE  f[s] = SumFunctionOnSet(w, s)
  <2>1. Recursion(w, s, F(s)) /\ SumFunctionOnSet(w, s) = F(s)[s]
    BY <1>1, <1>3
  <2>2. \A t \in SUBSET s : F(s)[t] = f[t]
    BY <1>2, <2>1, RecursionIsUnique
  <2>3. s \in SUBSET s
    OBVIOUS
  <2> QED BY <2>1, <2>2, <2>3
<1>5. \A s \in SUBSET S : f[s] = SumStep(w, f, s)
  BY <1>2 DEF Recursion
<1> QED BY <1>4, <1>5

LEMMA SumType ==
  ASSUME NEW S, IsFiniteSet(S), NEW w, \A x \in S : w[x] \in Nat
  PROVE  SumFunctionOnSet(w, S) \in Nat
<1>1. PICK f \in [SUBSET S -> Nat] :
        /\ \A s \in SUBSET S : f[s] = SumFunctionOnSet(w, s)
        /\ \A s \in SUBSET S : f[s] = SumStep(w, f, s)
  BY SumFacts
<1>2. S \in SUBSET S
  OBVIOUS
<1> QED BY <1>1, <1>2

\* Which values a sum has outside its set does not matter.
LEMMA SumOfSame ==
  ASSUME NEW S, NEW v, NEW w, \A x \in S : v[x] = w[x]
  PROVE  SumFunctionOnSet(v, S) = SumFunctionOnSet(w, S)
<1>1. \A f : \A s \in SUBSET S : SumStep(v, f, s) = SumStep(w, f, s)
  BY DEF SumStep, Some
<1>2. \A f : [s \in SUBSET S |-> SumStep(v, f, s)] = [s \in SUBSET S |-> SumStep(w, f, s)]
  BY <1>1
<1>3. \A f : Recursion(v, S, f) <=> Recursion(w, S, f)
  BY <1>2 DEF Recursion
<1>4. (CHOOSE f : Recursion(v, S, f)) = (CHOOSE f : Recursion(w, S, f))
  BY <1>3, Zenon
<1> QED BY <1>4, SumByRecursion

\* Any element may be taken out first.
LEMMA SumWithout ==
  ASSUME NEW S, IsFiniteSet(S), NEW w, \A x \in S : w[x] \in Nat, NEW y \in S
  PROVE  SumFunctionOnSet(w, S) = w[y] + SumFunctionOnSet(w, S \ {y})
<1>1. PICK f \in [SUBSET S -> Nat] :
        /\ \A s \in SUBSET S : f[s] = SumFunctionOnSet(w, s)
        /\ \A s \in SUBSET S : f[s] = SumStep(w, f, s)
  BY SumFacts
<1> DEFINE Any(s) == \A x \in s : f[s] = w[x] + f[s \ {x}]
           G == {n \in Nat : \A s \in Below(S, n) : Any(s)}
<1>2. 0 \in G
  BY BelowAll
<1>3. ASSUME NEW n \in Nat, n \in G
      PROVE  n + 1 \in G
  <2> SUFFICES ASSUME NEW s \in Below(S, n + 1)
               PROVE  Any(s)
    <3> HIDE DEF Any
    <3> QED OBVIOUS
  <2> SUFFICES ASSUME NEW x \in s
               PROVE  f[s] = w[x] + f[s \ {x}]
    OBVIOUS
  <2> DEFINE z == Some(s)
  <2>1. s \in SUBSET S /\ z \in s /\ s \ {z} \in Below(S, n)
    BY BelowNext, RestFacts DEF Below, Rest
  <2>2. f[s] = w[z] + f[s \ {z}]
    BY <1>1, <2>1 DEF SumStep, Rest
  <2>3. CASE x # z
    <3> DEFINE a == f[(s \ {z}) \ {x}]
    <3>1. s \ {x} \in Below(S, n)
      BY BelowWithout
    <3>2. f[s \ {z}] = w[x] + f[(s \ {z}) \ {x}]
      BY <1>3, <2>1, <2>3
    <3>3. f[s \ {x}] = w[z] + f[(s \ {x}) \ {z}]
      BY <1>3, <2>1, <2>3, <3>1
    <3>4. (s \ {z}) \ {x} = (s \ {x}) \ {z} /\ (s \ {z}) \ {x} \in SUBSET S
      BY <2>1
    <3>5. w[x] \in Nat /\ w[z] \in Nat /\ a \in Nat
      BY <2>1, <3>4
    <3>6. f[s] = w[z] + (w[x] + a)
      BY <2>2, <3>2
    <3>7. f[s \ {x}] = w[z] + a
      BY <3>3, <3>4
    <3> HIDE DEF z, a
    <3> QED BY <3>5, <3>6, <3>7
  <2> QED BY <2>2, <2>3
<1>4. Cardinality(S) + 1 \in G
  <2> HIDE DEF G
  <2> QED BY <1>2, <1>3, SetOfNaturals, BelowAll
<1>5. f[S] = w[y] + f[S \ {y}]
  BY <1>4, BelowAll
<1> QED BY <1>1, <1>5

\* A sum of naturals over a larger set is no smaller.
LEMMA SumGrows ==
  ASSUME NEW T, IsFiniteSet(T), NEW w, \A x \in T : w[x] \in Nat, NEW S \in SUBSET T
  PROVE  SumFunctionOnSet(w, S) <= SumFunctionOnSet(w, T)
<1> DEFINE G == {n \in Nat : \A s \in Below(T, n) : S \subseteq s =>
                   SumFunctionOnSet(w, S) <= SumFunctionOnSet(w, s)}
<1>1. 0 \in G
  BY BelowAll
<1>2. ASSUME NEW n \in Nat, n \in G
      PROVE  n + 1 \in G
  <2> SUFFICES ASSUME NEW s \in Below(T, n + 1), S \subseteq s, S # s
               PROVE  SumFunctionOnSet(w, S) <= SumFunctionOnSet(w, s)
    <3>1. SumFunctionOnSet(w, S) \in Nat
      BY SumType, FS_Subset
    <3> QED BY <3>1
  <2>1. PICK x \in s : x \notin S
    OBVIOUS
  <2>2. s \in SUBSET T /\ IsFiniteSet(s)
    BY RestFacts DEF Below
  <2>3. s \ {x} \in Below(T, n) /\ S \subseteq s \ {x}
    BY <2>1, BelowWithout
  <2>4. SumFunctionOnSet(w, S) <= SumFunctionOnSet(w, s \ {x})
    BY <1>2, <2>3
  <2>5. SumFunctionOnSet(w, s) = w[x] + SumFunctionOnSet(w, s \ {x})
    BY <2>1, <2>2, SumWithout
  <2>6. /\ SumFunctionOnSet(w, S) \in Nat /\ w[x] \in Nat
        /\ SumFunctionOnSet(w, s \ {x}) \in Nat
    BY <2>2, SumType, FS_Subset
  <2> QED BY <2>4, <2>5, <2>6
<1>3. Cardinality(T) + 1 \in G
  <2> HIDE DEF G
  <2> QED BY <1>1, <1>2, SetOfNaturals, BelowAll
<1> QED BY <1>3, BelowAll
=============================================================================

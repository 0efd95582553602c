---------------------------- MODULE CommonLemmas ----------------------------
(***************************************************************************)
(* Facts about numbers and finite sets that the proofs of several          *)
(* components rest on.                                                     *)
(***************************************************************************)
EXTENDS Integers, FiniteSets, FiniteSetsExt, Functions, FiniteSetTheorems, WellFoundedInduction, TLAPS

(***************************************************************************)
(* Remainders: ring indices, colours of pages and times in a frame.        *)
(***************************************************************************)

\* Division with remainder, the fact behind all index arithmetic of the kernel.
LEMMA DivMod ==
  ASSUME NEW q \in Nat \ {0}, NEW x \in Int
  PROVE  /\ x \div q \in Int
         /\ x % q \in 0 .. (q - 1)
         /\ x = q * (x \div q) + (x % q)
BY Z3

\* A quotient above 1 or below 0 takes a multiple of q out of -q .. 2*q-1.
LEMMA MultipleBounds ==
  ASSUME NEW q \in Nat \ {0}, NEW d \in Int
  PROVE  /\ d >= 2 => q * d >= 2 * q
         /\ d <= -1 => q * d <= -q
         /\ d <= -2 => q * d <= -(2 * q)
         /\ d >= 1 => q * d >= q
BY Z3

\* (i + k) % 16 of the code wraps around at most once.
LEMMA ModSum ==
  ASSUME NEW q \in Nat \ {0}, NEW a \in 0 .. (q - 1), NEW k \in 0 .. q
  PROVE  (a + k) % q = IF a + k < q THEN a + k ELSE a + k - q
<1> DEFINE x == a + k
           d == x \div q
<1>1. /\ d \in Int
      /\ x % q \in 0 .. (q - 1)
      /\ x = q * d + (x % q)
  BY DivMod
<1>2. d = 0 \/ d = 1
  BY <1>1, MultipleBounds
<1> QED BY <1>1, <1>2

\* The distance of slot i behind slot h.
LEMMA ModDifference ==
  ASSUME NEW q \in Nat \ {0}, NEW i \in 0 .. (q - 1), NEW h \in 0 .. (q - 1)
  PROVE  (i - h) % q = IF i >= h THEN i - h ELSE i - h + q
<1> DEFINE x == i - h
           d == x \div q
<1>1. /\ d \in Int
      /\ x % q \in 0 .. (q - 1)
      /\ x = q * d + (x % q)
  BY DivMod
<1>2. d = 0 \/ d = -1
  BY <1>1, MultipleBounds
<1> QED BY <1>1, <1>2

\* A number below the modulus is its own remainder.
LEMMA SmallMod ==
  ASSUME NEW q \in Nat \ {0}, NEW i \in 0 .. (q - 1)
  PROVE  i % q = i
<1>1. 0 \in 0 .. (q - 1) /\ i - 0 = i
  OBVIOUS
<1>2. (i - 0) % q = i - 0
  BY <1>1, ModDifference
<1> QED BY <1>1, <1>2

(***************************************************************************)
(* Least elements: the tables are searched from the front.                 *)
(***************************************************************************)

\* A non-empty set of numbers has a least element.
LEMMA LeastNumber ==
  ASSUME NEW T \in SUBSET Nat, T # {}
  PROVE  \E x \in T : \A y \in T : x <= y
<1> DEFINE R == OpToRel(<, Nat)
<1>1. PICK x \in T : \A y \in T : ~(<<y, x>> \in R)
  <2>1. IsWellFoundedOn(R, Nat)
    BY NatLessThanWellFounded, Zenon
  <2> HIDE DEF R
  <2> QED BY <2>1, WFMin, Zenon
<1>2. ASSUME NEW y \in T PROVE x <= y
  <2>1. <<y, x>> \in Nat \X Nat => ~(y < x)
    BY <1>1 DEF OpToRel
  <2> QED BY <2>1
<1> QED BY <1>2

\* The first free entry that a search of the kernel finds is one of the free
\* entries.
LEMMA MinIsMember ==
  ASSUME NEW T \in SUBSET Nat, T # {}
  PROVE  Min(T) \in T /\ \A y \in T : Min(T) <= y
BY LeastNumber, Zenon DEF Min

\* A set of numbers below a bound is finite.
LEMMA BelowIsFinite ==
  ASSUME NEW n \in Nat, NEW T \in SUBSET (0 .. (n - 1))
  PROVE  IsFiniteSet(T) /\ Cardinality(T) \in 0 .. n
<1>1. IsFiniteSet(0 .. (n - 1)) /\ Cardinality(0 .. (n - 1)) = n
  <2>1. 0 \in Int /\ n - 1 \in Int
    OBVIOUS
  <2>2. /\ IsFiniteSet(0 .. (n - 1))
        /\ Cardinality(0 .. (n - 1)) = IF 0 > n - 1 THEN 0 ELSE n - 1 - 0 + 1
    BY <2>1, FS_Interval
  <2> QED BY <2>2
<1>2. IsFiniteSet(T) /\ Cardinality(T) <= n
  BY <1>1, FS_Subset, ZenonT(60)
<1>3. Cardinality(T) \in Nat
  BY <1>2, FS_CardinalityType
<1> QED BY <1>2, <1>3

\* A set without two different members has at most one.
LEMMA AtMostOne ==
  ASSUME NEW S, \A x, y \in S : x = y
  PROVE  IsFiniteSet(S) /\ Cardinality(S) <= 1
<1>1. CASE S = {}
  BY <1>1, FS_EmptySet
<1>2. CASE S # {}
  <2>1. PICK x : S = {x}
    BY <1>2
  <2>2. IsFiniteSet({x}) /\ Cardinality({x}) = 1
    BY FS_Singleton
  <2> QED BY <2>1, <2>2
<1> QED BY <1>1, <1>2
(***************************************************************************)
(* Sums over finite sets.                                                  *)
(***************************************************************************)

\* A non-empty family of subsets of a finite set has a smallest member.
LEMMA SmallestSet ==
  ASSUME NEW S, IsFiniteSet(S), NEW B \in SUBSET (SUBSET S), B # {}
  PROVE  \E s \in B : \A t \in B : Cardinality(s) <= Cardinality(t)
<1> DEFINE C == {Cardinality(s) : s \in B}
<1>1. \A s \in B : Cardinality(s) \in Nat
  BY FS_Subset, FS_CardinalityType
<1>2. C \in SUBSET Nat /\ C # {}
  BY <1>1
<1>3. PICK n \in C : \A m \in C : n <= m
  BY <1>2, LeastNumber, Zenon
<1> QED BY <1>3

AnyOf(s) == CHOOSE x \in s : TRUE

\* What the recursion of SumFunctionOnSet gives for s.
SumStep(f, G, s) == IF s = {} THEN 0 ELSE f[AnyOf(s)] + G[s \ {AnyOf(s)}]

\* The recursion has a solution.
LEMMA SumSolution ==
  ASSUME NEW f, NEW S, IsFiniteSet(S)
  PROVE  \E G : G = [s \in SUBSET S |-> SumStep(f, G, s)]
<1> DEFINE D(n) == {s \in SUBSET S : Cardinality(s) <= n}
           Good(n) == \E G : G = [s \in D(n) |-> SumStep(f, G, s)]
           Bad == {n \in Nat : ~Good(n)}
<1>0. \A s \in SUBSET S : IsFiniteSet(s) /\ Cardinality(s) \in Nat
  BY FS_Subset, FS_CardinalityType
<1>1. \A s \in SUBSET S : s # {} =>
        /\ AnyOf(s) \in s /\ s \ {AnyOf(s)} \in SUBSET S
        /\ Cardinality(s \ {AnyOf(s)}) = Cardinality(s) - 1
  BY <1>0, FS_RemoveElement, Zenon DEF AnyOf
<1>2. \A s \in SUBSET S : Cardinality(s) = 0 <=> s = {}
  BY <1>0, FS_EmptySet
<1>3. Good(0)
  <2>1. \A s \in D(0) : s = {}
    BY <1>0, <1>2
  <2>2. [s \in D(0) |-> 0] = [s \in D(0) |-> SumStep(f, [r \in D(0) |-> 0], s)]
    BY <2>1 DEF SumStep
  <2> QED BY <2>2, Zenon
<1>4. ASSUME NEW n \in Nat, Good(n) PROVE Good(n + 1)
  <2>1. PICK G : G = [s \in D(n) |-> SumStep(f, G, s)]
    BY <1>4, Zenon
  <2> DEFINE H == [s \in D(n + 1) |-> IF s \in D(n) THEN G[s] ELSE SumStep(f, G, s)]
  <2>2. ASSUME NEW s \in D(n + 1) PROVE H[s] = SumStep(f, H, s)
    <3>1. CASE s = {}
      <4>1. s \in D(n)
        BY <1>2, <3>1
      <4>2. H[s] = SumStep(f, G, s)
        BY <2>1, <4>1
      <4> QED BY <3>1, <4>2 DEF SumStep
    <3>2. CASE s # {}
      <4>1. s \ {AnyOf(s)} \in D(n) /\ s \ {AnyOf(s)} \in D(n + 1)
        BY <1>0, <1>1, <3>2
      <4>2. H[s \ {AnyOf(s)}] = G[s \ {AnyOf(s)}]
        BY <4>1
      <4>3. SumStep(f, H, s) = SumStep(f, G, s)
        BY <3>2, <4>2 DEF SumStep
      <4>4. H[s] = SumStep(f, G, s)
        BY <2>1
      <4> QED BY <4>3, <4>4
    <3> QED BY <3>1, <3>2
  <2>3. H = [s \in D(n + 1) |-> SumStep(f, H, s)]
    BY <2>2
  <2> QED BY <2>3, Zenon
<1> HIDE DEF Good
<1>5. ASSUME Bad # {} PROVE FALSE
  <2>1. PICK n \in Bad : \A m \in Bad : n <= m
    BY <1>5, LeastNumber, Zenon
  <2>2. n \in Nat /\ ~Good(n)
    OBVIOUS
  <2>3. n # 0
    BY <1>3, <2>2
  <2>4. n - 1 \in Nat /\ ~(n <= n - 1) /\ (n - 1) + 1 = n
    BY <2>2, <2>3
  <2>5. Good(n - 1)
    BY <2>1, <2>4
  <2>6. Good((n - 1) + 1)
    BY <1>4, <2>4, <2>5
  <2> QED BY <2>2, <2>4, <2>6
<1>6. Good(Cardinality(S))
  BY <1>0, <1>5
<1>7. D(Cardinality(S)) = SUBSET S
  BY FS_Subset
<1> QED BY <1>6, <1>7, Zenon DEF Good

\* The sum is the value of such a solution.
LEMMA SumByRecursion ==
  ASSUME NEW f, NEW S, IsFiniteSet(S)
  PROVE  \E G : G = [s \in SUBSET S |-> SumStep(f, G, s)] /\ SumFunctionOnSet(f, S) = G[S]
<1> DEFINE G == CHOOSE g : g = [s \in SUBSET S |-> SumStep(f, g, s)]
<1>1. G = [s \in SUBSET S |-> SumStep(f, G, s)]
  BY SumSolution
<1>2. SumFunctionOnSet(f, S) = G[S]
  BY DEF SumFunctionOnSet, FoldFunctionOnSet, MapThenFoldSet, SumStep, AnyOf
<1> QED BY <1>1, <1>2, Zenon

\* G satisfies the recursion that defines the sum on the subsets of S.
Solves(G, f, S) == \A s \in SUBSET S : G[s] = SumStep(f, G, s)

\* Solutions for functions that agree on a set agree on it.
LEMMA SolutionsAgree ==
  ASSUME NEW f, NEW g, NEW S, NEW S2, NEW G, NEW H, NEW T, T \subseteq S, T \subseteq S2, IsFiniteSet(T),
         Solves(G, f, S), Solves(H, g, S2), \A x \in T : f[x] = g[x]
  PROVE  G[T] = H[T]
<1> DEFINE Bad == {s \in SUBSET T : G[s] # H[s]}
<1> SUFFICES ASSUME Bad # {} PROVE FALSE
  OBVIOUS
<1>1. PICK s \in Bad : \A t \in Bad : Cardinality(s) <= Cardinality(t)
  BY SmallestSet, Zenon
<1>2. s \in SUBSET T /\ IsFiniteSet(s) /\ G[s] = SumStep(f, G, s) /\ H[s] = SumStep(g, H, s)
  BY FS_Subset DEF Solves
<1>3. s # {}
  BY <1>1, <1>2 DEF SumStep
<1> DEFINE x == AnyOf(s)
           r == s \ {x}
<1>4. x \in s /\ r \in SUBSET T /\ f[x] = g[x]
  BY <1>2, <1>3 DEF AnyOf
<1>5. Cardinality(r) = Cardinality(s) - 1 /\ Cardinality(s) \in Nat
  BY <1>2, <1>4, FS_RemoveElement, FS_CardinalityType
<1>6. G[r] = H[r]
  <2>1. ~(Cardinality(s) <= Cardinality(r))
    BY <1>5
  <2> QED BY <1>1, <1>4, <2>1
<1>7. G[s] = f[x] + G[r] /\ H[s] = g[x] + H[r]
  BY <1>2, <1>3 DEF SumStep
<1> QED BY <1>1, <1>4, <1>6, <1>7

\* A solution takes natural numbers, and any element may be taken first.
LEMMA SolutionTakesAny ==
  ASSUME NEW f, NEW S, IsFiniteSet(S), NEW G, Solves(G, f, S), \A x \in S : f[x] \in Nat
  PROVE  /\ \A s \in SUBSET S : G[s] \in Nat
         /\ \A s \in SUBSET S : \A y \in s : G[s] = f[y] + G[s \ {y}]
<1>0. ASSUME NEW s \in SUBSET S, s # {}
      PROVE  /\ AnyOf(s) \in s /\ Cardinality(s) \in Nat
             /\ G[s] = f[AnyOf(s)] + G[s \ {AnyOf(s)}]
             /\ \A y \in s : s \ {y} \in SUBSET S /\ Cardinality(s \ {y}) = Cardinality(s) - 1
  <2>1. IsFiniteSet(s)
    BY FS_Subset
  <2>2. AnyOf(s) \in s
    BY <1>0 DEF AnyOf
  <2>3. G[s] = f[AnyOf(s)] + G[s \ {AnyOf(s)}]
    BY <1>0 DEF Solves, SumStep
  <2>4. Cardinality(s) \in Nat /\ \A y \in s : Cardinality(s \ {y}) = Cardinality(s) - 1
    BY <2>1, FS_CardinalityType, FS_RemoveElement
  <2> QED BY <2>2, <2>3, <2>4
<1>1. \A s \in SUBSET S : G[s] \in Nat
  <2> DEFINE Bad == {s \in SUBSET S : G[s] \notin Nat}
  <2> SUFFICES ASSUME Bad # {} PROVE FALSE
    OBVIOUS
  <2>1. PICK s \in Bad : \A t \in Bad : Cardinality(s) <= Cardinality(t)
    BY SmallestSet, Zenon
  <2>2. s # {}
    <3>1. G[{}] = 0
      BY DEF Solves, SumStep
    <3>2. G[s] \notin Nat
      OBVIOUS
    <3> QED BY <3>1, <3>2
  <2>3. AnyOf(s) \in s /\ G[s] = f[AnyOf(s)] + G[s \ {AnyOf(s)}] /\ s \ {AnyOf(s)} \in SUBSET S
    BY <1>0, <2>2
  <2>4. ~(Cardinality(s) <= Cardinality(s \ {AnyOf(s)}))
    BY <1>0, <2>2, <2>3, SMTT(60)
  <2>5. G[s \ {AnyOf(s)}] \in Nat /\ f[AnyOf(s)] \in Nat
    BY <2>1, <2>3, <2>4
  <2> QED BY <2>3, <2>5
<1>2. \A s \in SUBSET S : \A y \in s : G[s] = f[y] + G[s \ {y}]
  <2> DEFINE Bad == {s \in SUBSET S : \E y \in s : G[s] # f[y] + G[s \ {y}]}
  <2> SUFFICES ASSUME Bad # {} PROVE FALSE
    BY Zenon
  <2>1. PICK s \in Bad : \A t \in Bad : Cardinality(s) <= Cardinality(t)
    BY SmallestSet, Zenon
  <2>2. PICK y \in s : G[s] # f[y] + G[s \ {y}]
    OBVIOUS
  <2> DEFINE x == AnyOf(s)
             a == s \ {x}
             b == s \ {y}
             c == s \ {x, y}
  <2>3. /\ x \in s /\ G[s] = f[x] + G[a] /\ x # y
        /\ a \in SUBSET S /\ b \in SUBSET S
        /\ ~(Cardinality(s) <= Cardinality(a)) /\ ~(Cardinality(s) <= Cardinality(b))
    <3>1. s \in SUBSET S /\ s # {}
      BY <2>2
    <3>2. /\ x \in s /\ G[s] = f[x] + G[a] /\ Cardinality(s) \in Nat
          /\ \A z \in s : s \ {z} \in SUBSET S /\ Cardinality(s \ {z}) = Cardinality(s) - 1
      BY <1>0, <3>1, Zenon
    <3>3. x # y
      BY <2>2, <3>2, Zenon
    <3> QED BY <2>2, <3>2, <3>3
  <2>4. a \notin Bad /\ b \notin Bad
    BY <2>1, <2>3, Zenon
  <2>5. y \in a /\ x \in b /\ a \ {y} = c /\ b \ {x} = c /\ c \in SUBSET S
    BY <2>2, <2>3
  <2>6. G[a] = f[y] + G[c] /\ G[b] = f[x] + G[c]
    BY <2>3, <2>4, <2>5, Zenon
  <2>7. f[x] \in Nat /\ f[y] \in Nat /\ G[c] \in Nat
    BY <1>1, <2>2, <2>3, <2>5
  <2> QED BY <2>2, <2>3, <2>6, <2>7
<1> QED BY <1>1, <1>2

\* Sums are natural numbers, and depend on the summands only.
LEMMA SumType ==
  ASSUME NEW f, NEW S, IsFiniteSet(S), \A x \in S : f[x] \in Nat
  PROVE  SumFunctionOnSet(f, S) \in Nat
<1>1. PICK G : G = [s \in SUBSET S |-> SumStep(f, G, s)] /\ SumFunctionOnSet(f, S) = G[S]
  BY SumByRecursion, Zenon
<1>2. Solves(G, f, S)
  BY <1>1 DEF Solves
<1> QED BY <1>1, <1>2, SolutionTakesAny

\* Nothing adds up to 0.
LEMMA SumEmpty == \A f : SumFunctionOnSet(f, {}) = 0
<1> TAKE f
<1>1. PICK G : /\ G = [s \in SUBSET {} |-> SumStep(f, G, s)]
               /\ SumFunctionOnSet(f, {}) = G[{}]
  BY SumByRecursion, FS_EmptySet, Zenon
<1>2. G[{}] = SumStep(f, G, {})
  BY <1>1
<1> QED BY <1>1, <1>2 DEF SumStep

\* The sum depends on the values on the set only.
LEMMA SumAgree ==
  ASSUME NEW f, NEW g, NEW S, IsFiniteSet(S), \A x \in S : f[x] = g[x]
  PROVE  SumFunctionOnSet(f, S) = SumFunctionOnSet(g, S)
<1>1. PICK G : G = [s \in SUBSET S |-> SumStep(f, G, s)] /\ SumFunctionOnSet(f, S) = G[S]
  BY SumByRecursion, Zenon
<1>2. PICK H : H = [s \in SUBSET S |-> SumStep(g, H, s)] /\ SumFunctionOnSet(g, S) = H[S]
  BY SumByRecursion, Zenon
<1>3. Solves(G, f, S) /\ Solves(H, g, S)
  BY <1>1, <1>2 DEF Solves
<1>4. G[S] = H[S]
  <2>1. S \subseteq S
    OBVIOUS
  <2> QED BY <1>3, <2>1, SolutionsAgree, SMTT(60)
<1> QED BY <1>1, <1>2, <1>4

\* One summand taken out of a sum.
LEMMA SumRemove ==
  ASSUME NEW f, NEW S, IsFiniteSet(S), \A x \in S : f[x] \in Nat, NEW y \in S
  PROVE  SumFunctionOnSet(f, S) = f[y] + SumFunctionOnSet(f, S \ {y})
<1> DEFINE R == S \ {y}
<1>1. PICK G : G = [s \in SUBSET S |-> SumStep(f, G, s)] /\ SumFunctionOnSet(f, S) = G[S]
  BY SumByRecursion, Zenon
<1>2. IsFiniteSet(R)
  BY FS_Subset
<1>3. PICK H : H = [s \in SUBSET R |-> SumStep(f, H, s)] /\ SumFunctionOnSet(f, R) = H[R]
  BY <1>2, SumByRecursion, Zenon
<1>4. Solves(G, f, S) /\ Solves(H, f, R)
  BY <1>1, <1>3, SMTT(60) DEF Solves
<1>5. G[S] = f[y] + G[R]
  BY <1>4, SolutionTakesAny, SMTT(60)
<1>6. G[R] = H[R]
  <2>1. R \subseteq S /\ R \subseteq R
    OBVIOUS
  <2> HIDE DEF R
  <2>2. PICK g : g = f
    OBVIOUS
  <2>3. Solves(G, f, S) /\ Solves(H, g, R) /\ \A x \in R : f[x] = g[x]
    BY <1>4, <2>2
  <2> QED BY <1>2, <2>1, <2>3, SolutionsAgree, SMTT(60)
<1> QED BY <1>1, <1>3, <1>5, <1>6

\* Leaving summands out does not make a sum larger.
LEMMA SumSubset ==
  ASSUME NEW f, NEW S, IsFiniteSet(S), \A x \in S : f[x] \in Nat, NEW T \in SUBSET S
  PROVE  SumFunctionOnSet(f, T) <= SumFunctionOnSet(f, S)
<1> DEFINE Over(s) == T \subseteq s /\ ~(SumFunctionOnSet(f, T) <= SumFunctionOnSet(f, s))
           Bad == {n \in Nat : \E s \in SUBSET S : Over(s) /\ Cardinality(s \ T) = n}
<1>1. \A s \in SUBSET S : /\ IsFiniteSet(s) /\ SumFunctionOnSet(f, s) \in Nat
                         /\ IsFiniteSet(s \ T) /\ Cardinality(s \ T) \in Nat
  <2> TAKE s \in SUBSET S
  <2>1. IsFiniteSet(s) /\ IsFiniteSet(s \ T)
    BY FS_Subset
  <2> QED BY <2>1, SumType, FS_CardinalityType
<1>2. ASSUME Bad # {} PROVE FALSE
  <2>1. PICK n \in Bad : \A m \in Bad : n <= m
    BY <1>2, LeastNumber, Zenon
  <2>2. PICK s \in SUBSET S : Over(s) /\ Cardinality(s \ T) = n
    BY <2>1
  <2>3. PICK y \in s : y \notin T
    <3>1. PICK k \in Nat : k = SumFunctionOnSet(f, T)
      BY <1>1, Zenon
    <3>2. s # T
      BY <2>2, <3>1
    <3> QED BY <2>2, <3>2
  <2> DEFINE r == s \ {y}
  <2>4. r \in SUBSET S /\ T \subseteq r
    BY <2>2, <2>3
  <2>5. Cardinality(r \ T) = n - 1 /\ n - 1 \in Nat /\ ~(n <= n - 1)
    <3>1. r \ T = (s \ T) \ {y} /\ y \in s \ T
      BY <2>3
    <3>2. Cardinality((s \ T) \ {y}) = Cardinality(s \ T) - 1
      BY <1>1, <3>1, FS_RemoveElement, Zenon
    <3>3. PICK k \in Nat : k = Cardinality(r \ T)
      BY <1>1, <2>4, Zenon
    <3>4. n \in Nat /\ k = n - 1
      BY <2>2, <3>1, <3>2, <3>3, Zenon
    <3> QED BY <3>3, <3>4
  <2>6. ~Over(r)
    BY <2>1, <2>4, <2>5
  <2>7. SumFunctionOnSet(f, s) = f[y] + SumFunctionOnSet(f, r)
    <3>1. IsFiniteSet(s) /\ \A x \in s : f[x] \in Nat
      BY <1>1
    <3> HIDE DEF Bad, Over
    <3> QED BY <3>1, SumRemove, SMTT(60)
  <2>8. /\ f[y] \in Nat /\ SumFunctionOnSet(f, r) \in Nat /\ SumFunctionOnSet(f, T) \in Nat
        /\ SumFunctionOnSet(f, T) <= SumFunctionOnSet(f, r)
        /\ ~(SumFunctionOnSet(f, T) <= SumFunctionOnSet(f, s))
    BY <1>1, <2>2, <2>4, <2>6, Zenon
  <2> QED BY <2>7, <2>8
<1>3. ASSUME ~(SumFunctionOnSet(f, T) <= SumFunctionOnSet(f, S)) PROVE FALSE
  <2>1. Over(S) /\ S \in SUBSET S
    BY <1>3
  <2>2. Cardinality(S \ T) \in Bad
    BY <1>1, <2>1
  <2> QED BY <1>2, <2>2
<1> QED BY <1>3

\* A sum does not depend on how the summands are numbered.
LEMMA SumRenamed ==
  ASSUME NEW f, NEW g, NEW S, NEW T, NEW h, IsFiniteSet(S),
         \A x \in S : f[x] \in Nat /\ h[x] \in T /\ g[h[x]] = f[x],
         \A x, y \in S : h[x] = h[y] => x = y,
         \A z \in T : \E x \in S : h[x] = z
  PROVE  SumFunctionOnSet(f, S) = SumFunctionOnSet(g, T)
<1> DEFINE Image(s) == {h[x] : x \in s}
           Good(s) == /\ IsFiniteSet(Image(s))
                      /\ SumFunctionOnSet(f, s) = SumFunctionOnSet(g, Image(s))
           Bad == {s \in SUBSET S : ~Good(s)}
<1>1. Image(S) = T
  OBVIOUS
<1>2. S \notin Bad
  <2> SUFFICES ASSUME Bad # {} PROVE FALSE
    BY Zenon
  <2>1. PICK s \in Bad : \A t \in Bad : Cardinality(s) <= Cardinality(t)
    BY SmallestSet, Zenon
  <2>2. s \in SUBSET S /\ IsFiniteSet(s)
    BY FS_Subset
  <2>3. s # {}
    <3> SUFFICES ASSUME s = {} PROVE FALSE
      OBVIOUS
    <3>1. Image(s) = {}
      OBVIOUS
    <3>2. SumFunctionOnSet(f, s) = 0 /\ SumFunctionOnSet(g, Image(s)) = 0
      BY <3>1, SumEmpty, SMTT(60)
    <3> QED BY <2>1, <3>1, <3>2, FS_EmptySet, Zenon
  <2>4. PICK y \in s : TRUE
    BY <2>3
  <2> DEFINE r == s \ {y}
  <2>5. r \in SUBSET S /\ Cardinality(r) = Cardinality(s) - 1 /\ Cardinality(s) \in Nat
    BY <2>2, <2>4, FS_RemoveElement, FS_CardinalityType, Zenon
  <2>6. ~(Cardinality(s) <= Cardinality(r))
    BY <2>5
  <2>7. Good(r)
    BY <2>1, <2>5, <2>6
  <2>8. Image(r) = Image(s) \ {h[y]} /\ h[y] \in Image(s)
    BY <2>2, <2>4, SMTT(60)
  <2>9. IsFiniteSet(Image(s))
    <3>1. Image(s) = Image(r) \cup {h[y]}
      BY <2>8
    <3> HIDE DEF Image, r
    <3>2. IsFiniteSet(Image(r))
      BY <2>7, Zenon
    <3>3. IsFiniteSet(Image(r) \cup {h[y]})
      BY <3>2, FS_AddElement, Zenon
    <3> QED BY <3>1, <3>3, Zenon
  <2>10. \A z \in Image(s) : g[z] \in Nat
    BY <2>2
  <2> HIDE DEF Image, r
  <2>11. SumFunctionOnSet(f, s) = f[y] + SumFunctionOnSet(f, s \ {y})
    BY <2>2, <2>4, SumRemove
  <2>12. SumFunctionOnSet(g, Image(s)) = g[h[y]] + SumFunctionOnSet(g, Image(s) \ {h[y]})
    BY <2>8, <2>9, <2>10, SumRemove
  <2>13. g[h[y]] = f[y]
    BY <2>2, <2>4
  <2> QED BY <2>1, <2>7, <2>8, <2>9, <2>11, <2>12, <2>13, Zenon DEF r
<1> QED BY <1>1, <1>2, Zenon
=============================================================================

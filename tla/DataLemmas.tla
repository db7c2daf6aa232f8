---------------------------- MODULE DataLemmas ----------------------------
(***************************************************************************)
(* Induction over data, and what it says of the recursive functions on the *)
(* subsets of a finite set by which the community modules define sums and  *)
(* folds.  The induction runs over the least number that breaks a claim,   *)
(* which the well-foundedness of < provides; a claim is stated as the set  *)
(* of what it holds of, so that no lemma takes an operator.                *)
(***************************************************************************)
EXTENDS Integers, Functions, FiniteSetTheorems, TLAPS

\* A nonempty set of natural numbers has a least element.
LEMMA LeastNumber ==
    ASSUME NEW T \in SUBSET Nat, T # {}
    PROVE  \E n \in T : \A m \in T : n <= m
  <1>1. PICK n \in T : \A m \in T : ~(<<m, n>> \in OpToRel(<, Nat))
    BY WFMin, NatLessThanWellFounded
  <1>2. \A m \in T : ~(m < n)
    BY <1>1 DEF OpToRel
  <1> QED
    BY <1>2

\* Induction: what holds of 0 and is passed on holds of every number.
LEMMA AllNumbers ==
    ASSUME NEW T \in SUBSET Nat, 0 \in T, \A n \in T : n + 1 \in T
    PROVE  T = Nat
  <1> SUFFICES ASSUME Nat \ T # {} PROVE FALSE
    OBVIOUS
  <1>1. PICK n \in Nat \ T : \A m \in Nat \ T : n <= m
    BY LeastNumber
  <1>2. n - 1 \in Nat /\ n - 1 \in T
    BY <1>1
  <1> QED
    BY <1>2

\* Induction over the subsets of a finite set.
LEMMA AllSubsets ==
    ASSUME NEW S, IsFiniteSet(S), NEW C,
           \A s \in SUBSET S : (\A x \in s : s \ {x} \in C) => s \in C
    PROVE  S \in C
  <1> DEFINE T == {n \in Nat : \A s \in SUBSET S : Cardinality(s) = n => s \in C}
  <1>1. \A s \in SUBSET S : IsFiniteSet(s)
    BY FS_Subset
  <1>2. 0 \in T
    BY <1>1, FS_EmptySet
  <1>3. ASSUME NEW n \in T PROVE n + 1 \in T
    <2> SUFFICES ASSUME NEW s \in SUBSET S, Cardinality(s) = n + 1
                 PROVE  s \in C
      OBVIOUS
    <2>1. n \in Nat /\ IsFiniteSet(s)
      BY <1>1
    <2>2. ASSUME NEW x \in s PROVE Cardinality(s \ {x}) = n
      <3>1. Cardinality(s \ {x}) = Cardinality(s) - 1
        BY <2>1, FS_RemoveElement
      <3> QED
        BY <2>1, <3>1
    <2> QED
      BY <2>2
  <1>4. T = Nat
    BY <1>2, <1>3, AllNumbers
  <1> QED
    BY <1>4, FS_CardinalityType

\* The greatest of finitely many numbers.
LEMMA GreatestNumber ==
    ASSUME NEW N \in Nat, NEW s \in SUBSET (1 .. N), s # {}
    PROVE  \E n \in s : \A m \in s : n >= m
  <1> DEFINE T == {N - n : n \in s}
  <1>0. \A n \in s : n \in Nat /\ N - n \in Nat
    OBVIOUS
  <1>1. T \in SUBSET Nat /\ T # {}
    BY <1>0
  <1>2. PICK k \in T : \A m \in T : k <= m
    BY <1>1, LeastNumber
  <1>3. PICK n \in s : k = N - n
    OBVIOUS
  <1>4. \A m \in s : N - m \in T
    OBVIOUS
  <1> HIDE DEF T
  <1> QED
    BY <1>0, <1>2, <1>3, <1>4

\* A function on the subsets of a finite set may be defined by what it makes of
\* its value for one element less.
Recursive(it, S, base, pick, step) ==
    \A s \in SUBSET S : it[s] = IF s = {} THEN base ELSE step[<<s, it[s \ {pick[s]}]>>]

RecursiveUpTo(it, S, base, pick, step, n) ==
    \A s \in SUBSET S : Cardinality(s) <= n =>
        it[s] = IF s = {} THEN base ELSE step[<<s, it[s \ {pick[s]}]>>]

LEMMA SubsetRecursion ==
    ASSUME NEW S, IsFiniteSet(S), NEW V, NEW base \in V, NEW pick,
           \A s \in SUBSET S : s # {} => pick[s] \in s,
           NEW step \in [(SUBSET S) \X V -> V]
    PROVE  \E it \in [SUBSET S -> V] : Recursive(it, S, base, pick, step)
  <1>0. \A s \in SUBSET S : /\ IsFiniteSet(s) /\ Cardinality(s) \in Nat
                            /\ Cardinality(s) <= Cardinality(S)
    BY FS_Subset, FS_CardinalityType
  <1> DEFINE T == {n \in Nat : \E it \in [SUBSET S -> V] :
                                  RecursiveUpTo(it, S, base, pick, step, n)}
  <1>1. 0 \in T
    <2> DEFINE it == [s \in SUBSET S |-> base]
    <2>1. \A s \in SUBSET S : Cardinality(s) <= 0 => s = {}
      BY <1>0, FS_EmptySet
    <2>2. it \in [SUBSET S -> V] /\ RecursiveUpTo(it, S, base, pick, step, 0)
      BY <2>1 DEF RecursiveUpTo
    <2> HIDE DEF it
    <2> QED
      BY <2>2
  <1>2. ASSUME NEW n \in T PROVE n + 1 \in T
    <2>1. PICK old \in [SUBSET S -> V] : RecursiveUpTo(old, S, base, pick, step, n)
      OBVIOUS
    <2> DEFINE it == [s \in SUBSET S |-> IF s = {} THEN base ELSE step[<<s, old[s \ {pick[s]}]>>]]
    <2>2. it \in [SUBSET S -> V]
      <3> SUFFICES ASSUME NEW s \in SUBSET S
                   PROVE  step[<<s, old[s \ {pick[s]}]>>] \in V
        OBVIOUS
      <3>1. old[s \ {pick[s]}] \in V
        BY <2>1
      <3> QED
        BY <3>1
    <2>3. ASSUME NEW s \in SUBSET S, Cardinality(s) <= n + 1, s # {}
          PROVE  it[s \ {pick[s]}] = old[s \ {pick[s]}]
      <3> DEFINE r == s \ {pick[s]}
      <3>1. r \in SUBSET S
        OBVIOUS
      <3>2. Cardinality(r) = Cardinality(s) - 1
        BY <2>3, <1>0, FS_RemoveElement
      <3>3. n \in Nat /\ Cardinality(s) \in Nat
        BY <1>0
      <3> HIDE DEF r
      <3>4. Cardinality(r) <= n
        BY <2>3, <3>2, <3>3
      <3>5. old[r] = IF r = {} THEN base ELSE step[<<r, old[r \ {pick[r]}]>>]
        BY <2>1, <3>1, <3>4 DEF RecursiveUpTo
      <3>6. it[r] = IF r = {} THEN base ELSE step[<<r, old[r \ {pick[r]}]>>]
        BY <3>1
      <3>7. it[r] = old[r]
        BY <3>5, <3>6
      <3> HIDE DEF it
      <3> QED
        BY <3>7 DEF r
    <2>4. RecursiveUpTo(it, S, base, pick, step, n + 1)
      <3> SUFFICES ASSUME NEW s \in SUBSET S, Cardinality(s) <= n + 1
                   PROVE  it[s] = IF s = {} THEN base ELSE step[<<s, it[s \ {pick[s]}]>>]
        BY DEF RecursiveUpTo
      <3>1. it[s] = IF s = {} THEN base ELSE step[<<s, old[s \ {pick[s]}]>>]
        OBVIOUS
      <3> HIDE DEF it
      <3> QED
        BY <2>3, <3>1
    <2> HIDE DEF it
    <2> QED
      BY <2>2, <2>4
  <1>3. T = Nat
    <2> HIDE DEF T
    <2>1. T \in SUBSET Nat
      BY DEF T
    <2> QED
      BY <1>1, <1>2, <2>1, AllNumbers
  <1>4. Cardinality(S) \in T
    BY <1>3, FS_CardinalityType
  <1>5. PICK it \in [SUBSET S -> V] : RecursiveUpTo(it, S, base, pick, step, Cardinality(S))
    BY <1>4
  <1> QED
    BY <1>0, <1>5 DEF RecursiveUpTo, Recursive

-----------------------------------------------------------------------------
Pick(s) == CHOOSE x \in s : TRUE

IsSums(it, f, S) ==
    it = [s \in SUBSET S |-> IF s = {} THEN 0 ELSE f[Pick(s)] + it[s \ {Pick(s)}]]

Sums(f, S) == CHOOSE it : IsSums(it, f, S)

LEMMA SumsExist ==
    ASSUME NEW S, IsFiniteSet(S), NEW f, \A x \in S : f[x] \in Nat
    PROVE  \E it : IsSums(it, f, S)
  <1> DEFINE pick == [s \in SUBSET S |-> Pick(s)]
             step == [p \in (SUBSET S) \X Nat |->
                         IF p[1] = {} THEN 0 ELSE f[Pick(p[1])] + p[2]]
  <1>1. \A s \in SUBSET S : s # {} => Pick(s) \in s
    BY DEF Pick
  <1>2. \A s \in SUBSET S : s # {} => pick[s] \in s
    BY <1>1
  <1>3. step \in [(SUBSET S) \X Nat -> Nat]
    BY <1>1
  <1>4. PICK it \in [SUBSET S -> Nat] : Recursive(it, S, 0, pick, step)
    <2> HIDE DEF pick, step
    <2> QED
      BY <1>2, <1>3, SubsetRecursion
  <1>5. ASSUME NEW s \in SUBSET S
        PROVE  it[s] = IF s = {} THEN 0 ELSE f[Pick(s)] + it[s \ {Pick(s)}]
    <2>1. it[s] = IF s = {} THEN 0 ELSE step[<<s, it[s \ {Pick(s)}]>>]
      BY <1>4 DEF Recursive
    <2>2. it[s \ {Pick(s)}] \in Nat
      OBVIOUS
    <2> QED
      BY <2>1, <2>2
  <1>6. it = [s \in SUBSET S |-> IF s = {} THEN 0 ELSE f[Pick(s)] + it[s \ {Pick(s)}]]
    BY <1>5
  <1>7. IsSums(it, f, S)
    BY <1>6 DEF IsSums
  <1> QED
    BY <1>7

LEMMA SumsEquation ==
    ASSUME NEW S, IsFiniteSet(S), NEW f, \A x \in S : f[x] \in Nat, NEW s \in SUBSET S
    PROVE  Sums(f, S)[s] = IF s = {} THEN 0 ELSE f[Pick(s)] + Sums(f, S)[s \ {Pick(s)}]
  <1>1. IsSums(Sums(f, S), f, S)
    BY SumsExist, Zenon DEF Sums
  <1> QED
    BY <1>1 DEF IsSums

LEMMA SumIs ==
    ASSUME NEW S, NEW f
    PROVE  SumFunctionOnSet(f, S) = Sums(f, S)[S]
  BY Zenon DEF SumFunctionOnSet, FoldFunctionOnSet, MapThenFoldSet, Sums, IsSums, Pick

LEMMA SumsAgree ==
    ASSUME NEW S, IsFiniteSet(S), NEW f, \A x \in S : f[x] \in Nat, NEW R \in SUBSET S
    PROVE  Sums(f, S)[R] = Sums(f, R)[R]
  <1>1. IsFiniteSet(R)
    BY FS_Subset
  <1> DEFINE C == {s \in SUBSET R : Sums(f, S)[s] = Sums(f, R)[s]}
  <1>2. ASSUME NEW s \in SUBSET R, \A x \in s : s \ {x} \in C
        PROVE  s \in C
    <2>1. s # {} => Pick(s) \in s
      BY DEF Pick
    <2>2. s # {} => Sums(f, S)[s \ {Pick(s)}] = Sums(f, R)[s \ {Pick(s)}]
      BY <1>2, <2>1
    <2>3. s \in SUBSET S
      OBVIOUS
    <2>4. Sums(f, S)[s] = IF s = {} THEN 0 ELSE f[Pick(s)] + Sums(f, S)[s \ {Pick(s)}]
      BY <2>3, SumsEquation
    <2>5. Sums(f, R)[s] = IF s = {} THEN 0 ELSE f[Pick(s)] + Sums(f, R)[s \ {Pick(s)}]
      BY <1>1, SumsEquation
    <2> QED
      BY <2>2, <2>4, <2>5
  <1>3. R \in C
    BY <1>1, <1>2, AllSubsets
  <1> QED
    BY <1>3

\* What the definition says of a sum: an element is picked, and the others added.
LEMMA SumOfNothing ==
    ASSUME NEW f
    PROVE  SumFunctionOnSet(f, {}) = 0
  BY SumIs, SumsEquation, FS_EmptySet

LEMMA SumPicked ==
    ASSUME NEW S, IsFiniteSet(S), S # {}, NEW f, \A x \in S : f[x] \in Nat
    PROVE  /\ Pick(S) \in S
           /\ SumFunctionOnSet(f, S) = f[Pick(S)] + SumFunctionOnSet(f, S \ {Pick(S)})
  <1>1. Pick(S) \in S
    BY DEF Pick
  <1>2. Sums(f, S)[S] = f[Pick(S)] + Sums(f, S)[S \ {Pick(S)}]
    BY SumsEquation
  <1>3. Sums(f, S)[S \ {Pick(S)}] = Sums(f, S \ {Pick(S)})[S \ {Pick(S)}]
    BY SumsAgree
  <1> QED
    BY <1>1, <1>2, <1>3, SumIs

\* Sums of natural numbers are natural numbers.
LEMMA SumType ==
    ASSUME NEW S, IsFiniteSet(S), NEW f, \A x \in S : f[x] \in Nat
    PROVE  SumFunctionOnSet(f, S) \in Nat
  <1> DEFINE C == {s \in SUBSET S : SumFunctionOnSet(f, s) \in Nat}
  <1>1. ASSUME NEW s \in SUBSET S, \A x \in s : s \ {x} \in C
        PROVE  s \in C
    <2>1. s # {} => /\ Pick(s) \in s
                    /\ SumFunctionOnSet(f, s) = f[Pick(s)] + SumFunctionOnSet(f, s \ {Pick(s)})
      BY FS_Subset, SumPicked
    <2>2. s # {} => SumFunctionOnSet(f, s \ {Pick(s)}) \in Nat
      BY <1>1, <2>1
    <2>3. s = {} => SumFunctionOnSet(f, s) = 0
      BY SumOfNothing
    <2>4. s # {} => f[Pick(s)] \in Nat
      BY <2>1
    <2> QED
      BY <2>1, <2>2, <2>3, <2>4
  <1>2. S \in C
    BY <1>1, AllSubsets
  <1> QED
    BY <1>2

\* Whichever element is looked at first, the sum is the same.
LEMMA SumRemove ==
    ASSUME NEW S, IsFiniteSet(S), NEW f, \A x \in S : f[x] \in Nat, NEW y \in S
    PROVE  SumFunctionOnSet(f, S) = f[y] + SumFunctionOnSet(f, S \ {y})
  <1> DEFINE C == {s \in SUBSET S : \A x \in s :
                       SumFunctionOnSet(f, s) = f[x] + SumFunctionOnSet(f, s \ {x})}
  <1>1. \A s \in SUBSET S : IsFiniteSet(s) /\ SumFunctionOnSet(f, s) \in Nat
    BY FS_Subset, SumType
  <1>2. ASSUME NEW s \in SUBSET S, \A x \in s : s \ {x} \in C
        PROVE  s \in C
    <2> SUFFICES ASSUME NEW x \in s
                 PROVE  SumFunctionOnSet(f, s) = f[x] + SumFunctionOnSet(f, s \ {x})
      OBVIOUS
    <2>1. PICK p \in s : SumFunctionOnSet(f, s) = f[p] + SumFunctionOnSet(f, s \ {p})
      BY <1>1, SumPicked
    <2>2. CASE p = x
      BY <2>1, <2>2
    <2>3. CASE p # x
      <3>1. SumFunctionOnSet(f, s \ {p}) = f[x] + SumFunctionOnSet(f, (s \ {p}) \ {x})
        BY <1>2, <2>3
      <3>2. SumFunctionOnSet(f, s \ {x}) = f[p] + SumFunctionOnSet(f, (s \ {x}) \ {p})
        BY <1>2, <2>3
      <3>3. (s \ {p}) \ {x} = (s \ {x}) \ {p}
        OBVIOUS
      <3>4. SumFunctionOnSet(f, (s \ {x}) \ {p}) \in Nat /\ f[p] \in Nat /\ f[x] \in Nat
        BY <1>1
      <3> QED
        BY <2>1, <3>1, <3>2, <3>3, <3>4
    <2> QED
      BY <2>2, <2>3
  <1>3. S \in C
    BY <1>2, AllSubsets
  <1> QED
    BY <1>3

\* A sum depends on the summands only.
LEMMA SumCongruence ==
    ASSUME NEW S, IsFiniteSet(S), NEW f, NEW g,
           \A x \in S : f[x] \in Nat /\ f[x] = g[x]
    PROVE  SumFunctionOnSet(f, S) = SumFunctionOnSet(g, S)
  <1> DEFINE C == {s \in SUBSET S : SumFunctionOnSet(f, s) = SumFunctionOnSet(g, s)}
  <1>1. ASSUME NEW s \in SUBSET S, \A x \in s : s \ {x} \in C
        PROVE  s \in C
    <2>1. s # {} => /\ Pick(s) \in s
                    /\ SumFunctionOnSet(f, s) = f[Pick(s)] + SumFunctionOnSet(f, s \ {Pick(s)})
                    /\ SumFunctionOnSet(g, s) = g[Pick(s)] + SumFunctionOnSet(g, s \ {Pick(s)})
      BY FS_Subset, SumPicked
    <2>2. s # {} => SumFunctionOnSet(f, s \ {Pick(s)}) = SumFunctionOnSet(g, s \ {Pick(s)})
      BY <1>1, <2>1
    <2> QED
      BY <2>1, <2>2, SumOfNothing
  <1>2. S \in C
    BY <1>1, AllSubsets
  <1> QED
    BY <1>2

\* Summands of at most b add up to at most b for each.
LEMMA SumAtMost ==
    ASSUME NEW S, IsFiniteSet(S), NEW f, NEW b \in Nat, \A x \in S : f[x] \in 0 .. b
    PROVE  SumFunctionOnSet(f, S) <= b * Cardinality(S)
  <1> DEFINE C == {s \in SUBSET S : SumFunctionOnSet(f, s) <= b * Cardinality(s)}
  <1>0. \A x \in S : f[x] \in Nat
    OBVIOUS
  <1>1. \A s \in SUBSET S : /\ IsFiniteSet(s) /\ SumFunctionOnSet(f, s) \in Nat
                            /\ Cardinality(s) \in Nat
    BY <1>0, FS_Subset, FS_CardinalityType, SumType
  <1>2. ASSUME NEW s \in SUBSET S, \A x \in s : s \ {x} \in C
        PROVE  s \in C
    <2>1. CASE s = {}
      BY <1>1, <2>1, SumOfNothing, FS_EmptySet
    <2>2. CASE s # {}
      <3>1. PICK p \in s : SumFunctionOnSet(f, s) = f[p] + SumFunctionOnSet(f, s \ {p})
        BY <1>0, <1>1, <2>2, SumPicked
      <3>2. Cardinality(s \ {p}) = Cardinality(s) - 1
        BY <1>1, FS_RemoveElement
      <3>3. SumFunctionOnSet(f, s \ {p}) <= b * Cardinality(s \ {p})
        BY <1>2
      <3>4. /\ f[p] \in 0 .. b /\ Cardinality(s) \in Nat
            /\ SumFunctionOnSet(f, s \ {p}) \in Nat
        BY <1>1
      <3>5. b * (Cardinality(s) - 1) = b * Cardinality(s) - b
        BY <3>4
      <3> HIDE DEF C
      <3>6. SumFunctionOnSet(f, s) <= b * Cardinality(s)
        BY <3>1, <3>2, <3>3, <3>4, <3>5
      <3> QED
        BY <3>6 DEF C
    <2> QED
      BY <2>1, <2>2
  <1>3. S \in C
    BY <1>2, AllSubsets
  <1> QED
    BY <1>3

\* Positive summands add up to at least their number.
LEMMA SumAtLeast ==
    ASSUME NEW S, IsFiniteSet(S), NEW f, \A x \in S : f[x] \in Nat /\ f[x] >= 1
    PROVE  Cardinality(S) <= SumFunctionOnSet(f, S)
  <1> DEFINE C == {s \in SUBSET S : Cardinality(s) <= SumFunctionOnSet(f, s)}
  <1>0. \A x \in S : f[x] \in Nat
    OBVIOUS
  <1>1. \A s \in SUBSET S : /\ IsFiniteSet(s) /\ SumFunctionOnSet(f, s) \in Nat
                            /\ Cardinality(s) \in Nat
    BY <1>0, FS_Subset, FS_CardinalityType, SumType
  <1>2. ASSUME NEW s \in SUBSET S, \A x \in s : s \ {x} \in C
        PROVE  s \in C
    <2>1. CASE s = {}
      BY <1>1, <2>1, SumOfNothing, FS_EmptySet
    <2>2. CASE s # {}
      <3>1. PICK p \in s : SumFunctionOnSet(f, s) = f[p] + SumFunctionOnSet(f, s \ {p})
        BY <1>0, <1>1, <2>2, SumPicked
      <3>2. Cardinality(s \ {p}) = Cardinality(s) - 1
        BY <1>1, FS_RemoveElement
      <3>3. Cardinality(s \ {p}) <= SumFunctionOnSet(f, s \ {p})
        BY <1>2
      <3>4. /\ f[p] \in Nat /\ f[p] >= 1 /\ Cardinality(s) \in Nat
            /\ SumFunctionOnSet(f, s \ {p}) \in Nat
        BY <1>1
      <3>5. Cardinality(s) <= SumFunctionOnSet(f, s)
        BY <3>1, <3>2, <3>3, <3>4
      <3> QED
        BY <3>5
    <2> QED
      BY <2>1, <2>2
  <1>3. S \in C
    BY <1>2, AllSubsets
  <1> QED
    BY <1>3

\* What is left when at most one element is taken away.
LEMMA ButOne ==
    ASSUME NEW R, IsFiniteSet(R), NEW f, \A x \in R : f[x] \in Nat, NEW T,
           \A x, y \in R : x \in T /\ y \in T => x = y
    PROVE  /\ Cardinality(R \ T) >= Cardinality(R) - 1
           /\ SumFunctionOnSet(f, R \ T) <= SumFunctionOnSet(f, R)
  <1>1. Cardinality(R) \in Nat /\ SumFunctionOnSet(f, R) \in Nat
    BY FS_CardinalityType, SumType
  <1>2. CASE \A x \in R : x \notin T
    <2>1. R \ T = R
      BY <1>2
    <2> QED
      BY <1>1, <2>1
  <1>3. ASSUME NEW x \in R, x \in T
        PROVE  /\ Cardinality(R \ T) >= Cardinality(R) - 1
               /\ SumFunctionOnSet(f, R \ T) <= SumFunctionOnSet(f, R)
    <2>1. R \ T = R \ {x}
      BY <1>3
    <2>2. Cardinality(R \ {x}) = Cardinality(R) - 1
      BY FS_RemoveElement
    <2>3. SumFunctionOnSet(f, R) = f[x] + SumFunctionOnSet(f, R \ {x})
      BY SumRemove
    <2>4. SumFunctionOnSet(f, R \ {x}) \in Nat
      BY FS_Subset, SumType
    <2>5. SumFunctionOnSet(f, R \ {x}) <= SumFunctionOnSet(f, R)
      BY <2>3, <2>4
    <2>6. Cardinality(R \ {x}) >= Cardinality(R) - 1
      BY <1>1, <2>2
    <2> QED
      BY <2>1, <2>5, <2>6, Zenon
  <1> QED
    BY <1>2, <1>3

\* One more in one place is one more in the sum.
LEMMA SumIncrement ==
    ASSUME NEW D, NEW f \in [D -> Nat], NEW S \in SUBSET D, IsFiniteSet(S), NEW y \in S
    PROVE  SumFunctionOnSet([f EXCEPT ![y] = @ + 1], S) = SumFunctionOnSet(f, S) + 1
  <1> DEFINE g == [f EXCEPT ![y] = @ + 1]
  <1>1. /\ \A x \in S : f[x] \in Nat /\ g[x] \in Nat
        /\ g[y] = f[y] + 1
        /\ \A x \in S \ {y} : g[x] = f[x]
    OBVIOUS
  <1> HIDE DEF g
  <1>2. IsFiniteSet(S \ {y})
    BY FS_Subset
  <1>3. SumFunctionOnSet(g, S \ {y}) = SumFunctionOnSet(f, S \ {y})
    BY <1>1, <1>2, SumCongruence
  <1>4. /\ SumFunctionOnSet(f, S) = f[y] + SumFunctionOnSet(f, S \ {y})
        /\ SumFunctionOnSet(g, S) = g[y] + SumFunctionOnSet(g, S \ {y})
    BY <1>1, SumRemove
  <1>5. SumFunctionOnSet(f, S \ {y}) \in Nat
    BY <1>1, <1>2, SumType
  <1>6. SumFunctionOnSet(g, S) = SumFunctionOnSet(f, S) + 1
    BY <1>1, <1>3, <1>4, <1>5
  <1> QED
    BY <1>6 DEF g

\* The first n + 1 summands are the first n and one more.
LEMMA SumOneMore ==
    ASSUME NEW n \in Nat, NEW f, \A i \in 0 .. n : f[i] \in Nat
    PROVE  /\ SumFunctionOnSet(f, 0 .. n) = f[n] + SumFunctionOnSet(f, 0 .. n - 1)
           /\ SumFunctionOnSet(f, 0 .. n - 1) \in Nat
  <1>1. IsFiniteSet(0 .. n) /\ IsFiniteSet(0 .. n - 1)
    BY FS_Interval
  <1>2. (0 .. n) \ {n} = 0 .. n - 1 /\ n \in 0 .. n
    OBVIOUS
  <1>3. SumFunctionOnSet(f, 0 .. n) = f[n] + SumFunctionOnSet(f, (0 .. n) \ {n})
    BY <1>1, <1>2, SumRemove
  <1>4. SumFunctionOnSet(f, 0 .. n - 1) \in Nat
    BY <1>1, SumType
  <1> QED
    BY <1>2, <1>3, <1>4

\* A sequence of numbers that moves up by one place, with 0 coming in, has the
\* sums it had one place further down.
LEMMA SumShifted ==
    ASSUME NEW N \in Nat, NEW f, NEW g, \A i \in 0 .. N : f[i] \in Nat,
           g[0] = 0, \A i \in 1 .. N : g[i] = f[i - 1]
    PROVE  SumFunctionOnSet(g, 0 .. N) = SumFunctionOnSet(f, 0 .. N - 1)
  <1> DEFINE T == {n \in Nat : n <= N =>
                      SumFunctionOnSet(g, 0 .. n) = SumFunctionOnSet(f, 0 .. n - 1)}
  <1>0. \A i \in 0 .. N : g[i] \in Nat
    OBVIOUS
  <1>1. 0 \in T
    <2>1. /\ 0 .. 0 - 1 = {} /\ (0 .. 0) \ {0} = {} /\ IsFiniteSet(0 .. 0)
          /\ 0 \in 0 .. 0
      <3>1. 0 .. 0 = {0} /\ 0 .. 0 - 1 = {}
        OBVIOUS
      <3>2. IsFiniteSet({0})
        BY FS_Singleton
      <3> QED
        BY <3>1, <3>2
    <2>2. \A i \in 0 .. 0 : g[i] \in Nat
      BY <1>0
    <2>3. SumFunctionOnSet(g, 0 .. 0) = g[0] + SumFunctionOnSet(g, {})
      BY <2>1, <2>2, SumRemove
    <2> QED
      BY <2>1, <2>3, SumOfNothing
  <1>2. ASSUME NEW n \in T PROVE n + 1 \in T
    <2> SUFFICES ASSUME n + 1 <= N
                 PROVE  SumFunctionOnSet(g, 0 .. n + 1) = SumFunctionOnSet(f, 0 .. (n + 1) - 1)
      OBVIOUS
    <2>1. n \in Nat /\ n + 1 \in Nat /\ (n + 1) - 1 = n
      OBVIOUS
    <2>2. SumFunctionOnSet(g, 0 .. n + 1) = g[n + 1] + SumFunctionOnSet(g, 0 .. n)
      BY <1>0, <2>1, SumOneMore
    <2>3. SumFunctionOnSet(f, 0 .. n) = f[n] + SumFunctionOnSet(f, 0 .. n - 1)
      BY <2>1, SumOneMore
    <2>4. SumFunctionOnSet(g, 0 .. n) = SumFunctionOnSet(f, 0 .. n - 1) /\ g[n + 1] = f[n]
      BY <2>1
    <2> QED
      BY <2>1, <2>2, <2>3, <2>4
  <1>3. T = Nat
    <2> HIDE DEF T
    <2> QED
      BY <1>1, <1>2, AllNumbers DEF T
  <1> QED
    BY <1>3

\* More summands, a larger sum.
LEMMA SumGrows ==
    ASSUME NEW N \in Nat, NEW f, \A i \in 0 .. N : f[i] \in Nat, NEW m \in 0 .. N
    PROVE  SumFunctionOnSet(f, 0 .. m) <= SumFunctionOnSet(f, 0 .. N)
  <1> DEFINE T == {n \in Nat : m + n <= N =>
                      SumFunctionOnSet(f, 0 .. m) <= SumFunctionOnSet(f, 0 .. m + n)}
  <1>0. ASSUME NEW n \in 0 .. N
        PROVE  SumFunctionOnSet(f, 0 .. n) \in Nat
    <2>1. IsFiniteSet(0 .. n) /\ \A i \in 0 .. n : f[i] \in Nat
      BY FS_Interval
    <2> QED
      BY <2>1, SumType
  <1>1. 0 \in T
    BY <1>0
  <1>2. ASSUME NEW n \in T PROVE n + 1 \in T
    <2> SUFFICES ASSUME m + (n + 1) <= N
                 PROVE  SumFunctionOnSet(f, 0 .. m) <= SumFunctionOnSet(f, 0 .. m + (n + 1))
      OBVIOUS
    <2>1. /\ m + (n + 1) \in Nat /\ (m + (n + 1)) - 1 = m + n
          /\ m + n \in 0 .. N
          /\ \A i \in 0 .. m + (n + 1) : f[i] \in Nat
      OBVIOUS
    <2>2. /\ SumFunctionOnSet(f, 0 .. m + (n + 1))
                = f[m + (n + 1)] + SumFunctionOnSet(f, 0 .. m + n)
          /\ f[m + (n + 1)] \in Nat
      BY <2>1, SumOneMore
    <2>3. SumFunctionOnSet(f, 0 .. m) <= SumFunctionOnSet(f, 0 .. m + n)
      BY <2>1
    <2> QED
      BY <1>0, <2>1, <2>2, <2>3
  <1>3. T = Nat
    <2> HIDE DEF T
    <2> QED
      BY <1>1, <1>2, AllNumbers DEF T
  <1>4. N - m \in Nat /\ m + (N - m) = N
    OBVIOUS
  <1>5. N - m \in T
    BY <1>3, <1>4
  <1> QED
    BY <1>4, <1>5
=============================================================================

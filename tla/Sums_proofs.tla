----------------------------- MODULE Sums_proofs -----------------------------
(***************************************************************************)
(* What the other proofs need of numbers and finite sets.                   *)
(*                                                                         *)
(* Sums are folds over finite sets. Their laws are proved by induction over *)
(* the subsets of a finite set, which is stated for a set of subsets, not   *)
(* for a predicate, and proved from the pigeonhole fact of                  *)
(* FiniteSetTheorems.                                                       *)
(***************************************************************************)
EXTENDS Sums, FiniteSetTheorems, WellFoundedInduction, TLAPS

\* Every non-empty set of natural numbers has a least element.
LEMMA NatHasLeast ==
  ASSUME NEW T, T \subseteq Nat, T # {}
  PROVE  \E x \in T : \A y \in T : x <= y
<1>1. PICK x \in T : \A y \in T : ~(<<y, x>> \in OpToRel(<, Nat))
  BY NatLessThanWellFounded, WFMin
<1>2. \A y \in T : ~(y < x)
  BY <1>1 DEF OpToRel
<1>. QED
  BY <1>2

-----------------------------------------------------------------------------
(* Sums over finite sets *)

\* Induction over the numbers, for a set of them. If n were not in it, adding one
\* would map its members up to n into those above zero, which are fewer.
LEMMA NatSetInduction ==
  ASSUME NEW S \in SUBSET Nat, 0 \in S, \A n \in S : n + 1 \in S
  PROVE  S = Nat
<1>. SUFFICES ASSUME NEW n \in Nat, n \notin S PROVE FALSE
  OBVIOUS
<1>. DEFINE G == S \cap 0..n
            T == G \ {0}
            f == [m \in G |-> m + 1]
<1>1. IsFiniteSet(G) /\ 0 \in G
  <2>1. IsFiniteSet(0..n)
    BY FS_Interval
  <2>2. IsFiniteSet(G)
    BY <2>1, FS_Subset
  <2>. QED
    BY <2>2
<1>2. IsFiniteSet(T) /\ Cardinality(T) < Cardinality(G)
  <2>. HIDE DEF G
  <2>1. Cardinality(T) = Cardinality(G) - 1 /\ IsFiniteSet(T)
    BY <1>1, FS_RemoveElement
  <2>. QED
    BY <1>1, <2>1, FS_CardinalityType
<1>3. f \in [G -> T]
  OBVIOUS
<1>4. \E x, y \in G : x # y /\ f[x] = f[y]
  <2>. HIDE DEF G, T, f
  <2>. QED
    BY <1>1, <1>2, <1>3, FS_PigeonHole
<1>. QED
  BY <1>4

\* Induction over the subsets of a finite set.
LEMMA FiniteSetInduction ==
  ASSUME NEW S, IsFiniteSet(S), NEW P \in SUBSET (SUBSET S), {} \in P,
         \A s \in SUBSET S : s # {} /\ (\A x \in s : s \ {x} \in P) => s \in P
  PROVE  P = SUBSET S
<1>. DEFINE N == {n \in Nat : \A s \in SUBSET S : Cardinality(s) = n => s \in P}
<1>1. \A s \in SUBSET S : IsFiniteSet(s) /\ Cardinality(s) \in Nat
  BY FS_Subset, FS_CardinalityType
<1>2. 0 \in N
  BY <1>1, FS_EmptySet
<1>3. ASSUME NEW n \in N  PROVE n + 1 \in N
  <2>. SUFFICES ASSUME NEW s \in SUBSET S, Cardinality(s) = n + 1  PROVE s \in P
    OBVIOUS
  <2>1. s # {}
    BY FS_EmptySet
  <2>2. ASSUME NEW x \in s  PROVE s \ {x} \in P
    <3>1. Cardinality(s \ {x}) = Cardinality(s) - 1
      BY <1>1, FS_RemoveElement
    <3>. QED
      BY <1>1, <1>3, <3>1
  <2>. QED
    BY <2>1, <2>2
<1>4. N = Nat
  <2>1. N \in SUBSET Nat
    OBVIOUS
  <2>. HIDE DEF N
  <2>. QED
    BY <1>2, <1>3, <2>1, NatSetInduction
<1>. QED
  BY <1>1, <1>4

\* g is a table of the sums of f over the subsets of S, as SumOf makes it.
Sums(f, S, g) ==
  g = [s \in SUBSET S |-> IF s = {} THEN 0
         ELSE f[CHOOSE x \in s : TRUE] + g[s \ {CHOOSE x \in s : TRUE}]]

\* SumOf is the value of one of its tables of sums.
LEMMA SumOfIs == ASSUME NEW f, NEW S PROVE SumOf(f, S) = (CHOOSE g : Sums(f, S, g))[S]
  BY DEF SumOf, MapThenSumSet, MapThenFoldSet, Sums

\* There is such a table,
LEMMA SumsExist ==
  ASSUME NEW S, IsFiniteSet(S), NEW f
  PROVE  \E g : Sums(f, S, g)
<1>. DEFINE first(s) == CHOOSE x \in s : TRUE
            Upto(n) == {s \in SUBSET S : Cardinality(s) <= n}
            Good(g, n) == g = [s \in Upto(n) |-> IF s = {} THEN 0
                                   ELSE f[first(s)] + g[s \ {first(s)}]]
            N == {n \in Nat : \E g : Good(g, n)}
<1>1. \A s \in SUBSET S : IsFiniteSet(s) /\ Cardinality(s) \in Nat
  BY FS_Subset, FS_CardinalityType
<1>2. \A s \in SUBSET S : s # {} => first(s) \in s /\ Cardinality(s \ {first(s)}) = Cardinality(s) - 1
  BY <1>1, FS_RemoveElement
<1>3. 0 \in N
  <2>1. \A s \in Upto(0) : s = {}
    BY <1>1, FS_EmptySet
  <2>2. Good([s \in Upto(0) |-> 0], 0)
    BY <2>1
  <2>. QED
    BY <2>2
<1>4. ASSUME NEW n \in N  PROVE n + 1 \in N
  <2>1. PICK g : Good(g, n)
    OBVIOUS
  <2>. DEFINE h == [s \in Upto(n + 1) |-> IF s = {} THEN 0 ELSE f[first(s)] + g[s \ {first(s)}]]
  <2>2. ASSUME NEW s \in Upto(n + 1), s # {}
        PROVE  s \ {first(s)} \in Upto(n) /\ s \ {first(s)} \in Upto(n + 1)
    BY <1>1, <1>2, <2>2
  <2>3. \A s \in Upto(n) : s \in Upto(n + 1) /\ h[s] = g[s]
    <3>. SUFFICES ASSUME NEW s \in Upto(n) PROVE s \in Upto(n + 1) /\ h[s] = g[s]
      OBVIOUS
    <3>1. s \in Upto(n + 1)
      BY <1>1
    <3>. HIDE DEF Upto, first
    <3>2. g[s] = IF s = {} THEN 0 ELSE f[first(s)] + g[s \ {first(s)}]
      BY <2>1
    <3>. QED
      BY <3>1, <3>2
  <2>4. Good(h, n + 1)
    <3>. HIDE DEF Upto, first
    <3>. QED
      BY <2>2, <2>3
  <2>5. n + 1 \in Nat
    OBVIOUS
  <2>. HIDE DEF Upto, first, h
  <2>. QED
    BY <2>4, <2>5
<1>5. N = Nat
  <2>1. N \in SUBSET Nat
    OBVIOUS
  <2>. HIDE DEF N
  <2>. QED
    BY <1>3, <1>4, <2>1, NatSetInduction
<1>6. PICK g : Good(g, Cardinality(S))
  BY <1>1, <1>5
<1>7. Upto(Cardinality(S)) = SUBSET S
  <2>1. \A s \in SUBSET S : Cardinality(s) <= Cardinality(S)
    BY FS_Subset
  <2>. QED
    BY <2>1
<1>8. Sums(f, S, g)
  <2>. HIDE DEF Upto
  <2>. QED
    BY <1>6, <1>7 DEF Sums
<1>. QED
  BY <1>8

\* and only one, as far as it goes.
LEMMA SumsUnique ==
  ASSUME NEW S, IsFiniteSet(S), NEW T \in SUBSET S, NEW f, NEW g, NEW h,
         Sums(f, S, g), Sums(f, T, h)
  PROVE  g[T] = h[T]
<1>. DEFINE P == {s \in SUBSET T : g[s] = h[s]}
            first(s) == CHOOSE x \in s : TRUE
<1>1. \A s \in SUBSET T : s # {} => first(s) \in s
  OBVIOUS
<1>2. \A s \in SUBSET T : /\ g[s] = IF s = {} THEN 0 ELSE f[first(s)] + g[s \ {first(s)}]
                          /\ h[s] = IF s = {} THEN 0 ELSE f[first(s)] + h[s \ {first(s)}]
  <2>. SUFFICES ASSUME NEW s \in SUBSET T
       PROVE  /\ g[s] = IF s = {} THEN 0 ELSE f[first(s)] + g[s \ {first(s)}]
              /\ h[s] = IF s = {} THEN 0 ELSE f[first(s)] + h[s \ {first(s)}]
    OBVIOUS
  <2>1. s \in SUBSET S
    OBVIOUS
  <2>. QED
    BY <2>1 DEF Sums
<1>. HIDE DEF first
<1>3. {} \in P
  BY <1>2
<1>4. ASSUME NEW s \in SUBSET T, s # {}, \A x \in s : s \ {x} \in P  PROVE s \in P
  <2>1. g[s \ {first(s)}] = h[s \ {first(s)}]
    BY <1>1, <1>4
  <2>. QED
    BY <1>2, <1>4, <2>1
<1>5. IsFiniteSet(T) /\ P \in SUBSET (SUBSET T)
  BY FS_Subset
<1>6. P = SUBSET T
  <2>. HIDE DEF P
  <2>. QED
    BY <1>3, <1>4, <1>5, FiniteSetInduction
<1>. QED
  BY <1>6

\* So a sum is what the member chosen first adds to the sum of the others.
LEMMA SumOfStep ==
  ASSUME NEW S, IsFiniteSet(S), NEW f
  PROVE  /\ SumOf(f, {}) = 0
         /\ S # {} => LET x == CHOOSE x \in S : TRUE
                      IN  SumOf(f, S) = f[x] + SumOf(f, S \ {x})
<1>. DEFINE x == CHOOSE x \in S : TRUE
            U(T) == CHOOSE g : Sums(f, T, g)
<1>1. IsFiniteSet(S \ {x}) /\ S \ {x} \in SUBSET S
  BY FS_Subset
<1>2. Sums(f, S, U(S)) /\ Sums(f, S \ {x}, U(S \ {x})) /\ Sums(f, {}, U({}))
  <2>1. /\ \E g : Sums(f, S, g)
        /\ \E g : Sums(f, S \ {x}, g)
        /\ \E g : Sums(f, {}, g)
    <3>. HIDE DEF x
    <3>. QED
      BY <1>1, SumsExist, FS_EmptySet
  <2>. QED
    BY <2>1
<1>3. /\ SumOf(f, S) = U(S)[S] /\ SumOf(f, S \ {x}) = U(S \ {x})[S \ {x}]
      /\ SumOf(f, {}) = U({})[{}]
  BY SumOfIs
<1>. HIDE DEF U
<1>4. U({})[{}] = 0
  BY <1>2 DEF Sums
<1>5. S # {} => U(S)[S] = f[x] + U(S)[S \ {x}]
  BY <1>2 DEF Sums
<1>6. U(S)[S \ {x}] = U(S \ {x})[S \ {x}]
  <2>. HIDE DEF x
  <2>. QED
    BY <1>1, <1>2, SumsUnique
<1>. QED
  BY <1>3, <1>4, <1>5, <1>6

\* A sum of integers is an integer.
LEMMA SumType ==
  ASSUME NEW S, IsFiniteSet(S), NEW f, \A x \in S : f[x] \in Int
  PROVE  SumOf(f, S) \in Int
<1>. DEFINE P == {s \in SUBSET S : SumOf(f, s) \in Int}
<1>1. {} \in P
  BY SumOfStep
<1>2. ASSUME NEW s \in SUBSET S, s # {}, \A x \in s : s \ {x} \in P  PROVE s \in P
  <2>1. PICK x \in s : SumOf(f, s) = f[x] + SumOf(f, s \ {x})
    <3>1. IsFiniteSet(s)
      BY FS_Subset
    <3>. QED
      BY <1>2, <3>1, SumOfStep, ZenonT(60)
  <2>. QED
    BY <1>2, <2>1
<1>3. P = SUBSET S
  <2>1. P \in SUBSET (SUBSET S)
    OBVIOUS
  <2>. HIDE DEF P
  <2>. QED
    BY <1>1, <1>2, <2>1, FiniteSetInduction
<1>. QED
  BY <1>3

\* A sum of numbers that are not negative is not.
LEMMA SumNat ==
  ASSUME NEW S, IsFiniteSet(S), NEW f, \A x \in S : f[x] \in Nat
  PROVE  SumOf(f, S) \in Nat
<1>. DEFINE P == {s \in SUBSET S : SumOf(f, s) \in Nat}
<1>1. {} \in P
  BY SumOfStep
<1>2. ASSUME NEW s \in SUBSET S, s # {}, \A x \in s : s \ {x} \in P  PROVE s \in P
  <2>1. PICK x \in s : SumOf(f, s) = f[x] + SumOf(f, s \ {x})
    <3>1. IsFiniteSet(s)
      BY FS_Subset
    <3>. QED  BY <1>2, <3>1, SumOfStep, ZenonT(60)
  <2>. QED  BY <1>2, <2>1
<1>3. P = SUBSET S
  <2>1. P \in SUBSET (SUBSET S)
    OBVIOUS
  <2>. HIDE DEF P
  <2>. QED  BY <1>1, <1>2, <2>1, FiniteSetInduction
<1>. QED  BY <1>3

\* A sum is what any member adds to the sum of the others.
LEMMA SumRemove ==
  ASSUME NEW S, IsFiniteSet(S), NEW f, \A x \in S : f[x] \in Int, NEW x \in S
  PROVE  SumOf(f, S) = f[x] + SumOf(f, S \ {x})
<1>. DEFINE P == {s \in SUBSET S : \A y \in s : SumOf(f, s) = f[y] + SumOf(f, s \ {y})}
<1>1. {} \in P
  OBVIOUS
<1>2. ASSUME NEW s \in SUBSET S, s # {}, \A y \in s : s \ {y} \in P  PROVE s \in P
  <2>. SUFFICES ASSUME NEW y \in s  PROVE SumOf(f, s) = f[y] + SumOf(f, s \ {y})
    OBVIOUS
  <2>1. PICK c \in s : SumOf(f, s) = f[c] + SumOf(f, s \ {c})
    <3>1. IsFiniteSet(s)
      BY FS_Subset
    <3>. QED
      BY <1>2, <3>1, SumOfStep
  <2>2. CASE c = y
    BY <2>1, <2>2
  <2>3. CASE c # y
    <3>1. /\ SumOf(f, s \ {c}) = f[y] + SumOf(f, (s \ {c}) \ {y})
          /\ SumOf(f, s \ {y}) = f[c] + SumOf(f, (s \ {y}) \ {c})
      BY <1>2, <2>3
    <3>2. (s \ {c}) \ {y} = (s \ {y}) \ {c}
      OBVIOUS
    <3>3. SumOf(f, (s \ {c}) \ {y}) \in Int
      <4>1. IsFiniteSet((s \ {c}) \ {y})
        BY FS_Subset
      <4>. QED
        BY <4>1, SumType
    <3>4. f[c] \in Int /\ f[y] \in Int
      OBVIOUS
    <3>. DEFINE q == SumOf(f, (s \ {c}) \ {y})
                a == SumOf(f, s \ {c})
                b == SumOf(f, s \ {y})
    <3>5. q \in Int /\ a = f[y] + q /\ b = f[c] + q /\ SumOf(f, s) = f[c] + a
      BY <2>1, <3>1, <3>2, <3>3
    <3>. HIDE DEF P, q, a, b
    <3>6. f[c] + a = f[y] + b
      BY <3>4, <3>5
    <3>. QED
      BY <3>5, <3>6 DEF b
  <2>. QED
    BY <2>2, <2>3
<1>3. P = SUBSET S
  <2>1. P \in SUBSET (SUBSET S)
    OBVIOUS
  <2>. HIDE DEF P
  <2>. QED
    BY <1>1, <1>2, <2>1, FiniteSetInduction
<1>. QED
  BY <1>3

\* A sum depends only on what is added.
LEMMA SumSame ==
  ASSUME NEW S, IsFiniteSet(S), NEW f, NEW g, \A x \in S : f[x] = g[x]
  PROVE  SumOf(f, S) = SumOf(g, S)
<1>. DEFINE P == {s \in SUBSET S : SumOf(f, s) = SumOf(g, s)}
<1>1. {} \in P
  BY FS_EmptySet, SumOfStep
<1>2. ASSUME NEW s \in SUBSET S, s # {}, \A x \in s : s \ {x} \in P  PROVE s \in P
  <2>1. PICK x \in s : /\ SumOf(f, s) = f[x] + SumOf(f, s \ {x})
                       /\ SumOf(g, s) = g[x] + SumOf(g, s \ {x})
    <3>. DEFINE x == CHOOSE x \in s : TRUE
    <3>1. IsFiniteSet(s)
      BY FS_Subset
    <3>2. SumOf(f, s) = f[x] + SumOf(f, s \ {x}) /\ SumOf(g, s) = g[x] + SumOf(g, s \ {x})
      BY <1>2, <3>1, SumOfStep
    <3>3. x \in s
      BY <1>2
    <3>. HIDE DEF x
    <3>. QED
      BY <3>2, <3>3
  <2>. QED
    BY <1>2, <2>1
<1>3. P = SUBSET S
  <2>1. P \in SUBSET (SUBSET S)
    OBVIOUS
  <2>. HIDE DEF P
  <2>. QED
    BY <1>1, <1>2, <2>1, FiniteSetInduction
<1>. QED
  BY <1>3

\* What one more member adds.
LEMMA SumAdd ==
  ASSUME NEW S, IsFiniteSet(S), NEW x, x \notin S, NEW f, \A y \in S \cup {x} : f[y] \in Int
  PROVE  SumOf(f, S \cup {x}) = SumOf(f, S) + f[x]
<1>1. IsFiniteSet(S \cup {x}) /\ (S \cup {x}) \ {x} = S
  BY FS_AddElement
<1>2. SumOf(f, S \cup {x}) = f[x] + SumOf(f, S)
  BY <1>1, SumRemove
<1>3. SumOf(f, S) \in Int
  BY SumType
<1>. QED
  BY <1>2, <1>3

\* What a change of one member changes.
LEMMA SumChange ==
  ASSUME NEW S, IsFiniteSet(S), NEW f, NEW g, \A y \in S : f[y] \in Int /\ g[y] \in Int,
         NEW x \in S, \A y \in S \ {x} : g[y] = f[y]
  PROVE  SumOf(g, S) = SumOf(f, S) + g[x] - f[x]
<1>1. IsFiniteSet(S \ {x})
  BY FS_Subset
<1>2. SumOf(f, S) = f[x] + SumOf(f, S \ {x}) /\ SumOf(g, S) = g[x] + SumOf(g, S \ {x})
  BY SumRemove
<1>3. SumOf(f, S \ {x}) = SumOf(g, S \ {x}) /\ SumOf(f, S \ {x}) \in Int
  BY <1>1, SumSame, SumType
<1>. QED
  BY <1>2, <1>3

\* Sums are added term by term.
LEMMA SumPlus ==
  ASSUME NEW S, IsFiniteSet(S), NEW f, NEW g, NEW h,
         \A x \in S : f[x] \in Int /\ g[x] \in Int /\ h[x] = f[x] + g[x]
  PROVE  SumOf(h, S) = SumOf(f, S) + SumOf(g, S)
<1>. DEFINE P == {s \in SUBSET S : SumOf(h, s) = SumOf(f, s) + SumOf(g, s)}
<1>1. {} \in P
  <2>1. SumOf(f, {}) = 0 /\ SumOf(g, {}) = 0 /\ SumOf(h, {}) = 0
    BY FS_EmptySet, SumOfStep
  <2>. QED
    BY <2>1
<1>2. ASSUME NEW s \in SUBSET S, s # {}, \A x \in s : s \ {x} \in P  PROVE s \in P
  <2>1. PICK x : x \in s
    BY <1>2
  <2>2. IsFiniteSet(s) /\ IsFiniteSet(s \ {x})
    BY FS_Subset
  <2>3. /\ SumOf(f, s) = f[x] + SumOf(f, s \ {x}) /\ SumOf(g, s) = g[x] + SumOf(g, s \ {x})
        /\ SumOf(h, s) = h[x] + SumOf(h, s \ {x})
    BY <2>1, <2>2, SumRemove
  <2>4. SumOf(f, s \ {x}) \in Int /\ SumOf(g, s \ {x}) \in Int
    BY <2>2, SumType
  <2>5. SumOf(h, s \ {x}) = SumOf(f, s \ {x}) + SumOf(g, s \ {x})
    BY <1>2, <2>1
  <2>6. f[x] \in Int /\ g[x] \in Int /\ h[x] = f[x] + g[x]
    BY <2>1
  <2>7. SumOf(h, s) = SumOf(f, s) + SumOf(g, s)
    BY <2>3, <2>4, <2>5, <2>6
  <2>. QED
    BY <2>7
<1>3. P = SUBSET S
  <2>1. P \in SUBSET (SUBSET S)
    OBVIOUS
  <2>. HIDE DEF P
  <2>. QED
    BY <1>1, <1>2, <2>1, FiniteSetInduction
<1>. QED
  BY <1>3

\* A factor of every term is one of the sum.
LEMMA SumTimes ==
  ASSUME NEW S, IsFiniteSet(S), NEW c \in Int, NEW f, NEW h,
         \A x \in S : f[x] \in Int /\ h[x] = c * f[x]
  PROVE  SumOf(h, S) = c * SumOf(f, S)
<1>. DEFINE P == {s \in SUBSET S : SumOf(h, s) = c * SumOf(f, s)}
<1>1. {} \in P
  <2>1. SumOf(f, {}) = 0 /\ SumOf(h, {}) = 0
    BY FS_EmptySet, SumOfStep
  <2>. QED
    BY <2>1
<1>2. ASSUME NEW s \in SUBSET S, s # {}, \A x \in s : s \ {x} \in P  PROVE s \in P
  <2>1. PICK x : x \in s
    BY <1>2
  <2>2. IsFiniteSet(s) /\ IsFiniteSet(s \ {x})
    BY FS_Subset
  <2>3. /\ SumOf(f, s) = f[x] + SumOf(f, s \ {x})
        /\ SumOf(h, s) = h[x] + SumOf(h, s \ {x})
    <3>1. \A y \in s : f[y] \in Int /\ h[y] \in Int
      OBVIOUS
    <3>. QED
      BY <2>1, <2>2, <3>1, SumRemove
  <2>4. SumOf(f, s \ {x}) \in Int
    BY <2>2, SumType
  <2>5. SumOf(h, s \ {x}) = c * SumOf(f, s \ {x})
    BY <1>2, <2>1
  <2>6. f[x] \in Int /\ h[x] = c * f[x]
    BY <2>1
  <2>7. SumOf(h, s) = c * SumOf(f, s)
    <3>. DEFINE a == f[x]  b == SumOf(f, s \ {x})
    <3>1. a \in Int /\ b \in Int /\ SumOf(h, s) = c * a + c * b /\ SumOf(f, s) = a + b
      BY <2>3, <2>4, <2>5, <2>6
    <3>. HIDE DEF a, b
    <3>2. c * (a + b) = c * a + c * b
      BY <3>1
    <3>. QED
      BY <3>1, <3>2
  <2>. QED
    BY <2>7
<1>3. P = SUBSET S
  <2>1. P \in SUBSET (SUBSET S)
    OBVIOUS
  <2>. HIDE DEF P
  <2>. QED
    BY <1>1, <1>2, <2>1, FiniteSetInduction
<1>. QED
  BY <1>3

\* The same number for every member of a subset.
LEMMA SumConstant ==
  ASSUME NEW S, IsFiniteSet(S), NEW T \in SUBSET S, NEW f,
         \A x \in S : f[x] = IF x \in T THEN 1 ELSE 0
  PROVE  SumOf(f, S) = Cardinality(T)
<1>. DEFINE P == {s \in SUBSET S : SumOf(f, s) = Cardinality(s \cap T)}
<1>1. {} \in P
  BY FS_EmptySet, SumOfStep
<1>2. ASSUME NEW s \in SUBSET S, s # {}, \A x \in s : s \ {x} \in P  PROVE s \in P
  <2>1. PICK x : x \in s
    BY <1>2
  <2>2. IsFiniteSet(s) /\ IsFiniteSet((s \ {x}) \cap T)
    BY FS_Subset
  <2>3. SumOf(f, s) = f[x] + SumOf(f, s \ {x})
    BY <2>1, <2>2, SumRemove
  <2>4. SumOf(f, s \ {x}) = Cardinality((s \ {x}) \cap T)
    BY <1>2, <2>1
  <2>5. Cardinality((s \ {x}) \cap T) \in Nat
    BY <2>2, FS_CardinalityType
  <2>6. CASE x \in T
    <3>1. s \cap T = ((s \ {x}) \cap T) \cup {x} /\ x \notin (s \ {x}) \cap T
      BY <2>1, <2>6
    <3>2. Cardinality(s \cap T) = Cardinality((s \ {x}) \cap T) + 1
      BY <2>2, <3>1, FS_AddElement
    <3>3. f[x] = 1
      BY <2>1, <2>6
    <3>4. SumOf(f, s) = 1 + Cardinality((s \ {x}) \cap T)
      BY <2>3, <2>4, <3>3
    <3>5. SumOf(f, s) = Cardinality(s \cap T)
      BY <2>5, <3>2, <3>4
    <3>. QED
      BY <3>5
  <2>7. CASE x \notin T
    <3>1. s \cap T = (s \ {x}) \cap T
      BY <2>7
    <3>2. f[x] = 0
      BY <2>1, <2>7
    <3>3. SumOf(f, s) = 0 + Cardinality((s \ {x}) \cap T)
      BY <2>3, <2>4, <3>2
    <3>4. Cardinality(s \cap T) = Cardinality((s \ {x}) \cap T)
      BY <3>1
    <3>. DEFINE n == Cardinality((s \ {x}) \cap T)
    <3>5. n \in Nat /\ SumOf(f, s) = 0 + n /\ Cardinality(s \cap T) = n
      BY <2>5, <3>3, <3>4
    <3>. HIDE DEF n
    <3>6. SumOf(f, s) = Cardinality(s \cap T)
      BY <3>5
    <3>. QED
      BY <3>6
  <2>. QED
    BY <2>6, <2>7
<1>3. P = SUBSET S
  <2>1. P \in SUBSET (SUBSET S)
    OBVIOUS
  <2>. HIDE DEF P
  <2>. QED
    BY <1>1, <1>2, <2>1, FiniteSetInduction
<1>4. S \cap T = T
  OBVIOUS
<1>. QED
  BY <1>3, <1>4

\* So much for each member of a subset.
LEMMA SumShares ==
  ASSUME NEW S, IsFiniteSet(S), NEW T \in SUBSET S, NEW c \in Int, NEW f,
         \A x \in S : f[x] = IF x \in T THEN c ELSE 0
  PROVE  SumOf(f, S) = c * Cardinality(T)
<1>. DEFINE one == [x \in S |-> IF x \in T THEN 1 ELSE 0]
<1>1. \A x \in S : one[x] = IF x \in T THEN 1 ELSE 0
  OBVIOUS
<1>. HIDE DEF one
<1>2. \A x \in S : one[x] \in Int /\ f[x] = c * one[x]
  BY <1>1
<1>3. SumOf(one, S) = Cardinality(T)
  BY <1>1, SumConstant
<1>. QED
  BY <1>2, <1>3, SumTimes

=============================================================================

----------------------------- MODULE DataTheorems -----------------------------
(***************************************************************************)
(* Induction over the naturals and over finite sets, in a form that needs  *)
(* no operator parameter, and with it the facts about SumFunctionOnSet of  *)
(* the module Functions that the books of the program and of the ledger    *)
(* rest on; and the positions that filtering a list keeps.                 *)
(*                                                                         *)
(* To show that all of a set has a property, the minimal element of those  *)
(* without it is led to a contradiction.                                   *)
(***************************************************************************)
EXTENDS Integers, Sequences, FiniteSets, Functions, Lists, FiniteSetTheorems,
        WellFoundedInduction, TLAPS

\* Among finitely many finite sets and their subsets, one that is minimal.
LEMMA MinimalSubset ==
  ASSUME NEW S, IsFiniteSet(S), NEW C, C \subseteq SUBSET S, C # {}
  PROVE  \E A \in C : IsFiniteSet(A) /\ \A B \in C : B \subseteq A => B = A
<1>1. IsWellFoundedOn(StrictSubsetOrdering(S), FiniteSubsetsOf(S))
  BY FS_StrictSubsetOrderingWellFounded
<1>2. FiniteSubsetsOf(S) = SUBSET S
  BY FS_FiniteSubsetsOfFinite
<1>3. PICK A \in C : \A B \in C : <<B, A>> \notin StrictSubsetOrdering(S)
  BY <1>1, <1>2, WFMin
<1>4. \A B \in SUBSET S : B \subseteq A /\ B # A => <<B, A>> \in StrictSubsetOrdering(S)
  BY DEF StrictSubsetOrdering
<1>5. IsFiniteSet(A)
  BY FS_Subset
<1>6. ASSUME NEW B \in C, B \subseteq A
      PROVE  B = A
  <2>1. A \in SUBSET S /\ B \in SUBSET S
    OBVIOUS
  <2>2. <<B, A>> \notin StrictSubsetOrdering(S)
    BY <1>3
  <2>3. QED
    BY <1>4, <1>6, <2>1, <2>2
<1>7. QED
  BY <1>5, <1>6

\* A non-empty set of naturals has a least element.
LEMMA LeastNatural ==
  ASSUME NEW T, T \subseteq Nat, T # {}
  PROVE  \E m \in T : \A n \in T : m <= n
<1> DEFINE Less == {mn \in Nat \X Nat : mn[1] < mn[2]}
<1>1. Less = OpToRel(<, Nat)
  BY DEF OpToRel
<1>2. \A m, n \in Nat : m < n => <<m, n>> \in Less
  OBVIOUS
<1> HIDE DEF Less
<1>3. IsWellFoundedOn(Less, Nat)
  BY <1>1, NatLessThanWellFounded
<1>4. PICK m \in T : \A n \in T : <<n, m>> \notin Less
  BY <1>3, WFMin
<1>5. ASSUME NEW n \in T
      PROVE  m <= n
  <2>1. m \in Nat /\ n \in Nat
    OBVIOUS
  <2>2. ~(n < m)
    BY <1>2, <1>4, <2>1
  <2>3. QED
    BY <2>1, <2>2
<1>6. QED
  BY <1>5

\* Induction over the naturals: a set that holds 0 and successors holds them all.
LEMMA Induction ==
  ASSUME NEW T, 0 \in T, \A n \in Nat : n \in T => n + 1 \in T
  PROVE  Nat \subseteq T
<1> SUFFICES ASSUME Nat \ T # {} PROVE FALSE
  OBVIOUS
<1>1. PICK m \in Nat \ T : \A n \in Nat \ T : m <= n
  BY LeastNatural
<1>2. m - 1 \in Nat /\ ~(m <= m - 1)
  BY <1>1
<1>3. QED
  BY <1>1, <1>2

-----------------------------------------------------------------------------
(***************************************************************************)
(* The function SumFunctionOnSet recurses with.                            *)
(***************************************************************************)
Chosen(s) == CHOOSE x \in s : TRUE

\* What the recursion makes of s, given its values g on smaller sets.
Unfold(f, g, s) == IF s = {} THEN 0 ELSE f[Chosen(s)] + g[s \ {Chosen(s)}]

Iter(f, S) == CHOOSE g : g = [s \in SUBSET S |-> Unfold(f, g, s)]

\* g is the sum of f over each of the sets D.
IsIter(f, D, g) == g = [s \in D |-> Unfold(f, g, s)]
SubsetsUpTo(S, n) == {r \in SUBSET S : Cardinality(r) <= n}

LEMMA SumIsIter ==
  ASSUME NEW f, NEW S
  PROVE  SumFunctionOnSet(f, S) = Iter(f, S)[S]
  BY DEF SumFunctionOnSet, FoldFunctionOnSet, MapThenFoldSet, Iter, Unfold, Chosen

\* There is such a function on the subsets of up to n elements, for each n.
LEMMA IterUpTo ==
  ASSUME NEW f, NEW S, IsFiniteSet(S), NEW n \in Nat
  PROVE  \E g : IsIter(f, SubsetsUpTo(S, n), g)
<1> DEFINE Upto(m) == {r \in SUBSET S : Cardinality(r) <= m}
           Good(m, g) == g = [s \in Upto(m) |-> Unfold(f, g, s)]
           T == {m \in Nat : \E g : Good(m, g)}
<1>1. \A s \in SUBSET S : s # {} =>
        /\ Chosen(s) \in s /\ s \ {Chosen(s)} \in SUBSET S
        /\ Cardinality(s) \in Nat /\ Cardinality(s \ {Chosen(s)}) = Cardinality(s) - 1
  <2> SUFFICES ASSUME NEW s \in SUBSET S, s # {}
               PROVE  /\ Chosen(s) \in s /\ s \ {Chosen(s)} \in SUBSET S
                      /\ Cardinality(s) \in Nat
                      /\ Cardinality(s \ {Chosen(s)}) = Cardinality(s) - 1
    OBVIOUS
  <2>1. Chosen(s) \in s
    BY DEF Chosen
  <2>2. IsFiniteSet(s)
    BY FS_Subset
  <2>3. QED
    BY <2>1, <2>2, FS_RemoveElement, FS_CardinalityType
<1>2. 0 \in T
  <2> DEFINE g == [s \in Upto(0) |-> 0]
  <2>1. \A s \in Upto(0) : s = {}
    <3> SUFFICES ASSUME NEW s \in SUBSET S, Cardinality(s) <= 0
                 PROVE  s = {}
      OBVIOUS
    <3>1. IsFiniteSet(s) /\ Cardinality(s) \in Nat
      BY FS_Subset, FS_CardinalityType
    <3>2. QED
      BY <3>1, FS_EmptySet
  <2>2. \A s \in Upto(0) : Unfold(f, g, s) = 0
    BY <2>1 DEF Unfold
  <2>3. Good(0, g)
    BY <2>2
  <2>4. QED
    BY <2>3
<1>3. ASSUME NEW m \in Nat, m \in T
      PROVE  m + 1 \in T
  <2>1. PICK g : Good(m, g)
    BY <1>3
  <2> DEFINE h == [s \in Upto(m + 1) |-> Unfold(f, g, s)]
  <2>2. ASSUME NEW s \in Upto(m)
        PROVE  s \in Upto(m + 1) /\ h[s] = g[s]
    <3>1. Cardinality(s) \in Nat
      BY FS_Subset, FS_CardinalityType
    <3>2. s \in Upto(m + 1)
      BY <3>1
    <3>3. g[s] = Unfold(f, g, s)
      BY <2>1
    <3>4. QED
      BY <3>2, <3>3
  <2>3. ASSUME NEW s \in Upto(m + 1)
        PROVE  Unfold(f, g, s) = Unfold(f, h, s)
    <3>1. CASE s = {}
      BY <3>1 DEF Unfold
    <3>2. CASE s # {}
      <4>1. s \ {Chosen(s)} \in Upto(m)
        BY <1>1, <3>2
      <4> HIDE DEF h, Upto
      <4>2. h[s \ {Chosen(s)}] = g[s \ {Chosen(s)}]
        BY <2>2, <4>1
      <4>3. QED
        BY <3>2, <4>2 DEF Unfold
    <3>3. QED
      BY <3>1, <3>2
  <2>4. Good(m + 1, h)
    BY <2>3
  <2> HIDE DEF h, Good
  <2>5. m + 1 \in Nat /\ \E i : Good(m + 1, i)
    BY <2>4
  <2>6. QED
    BY <2>5
<1> HIDE DEF T
<1>4. Nat \subseteq T
  BY <1>2, <1>3, Induction
<1>5. QED
  BY <1>4 DEF T, IsIter, SubsetsUpTo

\* So there is one on all the subsets of a finite set.
LEMMA IterUnfolds ==
  ASSUME NEW f, NEW S, IsFiniteSet(S), NEW s \in SUBSET S
  PROVE  Iter(f, S)[s] = Unfold(f, Iter(f, S), s)
<1>1. \A r \in SUBSET S : Cardinality(r) <= Cardinality(S)
  BY FS_Subset
<1>2. SubsetsUpTo(S, Cardinality(S)) = SUBSET S
  BY <1>1 DEF SubsetsUpTo
<1>3. Cardinality(S) \in Nat
  BY FS_CardinalityType
<1>4. \E g : IsIter(f, SUBSET S, g)
  <2>1. \A n \in Nat : \E g : IsIter(f, SubsetsUpTo(S, n), g)
    BY IterUpTo
  <2>2. QED
    BY <1>2, <1>3, <2>1
<1>5. Iter(f, S) = [r \in SUBSET S |-> Unfold(f, Iter(f, S), r)]
  BY <1>4 DEF Iter, IsIter
<1>6. QED
  BY <1>5

\* What it says of a set depends on the members of that set only.
LEMMA IterAgree ==
  ASSUME NEW f, NEW g, NEW A, NEW B, IsFiniteSet(A), IsFiniteSet(B),
         NEW s, s \subseteq A, s \subseteq B, \A x \in s : f[x] = g[x]
  PROVE  Iter(f, A)[s] = Iter(g, B)[s]
<1> DEFINE C == {r \in SUBSET s : Iter(f, A)[r] # Iter(g, B)[r]}
<1> SUFFICES ASSUME C # {}
             PROVE  FALSE
  OBVIOUS
<1>1. IsFiniteSet(s) /\ C \subseteq SUBSET s
  BY FS_Subset
<1> HIDE DEF C
<1>2. PICK r \in C : \A q \in C : q \subseteq r => q = r
  BY <1>1, MinimalSubset
<1> USE DEF C
<1>3. r \in SUBSET A /\ r \in SUBSET B /\ r \in SUBSET s
  OBVIOUS
<1>4. Iter(f, A)[r] = Unfold(f, Iter(f, A), r) /\ Iter(g, B)[r] = Unfold(g, Iter(g, B), r)
  BY <1>3, IterUnfolds
<1>5. CASE r = {}
  BY <1>4, <1>5 DEF Unfold
<1>6. CASE r # {}
  <2>1. Chosen(r) \in r
    BY <1>6 DEF Chosen
  <2>2. r \ {Chosen(r)} \notin C
    BY <1>2, <2>1
  <2>3. r \ {Chosen(r)} \in SUBSET s
    BY <1>3
  <2>4. Iter(f, A)[r \ {Chosen(r)}] = Iter(g, B)[r \ {Chosen(r)}]
    BY <2>2, <2>3
  <2>5. f[Chosen(r)] = g[Chosen(r)]
    BY <1>3, <2>1
  <2>6. Iter(f, A)[r] = Iter(g, B)[r]
    BY <1>4, <1>6, <2>4, <2>5 DEF Unfold
  <2>7. QED
    BY <2>6
<1>7. QED
  BY <1>5, <1>6

-----------------------------------------------------------------------------
(***************************************************************************)
(* Sums over finite sets.                                                  *)
(***************************************************************************)
\* Induction over a finite set: a set of its subsets that holds the empty one and
\* any that is one element larger than one it holds, holds the whole set.
LEMMA FiniteInduction ==
  ASSUME NEW S, IsFiniteSet(S), NEW T, {} \in T,
         \A r \in SUBSET S, x \in S : x \in r /\ r \ {x} \in T => r \in T
  PROVE  S \in T
<1> DEFINE C == {r \in SUBSET S : r \notin T}
<1> SUFFICES ASSUME C # {}
             PROVE  FALSE
  OBVIOUS
<1>0. C \subseteq SUBSET S
  OBVIOUS
<1> HIDE DEF C
<1>1. PICK r \in C : \A q \in C : q \subseteq r => q = r
  BY <1>0, MinimalSubset
<1> USE DEF C
<1>2. PICK x \in S : x \in r
  OBVIOUS
<1>3. r \ {x} \in T
  BY <1>1, <1>2
<1>4. QED
  BY <1>2, <1>3

\* Only the values on the set count.
LEMMA SumAgrees ==
  ASSUME NEW f, NEW g, NEW S, IsFiniteSet(S), \A x \in S : f[x] = g[x]
  PROVE  SumFunctionOnSet(f, S) = SumFunctionOnSet(g, S)
BY SumIsIter, IterAgree

LEMMA SumOfNone ==
  ASSUME NEW f
  PROVE  SumFunctionOnSet(f, {}) = 0
<1>1. IsFiniteSet({}) /\ {} \in SUBSET {}
  BY FS_EmptySet
<1>2. Iter(f, {})[{}] = Unfold(f, Iter(f, {}), {})
  BY <1>1, IterUnfolds
<1>3. QED
  BY <1>2, SumIsIter DEF Unfold

LEMMA SumUnfolds ==
  ASSUME NEW f, NEW S, IsFiniteSet(S), S # {}
  PROVE  /\ Chosen(S) \in S
         /\ SumFunctionOnSet(f, S)
              = f[Chosen(S)] + SumFunctionOnSet(f, S \ {Chosen(S)})
<1> DEFINE R == S \ {Chosen(S)}
<1>1. Chosen(S) \in S
  BY DEF Chosen
<1>2. IsFiniteSet(R) /\ R \subseteq S
  BY FS_Subset
<1>3. S \in SUBSET S
  OBVIOUS
<1>4. Iter(f, S)[S] = f[Chosen(S)] + Iter(f, S)[R]
  BY <1>3, IterUnfolds DEF Unfold
<1>5. Iter(f, S)[R] = Iter(f, R)[R]
  BY <1>2, IterAgree
<1>6. QED
  BY <1>1, <1>4, <1>5, SumIsIter

\* A sum of integers is one.
LEMMA SumIsInt ==
  ASSUME NEW f, NEW S, IsFiniteSet(S), \A x \in S : f[x] \in Int
  PROVE  SumFunctionOnSet(f, S) \in Int
<1> DEFINE C == {r \in SUBSET S : SumFunctionOnSet(f, r) \notin Int}
<1> SUFFICES ASSUME C # {}
             PROVE  FALSE
  OBVIOUS
<1>0. C \subseteq SUBSET S
  OBVIOUS
<1> HIDE DEF C
<1>1. PICK r \in C : \A q \in C : q \subseteq r => q = r
  BY <1>0, MinimalSubset
<1> USE DEF C
<1>2. r # {}
  BY SumOfNone
<1>3. IsFiniteSet(r) /\ r \subseteq S
  BY FS_Subset
<1>4. Chosen(r) \in r
      /\ SumFunctionOnSet(f, r) = f[Chosen(r)] + SumFunctionOnSet(f, r \ {Chosen(r)})
  BY <1>2, <1>3, SumUnfolds
<1>5. SumFunctionOnSet(f, r \ {Chosen(r)}) \in Int
  BY <1>1, <1>4
<1>6. QED
  BY <1>3, <1>4, <1>5

\* One element may be set aside, whichever it is.
LEMMA SumSplits ==
  ASSUME NEW f, NEW S, IsFiniteSet(S), \A x \in S : f[x] \in Int, NEW x \in S
  PROVE  SumFunctionOnSet(f, S) = f[x] + SumFunctionOnSet(f, S \ {x})
<1> DEFINE Splits(r, y) == SumFunctionOnSet(f, r) = f[y] + SumFunctionOnSet(f, r \ {y})
           C == {r \in SUBSET S : \E y \in r : ~Splits(r, y)}
<1> SUFFICES ASSUME C # {}
             PROVE  FALSE
  OBVIOUS
<1>0. C \subseteq SUBSET S
  OBVIOUS
<1> HIDE DEF C
<1>1. PICK r \in C : \A q \in C : q \subseteq r => q = r
  BY <1>0, MinimalSubset
<1> USE DEF C
<1>2. PICK y \in r : ~Splits(r, y)
  BY <1>1
<1>3. IsFiniteSet(r) /\ r \subseteq S
  BY FS_Subset
<1> DEFINE c == Chosen(r)
<1>4. c \in r /\ Splits(r, c)
  BY <1>2, <1>3, SumUnfolds
<1> HIDE DEF c
<1>5. c # y
  BY <1>2, <1>4
<1>6. Splits(r \ {c}, y) /\ Splits(r \ {y}, c)
  <2>1. r \ {c} \notin C /\ r \ {y} \notin C
    BY <1>1, <1>2, <1>4
  <2>2. QED
    BY <1>2, <1>3, <1>4, <1>5, <2>1
<1>7. (r \ {c}) \ {y} = (r \ {y}) \ {c}
  OBVIOUS
<1>8. f[c] \in Int /\ f[y] \in Int /\ SumFunctionOnSet(f, (r \ {y}) \ {c}) \in Int
  <2>1. IsFiniteSet((r \ {y}) \ {c}) /\ (r \ {y}) \ {c} \subseteq S
    BY <1>3, FS_Subset
  <2>2. \A z \in (r \ {y}) \ {c} : f[z] \in Int
    BY <2>1
  <2>3. QED
    BY <1>3, <1>4, <2>1, <2>2, SumIsInt
<1>9. SumFunctionOnSet(f, r) = f[c] + (f[y] + SumFunctionOnSet(f, (r \ {y}) \ {c}))
  BY <1>4, <1>6, <1>7
<1>10. SumFunctionOnSet(f, r \ {y}) = f[c] + SumFunctionOnSet(f, (r \ {y}) \ {c})
  BY <1>6
<1>11. SumFunctionOnSet(f, r) = f[y] + SumFunctionOnSet(f, r \ {y})
  BY <1>8, <1>9, <1>10
<1>12. QED
  BY <1>2, <1>11

\* The same for every part of S at once, with the types the arithmetic needs.
LEMMA SumOfParts ==
  ASSUME NEW f, NEW S, IsFiniteSet(S), \A x \in S : f[x] \in Int
  PROVE  /\ \A r \in SUBSET S : SumFunctionOnSet(f, r) \in Int
         /\ \A r \in SUBSET S : \A x \in r :
              SumFunctionOnSet(f, r) = f[x] + SumFunctionOnSet(f, r \ {x})
<1> SUFFICES ASSUME NEW r \in SUBSET S
             PROVE  /\ SumFunctionOnSet(f, r) \in Int
                    /\ \A x \in r : SumFunctionOnSet(f, r) = f[x] + SumFunctionOnSet(f, r \ {x})
  OBVIOUS
<1>1. IsFiniteSet(r) /\ \A x \in r : f[x] \in Int
  BY FS_Subset
<1>2. SumFunctionOnSet(f, r) \in Int
  BY <1>1, SumIsInt
<1>3. ASSUME NEW x \in r
      PROVE  SumFunctionOnSet(f, r) = f[x] + SumFunctionOnSet(f, r \ {x})
  BY <1>1, SumSplits
<1>4. QED
  BY <1>2, <1>3

\* The sum of a pointwise sum is the sum of the sums.
LEMMA SumOfSums ==
  ASSUME NEW f, NEW g, NEW h, NEW S, IsFiniteSet(S),
         \A x \in S : f[x] \in Int /\ g[x] \in Int /\ h[x] = f[x] + g[x]
  PROVE  SumFunctionOnSet(h, S) = SumFunctionOnSet(f, S) + SumFunctionOnSet(g, S)
<1> DEFINE Adds(r) == SumFunctionOnSet(h, r) = SumFunctionOnSet(f, r) + SumFunctionOnSet(g, r)
           T == {r \in SUBSET S : Adds(r)}
<1>1. {} \in T
  BY SumOfNone
<1>2. ASSUME NEW r \in SUBSET S, NEW x \in S, x \in r, r \ {x} \in T
      PROVE  r \in T
  <2>1. \A y \in S : f[y] \in Int /\ g[y] \in Int /\ h[y] \in Int
    OBVIOUS
  <2>2. /\ SumFunctionOnSet(f, r) = f[x] + SumFunctionOnSet(f, r \ {x})
        /\ SumFunctionOnSet(f, r \ {x}) \in Int
    BY <1>2, <2>1, SumOfParts
  <2>3. /\ SumFunctionOnSet(g, r) = g[x] + SumFunctionOnSet(g, r \ {x})
        /\ SumFunctionOnSet(g, r \ {x}) \in Int
    BY <1>2, <2>1, SumOfParts
  <2>4. SumFunctionOnSet(h, r) = h[x] + SumFunctionOnSet(h, r \ {x})
    BY <1>2, <2>1, SumOfParts
  <2>5. Adds(r \ {x})
    BY <1>2
  <2>6. Adds(r)
    BY <2>1, <2>2, <2>3, <2>4, <2>5
  <2>7. QED
    BY <2>6
<1> HIDE DEF T
<1>3. S \in T
  BY <1>1, <1>2, FiniteInduction
<1>4. QED
  BY <1>3 DEF T

\* A constant factor comes out.
LEMMA SumOfMultiples ==
  ASSUME NEW f, NEW h, NEW c \in Int, NEW S, IsFiniteSet(S),
         \A x \in S : f[x] \in Int /\ h[x] = c * f[x]
  PROVE  SumFunctionOnSet(h, S) = c * SumFunctionOnSet(f, S)
<1> DEFINE Scales(r) == SumFunctionOnSet(h, r) = c * SumFunctionOnSet(f, r)
           T == {r \in SUBSET S : Scales(r)}
<1>1. {} \in T
  BY SumOfNone
<1>2. ASSUME NEW r \in SUBSET S, NEW x \in S, x \in r, r \ {x} \in T
      PROVE  r \in T
  <2>1. \A y \in S : f[y] \in Int /\ h[y] \in Int
    OBVIOUS
  <2>2. /\ SumFunctionOnSet(f, r) = f[x] + SumFunctionOnSet(f, r \ {x})
        /\ SumFunctionOnSet(f, r \ {x}) \in Int
    BY <1>2, <2>1, SumOfParts
  <2>3. SumFunctionOnSet(h, r) = h[x] + SumFunctionOnSet(h, r \ {x})
    BY <1>2, <2>1, SumOfParts
  <2>4. Scales(r \ {x})
    BY <1>2
  <2>5. c * (f[x] + SumFunctionOnSet(f, r \ {x})) = c * f[x] + c * SumFunctionOnSet(f, r \ {x})
    BY <2>1, <2>2
  <2>6. Scales(r)
    BY <2>2, <2>3, <2>4, <2>5
  <2>7. QED
    BY <2>6
<1> HIDE DEF T
<1>3. S \in T
  BY <1>1, <1>2, FiniteInduction
<1>4. QED
  BY <1>3 DEF T

\* Larger values, a larger sum.
LEMMA SumIsMonotone ==
  ASSUME NEW f, NEW g, NEW S, IsFiniteSet(S),
         \A x \in S : f[x] \in Int /\ g[x] \in Int /\ f[x] <= g[x]
  PROVE  SumFunctionOnSet(f, S) <= SumFunctionOnSet(g, S)
<1> DEFINE Below(r) == SumFunctionOnSet(f, r) <= SumFunctionOnSet(g, r)
           T == {r \in SUBSET S : Below(r)}
<1>1. {} \in T
  BY SumOfNone
<1>2. ASSUME NEW r \in SUBSET S, NEW x \in S, x \in r, r \ {x} \in T
      PROVE  r \in T
  <2>1. \A y \in S : f[y] \in Int /\ g[y] \in Int
    OBVIOUS
  <2>2. /\ SumFunctionOnSet(f, r) = f[x] + SumFunctionOnSet(f, r \ {x})
        /\ SumFunctionOnSet(f, r \ {x}) \in Int
    BY <1>2, <2>1, SumOfParts
  <2>3. /\ SumFunctionOnSet(g, r) = g[x] + SumFunctionOnSet(g, r \ {x})
        /\ SumFunctionOnSet(g, r \ {x}) \in Int
    BY <1>2, <2>1, SumOfParts
  <2>4. Below(r \ {x})
    BY <1>2
  <2>5. Below(r)
    BY <2>1, <2>2, <2>3, <2>4
  <2>6. QED
    BY <2>5
<1> HIDE DEF T
<1>3. S \in T
  BY <1>1, <1>2, FiniteInduction
<1>4. QED
  BY <1>3 DEF T

LEMMA SumOfZeros ==
  ASSUME NEW f, NEW S, IsFiniteSet(S), \A x \in S : f[x] = 0
  PROVE  SumFunctionOnSet(f, S) = 0
<1>1. SumFunctionOnSet(f, S) \in Int
  BY SumIsInt
<1>2. \A x \in S : f[x] \in Int /\ f[x] = 0 * f[x]
  OBVIOUS
<1>3. SumFunctionOnSet(f, S) = 0 * SumFunctionOnSet(f, S)
  BY <1>2, SumOfMultiples, 0 \in Int
<1>4. QED
  BY <1>1, <1>3

\* A sum of naturals is one, and no smaller than any of them.
LEMMA SumIsNat ==
  ASSUME NEW f, NEW S, IsFiniteSet(S), \A x \in S : f[x] \in Nat
  PROVE  /\ SumFunctionOnSet(f, S) \in Nat
         /\ \A x \in S : f[x] <= SumFunctionOnSet(f, S)
<1> DEFINE T == {r \in SUBSET S : SumFunctionOnSet(f, r) \in Nat}
<1>0. \A x \in S : f[x] \in Int
  OBVIOUS
<1>1. {} \in T
  BY SumOfNone
<1>2. ASSUME NEW r \in SUBSET S, NEW x \in S, x \in r, r \ {x} \in T
      PROVE  r \in T
  <2>1. SumFunctionOnSet(f, r) = f[x] + SumFunctionOnSet(f, r \ {x})
    BY <1>0, <1>2, SumOfParts
  <2>2. SumFunctionOnSet(f, r \ {x}) \in Nat /\ f[x] \in Nat
    BY <1>2
  <2>3. QED
    BY <2>1, <2>2
<1>3. \A r \in SUBSET S : SumFunctionOnSet(f, r) \in Nat
  <2> SUFFICES ASSUME NEW r \in SUBSET S
               PROVE  SumFunctionOnSet(f, r) \in Nat
    OBVIOUS
  <2>1. IsFiniteSet(r)
    BY FS_Subset
  <2>2. \A q \in SUBSET r, x \in r : x \in q /\ q \ {x} \in T => q \in T
    BY <1>2
  <2> HIDE DEF T
  <2>3. r \in T
    BY <1>1, <2>1, <2>2, FiniteInduction
  <2>4. QED
    BY <2>3 DEF T
<1>4. ASSUME NEW x \in S
      PROVE  f[x] <= SumFunctionOnSet(f, S)
  <2>1. SumFunctionOnSet(f, S) = f[x] + SumFunctionOnSet(f, S \ {x})
    BY <1>0, SumSplits
  <2>2. SumFunctionOnSet(f, S \ {x}) \in Nat /\ f[x] \in Nat
    BY <1>3
  <2>3. QED
    BY <2>1, <2>2
<1>5. QED
  BY <1>3, <1>4

\* The sum over two sets without a common element.
LEMMA SumOfUnion ==
  ASSUME NEW f, NEW A, NEW B, IsFiniteSet(A), IsFiniteSet(B), A \cap B = {},
         \A x \in A \cup B : f[x] \in Int
  PROVE  SumFunctionOnSet(f, A \cup B) = SumFunctionOnSet(f, A) + SumFunctionOnSet(f, B)
<1> DEFINE Adds(r) == SumFunctionOnSet(f, A \cup r) = SumFunctionOnSet(f, A) + SumFunctionOnSet(f, r)
           T == {r \in SUBSET B : Adds(r)}
<1>1. /\ IsFiniteSet(A \cup B)
      /\ \A r \in SUBSET (A \cup B) : SumFunctionOnSet(f, r) \in Int
      /\ \A r \in SUBSET (A \cup B) : \A x \in r :
            SumFunctionOnSet(f, r) = f[x] + SumFunctionOnSet(f, r \ {x})
  <2>1. IsFiniteSet(A \cup B)
    BY FS_Union
  <2>2. QED
    BY <2>1, SumOfParts
<1>2. {} \in T
  <2>1. A \cup {} = A /\ SumFunctionOnSet(f, A) \in Int
    BY <1>1
  <2>2. QED
    BY <2>1, SumOfNone
<1>3. ASSUME NEW r \in SUBSET B, NEW x \in B, x \in r, r \ {x} \in T
      PROVE  r \in T
  <2>1. (A \cup r) \ {x} = A \cup (r \ {x})
    BY <1>3
  <2>2. SumFunctionOnSet(f, A \cup r) = f[x] + SumFunctionOnSet(f, A \cup (r \ {x}))
    BY <1>1, <1>3, <2>1
  <2>3. SumFunctionOnSet(f, r) = f[x] + SumFunctionOnSet(f, r \ {x})
    BY <1>1, <1>3
  <2>4. /\ f[x] \in Int /\ SumFunctionOnSet(f, A) \in Int
        /\ SumFunctionOnSet(f, r \ {x}) \in Int
    BY <1>1
  <2>5. Adds(r \ {x})
    BY <1>3
  <2>6. Adds(r)
    BY <2>2, <2>3, <2>4, <2>5
  <2>7. QED
    BY <2>6
<1> HIDE DEF T
<1>4. B \in T
  BY <1>2, <1>3, FiniteInduction
<1>5. QED
  BY <1>4 DEF T

\* What a sum gains when a single value changes.
LEMMA SumChanges ==
  ASSUME NEW f, NEW g, NEW S, IsFiniteSet(S), NEW x \in S,
         \A y \in S : f[y] \in Int /\ g[y] \in Int,
         \A y \in S \ {x} : g[y] = f[y]
  PROVE  SumFunctionOnSet(g, S) = SumFunctionOnSet(f, S) + (g[x] - f[x])
<1>1. SumFunctionOnSet(f, S) = f[x] + SumFunctionOnSet(f, S \ {x})
  BY SumSplits
<1>2. SumFunctionOnSet(g, S) = g[x] + SumFunctionOnSet(g, S \ {x})
  BY SumSplits
<1>3. IsFiniteSet(S \ {x})
  BY FS_Subset
<1>4. SumFunctionOnSet(f, S \ {x}) = SumFunctionOnSet(g, S \ {x})
  BY <1>3, SumAgrees
<1>5. SumFunctionOnSet(f, S \ {x}) \in Int
  BY <1>3, SumIsInt
<1>6. QED
  BY <1>1, <1>2, <1>4, <1>5

\* The same for a part of the set, which may not hold the value that changes.
LEMMA SumMoves ==
  ASSUME NEW f, NEW g, NEW S, IsFiniteSet(S), NEW x, NEW K, K \subseteq S,
         \A y \in S : f[y] \in Int /\ g[y] \in Int,
         \A y \in S \ {x} : g[y] = f[y]
  PROVE  /\ SumFunctionOnSet(f, K) \in Int
         /\ SumFunctionOnSet(g, K) = IF x \in K THEN SumFunctionOnSet(f, K) + (g[x] - f[x])
                                                ELSE SumFunctionOnSet(f, K)
<1>1. IsFiniteSet(K) /\ \A y \in K : f[y] \in Int /\ g[y] \in Int
  BY FS_Subset
<1>2. SumFunctionOnSet(f, K) \in Int
  BY <1>1, SumIsInt
<1>3. CASE x \in K
  BY <1>1, <1>2, <1>3, SumChanges
<1>4. CASE x \notin K
  <2>1. \A y \in K : f[y] = g[y]
    BY <1>4
  <2>2. SumFunctionOnSet(f, K) = SumFunctionOnSet(g, K)
    BY <1>1, <2>1, SumAgrees
  <2>3. QED
    BY <1>2, <1>4, <2>2
<1>5. QED
  BY <1>3, <1>4

\* What a sum becomes when set and values change at no more than one element.
LEMMA SumChangesAt ==
  ASSUME NEW f, NEW g, NEW A, NEW B, IsFiniteSet(A), IsFiniteSet(B), NEW x,
         A \ {x} = B \ {x}, \A y \in A \ {x} : f[y] \in Int /\ g[y] = f[y],
         NEW a \in Int, NEW b \in Int,
         a = IF x \in A THEN f[x] ELSE 0, b = IF x \in B THEN g[x] ELSE 0
  PROVE  /\ SumFunctionOnSet(f, A) \in Int
         /\ SumFunctionOnSet(g, B) = SumFunctionOnSet(f, A) + (b - a)
<1> DEFINE K == A \ {x}
<1>1. IsFiniteSet(K)
  BY FS_Subset
<1>2. SumFunctionOnSet(g, K) = SumFunctionOnSet(f, K) /\ SumFunctionOnSet(f, K) \in Int
  <2>1. \A y \in K : f[y] = g[y] /\ f[y] \in Int
    OBVIOUS
  <2> HIDE DEF K
  <2>2. QED
    BY <1>1, <2>1, SumAgrees, SumIsInt
<1>3. SumFunctionOnSet(f, A) = SumFunctionOnSet(f, K) + a
  <2>1. CASE x \in A
    <3>1. \A y \in A : f[y] \in Int
      BY <2>1
    <3>2. SumFunctionOnSet(f, A) = f[x] + SumFunctionOnSet(f, K)
      BY <2>1, <3>1, SumSplits
    <3> HIDE DEF K
    <3>3. QED
      BY <1>2, <2>1, <3>2
  <2>2. CASE x \notin A
    <3>1. A = K
      BY <2>2
    <3> HIDE DEF K
    <3>2. QED
      BY <1>2, <2>2, <3>1
  <2>3. QED
    BY <2>1, <2>2
<1>4. SumFunctionOnSet(g, B) = SumFunctionOnSet(g, K) + b
  <2>1. K = B \ {x} /\ \A y \in K : g[y] \in Int
    OBVIOUS
  <2>2. CASE x \in B
    <3>1. \A y \in B : g[y] \in Int
      BY <2>1, <2>2
    <3>2. SumFunctionOnSet(g, B) = g[x] + SumFunctionOnSet(g, K)
      <4>1. SumFunctionOnSet(g, B) = g[x] + SumFunctionOnSet(g, B \ {x})
        BY <2>2, <3>1, SumSplits
      <4>2. QED
        BY <2>1, <4>1
    <3> HIDE DEF K
    <3>3. QED
      BY <1>2, <2>2, <3>2
  <2>3. CASE x \notin B
    <3>1. B = K
      BY <2>1, <2>3
    <3> HIDE DEF K
    <3>2. QED
      BY <1>2, <2>3, <3>1
  <2>4. QED
    BY <2>2, <2>3
<1> HIDE DEF K
<1>5. QED
  BY <1>2, <1>3, <1>4


-----------------------------------------------------------------------------
\* There are finitely many triples over finite sets.
LEMMA TriplesFinite ==
  ASSUME NEW A, NEW B, NEW C, IsFiniteSet(A), IsFiniteSet(B), IsFiniteSet(C)
  PROVE  IsFiniteSet(A \X B \X C)
<1> DEFINE Pairs == (A \X B) \X C
           f == [t \in A \X B \X C |-> <<<<t[1], t[2]>>, t[3]>>]
<1>1. IsFiniteSet(A \X B)
  BY FS_Product
<1>2. IsFiniteSet(Pairs)
  BY <1>1, FS_Product
<1>3. f \in [A \X B \X C -> Pairs]
  OBVIOUS
<1>4. \A t, u \in A \X B \X C : f[t] = f[u] => t = u
  OBVIOUS
<1>5. f \in Injection(A \X B \X C, Pairs)
  BY <1>3, <1>4 DEF Injection, IsInjective
<1>6. QED
  BY <1>2, <1>5, FS_Injection

-----------------------------------------------------------------------------
(***************************************************************************)
(* The positions kept of a list.                                           *)
(***************************************************************************)
\* The n-th elements of a finite set of naturals go through the set in order.
LEMMA NthInOrder ==
  ASSUME NEW K, IsFiniteSet(K), K \subseteq Nat
  PROVE  /\ Cardinality(K) \in Nat
         /\ \A n \in 1..Cardinality(K) : Nth(K, n) \in K
         /\ \A m, n \in 1..Cardinality(K) : m < n => Nth(K, m) < Nth(K, n)
         /\ \A k \in K : \E n \in 1..Cardinality(K) : Nth(K, n) = k
<1> DEFINE Upto(k) == {j \in K : j <= k}
           N == Cardinality(K)
           f == [k \in K |-> PlaceIn(K, k)]
<1>1. N \in Nat
  BY FS_CardinalityType
<1>2. \A k \in K : IsFiniteSet(Upto(k)) /\ PlaceIn(K, k) \in 1..N
  <2> SUFFICES ASSUME NEW k \in K
               PROVE  IsFiniteSet(Upto(k)) /\ PlaceIn(K, k) \in 1..N
    OBVIOUS
  <2>1. Upto(k) \in SUBSET K /\ k \in Upto(k)
    OBVIOUS
  <2>2. IsFiniteSet(Upto(k)) /\ Cardinality(Upto(k)) <= N
    BY <2>1, FS_Subset
  <2>3. Cardinality(Upto(k)) \in Nat /\ Cardinality(Upto(k)) # 0
    BY <2>1, <2>2, FS_CardinalityType, FS_EmptySet
  <2>4. QED
    BY <1>1, <2>2, <2>3 DEF PlaceIn
<1>3. \A j, k \in K : j < k => PlaceIn(K, j) < PlaceIn(K, k)
  <2> SUFFICES ASSUME NEW j \in K, NEW k \in K, j < k
               PROVE  PlaceIn(K, j) < PlaceIn(K, k)
    OBVIOUS
  <2>0. \A i \in Nat : i <= j => i <= k
    OBVIOUS
  <2>1. Upto(j) \in SUBSET Upto(k) /\ k \in Upto(k) /\ k \notin Upto(j)
    <3>1. Upto(j) \in SUBSET Upto(k)
      BY <2>0
    <3>2. QED
      BY <3>1
  <2>2. IsFiniteSet(Upto(k)) /\ IsFiniteSet(Upto(j))
    BY <1>2
  <2> HIDE DEF Upto
  <2>3. Cardinality(Upto(j)) <= Cardinality(Upto(k))
        /\ (Cardinality(Upto(j)) = Cardinality(Upto(k)) => Upto(j) = Upto(k))
    BY <2>1, <2>2, FS_Subset
  <2>4. Cardinality(Upto(j)) \in Nat /\ Cardinality(Upto(k)) \in Nat
    BY <2>2, FS_CardinalityType
  <2>5. Cardinality(Upto(j)) < Cardinality(Upto(k))
    BY <2>1, <2>3, <2>4
  <2>6. QED
    BY <2>5 DEF Upto, PlaceIn
<1>4. f \in Injection(K, 1..N)
  <2>1. \A j, k \in K : j # k => j < k \/ k < j
    OBVIOUS
  <2>2. \A j, k \in K : j # k => f[j] # f[k]
    <3> SUFFICES ASSUME NEW j \in K, NEW k \in K, j # k
                 PROVE  PlaceIn(K, j) # PlaceIn(K, k)
      OBVIOUS
    <3>0. \A n \in 1..N : n \in Nat
      BY <1>1
    <3>1. PlaceIn(K, j) \in Nat /\ PlaceIn(K, k) \in Nat
      BY <1>2, <3>0
    <3>2. QED
      BY <1>3, <2>1, <3>1
  <2>3. f \in [K -> 1..N]
    BY <1>2
  <2>4. QED
    BY <2>2, <2>3 DEF Injection, IsInjective
<1>5. IsFiniteSet(1..N) /\ Cardinality(1..N) = N
  BY <1>1, FS_Interval
<1>6. f \in Surjection(K, 1..N)
  BY <1>4, <1>5, FS_Injection
<1>7. \A n \in 1..N : Nth(K, n) \in K /\ PlaceIn(K, Nth(K, n)) = n
  BY <1>6 DEF Surjection, Nth
<1>8. ASSUME NEW m \in 1..N, NEW n \in 1..N, m < n
      PROVE  Nth(K, m) < Nth(K, n)
  <2> DEFINE a == Nth(K, m)
             b == Nth(K, n)
  <2>1. a \in K /\ b \in K /\ PlaceIn(K, a) = m /\ PlaceIn(K, b) = n
    BY <1>7
  <2> HIDE DEF a, b
  <2>2. a # b
    BY <2>1, <1>8
  <2>3. ~(b < a)
    BY <2>1, <1>3, <1>8
  <2>4. a < b
    BY <2>1, <2>2, <2>3
  <2>5. QED
    BY <2>4 DEF a, b
<1>9. ASSUME NEW k \in K
      PROVE  \E n \in 1..N : Nth(K, n) = k
  <2> DEFINE n == PlaceIn(K, k)
             b == Nth(K, n)
  <2>1. n \in 1..N /\ b \in K /\ PlaceIn(K, b) = n
    BY <1>2, <1>7
  <2> HIDE DEF b
  <2>2. ~(b < k) /\ ~(k < b)
    BY <2>1, <1>2, <1>3
  <2>3. b = k
    BY <2>1, <2>2
  <2>4. QED
    BY <2>1, <2>3 DEF b
<1>10. QED
  BY <1>1, <1>7, <1>8, <1>9

\* e tells at which place of s each element of Keep(s, K) was.
PlacesOf(e, s, K) ==
  /\ e \in [1..Cardinality(K) -> K]
  /\ Keep(s, K) = [n \in 1..Cardinality(K) |-> s[e[n]]]
  /\ \A m, n \in 1..Cardinality(K) : m < n => e[m] < e[n]
  /\ \A k \in K : \E n \in 1..Cardinality(K) : e[n] = k

\* What is kept of a list is in it, each place of it once and in order.
LEMMA KeepIsInOrder ==
  ASSUME NEW s, NEW N \in Nat, DOMAIN s = 1..N, NEW K, K \subseteq 1..N
  PROVE  /\ DOMAIN Keep(s, K) = 1..Cardinality(K)
         /\ Cardinality(K) \in 0..N
         /\ \E e : PlacesOf(e, s, K)
<1> DEFINE C == Cardinality(K)
           e == [n \in 1..C |-> Nth(K, n)]
<1>1. IsFiniteSet(1..N) /\ Cardinality(1..N) = N
  BY FS_Interval
<1>2. IsFiniteSet(K) /\ C <= N /\ K \subseteq Nat
  <2>1. K \in SUBSET (1..N)
    OBVIOUS
  <2>2. IsFiniteSet(K) /\ C <= Cardinality(1..N)
    BY <1>1, <2>1, FS_Subset
  <2>3. QED
    BY <1>1, <2>2
<1>3. /\ C \in Nat
      /\ \A n \in 1..C : Nth(K, n) \in K
      /\ \A m, n \in 1..C : m < n => Nth(K, m) < Nth(K, n)
      /\ \A k \in K : \E n \in 1..C : Nth(K, n) = k
  BY <1>2, NthInOrder
<1>4. e \in [1..C -> K]
  BY <1>3
<1>5. Keep(s, K) = [n \in 1..C |-> s[e[n]]]
  BY DEF Keep
<1> HIDE DEF C
<1>6. DOMAIN Keep(s, K) = 1..C /\ C \in 0..N
  BY <1>2, <1>3, <1>5
<1>7. /\ \A m, n \in 1..C : m < n => e[m] < e[n]
      /\ \A k \in K : \E n \in 1..C : e[n] = k
  BY <1>3
<1>8. PlacesOf(e, s, K)
  BY <1>4, <1>5, <1>7 DEF PlacesOf, C
<1>9. QED
  BY <1>6, <1>8 DEF C

LEMMA KeepIsList ==
  ASSUME NEW S, NEW s \in Seq(S), NEW K, K \subseteq DOMAIN s
  PROVE  Keep(s, K) \in Seq(S)
<1> DEFINE N == Len(s)
<1>1. N \in Nat /\ DOMAIN s = 1..N /\ K \subseteq 1..N
  OBVIOUS
<1> HIDE DEF N
<1>2. PICK e : PlacesOf(e, s, K)
  BY <1>1, KeepIsInOrder
<1>3. Cardinality(K) \in Nat
  <2>1. Cardinality(K) \in 0..N
    BY <1>1, KeepIsInOrder
  <2>2. QED
    BY <1>1, <2>1
<1>4. \A n \in 1..Cardinality(K) : s[e[n]] \in S
  BY <1>2 DEF PlacesOf
<1>5. QED
  BY <1>2, <1>3, <1>4 DEF PlacesOf
================================================================================

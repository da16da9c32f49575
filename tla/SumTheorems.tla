---------------------------- MODULE SumTheorems ----------------------------
(***************************************************************************)
(* Lemmas about sums over finite sets: the quantities in a level of the    *)
(* book, the ticks of a fleet, the fills of an order.  They are about      *)
(* SumFunctionOnSet of the community modules, a fold that takes the        *)
(* elements of a set in an order of its own choice.                        *)
(*                                                                         *)
(* The induction theorems of the library take a predicate as a parameter.  *)
(* Those here take the set of the values for which it holds.               *)
(***************************************************************************)
EXTENDS Integers, Functions, FiniteSetTheorems, WellFoundedInduction, TLAPS

\* Induction over the natural numbers.
LEMMA NatInductionOnSet ==
  ASSUME NEW Good, 0 \in Good, \A n \in Nat : n \in Good => n + 1 \in Good
  PROVE  \A n \in Nat : n \in Good
<1> DEFINE Bad == Nat \ Good
<1>1. SUFFICES ASSUME Bad # {} PROVE FALSE
  OBVIOUS
<1>2. PICK n \in Bad : \A m \in Bad : ~(<<m, n>> \in OpToRel(<, Nat))
  <2>1. Bad \subseteq Nat
    OBVIOUS
  <2> HIDE DEF Bad
  <2> QED
    BY <1>1, <2>1, NatLessThanWellFounded, WFMin
<1>3. n \in Nat /\ n # 0 /\ n - 1 \in Nat
  OBVIOUS
<1>4. <<n - 1, n>> \in OpToRel(<, Nat)
  BY <1>3 DEF OpToRel
<1>5. n - 1 \in Good
  BY <1>2, <1>3, <1>4
<1> QED
  BY <1>3, <1>5

\* A set of natural numbers has a least one.
LEMMA LeastExists ==
  ASSUME NEW S \in SUBSET Nat, S # {}
  PROVE  \E n \in S : \A m \in S : n <= m
<1>1. PICK n \in S : \A m \in S : ~(<<m, n>> \in OpToRel(<, Nat))
  BY NatLessThanWellFounded, WFMin
<1>2. \A m \in S : ~(m < n)
  BY <1>1 DEF OpToRel
<1> QED
  BY <1>2

\* Induction over the subsets of a finite set.
LEMMA SubsetInductionOnSet ==
  ASSUME NEW S, IsFiniteSet(S), NEW Good,
         \A A \in SUBSET S : (\A B \in SUBSET A : B # A => B \in Good) => A \in Good
  PROVE  \A A \in SUBSET S : A \in Good
<1> DEFINE Bad == {A \in SUBSET S : A \notin Good}
<1>1. SUFFICES ASSUME Bad # {} PROVE FALSE
  OBVIOUS
<1>2. PICK A \in Bad : \A B \in Bad : ~(<<B, A>> \in StrictSubsetOrdering(S))
  <2>1. Bad \subseteq FiniteSubsetsOf(S)
    BY FS_Subset DEF FiniteSubsetsOf
  <2>2. IsWellFoundedOn(StrictSubsetOrdering(S), FiniteSubsetsOf(S))
    BY FS_StrictSubsetOrderingWellFounded
  <2> HIDE DEF Bad
  <2> QED
    BY <1>1, <2>1, <2>2, WFMin
<1>3. ASSUME NEW B \in SUBSET A, B # A PROVE B \in Good
  <2>1. <<B, A>> \in StrictSubsetOrdering(S)
    BY <1>3 DEF StrictSubsetOrdering
  <2> QED
    BY <1>2, <2>1
<1> QED
  BY <1>3

-----------------------------------------------------------------------------
(* The fold is well defined. *)

Chosen(s) == CHOOSE x \in s : TRUE

\* h is the function that the fold of f over S is defined by.
FoldsTo(h, f, S) ==
  h = [s \in SUBSET S |-> IF s = {} THEN 0 ELSE f[Chosen(s)] + h[s \ {Chosen(s)}]]

LEMMA ChosenInSet == \A s : s # {} => Chosen(s) \in s
BY DEF Chosen

\* There is such a function: it is built for larger and larger subsets.
LEMMA FoldExists ==
  ASSUME NEW f, NEW S, IsFiniteSet(S)
  PROVE  \E h : FoldsTo(h, f, S)
<1> DEFINE Small(k) == {s \in SUBSET S : Cardinality(s) <= k}
           Fold(g, k) == g = [s \in Small(k) |-> IF s = {} THEN 0
                                                 ELSE f[Chosen(s)] + g[s \ {Chosen(s)}]]
           Good == {k \in Nat : \E g : Fold(g, k)}
<1>1. \A s \in SUBSET S : IsFiniteSet(s) /\ Cardinality(s) \in Nat /\ Cardinality(s) <= Cardinality(S)
  BY FS_Subset, FS_CardinalityType
<1>2. \A s \in SUBSET S : s # {} =>
        /\ s \ {Chosen(s)} \in SUBSET S
        /\ Cardinality(s \ {Chosen(s)}) = Cardinality(s) - 1
  BY <1>1, ChosenInSet, FS_RemoveElement
<1>3. 0 \in Good
  <2>1. \A s \in Small(0) : s = {}
    BY <1>1, FS_EmptySet
  <2>2. Fold([s \in Small(0) |-> 0], 0)
    BY <2>1
  <2> QED
    BY <2>2
<1>4. ASSUME NEW k \in Nat, k \in Good PROVE k + 1 \in Good
  <2>1. PICK g : Fold(g, k)
    BY <1>4
  <2> DEFINE h == [s \in Small(k + 1) |-> IF s = {} THEN 0
                                          ELSE f[Chosen(s)] + g[s \ {Chosen(s)}]]
  <2>2. \A s \in Small(k) : s \in Small(k + 1) /\ h[s] = g[s]
    <3>1. \A s \in Small(k) : s \in Small(k + 1)
      BY <1>1
    <3> QED
      BY <2>1, <3>1
  <2>3. \A s \in Small(k + 1) : s # {} => s \ {Chosen(s)} \in Small(k)
    BY <1>1, <1>2
  <2>4. Fold(h, k + 1)
    BY <2>2, <2>3
  <2> HIDE DEF h, Fold
  <2> QED
    BY <2>4
<1>5. Cardinality(S) \in Good
  <2> HIDE DEF Good
  <2> QED
    BY <1>1, <1>3, <1>4, NatInductionOnSet
<1>6. Small(Cardinality(S)) = SUBSET S
  BY <1>1
<1> QED
  BY <1>5, <1>6 DEF FoldsTo

\* So the fold is its value at S.
LEMMA FoldIsSum ==
  ASSUME NEW f, NEW S, IsFiniteSet(S)
  PROVE  \E h : FoldsTo(h, f, S) /\ SumFunctionOnSet(f, S) = h[S]
<1> DEFINE h == CHOOSE g : FoldsTo(g, f, S)
<1>1. FoldsTo(h, f, S)
  BY FoldExists
<1>2. SumFunctionOnSet(f, S) = h[S]
  BY DEF SumFunctionOnSet, FoldFunctionOnSet, MapThenFoldSet, FoldsTo, Chosen
<1> QED
  BY <1>1, <1>2

\* The functions for a set and for a part of it agree on the part.
LEMMA FoldsAgree ==
  ASSUME NEW f, NEW S, IsFiniteSet(S), NEW T \in SUBSET S, NEW h, NEW g,
         FoldsTo(h, f, S), FoldsTo(g, f, T)
  PROVE  \A s \in SUBSET T : h[s] = g[s]
<1> DEFINE Good == {s \in SUBSET T : h[s] = g[s]}
<1>1. ASSUME NEW A \in SUBSET T, \A B \in SUBSET A : B # A => B \in Good PROVE A \in Good
  <2>1. /\ A # {} => h[A] = f[Chosen(A)] + h[A \ {Chosen(A)}]
        /\ A # {} => g[A] = f[Chosen(A)] + g[A \ {Chosen(A)}]
        /\ A = {} => h[A] = 0 /\ g[A] = 0
    BY DEF FoldsTo
  <2>2. A # {} => A \ {Chosen(A)} \in SUBSET A /\ A \ {Chosen(A)} # A
    BY ChosenInSet
  <2> QED
    BY <1>1, <2>1, <2>2
<1>2. \A A \in SUBSET T : A \in Good
  <2> HIDE DEF Good
  <2> QED
    BY <1>1, FS_Subset, SubsetInductionOnSet
<1> QED
  BY <1>2

-----------------------------------------------------------------------------
(* Sums. *)

\* The sum of nothing is zero.
LEMMA SumOfNothing == ASSUME NEW f PROVE SumFunctionOnSet(f, {}) = 0
<1>1. PICK h : FoldsTo(h, f, {}) /\ SumFunctionOnSet(f, {}) = h[{}]
  BY FoldIsSum, FS_EmptySet
<1> QED
  BY <1>1 DEF FoldsTo

\* The sum of a set takes one element, which the fold chooses, from the rest.
LEMMA SumOfChosen ==
  ASSUME NEW f, NEW S, IsFiniteSet(S), S # {}
  PROVE  /\ Chosen(S) \in S
         /\ SumFunctionOnSet(f, S) = f[Chosen(S)] + SumFunctionOnSet(f, S \ {Chosen(S)})
<1> DEFINE T == S \ {Chosen(S)}
<1>1. PICK h : FoldsTo(h, f, S) /\ SumFunctionOnSet(f, S) = h[S]
  BY FoldIsSum
<1>2. PICK g : FoldsTo(g, f, T) /\ SumFunctionOnSet(f, T) = g[T]
  BY FoldIsSum, FS_Subset
<1>3. h[S] = f[Chosen(S)] + h[T]
  BY <1>1 DEF FoldsTo
<1>4. h[T] = g[T]
  BY <1>1, <1>2, FoldsAgree
<1> QED
  BY <1>1, <1>2, <1>3, <1>4, ChosenInSet

\* So is a sum of zeros.
LEMMA SumOfZeros ==
  ASSUME NEW S, IsFiniteSet(S)
  PROVE  SumFunctionOnSet([x \in S |-> 0], S) = 0
<1> DEFINE z == [x \in S |-> 0]
           Good == {A \in SUBSET S : SumFunctionOnSet(z, A) = 0}
<1>1. ASSUME NEW A \in SUBSET S, \A B \in SUBSET A : B # A => B \in Good PROVE A \in Good
  <2>1. CASE A = {}
    BY <2>1, SumOfNothing
  <2>2. CASE A # {}
    <3>1. /\ Chosen(A) \in A
          /\ SumFunctionOnSet(z, A) = z[Chosen(A)] + SumFunctionOnSet(z, A \ {Chosen(A)})
      BY <2>2, SumOfChosen, FS_Subset
    <3>2. A \ {Chosen(A)} \in Good
      BY <1>1, <3>1
    <3> QED
      BY <3>1, <3>2
  <2> QED
    BY <2>1, <2>2
<1>2. \A A \in SUBSET S : A \in Good
  <2> HIDE DEF Good
  <2> QED
    BY <1>1, SubsetInductionOnSet
<1> QED
  BY <1>2

\* A sum of integers is an integer.
LEMMA SumIsInt ==
  ASSUME NEW f, NEW S, IsFiniteSet(S), \A x \in S : f[x] \in Int
  PROVE  SumFunctionOnSet(f, S) \in Int
<1> DEFINE Good == {A \in SUBSET S : SumFunctionOnSet(f, A) \in Int}
<1>1. ASSUME NEW A \in SUBSET S, \A B \in SUBSET A : B # A => B \in Good PROVE A \in Good
  <2>1. CASE A = {}
    BY <2>1, SumOfNothing
  <2>2. CASE A # {}
    <3>1. /\ Chosen(A) \in A
          /\ SumFunctionOnSet(f, A) = f[Chosen(A)] + SumFunctionOnSet(f, A \ {Chosen(A)})
      BY <2>2, SumOfChosen, FS_Subset
    <3>2. A \ {Chosen(A)} \in Good
      BY <1>1, <3>1
    <3> QED
      BY <3>1, <3>2
  <2> QED
    BY <2>1, <2>2
<1>2. \A A \in SUBSET S : A \in Good
  <2> HIDE DEF Good
  <2> QED
    BY <1>1, SubsetInductionOnSet
<1> QED
  BY <1>2

\* Any element can be taken from the rest.
LEMMA SumOfElement ==
  ASSUME NEW f, NEW S, IsFiniteSet(S), \A x \in S : f[x] \in Int
  PROVE  \A x \in S : SumFunctionOnSet(f, S) = f[x] + SumFunctionOnSet(f, S \ {x})
<1> DEFINE Sum(A) == SumFunctionOnSet(f, A)
           Good == {A \in SUBSET S : \A x \in A : Sum(A) = f[x] + Sum(A \ {x})}
<1>1. ASSUME NEW A \in SUBSET S, \A B \in SUBSET A : B # A => B \in Good PROVE A \in Good
  <2> SUFFICES ASSUME NEW x \in A PROVE Sum(A) = f[x] + Sum(A \ {x})
    OBVIOUS
  <2> DEFINE c == Chosen(A)
  <2>1. c \in A /\ Sum(A) = f[c] + Sum(A \ {c})
    BY SumOfChosen, FS_Subset
  <2>2. CASE x = c
    BY <2>1, <2>2
  <2>3. CASE x # c
    <3> HIDE DEF c
    <3>1. x \in A \ {c} /\ c \in A \ {x} /\ A \ {c} # A /\ A \ {x} # A
      BY <2>1, <2>3
    <3>2. Sum(A \ {c}) = f[x] + Sum((A \ {c}) \ {x}) /\ Sum(A \ {x}) = f[c] + Sum((A \ {x}) \ {c})
      BY <1>1, <3>1
    <3>3. (A \ {c}) \ {x} = (A \ {x}) \ {c}
      OBVIOUS
    <3>4. Sum((A \ {c}) \ {x}) \in Int /\ f[x] \in Int /\ f[c] \in Int
      BY <2>1, SumIsInt, FS_Subset
    <3>5. /\ Sum(A) = f[c] + (f[x] + Sum((A \ {c}) \ {x}))
          /\ Sum(A \ {x}) = f[c] + Sum((A \ {c}) \ {x})
      BY <2>1, <3>2, <3>3, Zenon
    <3> QED
      BY <3>4, <3>5
  <2> QED
    BY <2>2, <2>3
<1>2. \A A \in SUBSET S : A \in Good
  <2> HIDE DEF Good
  <2> QED
    BY <1>1, SubsetInductionOnSet
<1> QED
  BY <1>2

\* The sum is of the values on the set only, and monotonic in them.
LEMMA SumIsMonotonic ==
  ASSUME NEW f, NEW g, NEW S, IsFiniteSet(S),
         \A x \in S : f[x] \in Int /\ g[x] \in Int /\ f[x] <= g[x]
  PROVE  SumFunctionOnSet(f, S) <= SumFunctionOnSet(g, S)
<1> DEFINE Good == {A \in SUBSET S : SumFunctionOnSet(f, A) <= SumFunctionOnSet(g, A)}
<1>1. ASSUME NEW A \in SUBSET S, \A B \in SUBSET A : B # A => B \in Good PROVE A \in Good
  <2>1. CASE A = {}
    BY <2>1, SumOfNothing
  <2>2. CASE A # {}
    <3>1. PICK x : x \in A
      BY <2>2
    <3> DEFINE B == A \ {x}
    <3>2. IsFiniteSet(A) /\ IsFiniteSet(B)
      BY FS_Subset
    <3>3. /\ SumFunctionOnSet(f, A) = f[x] + SumFunctionOnSet(f, B)
          /\ SumFunctionOnSet(g, A) = g[x] + SumFunctionOnSet(g, B)
      BY <3>1, <3>2, SumOfElement
    <3>4. SumFunctionOnSet(f, B) \in Int /\ SumFunctionOnSet(g, B) \in Int
      BY <3>2, SumIsInt
    <3>5. SumFunctionOnSet(f, B) <= SumFunctionOnSet(g, B)
      BY <1>1, <3>1
    <3> QED
      BY <3>1, <3>3, <3>4, <3>5
  <2> QED
    BY <2>1, <2>2
<1>2. \A A \in SUBSET S : A \in Good
  <2> HIDE DEF Good
  <2> QED
    BY <1>1, SubsetInductionOnSet
<1> QED
  BY <1>2

LEMMA SumOfEquals ==
  ASSUME NEW f, NEW g, NEW S, IsFiniteSet(S), \A x \in S : f[x] \in Int /\ g[x] = f[x]
  PROVE  SumFunctionOnSet(g, S) = SumFunctionOnSet(f, S)
<1>1. SumFunctionOnSet(f, S) <= SumFunctionOnSet(g, S)
  BY SumIsMonotonic
<1>2. SumFunctionOnSet(g, S) <= SumFunctionOnSet(f, S)
  BY SumIsMonotonic
<1>3. SumFunctionOnSet(f, S) \in Int /\ SumFunctionOnSet(g, S) \in Int
  BY SumIsInt
<1> QED
  BY <1>1, <1>2, <1>3

\* A set that is given one more element.
LEMMA SumWithElement ==
  ASSUME NEW f, NEW S, IsFiniteSet(S), NEW x, x \notin S,
         \A y \in S \cup {x} : f[y] \in Int
  PROVE  SumFunctionOnSet(f, S \cup {x}) = SumFunctionOnSet(f, S) + f[x]
<1>1. IsFiniteSet(S \cup {x}) /\ (S \cup {x}) \ {x} = S
  BY FS_AddElement
<1>2. SumFunctionOnSet(f, S \cup {x}) = f[x] + SumFunctionOnSet(f, S)
  BY <1>1, SumOfElement
<1>3. SumFunctionOnSet(f, S) \in Int
  BY SumIsInt
<1> QED
  BY <1>2, <1>3

\* One value changes.
LEMMA SumAfterChange ==
  ASSUME NEW f, NEW g, NEW S, IsFiniteSet(S), NEW x \in S,
         \A y \in S : f[y] \in Int /\ g[y] \in Int /\ (y # x => g[y] = f[y])
  PROVE  SumFunctionOnSet(g, S) = SumFunctionOnSet(f, S) + (g[x] - f[x])
<1>1. IsFiniteSet(S \ {x})
  BY FS_Subset
<1>2. /\ SumFunctionOnSet(f, S) = f[x] + SumFunctionOnSet(f, S \ {x})
      /\ SumFunctionOnSet(g, S) = g[x] + SumFunctionOnSet(g, S \ {x})
  BY SumOfElement
<1>3. SumFunctionOnSet(g, S \ {x}) = SumFunctionOnSet(f, S \ {x})
  BY <1>1, SumOfEquals
<1>4. SumFunctionOnSet(f, S \ {x}) \in Int
  BY <1>1, SumIsInt
<1> QED
  BY <1>2, <1>3, <1>4
=============================================================================

------------------------------ MODULE DataLemmas -----------------------------
(***************************************************************************)
(* Facts about natural numbers and finite sets that the proofs of several  *)
(* modules rest on.  Induction is stated about sets: a set with 0 that is  *)
(* closed under successor holds every natural number.                      *)
(***************************************************************************)
EXTENDS Integers, FiniteSetsExt, FiniteSetTheorems, WellFoundedInduction, TLAPS

(* The intervals 0..n are finite, and inclusion is well founded on finite  *)
(* sets; a smallest interval ends in the smallest number.                  *)
LEMMA LeastNatural ==
  ASSUME NEW S \in SUBSET Nat, S # {}
  PROVE  \E n \in S : \A m \in S : n <= m
<1> DEFINE Initials == {0..n : n \in S}
<1>1. Initials \subseteq FiniteSubsetsOf(Nat) /\ Initials # {}
  <2>1. ASSUME NEW n \in S PROVE 0..n \in FiniteSubsetsOf(Nat)
    BY FS_Interval DEF FiniteSubsetsOf
  <2> QED
    BY <2>1
<1>2. PICK I \in Initials : \A J \in Initials : <<J, I>> \notin StrictSubsetOrdering(Nat)
  <2>1. IsWellFoundedOn(StrictSubsetOrdering(Nat), FiniteSubsetsOf(Nat))
    BY FS_StrictSubsetOrderingWellFounded
  <2> HIDE DEF Initials
  <2> QED
    BY <1>1, <2>1, WFMin
<1>3. PICK n \in S : I = 0..n
  OBVIOUS
<1>4. ASSUME NEW m \in S, m < n PROVE FALSE
  <2>1. 0..m \in Initials
    OBVIOUS
  <2>2. 0..m \subseteq 0..n /\ 0..m # 0..n
    <3>1. n \in 0..n /\ n \notin 0..m
      BY <1>4
    <3> QED
      BY <1>4, <3>1
  <2>3. <<0..m, 0..n>> \in StrictSubsetOrdering(Nat)
    BY <2>2 DEF StrictSubsetOrdering
  <2> QED
    BY <1>2, <1>3, <2>1, <2>3
<1> QED
  BY <1>4

(* Otherwise the least number that is missing has a predecessor that is    *)
(* not.                                                                    *)
LEMMA SetInduction ==
  ASSUME NEW S, 0 \in S, \A n \in Nat : n \in S => n + 1 \in S
  PROVE  Nat \subseteq S
<1> DEFINE T == Nat \ S
<1> SUFFICES ASSUME T # {} PROVE FALSE
  OBVIOUS
<1>1. PICK n \in T : \A m \in T : n <= m
  BY LeastNatural
<1>2. n # 0 /\ n - 1 \in Nat /\ n - 1 \notin T
  BY <1>1
<1> QED
  BY <1>1, <1>2

-----------------------------------------------------------------------------
(* Min and Max of the community modules choose a bound of the set; these   *)
(* say when there is one.                                                  *)
LEMMA MinOfNaturals ==
  ASSUME NEW S \in SUBSET Nat, S # {}
  PROVE  Min(S) \in S /\ \A m \in S : Min(S) <= m
BY LeastNatural DEF Min

LEMMA MaxOfNaturals ==
  ASSUME NEW n \in Nat, NEW S \in SUBSET (0..n), S # {}
  PROVE  Max(S) \in S /\ \A m \in S : Max(S) >= m
<1> DEFINE T == {n - m : m \in S}
<1>1. T \in SUBSET Nat /\ T # {}
  <2>1. \A m \in S : n - m \in Nat
    OBVIOUS
  <2> QED
    BY <2>1
<1>2. PICK t \in T : \A u \in T : t <= u
  BY <1>1, LeastNatural
<1>3. PICK m \in S : t = n - m
  OBVIOUS
<1>4. \A k \in S : m >= k
  BY <1>2, <1>3
<1> QED
  BY <1>4 DEF Max

(* A finite set of numbers has a largest one: by induction, leaving one    *)
(* element out, on the size of the set.                                    *)
LEMMA LargestOfFinite ==
  ASSUME NEW S \in SUBSET Nat, IsFiniteSet(S), S # {}
  PROVE  \E m \in S : \A k \in S : k <= m
<1> DEFINE Bounded(T) == \E m \in T : \A k \in T : k <= m
           Sizes == {n \in Nat : \A T \in SUBSET S :
                      IsFiniteSet(T) /\ Cardinality(T) = n => T = {} \/ Bounded(T)}
<1>1. 0 \in Sizes
  BY FS_EmptySet
<1>2. ASSUME NEW n \in Nat, n \in Sizes PROVE n + 1 \in Sizes
  <2> SUFFICES ASSUME NEW T \in SUBSET S, IsFiniteSet(T), Cardinality(T) = n + 1,
                      NEW x \in T
               PROVE  Bounded(T)
    OBVIOUS
  <2> DEFINE U == T \ {x}
  <2>1. IsFiniteSet(U) /\ Cardinality(U) = n
    <3>1. IsFiniteSet(U) /\ Cardinality(U) = Cardinality(T) - 1
      BY ONLY IsFiniteSet(T), x \in T, FS_RemoveElement
    <3> QED
      BY <3>1
  <2>2. U = {} \/ Bounded(U)
    BY <1>2, <2>1
  <2>3. x \in Nat /\ \A k \in T : k \in Nat /\ (k = x \/ k \in U)
    OBVIOUS
  <2>4. CASE U = {}
    BY <2>3, <2>4
  <2>5. CASE Bounded(U)
    <3>1. PICK m \in U : \A k \in U : k <= m
      BY <2>5
    <3>2. CASE x <= m
      BY <2>3, <3>1, <3>2
    <3>3. CASE ~ x <= m
      BY <2>3, <3>1, <3>3
    <3> QED
      BY <3>2, <3>3
  <2> QED
    BY <2>2, <2>4, <2>5
<1> HIDE DEF Sizes
<1>3. Nat \subseteq Sizes
  BY <1>1, <1>2, SetInduction
<1> USE DEF Sizes
<1> QED
  BY <1>3, FS_CardinalityType

(* Numbering the cells of a table of n columns.                            *)
LEMMA RowAndColumn ==
  ASSUME NEW r \in Nat, NEW n \in Nat \ {0}, NEW c \in 0..(n - 1)
  PROVE  (r * n + c) \div n = r /\ (r * n + c) % n = c
<1>1. (r * n + c) \div n = r
  OBVIOUS
<1>2. (r * n + c) % n = c
  OBVIOUS
<1> QED
  BY <1>1, <1>2

(* One element more, or perhaps none.                                      *)
LEMMA OneMore ==
  ASSUME NEW S, IsFiniteSet(S), NEW n, n \notin S
  PROVE  Cardinality(S \cup {n}) = Cardinality(S) + 1
BY FS_AddElement

LEMMA StillFinite ==
  ASSUME NEW S, IsFiniteSet(S), NEW n
  PROVE  IsFiniteSet(S \cup {n})
BY FS_AddElement

LEMMA OneMoreIf ==
  ASSUME NEW S, IsFiniteSet(S), NEW n, n \notin S, NEW p
  PROVE  Cardinality(S \cup (IF p THEN {n} ELSE {}))
           = Cardinality(S) + (IF p THEN 1 ELSE 0)
<1>1. CASE p
  BY <1>1, OneMore
<1>2. CASE ~ p
  BY <1>2, FS_CardinalityType
<1> QED
  BY <1>1, <1>2

(* Three, and four, different elements.                                    *)
LEMMA ThreeElements ==
  ASSUME NEW S, IsFiniteSet(S), NEW a \in S, NEW b \in S, NEW c \in S,
         a # b, a # c, b # c
  PROVE  /\ Cardinality(S) >= 3
         /\ IsFiniteSet({a, b, c}) /\ Cardinality({a, b, c}) = 3
<1>1. IsFiniteSet({a}) /\ Cardinality({a}) = 1
  BY FS_Singleton
<1>2. IsFiniteSet({a, b}) /\ Cardinality({a, b}) = 2
  <2>1. {a, b} = {a} \cup {b} /\ b \notin {a}
    OBVIOUS
  <2>2. /\ Cardinality({a} \cup {b}) = Cardinality({a}) + 1
        /\ IsFiniteSet({a} \cup {b})
    BY <1>1, <2>1, OneMore, StillFinite
  <2> QED
    BY <1>1, <2>1, <2>2
<1>3. IsFiniteSet({a, b, c}) /\ Cardinality({a, b, c}) = 3
  <2>1. {a, b, c} = {a, b} \cup {c} /\ c \notin {a, b}
    OBVIOUS
  <2>2. /\ Cardinality({a, b} \cup {c}) = Cardinality({a, b}) + 1
        /\ IsFiniteSet({a, b} \cup {c})
    BY <1>2, <2>1, OneMore, StillFinite
  <2> QED
    BY <1>2, <2>1, <2>2
<1>4. {a, b, c} \in SUBSET S
  OBVIOUS
<1>5. Cardinality({a, b, c}) <= Cardinality(S) /\ Cardinality(S) \in Nat
  BY <1>4, FS_Subset, FS_CardinalityType
<1> QED
  BY <1>3, <1>5

LEMMA FourElements ==
  ASSUME NEW S, IsFiniteSet(S),
         NEW a \in S, NEW b \in S, NEW c \in S, NEW d \in S,
         a # b, a # c, a # d, b # c, b # d, c # d
  PROVE  Cardinality(S) >= 4 /\ Cardinality({a, b, c, d}) = 4
<1>1. IsFiniteSet({a, b, c}) /\ Cardinality({a, b, c}) = 3
  BY ThreeElements
<1>2. {a, b, c, d} = {a, b, c} \cup {d} /\ d \notin {a, b, c}
  OBVIOUS
<1>3. Cardinality({a, b, c} \cup {d}) = 4
  BY <1>1, <1>2, OneMore
<1>4. {a, b, c, d} \in SUBSET S
  OBVIOUS
<1>5. Cardinality({a, b, c, d}) <= Cardinality(S) /\ Cardinality(S) \in Nat
  BY <1>4, FS_Subset, FS_CardinalityType
<1> QED
  BY <1>2, <1>3, <1>5

(* A part of a finite set misses nothing of it if it has as many elements. *)
LEMMA PartOfFinite ==
  ASSUME NEW S, IsFiniteSet(S), NEW T \in SUBSET S
  PROVE  /\ Cardinality(T) \in Nat /\ Cardinality(T) <= Cardinality(S)
         /\ Cardinality(T) = Cardinality(S) <=> T = S
BY FS_Subset, FS_CardinalityType

=============================================================================

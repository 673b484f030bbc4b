----------------------------- MODULE FiniteSums -----------------------------
(***************************************************************************)
(* Sums of natural numbers over a finite set, as MapThenSumSet of the      *)
(* community modules computes them: element by element, each time the one  *)
(* CHOOSE picks.  The lemmas say that the order does not matter, that a    *)
(* sum over a set is the sum over its parts, and that it grows with them.  *)
(***************************************************************************)
EXTENDS Naturals, FiniteSets, FiniteSetTheorems, WellFoundedInduction, TLAPS

\* g is the recursive function that sums f over every subset of S.
Sums(g, f, S) ==
  g = [s \in SUBSET S |->
         IF s = {} THEN 0 ELSE LET x == CHOOSE x \in s : TRUE IN f[x] + g[s \ {x}]]

SumOf(f, S) == (CHOOSE g : Sums(g, f, S))[S]

\* Functions to the natural numbers, defined at least on S.
NatOn(f, S) == \A x \in S : f[x] \in Nat

SameOn(f, h, S) == \A x \in S : f[x] = h[x]

---------------------------------------------------------------------------
(* A set of finite sets that holds the empty set, and every set from which *)
(* removing an element leads back into it, holds all: induction on finite  *)
(* sets, with a set in the place of a predicate.                           *)
LEMMA SmallestNat == ASSUME NEW N \in SUBSET Nat, N # {} PROVE \E m \in N : \A n \in N : m <= n
  <1>1. PICK m \in N : \A n \in N : ~(<<n, m>> \in OpToRel(<, Nat))
    BY NatLessThanWellFounded, WFMin
  <1>2. \A n \in N : ~(n < m) BY <1>1 DEF OpToRel
  <1> QED BY <1>2

LEMMA SubsetInduction ==
  ASSUME NEW S, IsFiniteSet(S), NEW P \in SUBSET (SUBSET S), {} \in P,
         \A s \in SUBSET S : s # {} /\ (\A x \in s : s \ {x} \in P) => s \in P
  PROVE  \A s \in SUBSET S : s \in P
  <1> DEFINE Bad == (SUBSET S) \ P
             Sizes == {Cardinality(s) : s \in Bad}
  <1> SUFFICES ASSUME Bad # {} PROVE FALSE OBVIOUS
  <1>1. \A s \in SUBSET S : IsFiniteSet(s) /\ Cardinality(s) \in Nat
    BY FS_Subset, FS_CardinalityType
  <1>2. PICK b \in Bad : \A s \in Bad : Cardinality(b) <= Cardinality(s)
    <2>1. Sizes \in SUBSET Nat /\ Sizes # {} BY <1>1
    <2>2. PICK m \in Sizes : \A n \in Sizes : m <= n BY <2>1, SmallestNat
    <2> QED BY <2>2
  <1>3. b # {} OBVIOUS
  <1>4. PICK x \in b : b \ {x} \notin P BY <1>3
  <1>5. b \ {x} \in Bad BY <1>4
  <1>6. Cardinality(b \ {x}) = Cardinality(b) - 1 BY <1>1, FS_RemoveElement
  <1> QED BY <1>1, <1>2, <1>5, <1>6

---------------------------------------------------------------------------
(* The recursive function exists and is one.                               *)

Choice(s) == CHOOSE x \in s : TRUE
Value(g, f, s) == IF s = {} THEN 0 ELSE f[Choice(s)] + g[s \ {Choice(s)}]

LEMMA ChoiceIn == ASSUME NEW s, s # {} PROVE Choice(s) \in s
  BY DEF Choice

LEMMA SumsValue ==
  ASSUME NEW g, NEW f, NEW S
  PROVE  Sums(g, f, S) <=> g = [s \in SUBSET S |-> Value(g, f, s)]
  BY DEF Sums, Value, Choice

\* Two such functions agree on the sets that both are defined on.
LEMMA SumsAgree ==
  ASSUME NEW f, NEW f2, NEW S, NEW T \in SUBSET S, IsFiniteSet(S), NEW g, NEW h,
         Sums(g, f, S), Sums(h, f2, T), SameOn(f, f2, T)
  PROVE  \A s \in SUBSET T : g[s] = h[s]
  <1> DEFINE P == {s \in SUBSET T : g[s] = h[s]}
  <1>1. IsFiniteSet(T) BY FS_Subset
  <1>2. \A s \in SUBSET T : g[s] = Value(g, f, s) /\ h[s] = Value(h, f2, s)
    <2>1. g = [s \in SUBSET S |-> Value(g, f, s)] /\ h = [s \in SUBSET T |-> Value(h, f2, s)]
      BY SumsValue
    <2> QED BY <2>1
  <1>3. {} \in P BY <1>2 DEF Value
  <1>4. ASSUME NEW s \in SUBSET T, s # {}, \A x \in s : s \ {x} \in P PROVE s \in P
    <2>1. Choice(s) \in s BY <1>4, ChoiceIn
    <2>2. g[s \ {Choice(s)}] = h[s \ {Choice(s)}] BY <2>1, <1>4
    <2>3. f[Choice(s)] = f2[Choice(s)] BY <2>1 DEF SameOn
    <2> QED BY <1>2, <1>4, <2>2, <2>3 DEF Value
  <1>5. \A s \in SUBSET T : s \in P BY <1>1, <1>3, <1>4, SubsetInduction
  <1> QED BY <1>5

\* A function that has the right value on every set with at most n elements.
Until(g, f, S, n) ==
  \A s \in SUBSET S : Cardinality(s) <= n => g[s] \in Nat /\ g[s] = Value(g, f, s)

LEMMA UntilNext ==
  ASSUME NEW f, NEW S, IsFiniteSet(S), NatOn(f, S), NEW n \in Nat, NEW g, Until(g, f, S, n)
  PROVE  \E h : Until(h, f, S, n + 1)
  <1> DEFINE h == [s \in SUBSET S |-> Value(g, f, s)]
  <1>1. \A s \in SUBSET S : IsFiniteSet(s) /\ Cardinality(s) \in Nat
    BY FS_Subset, FS_CardinalityType
  <1>2. ASSUME NEW s \in SUBSET S, Cardinality(s) <= n PROVE h[s] = g[s]
    BY <1>2 DEF Until
  <1>3. ASSUME NEW s \in SUBSET S, Cardinality(s) <= n + 1
        PROVE  h[s] \in Nat /\ h[s] = Value(h, f, s)
    <2>1. CASE s = {} BY <2>1 DEF Value
    <2>2. CASE s # {}
      <3>1. Choice(s) \in s BY <2>2, ChoiceIn
      <3> DEFINE r == s \ {Choice(s)}
      <3>2. r \in SUBSET S /\ Cardinality(r) <= n
        <4>1. Cardinality(r) = Cardinality(s) - 1 BY <1>1, <3>1, FS_RemoveElement
        <4> QED BY <4>1, <1>1, <1>3
      <3>3. g[r] \in Nat /\ h[r] = g[r] BY <3>2, <1>2 DEF Until
      <3>4. f[Choice(s)] \in Nat BY <3>1 DEF NatOn
      <3>5. h[s] = f[Choice(s)] + g[r] BY <2>2 DEF Value
      <3> QED BY <2>2, <3>3, <3>4, <3>5 DEF Value
    <2> QED BY <2>1, <2>2
  <1> QED BY <1>3 DEF Until

LEMMA UntilAll ==
  ASSUME NEW f, NEW S, IsFiniteSet(S), NatOn(f, S), NEW n \in Nat
  PROVE  \E g : Until(g, f, S, n)
  <1> DEFINE Bad == {m \in Nat : ~ \E g : Until(g, f, S, m)}
  <1> SUFFICES ASSUME Bad # {} PROVE FALSE OBVIOUS
  <1>1. PICK m \in Bad : \A k \in Bad : m <= k BY SmallestNat
  <1>2. CASE m = 0
    <2> DEFINE g == [s \in SUBSET S |-> 0]
    <2>1. \A s \in SUBSET S : Cardinality(s) <= 0 => s = {}
      <3> SUFFICES ASSUME NEW s \in SUBSET S, Cardinality(s) <= 0 PROVE s = {} OBVIOUS
      <3>1. IsFiniteSet(s) /\ Cardinality(s) \in Nat BY FS_Subset, FS_CardinalityType
      <3> QED BY <3>1, FS_EmptySet
    <2>2. Until(g, f, S, 0) BY <2>1 DEF Until, Value
    <2> QED BY <1>2, <2>2
  <1>3. CASE m # 0
    <2>1. m - 1 \in Nat /\ m - 1 \notin Bad BY <1>1, <1>3
    <2>2. PICK g : Until(g, f, S, m - 1) BY <2>1
    <2>3. \E h : Until(h, f, S, (m - 1) + 1) BY <2>1, <2>2, UntilNext
    <2> QED BY <2>3
  <1> QED BY <1>2, <1>3

LEMMA SumsExists ==
  ASSUME NEW f, NEW S, IsFiniteSet(S), NatOn(f, S)
  PROVE  \E g : Sums(g, f, S) /\ g \in [SUBSET S -> Nat]
  <1>1. Cardinality(S) \in Nat BY FS_CardinalityType
  <1>2. PICK g : Until(g, f, S, Cardinality(S)) BY <1>1, UntilAll
  <1>3. \A s \in SUBSET S : g[s] \in Nat /\ g[s] = Value(g, f, s)
    BY <1>2, FS_Subset DEF Until
  <1> DEFINE h == [s \in SUBSET S |-> g[s]]
  <1>4. \A s \in SUBSET S : h[s] = Value(h, f, s) BY <1>3, ChoiceIn DEF Value
  <1>5. h = [s \in SUBSET S |-> Value(h, f, s)] BY <1>4
  <1>6. Sums(h, f, S) BY <1>5, SumsValue
  <1>7. h \in [SUBSET S -> Nat] BY <1>3
  <1> QED BY <1>6, <1>7

---------------------------------------------------------------------------
(* What a sum is.                                                          *)

\* g holds the sum over every part of S.
Table(g, f, S) ==
  /\ g \in [SUBSET S -> Nat] /\ Sums(g, f, S)
  /\ \A T \in SUBSET S : SumOf(f, T) = g[T]

LEMMA SumIs ==
  ASSUME NEW f, NEW S, IsFiniteSet(S), NatOn(f, S)
  PROVE  \E g : Table(g, f, S)
  <1>1. PICK g : Sums(g, f, S) /\ g \in [SUBSET S -> Nat] BY SumsExists
  <1>2. ASSUME NEW T \in SUBSET S PROVE SumOf(f, T) = g[T]
    <2>1. IsFiniteSet(T) /\ NatOn(f, T) BY FS_Subset DEF NatOn
    <2>2. \E h : Sums(h, f, T) BY <2>1, SumsExists
    <2> DEFINE h == CHOOSE h : Sums(h, f, T)
    <2>3. Sums(h, f, T) BY <2>2
    <2>4. SameOn(f, f, T) BY DEF SameOn
    <2>5. \A s \in SUBSET T : g[s] = h[s] BY <1>1, <2>3, <2>4, SumsAgree
    <2> QED BY <2>5 DEF SumOf
  <1> QED BY <1>1, <1>2 DEF Table

LEMMA SumType ==
  ASSUME NEW f, NEW S, IsFiniteSet(S), NatOn(f, S) PROVE SumOf(f, S) \in Nat
  <1>1. PICK g : Table(g, f, S) BY SumIs
  <1>2. S \in SUBSET S OBVIOUS
  <1> QED BY <1>1, <1>2 DEF Table

\* A recursive sum found in another way is the same.
LEMMA SumsOne ==
  ASSUME NEW f, NEW S, IsFiniteSet(S), NatOn(f, S), NEW c, Sums(c, f, S)
  PROVE  c[S] = SumOf(f, S)
  <1>1. PICK g : Table(g, f, S) BY SumIs
  <1>2. Sums(g, f, S) /\ S \in SUBSET S /\ SumOf(f, S) = g[S] BY <1>1 DEF Table
  <1>3. SameOn(f, f, S) BY DEF SameOn
  <1>4. \A s \in SUBSET S : g[s] = c[s] BY <1>2, <1>3, SumsAgree
  <1> QED BY <1>2, <1>4

LEMMA SumEmpty == ASSUME NEW f PROVE SumOf(f, {}) = 0
  <1>1. IsFiniteSet({}) /\ NatOn(f, {}) BY FS_EmptySet DEF NatOn
  <1>2. PICK g : Table(g, f, {}) BY <1>1, SumIs
  <1>3. SumOf(f, {}) = g[{}] /\ g = [s \in SUBSET {} |-> Value(g, f, s)]
    BY <1>2, SumsValue DEF Table
  <1>4. g[{}] = Value(g, f, {}) BY <1>3
  <1> QED BY <1>3, <1>4 DEF Value

LEMMA SumChoice ==
  ASSUME NEW f, NEW S, IsFiniteSet(S), NatOn(f, S), S # {}
  PROVE  SumOf(f, S) = f[Choice(S)] + SumOf(f, S \ {Choice(S)})
  <1>1. PICK g : Table(g, f, S) BY SumIs
  <1>2. g = [s \in SUBSET S |-> Value(g, f, s)] BY <1>1, SumsValue DEF Table
  <1>3. g[S] = Value(g, f, S) BY <1>2
  <1> QED BY <1>1, <1>3 DEF Value, Table

\* Only the values on the set count.
LEMMA SumSame ==
  ASSUME NEW f, NEW h, NEW S, IsFiniteSet(S), NatOn(f, S), SameOn(f, h, S)
  PROVE  SumOf(f, S) = SumOf(h, S)
  <1>1. NatOn(h, S) BY DEF NatOn, SameOn
  <1>2. PICK g : Table(g, f, S) BY SumIs
  <1>3. PICK k : Table(k, h, S) BY <1>1, SumIs
  <1>4. S \in SUBSET S /\ Sums(g, f, S) /\ Sums(k, h, S) BY <1>2, <1>3 DEF Table
  <1>5. \A s \in SUBSET S : g[s] = k[s] BY <1>4, SumsAgree
  <1> QED BY <1>2, <1>3, <1>5 DEF Table

\* Any element may be taken out first.
LEMMA SumRemove ==
  ASSUME NEW f, NEW S, IsFiniteSet(S), NatOn(f, S), NEW y \in S
  PROVE  SumOf(f, S) = f[y] + SumOf(f, S \ {y})
  <1> DEFINE P == {s \in SUBSET S : \A x \in s : SumOf(f, s) = f[x] + SumOf(f, s \ {x})}
  <1>1. \A s \in SUBSET S : IsFiniteSet(s) /\ NatOn(f, s) /\ SumOf(f, s) \in Nat
    BY FS_Subset, SumType DEF NatOn
  <1>2. {} \in P OBVIOUS
  <1>3. ASSUME NEW s \in SUBSET S, s # {}, \A x \in s : s \ {x} \in P PROVE s \in P
    <2> SUFFICES ASSUME NEW x \in s PROVE SumOf(f, s) = f[x] + SumOf(f, s \ {x}) OBVIOUS
    <2> DEFINE c == Choice(s)
    <2>1. c \in s BY <1>3, ChoiceIn
    <2>2. SumOf(f, s) = f[c] + SumOf(f, s \ {c}) BY <1>1, <1>3, SumChoice
    <2>3. CASE x = c BY <2>2, <2>3
    <2>4. CASE x # c
      <3> DEFINE r == (s \ {c}) \ {x}
      <3> HIDE DEF c
      <3>1. SumOf(f, s \ {c}) = f[x] + SumOf(f, r)
        <4>1. s \ {c} \in P BY <1>3, <2>1
        <4>2. x \in s \ {c} BY <2>4
        <4> QED BY <4>1, <4>2
      <3>2. SumOf(f, s \ {x}) = f[c] + SumOf(f, r)
        <4>1. s \ {x} \in P /\ c \in s \ {x} BY <1>3, <2>1, <2>4
        <4>2. (s \ {x}) \ {c} = r OBVIOUS
        <4>3. SumOf(f, s \ {x}) = f[c] + SumOf(f, (s \ {x}) \ {c}) BY <4>1
        <4> QED BY <4>2, <4>3
      <3>3. f[x] \in Nat /\ f[c] \in Nat BY <2>1 DEF NatOn
      <3>4. SumOf(f, r) \in Nat
        <4>1. r \in SUBSET S OBVIOUS
        <4> QED BY <4>1, <1>1
      <3> HIDE DEF r
      <3> QED BY <2>2, <3>1, <3>2, <3>3, <3>4
    <2> QED BY <2>3, <2>4
  <1>4. \A s \in SUBSET S : s \in P BY <1>2, <1>3, SubsetInduction
  <1> QED BY <1>4

LEMMA SumZero ==
  ASSUME NEW f, NEW S, IsFiniteSet(S), \A x \in S : f[x] = 0 PROVE SumOf(f, S) = 0
  <1> DEFINE P == {s \in SUBSET S : SumOf(f, s) = 0}
  <1>1. \A s \in SUBSET S : IsFiniteSet(s) /\ NatOn(f, s) BY FS_Subset DEF NatOn
  <1>2. {} \in P BY SumEmpty
  <1>3. ASSUME NEW s \in SUBSET S, s # {}, \A x \in s : s \ {x} \in P PROVE s \in P
    <2>1. PICK x \in s : TRUE BY <1>3
    <2>2. SumOf(f, s) = f[x] + SumOf(f, s \ {x}) BY <1>1, SumRemove
    <2> QED BY <1>3, <2>1, <2>2
  <1>4. \A s \in SUBSET S : s \in P BY <1>2, <1>3, SubsetInduction
  <1> QED BY <1>4

\* The sum over a set is the sum over a part and the sum over the rest.
LEMMA SumSplit ==
  ASSUME NEW f, NEW S, IsFiniteSet(S), NatOn(f, S), NEW A
  PROVE  SumOf(f, S) = SumOf(f, S \cap A) + SumOf(f, S \ A)
  <1> DEFINE P == {s \in SUBSET S : SumOf(f, s) = SumOf(f, s \cap A) + SumOf(f, s \ A)}
  <1>1. \A s \in SUBSET S : IsFiniteSet(s) /\ NatOn(f, s) /\ SumOf(f, s) \in Nat
    BY FS_Subset, SumType DEF NatOn
  <1>2. {} \in P
    <2>1. {} \cap A = {} /\ {} \ A = {} OBVIOUS
    <2>2. SumOf(f, {}) = 0 BY SumEmpty
    <2> QED BY <2>1, <2>2
  <1>3. ASSUME NEW s \in SUBSET S, s # {}, \A x \in s : s \ {x} \in P PROVE s \in P
    <2>1. PICK x \in s : TRUE BY <1>3
    <2>2. SumOf(f, s) = f[x] + SumOf(f, s \ {x}) BY <1>1, SumRemove
    <2>3. SumOf(f, s \ {x}) = SumOf(f, (s \ {x}) \cap A) + SumOf(f, (s \ {x}) \ A) BY <1>3
    <2>4. /\ SumOf(f, s \cap A) \in Nat /\ SumOf(f, s \ A) \in Nat
          /\ SumOf(f, (s \cap A) \ {x}) \in Nat /\ SumOf(f, (s \ A) \ {x}) \in Nat
      BY <1>1
    <2>5. f[x] \in Nat BY DEF NatOn
    <2>6. (s \ {x}) \cap A = (s \cap A) \ {x} /\ (s \ {x}) \ A = (s \ A) \ {x} OBVIOUS
    <2>7. CASE x \in A
      <3>1. (s \ A) \ {x} = s \ A BY <2>7
      <3>2. SumOf(f, s \cap A) = f[x] + SumOf(f, (s \cap A) \ {x})
        <4>1. IsFiniteSet(s \cap A) /\ NatOn(f, s \cap A) /\ x \in s \cap A BY <1>1, <2>7
        <4> QED BY <4>1, SumRemove
      <3>3. SumOf(f, s \ {x}) = SumOf(f, (s \cap A) \ {x}) + SumOf(f, s \ A) BY <2>3, <2>6, <3>1
      <3>4. SumOf(f, s) = SumOf(f, s \cap A) + SumOf(f, s \ A) BY <2>2, <2>4, <2>5, <3>2, <3>3
      <3> QED BY <3>4
    <2>8. CASE x \notin A
      <3>1. (s \cap A) \ {x} = s \cap A BY <2>8
      <3>2. SumOf(f, s \ A) = f[x] + SumOf(f, (s \ A) \ {x})
        <4>1. IsFiniteSet(s \ A) /\ NatOn(f, s \ A) /\ x \in s \ A BY <1>1, <2>8
        <4> QED BY <4>1, SumRemove
      <3>3. SumOf(f, s \ {x}) = SumOf(f, s \cap A) + SumOf(f, (s \ A) \ {x}) BY <2>3, <2>6, <3>1
      <3>4. SumOf(f, s) = SumOf(f, s \cap A) + SumOf(f, s \ A) BY <2>2, <2>4, <2>5, <3>2, <3>3
      <3> QED BY <3>4
    <2> QED BY <2>7, <2>8
  <1>4. \A s \in SUBSET S : s \in P BY <1>2, <1>3, SubsetInduction
  <1> QED BY <1>4

LEMMA SumPart ==
  ASSUME NEW f, NEW S, IsFiniteSet(S), NatOn(f, S), NEW T \in SUBSET S
  PROVE  SumOf(f, T) \in Nat /\ SumOf(f, T) <= SumOf(f, S)
  <1>1. S \cap T = T OBVIOUS
  <1>2. SumOf(f, S) = SumOf(f, S \cap T) + SumOf(f, S \ T) BY SumSplit
  <1>3. SumOf(f, T) \in Nat /\ SumOf(f, S \ T) \in Nat
    <2>1. IsFiniteSet(T) /\ NatOn(f, T) /\ IsFiniteSet(S \ T) /\ NatOn(f, S \ T)
      BY FS_Subset DEF NatOn
    <2> QED BY <2>1, SumType
  <1>4. SumOf(f, S) = SumOf(f, T) + SumOf(f, S \ T) BY <1>1, <1>2
  <1> QED BY <1>3, <1>4

\* Weights of nought and one select a part.
LEMMA SumSelect ==
  ASSUME NEW f, NEW h, NEW S, IsFiniteSet(S), NatOn(f, S), NEW A,
         \A x \in S : h[x] = IF x \in A THEN f[x] ELSE 0
  PROVE  SumOf(h, S) = SumOf(f, S \cap A)
  <1>1. NatOn(h, S) BY DEF NatOn
  <1>2. SumOf(h, S) = SumOf(h, S \cap A) + SumOf(h, S \ A) BY <1>1, SumSplit
  <1>3. IsFiniteSet(S \cap A) /\ IsFiniteSet(S \ A) BY FS_Subset
  <1>4. SumOf(h, S \ A) = 0 BY <1>3, SumZero
  <1>5. SumOf(h, S \cap A) = SumOf(f, S \cap A)
    <2>1. NatOn(h, S \cap A) /\ SameOn(h, f, S \cap A) BY <1>1 DEF NatOn, SameOn
    <2> QED BY <1>3, <2>1, SumSame
  <1>6. SumOf(f, S \cap A) \in Nat BY SumPart
  <1> QED BY <1>2, <1>4, <1>5, <1>6

\* One more of one element.
LEMMA SumOneMore ==
  ASSUME NEW f, NEW h, NEW S, IsFiniteSet(S), NatOn(f, S), NEW y \in S,
         h[y] = f[y] + 1, \A x \in S \ {y} : h[x] = f[x]
  PROVE  SumOf(h, S) = SumOf(f, S) + 1
  <1>1. NatOn(h, S) BY DEF NatOn
  <1>2. SumOf(h, S) = h[y] + SumOf(h, S \ {y}) BY <1>1, SumRemove
  <1>3. SumOf(f, S) = f[y] + SumOf(f, S \ {y}) BY SumRemove
  <1>4. SumOf(f, S \ {y}) = SumOf(h, S \ {y})
    <2>1. IsFiniteSet(S \ {y}) /\ NatOn(f, S \ {y}) /\ SameOn(f, h, S \ {y})
      BY FS_Subset DEF NatOn, SameOn
    <2> QED BY <2>1, SumSame
  <1>5. SumOf(f, S \ {y}) \in Nat /\ f[y] \in Nat BY SumPart DEF NatOn
  <1> QED BY <1>2, <1>3, <1>4, <1>5
=============================================================================

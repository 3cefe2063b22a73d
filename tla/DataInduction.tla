--------------------------- MODULE DataInduction ----------------------------
(***************************************************************************)
(* Induction over numbers and finite sets, from the fact that every set of *)
(* numbers has a least element, and with it what the sums and the          *)
(* flattened sequences of the community modules compute for every input.   *)
(***************************************************************************)
EXTENDS SequencesExt, FiniteSetTheorems, SequenceTheorems, WellFoundedInduction, TLAPS

NatLess == {p \in Nat \X Nat : p[1] < p[2]}

LEMMA NatLessWellFounded == IsWellFoundedOn(NatLess, Nat)
  BY NatLessThanWellFounded DEF OpToRel, NatLess

LEMMA NatLeast ==
    ASSUME NEW T \in SUBSET Nat, T # {}
    PROVE  \E x \in T : \A y \in T : ~(y < x)
  <1>1. PICK x \in T : \A y \in T : ~ (<<y, x>> \in NatLess)
    BY WFMin, NatLessWellFounded
  <1>3. ASSUME NEW y \in T, y < x PROVE <<y, x>> \in NatLess
    BY <1>3 DEF NatLess
  <1> QED
    BY <1>1, <1>3

LEMMA SetInduction ==
    ASSUME NEW T, 0 \in T, \A n \in Nat : n \in T => n + 1 \in T
    PROVE  \A n \in Nat : n \in T
  <1>1. SUFFICES ASSUME Nat \ T # {} PROVE FALSE
    OBVIOUS
  <1>2. PICK x \in Nat \ T : \A y \in Nat \ T : ~(y < x)
    BY <1>1, NatLeast
  <1>3. x # 0 /\ x - 1 \in Nat /\ x - 1 < x
    BY <1>2
  <1>4. x - 1 \in T
    BY <1>2, <1>3
  <1>5. (x - 1) + 1 \in T
    BY <1>3, <1>4
  <1> QED
    BY <1>2, <1>5

\* Induction over the subsets of a finite set, by their size.
LEMMA FiniteInduction ==
    ASSUME NEW S, NEW T, IsFiniteSet(S),
           \A R \in SUBSET S : (\A x \in R : R \ {x} \in T) => R \in T
    PROVE  \A R \in SUBSET S : R \in T
  <1> DEFINE Sizes == {n \in Nat : \A R \in SUBSET S : Cardinality(R) = n => R \in T}
  <1>1. \A R \in SUBSET S : IsFiniteSet(R) /\ Cardinality(R) \in Nat
    BY FS_Subset, FS_CardinalityType
  <1>2. 0 \in Sizes
    <2>1. ASSUME NEW R \in SUBSET S, Cardinality(R) = 0 PROVE R \in T
      BY <1>1, <2>1, FS_EmptySet
    <2> QED
      BY <2>1
  <1>3. ASSUME NEW n \in Nat, n \in Sizes PROVE n + 1 \in Sizes
    <2>1. ASSUME NEW R \in SUBSET S, Cardinality(R) = n + 1 PROVE R \in T
      <3>1. ASSUME NEW x \in R PROVE R \ {x} \in T
        <4>1. Cardinality(R \ {x}) = n
          BY <1>1, <2>1, FS_RemoveElement
        <4>2. R \ {x} \in SUBSET S
          OBVIOUS
        <4> QED
          BY <1>3, <4>1, <4>2
      <3> QED
        BY <3>1
    <2> QED
      BY <2>1
  <1>4. \A n \in Nat : n \in Sizes
    <2> HIDE DEF Sizes
    <2> QED
      BY <1>2, <1>3, SetInduction
  <1> QED
    BY <1>1, <1>4

LEMMA FiniteImage ==
    ASSUME NEW S, NEW f, IsFiniteSet(S)
    PROVE  IsFiniteSet({f[x] : x \in S})
  <1> DEFINE Image(R) == {f[x] : x \in R}
             T == {R \in SUBSET S : IsFiniteSet(Image(R))}
  <1>1. ASSUME NEW R \in SUBSET S, \A x \in R : R \ {x} \in T PROVE R \in T
    <2>1. CASE R = {}
      <3>1. Image(R) = {}
        BY <2>1
      <3> QED
        BY <3>1, FS_EmptySet
    <2>2. CASE R # {}
      <3>1. PICK z \in R : TRUE
        BY <2>2
      <3>2. IsFiniteSet(Image(R \ {z}))
        BY <1>1
      <3>3. Image(R) = Image(R \ {z}) \cup {f[z]}
        BY <3>1
      <3>4. IsFiniteSet(Image(R \ {z}) \cup {f[z]})
        <4> HIDE DEF Image
        <4> QED
          BY <3>2, FS_AddElement
      <3> QED
        BY <3>3, <3>4
    <2> QED
      BY <2>1, <2>2
  <1>2. \A R \in SUBSET S : R \in T
    <2> HIDE DEF T
    <2> QED
      BY <1>1, FiniteInduction
  <1> QED
    BY <1>2

\* What the definition of MapThenSumSet says of an element it takes.
AddUp(h, f, R) == IF R = {} THEN 0 ELSE LET x == CHOOSE y \in R : TRUE IN f[x] + h[R \ {x}]

AddsUp(h, f, D) == h = [R \in D |-> AddUp(h, f, R)]

SumOf(f, S) == MapThenSumSet(LAMBDA x : f[x], S)

LEMMA SumExists ==
    ASSUME NEW S, NEW f, IsFiniteSet(S)
    PROVE  \E sum : AddsUp(sum, f, SUBSET S)
  <1> DEFINE Small(n) == {R \in SUBSET S : Cardinality(R) <= n}
             T == {n \in Nat : \E h : AddsUp(h, f, Small(n))}
  <1>1. \A R \in SUBSET S : IsFiniteSet(R) /\ Cardinality(R) \in Nat
    BY FS_Subset, FS_CardinalityType
  <1>2. 0 \in T
    <2> DEFINE z == [R \in Small(0) |-> 0]
    <2>1. \A R \in Small(0) : R = {}
      BY <1>1, FS_EmptySet
    <2>2. AddsUp(z, f, Small(0))
      BY <2>1 DEF AddUp, AddsUp
    <2> QED
      BY <2>2
  <1>3. ASSUME NEW n \in Nat, n \in T PROVE n + 1 \in T
    <2>1. PICK h : AddsUp(h, f, Small(n))
      BY <1>3
    <2> DEFINE g == [R \in Small(n + 1) |-> IF R \in Small(n) THEN h[R] ELSE AddUp(h, f, R)]
    <2>2. ASSUME NEW R \in Small(n + 1) PROVE g[R] = AddUp(g, f, R)
      <3>1. CASE R = {}
        <4>1. R \in Small(n)
          BY <3>1, FS_EmptySet, <1>1
        <4>2. h[R] = AddUp(h, f, R)
          BY <2>1, <4>1 DEF AddsUp
        <4> QED
          BY <3>1, <4>1, <4>2 DEF AddUp
      <3>2. CASE R # {}
        <4> DEFINE x == CHOOSE y \in R : TRUE
        <4>1. x \in R
          BY <3>2
        <4>2. R \ {x} \in SUBSET S /\ Cardinality(R \ {x}) = Cardinality(R) - 1
          BY <4>1, <1>1, FS_RemoveElement
        <4>3. R \ {x} \in Small(n) /\ R \ {x} \in Small(n + 1)
          BY <4>2, <1>1
        <4>4. g[R \ {x}] = h[R \ {x}]
          BY <4>3
        <4>5. AddUp(g, f, R) = AddUp(h, f, R)
          BY <4>4, <3>2 DEF AddUp
        <4>6. g[R] = AddUp(h, f, R)
          BY <2>1 DEF AddsUp
        <4> QED
          BY <4>5, <4>6
      <3> QED
        BY <3>1, <3>2
    <2>3. AddsUp(g, f, Small(n + 1))
      BY <2>2 DEF AddsUp
    <2> HIDE DEF g, Small
    <2> QED
      BY <2>3
  <1>4. \A n \in Nat : n \in T
    <2> HIDE DEF T
    <2> QED
      BY <1>2, <1>3, SetInduction
  <1>5. Cardinality(S) \in Nat /\ Small(Cardinality(S)) = SUBSET S
    BY <1>1, FS_Subset
  <1> QED
    BY <1>4, <1>5

LEMMA SumOfDef ==
    ASSUME NEW S, NEW f, IsFiniteSet(S)
    PROVE  \E h : /\ AddsUp(h, f, SUBSET S)
                  /\ SumOf(f, S) = h[S]
  <1> DEFINE g == CHOOSE h : AddsUp(h, f, SUBSET S)
  <1>1. AddsUp(g, f, SUBSET S)
    <2>1. \E h : AddsUp(h, f, SUBSET S)
      BY SumExists
    <2> QED
      BY <2>1, Zenon
  <1>2. SumOf(f, S) = g[S]
    BY Zenon DEF SumOf, MapThenSumSet, MapThenFoldSet, AddUp, AddsUp
  <1> QED
    BY <1>1, <1>2

\* Two such functions agree where both are defined.
LEMMA SumUnique ==
    ASSUME NEW S, NEW R \in SUBSET S, NEW f, NEW g, NEW h, IsFiniteSet(S),
           AddsUp(g, f, SUBSET S), AddsUp(h, f, SUBSET R)
    PROVE  g[R] = h[R]
  <1> DEFINE T == {Q \in SUBSET R : g[Q] = h[Q]}
  <1>1. ASSUME NEW Q \in SUBSET R, \A x \in Q : Q \ {x} \in T PROVE Q \in T
    <2>1. g[Q] = AddUp(g, f, Q) /\ h[Q] = AddUp(h, f, Q)
      BY DEF AddsUp
    <2>2. CASE Q = {}
      BY <2>1, <2>2 DEF AddUp
    <2>3. CASE Q # {}
      <3> DEFINE x == CHOOSE y \in Q : TRUE
      <3>1. x \in Q
        BY <2>3
      <3>2. g[Q \ {x}] = h[Q \ {x}]
        BY <1>1, <3>1
      <3> QED
        BY <2>1, <2>3, <3>2 DEF AddUp
    <2> QED
      BY <2>2, <2>3
  <1>2. IsFiniteSet(R)
    BY FS_Subset
  <1>3. \A Q \in SUBSET R : Q \in T
    <2> HIDE DEF T
    <2> QED
      BY <1>1, <1>2, FiniteInduction
  <1> QED
    BY <1>3

LEMMA SumEmpty ==
    ASSUME NEW f
    PROVE  SumOf(f, {}) = 0
  <1>1. IsFiniteSet({})
    BY FS_EmptySet
  <1>2. PICK h : AddsUp(h, f, SUBSET {}) /\ SumOf(f, {}) = h[{}]
    BY <1>1, SumOfDef
  <1> QED
    BY <1>2 DEF AddsUp, AddUp

LEMMA SumChosen ==
    ASSUME NEW S, NEW f, IsFiniteSet(S), S # {}
    PROVE  \E x \in S : x = (CHOOSE y \in S : TRUE) /\ SumOf(f, S) = f[x] + SumOf(f, S \ {x})
  <1> DEFINE x == CHOOSE y \in S : TRUE
  <1>1. x \in S
    OBVIOUS
  <1>2. PICK g : AddsUp(g, f, SUBSET S) /\ SumOf(f, S) = g[S]
    BY SumOfDef
  <1>3. IsFiniteSet(S \ {x})
    BY FS_Subset
  <1>4. PICK h : AddsUp(h, f, SUBSET (S \ {x})) /\ SumOf(f, S \ {x}) = h[S \ {x}]
    BY <1>3, SumOfDef
  <1>5. S \ {x} \in SUBSET S
    OBVIOUS
  <1>6. g[S \ {x}] = h[S \ {x}]
    <2> DEFINE R == S \ {x}
    <2>1. R \in SUBSET S /\ AddsUp(g, f, SUBSET S) /\ AddsUp(h, f, SUBSET R)
      BY <1>2, <1>4, <1>5
    <2> HIDE DEF R
    <2>2. g[R] = h[R]
      BY <2>1, SumUnique
    <2> QED
      BY <2>2 DEF R
  <1>7. g[S] = f[x] + g[S \ {x}]
    BY <1>2 DEF AddsUp, AddUp
  <1> QED
    BY <1>1, <1>2, <1>4, <1>6, <1>7

LEMMA SumIsInt ==
    ASSUME NEW S, NEW f, IsFiniteSet(S), \A x \in S : f[x] \in Int
    PROVE  SumOf(f, S) \in Int
  <1> DEFINE T == {R \in SUBSET S : SumOf(f, R) \in Int}
  <1>1. ASSUME NEW R \in SUBSET S, \A x \in R : R \ {x} \in T PROVE R \in T
    <2>1. CASE R = {}
      BY <2>1, SumEmpty
    <2>2. CASE R # {}
      <3>1. IsFiniteSet(R)
        BY FS_Subset
      <3>2. PICK c \in R : SumOf(f, R) = f[c] + SumOf(f, R \ {c})
        BY <2>2, <3>1, SumChosen
      <3> QED
        BY <1>1, <3>2
    <2> QED
      BY <2>1, <2>2
  <1>2. \A R \in SUBSET S : R \in T
    <2> HIDE DEF T
    <2> QED
      BY <1>1, FiniteInduction
  <1> QED
    BY <1>2

\* The order in which the elements are taken does not matter.
LEMMA SumRemove ==
    ASSUME NEW S, NEW f, NEW z \in S, IsFiniteSet(S), \A x \in S : f[x] \in Int
    PROVE  /\ SumOf(f, S) \in Int
           /\ SumOf(f, S) = f[z] + SumOf(f, S \ {z})
  <1> DEFINE T == {R \in SUBSET S : /\ SumOf(f, R) \in Int
                                   /\ \A x \in R : SumOf(f, R) = f[x] + SumOf(f, R \ {x})}
  <1>1. ASSUME NEW R \in SUBSET S, \A x \in R : R \ {x} \in T PROVE R \in T
    <2>1. CASE R = {}
      BY <2>1, SumEmpty
    <2>2. CASE R # {}
      <3>1. IsFiniteSet(R)
        BY FS_Subset
      <3>2. PICK c \in R : SumOf(f, R) = f[c] + SumOf(f, R \ {c})
        BY <2>2, <3>1, SumChosen
      <3>3. SumOf(f, R) \in Int
        BY <1>1, <3>2
      <3>4. ASSUME NEW x \in R, x # c PROVE SumOf(f, R) = f[x] + SumOf(f, R \ {x})
        <4>1. SumOf(f, R \ {c}) = f[x] + SumOf(f, (R \ {c}) \ {x})
          BY <1>1, <3>4
        <4>2. SumOf(f, R \ {x}) = f[c] + SumOf(f, (R \ {x}) \ {c})
          BY <1>1, <3>4
        <4>3. (R \ {c}) \ {x} = (R \ {x}) \ {c}
          OBVIOUS
        <4>4. SumOf(f, R \ {x}) \in Int /\ f[x] \in Int /\ f[c] \in Int
              /\ SumOf(f, R \ {c}) \in Int
          BY <1>1
        <4>5. SumOf(f, (R \ {c}) \ {x}) \in Int
          <5>1. IsFiniteSet((R \ {c}) \ {x})
            BY FS_Subset
          <5> QED
            BY <5>1, SumIsInt
        <4> DEFINE a == SumOf(f, (R \ {c}) \ {x})
                   b == SumOf(f, R \ {c})
                   d == SumOf(f, R \ {x})
                   e == SumOf(f, R)
        <4>6. /\ a \in Int /\ b \in Int /\ d \in Int /\ e \in Int /\ f[x] \in Int /\ f[c] \in Int
              /\ e = f[c] + b /\ b = f[x] + a /\ d = f[c] + a
          BY <3>2, <3>3, <4>1, <4>2, <4>3, <4>4, <4>5
        <4>7. e = f[x] + d
          <5> HIDE DEF a, b, d, e
          <5> QED
            BY <4>6
        <4> QED
          BY <4>7
      <3> QED
        BY <3>2, <3>3, <3>4
    <2> QED
      BY <2>1, <2>2
  <1>2. \A R \in SUBSET S : R \in T
    <2> HIDE DEF T
    <2> QED
      BY <1>1, FiniteInduction
  <1> QED
    BY <1>2

\* Sums of functions that agree, and the sum over a set and an element outside.
LEMMA SumSame ==
    ASSUME NEW S, NEW f, NEW g, IsFiniteSet(S), \A x \in S : f[x] = g[x] /\ f[x] \in Int
    PROVE  SumOf(f, S) = SumOf(g, S)
  <1> DEFINE T == {R \in SUBSET S : SumOf(f, R) = SumOf(g, R)}
  <1>1. ASSUME NEW R \in SUBSET S, \A x \in R : R \ {x} \in T PROVE R \in T
    <2>1. CASE R = {}
      BY <2>1, SumEmpty
    <2>2. CASE R # {}
      <3>1. IsFiniteSet(R)
        BY FS_Subset
      <3>2. PICK c \in R : SumOf(f, R) = f[c] + SumOf(f, R \ {c})
        BY <2>2, <3>1, SumChosen
      <3>3. SumOf(g, R) = g[c] + SumOf(g, R \ {c})
        BY <3>1, SumRemove
      <3> QED
        BY <1>1, <3>2, <3>3
    <2> QED
      BY <2>1, <2>2
  <1>2. \A R \in SUBSET S : R \in T
    <2> HIDE DEF T
    <2> QED
      BY <1>1, FiniteInduction
  <1> QED
    BY <1>2

LEMMA SumAdd ==
    ASSUME NEW S, NEW f, NEW z, IsFiniteSet(S), z \notin S, \A x \in S \cup {z} : f[x] \in Int
    PROVE  SumOf(f, S \cup {z}) = f[z] + SumOf(f, S)
  <1>1. IsFiniteSet(S \cup {z})
    BY FS_AddElement
  <1>2. SumOf(f, S \cup {z}) = f[z] + SumOf(f, (S \cup {z}) \ {z})
    <2> DEFINE R == S \cup {z}
    <2>1. IsFiniteSet(R) /\ z \in R /\ \A x \in R : f[x] \in Int
      BY <1>1
    <2> HIDE DEF R
    <2>2. SumOf(f, R) = f[z] + SumOf(f, R \ {z})
      BY <2>1, SumRemove
    <2> QED
      BY <2>2 DEF R
  <1>3. (S \cup {z}) \ {z} = S
    OBVIOUS
  <1> QED
    BY <1>2, <1>3

\* One term changes.
LEMMA SumChange ==
    ASSUME NEW S, NEW f, NEW g, NEW z \in S, IsFiniteSet(S), \A x \in S : f[x] \in Int /\ g[x] \in Int,
           \A x \in S \ {z} : f[x] = g[x]
    PROVE  SumOf(f, S) \in Int /\ SumOf(g, S) = SumOf(f, S) - f[z] + g[z]
  <1>1. /\ SumOf(f, S) \in Int /\ SumOf(f, S) = f[z] + SumOf(f, S \ {z})
        /\ SumOf(g, S) = g[z] + SumOf(g, S \ {z})
    BY SumRemove
  <1>2. IsFiniteSet(S \ {z})
    BY FS_Subset
  <1>3. SumOf(f, S \ {z}) = SumOf(g, S \ {z}) /\ SumOf(f, S \ {z}) \in Int
    BY <1>2, SumSame, SumIsInt
  <1>4. f[z] \in Int /\ g[z] \in Int
    OBVIOUS
  <1> DEFINE a == SumOf(f, S)
             b == SumOf(f, S \ {z})
             c == SumOf(g, S)
             p == f[z]
             q == g[z]
  <1>5. a \in Int /\ b \in Int /\ p \in Int /\ q \in Int /\ a = p + b /\ c = q + b
    BY <1>1, <1>3, <1>4
  <1>6. a \in Int /\ c = a - p + q
    <2> HIDE DEF a, b, c, p, q
    <2> QED
      BY <1>5
  <1> QED
    BY <1>6

\* Terms that are zero add nothing.
LEMMA SumZeros ==
    ASSUME NEW S, NEW R, NEW f, NEW g, IsFiniteSet(S), IsFiniteSet(R), S \cap R = {},
           \A x \in S : f[x] = g[x] /\ f[x] \in Int, \A x \in R : g[x] = 0
    PROVE  SumOf(g, S \cup R) = SumOf(f, S)
  <1> DEFINE T == {Q \in SUBSET R : SumOf(g, S \cup Q) = SumOf(f, S)}
  <1>1. ASSUME NEW Q \in SUBSET R, \A x \in Q : Q \ {x} \in T PROVE Q \in T
    <2>1. CASE Q = {}
      <3>1. S \cup Q = S
        BY <2>1
      <3> QED
        BY <3>1, SumSame
    <2>2. CASE Q # {}
      <3>1. PICK z \in Q : TRUE
        BY <2>2
      <3> DEFINE P == S \cup (Q \ {z})
      <3>2. IsFiniteSet(P)
        BY FS_Subset, FS_Union
      <3>3. z \notin P /\ P \cup {z} = S \cup Q /\ g[z] = 0 /\ \A x \in P \cup {z} : g[x] \in Int
        BY <3>1
      <3>4. SumOf(g, P) = SumOf(f, S)
        BY <1>1, <3>1
      <3>5. SumOf(f, S) \in Int
        BY SumIsInt
      <3> HIDE DEF P
      <3>6. SumOf(g, P \cup {z}) = g[z] + SumOf(g, P)
        BY <3>2, <3>3, SumAdd
      <3> DEFINE a == SumOf(g, P \cup {z})
                 b == SumOf(g, P)
                 c == SumOf(f, S)
      <3>7. a = g[z] + b /\ b = c /\ c \in Int /\ g[z] = 0
        BY <3>3, <3>4, <3>5, <3>6
      <3>8. SumOf(g, S \cup Q) = a
        BY <3>3
      <3> HIDE DEF a, b, c
      <3>9. SumOf(g, S \cup Q) = c
        BY <3>7, <3>8
      <3> QED
        BY <3>9 DEF c
    <2> QED
      BY <2>1, <2>2
  <1>2. \A Q \in SUBSET R : Q \in T
    <2> HIDE DEF T
    <2> QED
      BY <1>1, FiniteInduction
  <1> QED
    BY <1>2

\* A function that satisfies the definition of the sum is the sum.
LEMMA SumIs ==
    ASSUME NEW S, NEW f, NEW h, IsFiniteSet(S), AddsUp(h, f, SUBSET S)
    PROVE  SumOf(f, S) = h[S]
  <1>1. PICK g : AddsUp(g, f, SUBSET S) /\ SumOf(f, S) = g[S]
    BY SumOfDef
  <1>2. S \in SUBSET S
    OBVIOUS
  <1> QED
    BY <1>1, <1>2, SumUnique
-----------------------------------------------------------------------------
(* Flattened sequences *)

Join(h, ps, i) == IF i = 1 THEN ps[i] ELSE h[i - 1] \o ps[i]

Concatenates(h, ps, n) == h = [i \in 1..n |-> Join(h, ps, i)]

LEMMA ConcatenationExists ==
    ASSUME NEW ps, NEW n \in Nat
    PROVE  \E h : Concatenates(h, ps, n)
  <1> DEFINE T == {m \in Nat : \E h : Concatenates(h, ps, m)}
  <1>1. 0 \in T
    <2>1. Concatenates(<<>>, ps, 0)
      BY DEF Concatenates
    <2> QED
      BY <2>1
  <1>2. ASSUME NEW m \in Nat, m \in T PROVE m + 1 \in T
    <2>1. PICK h : Concatenates(h, ps, m)
      BY <1>2
    <2> DEFINE g == [i \in 1..(m + 1) |-> IF i \in 1..m THEN h[i] ELSE Join(h, ps, i)]
    <2>2. ASSUME NEW i \in 1..(m + 1) PROVE g[i] = Join(g, ps, i)
      <3>1. g[i] = Join(h, ps, i)
        BY <2>1 DEF Concatenates
      <3>2. i # 1 => i - 1 \in 1..m /\ i - 1 \in 1..(m + 1)
        OBVIOUS
      <3>3. i # 1 => g[i - 1] = h[i - 1]
        BY <3>2
      <3> QED
        BY <3>1, <3>3 DEF Join
    <2>3. Concatenates(g, ps, m + 1)
      BY <2>2 DEF Concatenates
    <2> HIDE DEF g
    <2> QED
      BY <2>3
  <1>3. \A m \in Nat : m \in T
    <2> HIDE DEF T
    <2> QED
      BY <1>1, <1>2, SetInduction
  <1> QED
    BY <1>3

LEMMA FlattenDef ==
    ASSUME NEW ps, Len(ps) \in Nat, Len(ps) # 0
    PROVE  \E h : Concatenates(h, ps, Len(ps)) /\ FlattenSeq(ps) = h[Len(ps)]
  <1> DEFINE g == CHOOSE h : Concatenates(h, ps, Len(ps))
  <1>1. Concatenates(g, ps, Len(ps))
    <2>1. \E h : Concatenates(h, ps, Len(ps))
      BY ConcatenationExists
    <2> QED
      BY <2>1, Zenon
  <1>2. FlattenSeq(ps) = g[Len(ps)]
    BY Zenon DEF FlattenSeq, Concatenates, Join
  <1> QED
    BY <1>1, <1>2

LEMMA FlattenEmpty == FlattenSeq(<<>>) = <<>>
  BY DEF FlattenSeq

LEMMA ConcatenatesFirst ==
    ASSUME NEW h, NEW ps, NEW n \in Nat, n # 0, Concatenates(h, ps, n)
    PROVE  h[1] = ps[1]
  <1>1. 1 \in 1..n
    OBVIOUS
  <1>2. h[1] = Join(h, ps, 1)
    BY <1>1 DEF Concatenates
  <1> QED
    BY <1>2 DEF Join

LEMMA ConcatenatesNext ==
    ASSUME NEW h, NEW ps, NEW n \in Nat, NEW i \in Nat, i # 0, i < n, Concatenates(h, ps, n)
    PROVE  h[i + 1] = h[i] \o ps[i + 1]
  <1>1. i + 1 \in 1..n /\ i + 1 # 1 /\ (i + 1) - 1 = i
    OBVIOUS
  <1>2. h[i + 1] = Join(h, ps, i + 1)
    BY <1>1 DEF Concatenates
  <1> QED
    BY <1>1, <1>2 DEF Join

\* Flattening goes from left to right.
LEMMA FlattenAppend ==
    ASSUME NEW S, NEW ps \in Seq(Seq(S)), NEW p \in Seq(S)
    PROVE  FlattenSeq(Append(ps, p)) = FlattenSeq(ps) \o p
  <1> DEFINE qs == Append(ps, p)
             n == Len(ps)
  <1>1. /\ n \in Nat /\ Len(qs) = n + 1 /\ qs[n + 1] = p
        /\ \A i \in 1..n : qs[i] = ps[i]
    OBVIOUS
  <1>0. n = 0 => ps = <<>>
    OBVIOUS
  <1>5. /\ n + 1 \in 1..(n + 1) /\ (n + 1) - 1 = n
        /\ \A i \in 1..n : i \in 1..(n + 1)
    BY <1>1
  <1> SUFFICES FlattenSeq(qs) = FlattenSeq(ps) \o p
    OBVIOUS
  <1> HIDE DEF qs
  <1>2. PICK h : Concatenates(h, qs, n + 1) /\ FlattenSeq(qs) = h[n + 1]
    <2>1. Len(qs) \in Nat /\ Len(qs) # 0
      BY <1>1
    <2> HIDE DEF n
    <2> QED
      BY <1>1, <2>1, FlattenDef
  <1>3. CASE n = 0
    <2>1. ps = <<>> /\ h[n + 1] = p
      BY <1>0, <1>1, <1>2, <1>3, ConcatenatesFirst
    <2>2. FlattenSeq(ps) = <<>>
      BY <2>1, FlattenEmpty
    <2> QED
      BY <1>2, <2>1, <2>2
  <1>4. CASE n # 0
    <2>1. PICK g : Concatenates(g, ps, n) /\ FlattenSeq(ps) = g[n]
      BY <1>1, <1>4, FlattenDef
    <2> HIDE DEF n
    <2> DEFINE T == {i \in Nat : i \in 1..n => g[i] = h[i]}
    <2>2. 0 \in T
      OBVIOUS
    <2>3. ASSUME NEW i \in Nat, i \in T PROVE i + 1 \in T
      <3>1. ASSUME i + 1 \in 1..n PROVE g[i + 1] = h[i + 1]
        <4>1. CASE i = 0
          BY <1>1, <1>2, <2>1, <3>1, <4>1, ConcatenatesFirst
        <4>2. CASE i # 0
          <5>1. i < n /\ i < n + 1 /\ g[i] = h[i] /\ qs[i + 1] = ps[i + 1]
            BY <1>1, <2>3, <3>1, <4>2
          <5>4. n + 1 \in Nat
            BY <1>1
          <5>2. g[i + 1] = g[i] \o ps[i + 1]
            BY <1>1, <2>1, <4>2, <5>1, ConcatenatesNext
          <5>3. h[i + 1] = h[i] \o qs[i + 1]
            BY <1>1, <1>2, <4>2, <5>1, <5>4, ConcatenatesNext, ZenonT(60)
          <5> QED
            BY <5>1, <5>2, <5>3
        <4> QED
          BY <4>1, <4>2
      <3> QED
        BY <3>1
    <2>4. \A i \in Nat : i \in T
      <3> HIDE DEF T
      <3> QED
        BY <2>2, <2>3, SetInduction
    <2>5. g[n] = h[n]
      BY <1>1, <1>4, <2>4
    <2>6. h[n + 1] = h[n] \o p
      <3>1. n + 1 \in Nat /\ n < n + 1
        BY <1>1
      <3>2. h[n + 1] = h[n] \o qs[n + 1]
        BY <1>1, <1>2, <1>4, <3>1, ConcatenatesNext
      <3> QED
        BY <1>1, <3>2
    <2> QED
      BY <1>2, <2>1, <2>5, <2>6
  <1> QED
    BY <1>3, <1>4

\* Induction over the sequences that start a sequence.
LEMMA PrefixInduction ==
    ASSUME NEW S, NEW s \in Seq(S), NEW T, <<>> \in T,
           \A i \in 1..Len(s) : SubSeq(s, 1, i - 1) \in T => Append(SubSeq(s, 1, i - 1), s[i]) \in T
    PROVE  s \in T
  <1> DEFINE Start(n) == SubSeq(s, 1, n)
             N == {n \in Nat : n <= Len(s) => Start(n) \in T}
  <1>1. Len(s) \in Nat /\ Start(0) = <<>> /\ Start(Len(s)) = s
    BY SubSeqFull
  <1>2. ASSUME NEW n \in Nat, n + 1 <= Len(s)
        PROVE  Start(n + 1) = Append(Start(n), s[n + 1]) /\ n + 1 \in 1..Len(s) /\ (n + 1) - 1 = n
    BY <1>2
  <1>3. \A i \in 1..Len(s) : Start(i - 1) \in T => Append(Start(i - 1), s[i]) \in T
    OBVIOUS
  <1> HIDE DEF Start
  <1>4. 0 \in N
    BY <1>1
  <1>5. ASSUME NEW n \in Nat, n \in N PROVE n + 1 \in N
    <2>1. ASSUME n + 1 <= Len(s) PROVE Start(n + 1) \in T
      <3>1. Start(n) \in T
        BY <1>1, <1>5, <2>1
      <3> QED
        BY <1>2, <1>3, <2>1, <3>1
    <2> QED
      BY <2>1
  <1>6. \A n \in Nat : n \in N
    <2> HIDE DEF N
    <2> QED
      BY <1>4, <1>5, SetInduction
  <1> QED
    BY <1>1, <1>6

LEMMA FlattenType ==
    ASSUME NEW S, NEW ps \in Seq(Seq(S))
    PROVE  FlattenSeq(ps) \in Seq(S)
  <1> DEFINE P == Seq(S)
             T == {qs \in Seq(P) : FlattenSeq(qs) \in P}
  <1>1. <<>> \in T
    <2>1. <<>> \in P /\ <<>> \in Seq(P)
      OBVIOUS
    <2> HIDE DEF P
    <2> QED
      BY <2>1, FlattenEmpty
  <1>2. ASSUME NEW i \in 1..Len(ps), SubSeq(ps, 1, i - 1) \in T
        PROVE  Append(SubSeq(ps, 1, i - 1), ps[i]) \in T
    <2> DEFINE qs == SubSeq(ps, 1, i - 1)
    <2>1. qs \in Seq(P) /\ ps[i] \in P /\ FlattenSeq(qs) \in P
      BY <1>2
    <2> HIDE DEF qs
    <2>2. FlattenSeq(Append(qs, ps[i])) = FlattenSeq(qs) \o ps[i]
      BY <2>1, FlattenAppend
    <2>3. FlattenSeq(qs) \o ps[i] \in P
      BY <2>1
    <2>4. Append(qs, ps[i]) \in Seq(P)
      <3> HIDE DEF P
      <3> QED
        BY <2>1
    <2>5. Append(qs, ps[i]) \in T
      <3> HIDE DEF P
      <3> QED
        BY <2>2, <2>3, <2>4
    <2> QED
      BY <2>5 DEF qs
  <1>3. ps \in T
    <2> HIDE DEF T
    <2> QED
      BY <1>1, <1>2, PrefixInduction
  <1> QED
    BY <1>3

-----------------------------------------------------------------------------
(* Functions that call themselves on what has a smaller rank.                *)

\* f does what H says where the rank is below n.
Follows(f, H, D, rank, n) == \A x \in D : rank[x] < n => f[x] = H[<<f, x>>]

\* H looks at what has a smaller rank only.
LooksBelow(H, D, V, rank) ==
  \A x \in D : \A f, g \in [D -> V] :
    (\A y \in D : rank[y] < rank[x] => f[y] = g[y]) => H[<<f, x>>] = H[<<g, x>>]

\* What it says is in V.
StaysIn(H, D, V) == \A f \in [D -> V] : \A x \in D : H[<<f, x>>] \in V

Solves(f, H, D) == \A x \in D : f[x] = H[<<f, x>>]

LEMMA FollowsUnique ==
    ASSUME NEW D, NEW V, NEW rank \in [D -> Nat], NEW H, LooksBelow(H, D, V, rank),
           NEW f \in [D -> V], NEW g \in [D -> V], NEW n \in Nat,
           Follows(f, H, D, rank, n), Follows(g, H, D, rank, n)
    PROVE  \A x \in D : rank[x] < n => f[x] = g[x]
  <1> DEFINE T == {m \in Nat : \A x \in D : rank[x] < m /\ rank[x] < n => f[x] = g[x]}
  <1>1. 0 \in T
    OBVIOUS
  <1>2. ASSUME NEW m \in Nat, m \in T PROVE m + 1 \in T
    <2>1. ASSUME NEW x \in D, rank[x] < m + 1, rank[x] < n PROVE f[x] = g[x]
      <3>1. \A y \in D : rank[y] < rank[x] => f[y] = g[y]
        BY <1>2, <2>1
      <3>2. H[<<f, x>>] = H[<<g, x>>]
        BY <3>1 DEF LooksBelow
      <3> QED
        BY <2>1, <3>2 DEF Follows
    <2> QED
      BY <2>1
  <1>3. \A m \in Nat : m \in T
    <2> HIDE DEF T
    <2> QED
      BY <1>1, <1>2, SetInduction
  <1> QED
    BY <1>3

LEMMA FollowsExists ==
    ASSUME NEW D, NEW V, NEW v \in V, NEW rank \in [D -> Nat], NEW H, LooksBelow(H, D, V, rank),
           StaysIn(H, D, V), NEW n \in Nat
    PROVE  \E f \in [D -> V] : Follows(f, H, D, rank, n)
  <1> DEFINE T == {m \in Nat : \E f \in [D -> V] : Follows(f, H, D, rank, m)}
  <1>1. 0 \in T
    <2>1. [x \in D |-> v] \in [D -> V] /\ Follows([x \in D |-> v], H, D, rank, 0)
      BY DEF Follows
    <2> QED
      BY <2>1
  <1>2. ASSUME NEW m \in Nat, m \in T PROVE m + 1 \in T
    <2>1. PICK f \in [D -> V] : Follows(f, H, D, rank, m)
      BY <1>2
    <2> DEFINE g == [x \in D |-> IF rank[x] < m THEN f[x] ELSE H[<<f, x>>]]
    <2>2. g \in [D -> V]
      BY DEF StaysIn
    <2>3. \A x \in D : g[x] = H[<<f, x>>]
      BY <2>1 DEF Follows
    <2>4. \A y \in D : rank[y] < m => g[y] = f[y]
      OBVIOUS
    <2> HIDE DEF g
    <2>5. ASSUME NEW x \in D, rank[x] < m + 1 PROVE g[x] = H[<<g, x>>]
      <3>1. \A y \in D : rank[y] < rank[x] => f[y] = g[y]
        BY <2>4, <2>5
      <3>2. H[<<f, x>>] = H[<<g, x>>]
        BY <2>2, <3>1 DEF LooksBelow
      <3> QED
        BY <2>3, <3>2
    <2> QED
      BY <2>2, <2>5 DEF Follows
  <1>3. \A m \in Nat : m \in T
    <2> HIDE DEF T
    <2> QED
      BY <1>1, <1>2, SetInduction
  <1> QED
    BY <1>3

\* A recursive definition has a function to define if what it says of one value
\* depends on those of smaller rank only.
LEMMA RecursionExists ==
    ASSUME NEW D, NEW V, NEW v \in V, NEW rank \in [D -> Nat], NEW H, LooksBelow(H, D, V, rank),
           StaysIn(H, D, V)
    PROVE  \E f \in [D -> V] : Solves(f, H, D)
  <1> DEFINE Part(n) == CHOOSE f \in [D -> V] : Follows(f, H, D, rank, n)
             g == [x \in D |-> Part(rank[x] + 1)[x]]
  <1>1. \A n \in Nat : Part(n) \in [D -> V] /\ Follows(Part(n), H, D, rank, n)
    BY FollowsExists
  <1> HIDE DEF Part
  <1>2. g \in [D -> V]
    BY <1>1
  <1>3. ASSUME NEW x \in D PROVE g[x] = H[<<g, x>>]
    <2> DEFINE f == Part(rank[x] + 1)
    <2>1. f \in [D -> V] /\ Follows(f, H, D, rank, rank[x] + 1)
      BY <1>1
    <2>2. g[x] = f[x]
      OBVIOUS
    <2> HIDE DEF f
    <2>3. ASSUME NEW y \in D, rank[y] < rank[x] PROVE f[y] = g[y]
      <3> DEFINE h == Part(rank[y] + 1)
      <3>1. h \in [D -> V] /\ Follows(h, H, D, rank, rank[y] + 1)
        BY <1>1
      <3>2. g[y] = h[y]
        OBVIOUS
      <3> HIDE DEF h
      <3>3. Follows(f, H, D, rank, rank[y] + 1)
        BY <2>1, <2>3 DEF Follows
      <3>4. f[y] = h[y]
        <4>1. rank[y] + 1 \in Nat /\ rank[y] < rank[y] + 1
          OBVIOUS
        <4> QED
          BY <2>1, <3>1, <3>3, <4>1, FollowsUnique
      <3> QED
        BY <3>2, <3>4
    <2> HIDE DEF g
    <2>4. H[<<f, x>>] = H[<<g, x>>]
      BY <1>2, <2>1, <2>3 DEF LooksBelow
    <2>5. f[x] = H[<<f, x>>]
      BY <2>1 DEF Follows
    <2> QED
      BY <2>2, <2>4, <2>5
  <1> QED
    <2> HIDE DEF g
    <2> QED
      BY <1>2, <1>3 DEF Solves
====

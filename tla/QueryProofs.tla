---------------------------- MODULE QueryProofs -----------------------------
(***************************************************************************)
(* The query engine for any tables, any query the model has and any pages  *)
(* that cannot be read.  The inductive invariant follows the rows through  *)
(* the clauses: loaded in stored order, joined pair by pair, filtered,     *)
(* entered into their groups one by one, and each group into its result.   *)
(* Where every page is read, rows and results and their order follow from  *)
(* the input, so that the pages of an answer fit together.                 *)
(***************************************************************************)
EXTENDS QueryPipeline, DataInduction

-----------------------------------------------------------------------------
(* The subsequence at some positions *)

KeepStep(h, s, I, n) ==
    IF n = 0 THEN <<>> ELSE IF n \in I THEN Append(h[n - 1], s[n]) ELSE h[n - 1]

Keeps(h, s, I, m) == h = [n \in 0..m |-> KeepStep(h, s, I, n)]

\* The recursive function of Keep exists for a sequence of any length.
LEMMA KeepExists ==
    ASSUME NEW s, NEW I, NEW n \in Nat
    PROVE  \E h : Keeps(h, s, I, n)
  <1> DEFINE T == {m \in Nat : \E h : Keeps(h, s, I, m)}
  <1>1. 0 \in T
    <2> DEFINE z == [i \in 0..0 |-> <<>>]
    <2>1. Keeps(z, s, I, 0)
      BY DEF Keeps, KeepStep
    <2> QED
      BY <2>1
  <1>2. ASSUME NEW m \in Nat, m \in T PROVE m + 1 \in T
    <2>1. PICK h : Keeps(h, s, I, m)
      BY <1>2
    <2> DEFINE g == [i \in 0..(m + 1) |-> IF i \in 0..m THEN h[i] ELSE KeepStep(h, s, I, i)]
    <2>2. ASSUME NEW i \in 0..(m + 1) PROVE g[i] = KeepStep(g, s, I, i)
      <3>1. g[i] = KeepStep(h, s, I, i)
        BY <2>1 DEF Keeps
      <3>2. i # 0 => i - 1 \in 0..m /\ i - 1 \in 0..(m + 1)
        OBVIOUS
      <3>3. i # 0 => g[i - 1] = h[i - 1]
        BY <3>2
      <3> QED
        BY <3>1, <3>3 DEF KeepStep
    <2>3. Keeps(g, s, I, m + 1)
      BY <2>2 DEF Keeps
    <2> HIDE DEF g
    <2> QED
      BY <2>3
  <1>3. \A m \in Nat : m \in T
    <2> HIDE DEF T
    <2> QED
      BY <1>1, <1>2, SetInduction
  <1> QED
    BY <1>3

\* Keep is the last value of that function, which satisfies its recursion.
LEMMA KeepDef ==
    ASSUME NEW s, NEW I, Len(s) \in Nat
    PROVE  \E h : Keeps(h, s, I, Len(s)) /\ Keep(s, I) = h[Len(s)]
  <1> DEFINE g == CHOOSE h : Keeps(h, s, I, Len(s))
  <1>1. Keeps(g, s, I, Len(s))
    <2>1. \E h : Keeps(h, s, I, Len(s))
      BY KeepExists
    <2> QED
      BY <2>1, Zenon
  <1>2. Keep(s, I) = g[Len(s)]
    BY Zenon DEF Keep, Keeps, KeepStep
  <1> QED
    BY <1>1, <1>2

\* f: the positions, in their order, that make t of s.
Picks(f, t, s, J) ==
    /\ f \in [1..Len(t) -> J]
    /\ \A i, j \in 1..Len(t) : i < j => f[i] < f[j]
    /\ \A n \in J : \E i \in 1..Len(t) : f[i] = n
    /\ \A i \in 1..Len(t) : t[i] = s[f[i]]

\* Keep has what the sequence has at these positions, in its order.
LEMMA KeepPicks ==
    ASSUME NEW S, NEW s \in Seq(S), NEW I \in SUBSET (1..Len(s))
    PROVE  Keep(s, I) \in Seq(S) /\ \E f : Picks(f, Keep(s, I), s, I)
  <1>1. PICK h : Keeps(h, s, I, Len(s)) /\ Keep(s, I) = h[Len(s)]
    BY KeepDef
  <1> DEFINE J(m) == {n \in I : n <= m}
             Good(m) == h[m] \in Seq(S) /\ \E f : Picks(f, h[m], s, J(m))
             T == {m \in Nat : m <= Len(s) => Good(m)}
  <1>0. /\ Len(s) \in Nat /\ \A n \in 1..Len(s) : s[n] \in S
        /\ \A n \in I : n \in Nat /\ 1 <= n /\ n <= Len(s)
    OBVIOUS
  <1>a. \A m \in Nat : J(m) \in SUBSET Nat
    BY <1>0
  <1>2. 0 \in T
    <2>1. h[0] = <<>>
      <3>1. 0 \in 0..Len(s)
        BY <1>0
      <3> QED
        BY <1>1, <3>1 DEF Keeps, KeepStep
    <2>2. J(0) = {}
      <3>1. \A n \in I : ~(n <= 0)
        BY <1>0
      <3> QED
        BY <3>1
    <2>3. <<>> \in Seq(S) /\ Len(<<>>) = 0 /\ 1..0 = {}
      OBVIOUS
    <2>4. Picks(<<>>, h[0], s, J(0))
      <3> HIDE DEF J
      <3> QED
        BY <2>1, <2>2, <2>3 DEF Picks
    <2> HIDE DEF J
    <2> QED
      BY <2>1, <2>3, <2>4
  <1>3. ASSUME NEW m \in Nat, m \in T PROVE m + 1 \in T
    <2> SUFFICES ASSUME m + 1 <= Len(s) PROVE Good(m + 1)
      <3> HIDE DEF Good
      <3> QED
        OBVIOUS
    <2>0. m <= Len(s)
      BY <1>0
    <2>1. m + 1 \in 1..Len(s) /\ m + 1 \in 0..Len(s) /\ (m + 1) - 1 = m /\ m + 1 # 0
      BY <1>0
    <2>2. h[m + 1] = IF m + 1 \in I THEN Append(h[m], s[m + 1]) ELSE h[m]
      <3>1. h[m + 1] = KeepStep(h, s, I, m + 1)
        BY <1>1, <2>1 DEF Keeps
      <3> QED
        BY <2>1, <3>1 DEF KeepStep
    <2>3. Good(m)
      <3> HIDE DEF Good
      <3> QED
        BY <1>3, <2>0
    <2>4. CASE m + 1 \notin I
      <3>1. J(m + 1) = J(m)
        <4>1. \A n \in I : n <= m + 1 <=> n <= m \/ n = m + 1
          BY <1>0
        <4> QED
          BY <2>4, <4>1
      <3> HIDE DEF J
      <3> QED
        BY <2>2, <2>3, <2>4, <3>1
    <2>5. CASE m + 1 \in I
      <3>1. PICK f : Picks(f, h[m], s, J(m))
        BY <2>3
      <3> DEFINE t == h[m]
                 u == h[m + 1]
                 x == s[m + 1]
                 g == [i \in 1..(Len(t) + 1) |-> IF i = Len(t) + 1 THEN m + 1 ELSE f[i]]
      <3>2. t \in Seq(S) /\ x \in S /\ u = Append(t, x)
        BY <1>0, <2>1, <2>2, <2>3, <2>5
      <3>3. /\ J(m + 1) = J(m) \cup {m + 1}
            /\ \A n \in J(m) : n \in Nat /\ n < m + 1
        <4>1. \A n \in I : n <= m + 1 <=> n <= m \/ n = m + 1
          BY <1>0
        <4>2. \A n \in J(m) : n \in Nat /\ n < m + 1
          BY <1>0
        <4> QED
          BY <2>5, <4>1, <4>2
      <3>4. Picks(f, t, s, J(m))
        BY <3>1
      <3>5. Picks(g, u, s, J(m + 1))
        <4> HIDE DEF t, u, J
        <4>1. /\ Len(t) \in Nat /\ Len(u) = Len(t) + 1 /\ u[Len(t) + 1] = x
              /\ \A i \in 1..Len(t) : u[i] = t[i]
          BY <3>2
        <4>2. g \in [1..Len(u) -> J(m + 1)]
          BY <3>3, <3>4, <4>1 DEF Picks
        <4>3. \A i, j \in 1..Len(u) : i < j => g[i] < g[j]
          <5>1. \A i \in 1..Len(t) : f[i] \in Nat /\ f[i] < m + 1
            BY <3>3, <3>4 DEF Picks
          <5>2. \A i \in 1..Len(u) : i # Len(t) + 1 => i \in 1..Len(t)
            BY <4>1
          <5>3. \A i, j \in 1..Len(t) : i < j => f[i] < f[j]
            BY <3>4 DEF Picks
          <5>4. \A i \in 1..Len(t) : g[i] = f[i]
            BY <4>1
          <5>5. g[Len(t) + 1] = m + 1
            BY <4>1
          <5> HIDE DEF g
          <5> QED
            BY <4>1, <5>1, <5>2, <5>3, <5>4, <5>5
        <4>4. \A n \in J(m + 1) : \E i \in 1..Len(u) : g[i] = n
          <5>1. ASSUME NEW n \in J(m) PROVE \E i \in 1..Len(u) : g[i] = n
            <6>1. PICK i \in 1..Len(t) : f[i] = n
              BY <3>4 DEF Picks
            <6> QED
              BY <4>1, <6>1
          <5>2. g[Len(t) + 1] = m + 1 /\ Len(t) + 1 \in 1..Len(u)
            BY <4>1
          <5> QED
            BY <3>3, <5>1, <5>2
        <4>5. \A i \in 1..Len(u) : u[i] = s[g[i]]
          BY <3>4, <4>1 DEF Picks
        <4> HIDE DEF g
        <4> QED
          BY <4>2, <4>3, <4>4, <4>5 DEF Picks
      <3>6. u \in Seq(S)
        BY <3>2
      <3> HIDE DEF g, J
      <3> QED
        BY <3>5, <3>6
    <2> QED
      BY <2>4, <2>5
  <1>4. \A m \in Nat : m \in T
    <2> HIDE DEF T
    <2> QED
      BY <1>2, <1>3, SetInduction
  <1>5. Good(Len(s)) /\ J(Len(s)) = I
    <2>1. J(Len(s)) = I
      BY <1>0
    <2>2. Len(s) \in T /\ Len(s) <= Len(s)
      <3> HIDE DEF T
      <3> QED
        BY <1>0, <1>4
    <2>3. Good(Len(s))
      <3> HIDE DEF Good
      <3> QED
        BY <2>2
    <2> QED
      BY <2>1, <2>3
  <1> HIDE DEF J
  <1> QED
    BY <1>1, <1>5

\* What is kept, each place once.
LEMMA KeepRange ==
    ASSUME NEW S, NEW s \in Seq(S), NEW I \in SUBSET (1..Len(s)), IsInjective(s)
    PROVE  /\ Keep(s, I) \in Seq(S)
           /\ IsInjective(Keep(s, I))
           /\ Range(Keep(s, I)) = {s[n] : n \in I}
  <1> DEFINE t == Keep(s, I)
  <1>1. t \in Seq(S) /\ \E f : Picks(f, t, s, I)
    BY KeepPicks
  <1> HIDE DEF t
  <1>2. PICK f : Picks(f, t, s, I)
    BY <1>1
  <1>3. DOMAIN t = 1..Len(t) /\ Len(t) \in Nat /\ DOMAIN s = 1..Len(s)
    BY <1>1
  <1>4. IsInjective(t)
    <2>1. ASSUME NEW i \in DOMAIN t, NEW j \in DOMAIN t, t[i] = t[j] PROVE i = j
      <3>1. f[i] \in DOMAIN s /\ f[j] \in DOMAIN s /\ s[f[i]] = s[f[j]]
        BY <1>2, <1>3, <2>1 DEF Picks
      <3>2. f[i] = f[j]
        BY <3>1 DEF IsInjective
      <3>3. i \in Nat /\ j \in Nat /\ f[i] \in Nat
        BY <1>3, <3>1
      <3> QED
        BY <1>2, <1>3, <3>2, <3>3 DEF Picks
    <2> QED
      BY <2>1 DEF IsInjective
  <1>5. Range(t) = {s[n] : n \in I}
    <2>1. ASSUME NEW i \in 1..Len(t) PROVE t[i] \in {s[n] : n \in I}
      BY <1>2 DEF Picks
    <2>2. ASSUME NEW n \in I PROVE \E i \in 1..Len(t) : t[i] = s[n]
      <3>1. PICK i \in 1..Len(t) : f[i] = n
        BY <1>2 DEF Picks
      <3> QED
        BY <1>2, <3>1 DEF Picks
    <2> QED
      BY <1>3, <2>1, <2>2 DEF Range
  <1> QED
    BY <1>1, <1>4, <1>5 DEF t

-----------------------------------------------------------------------------
(* Sorting by a strict total order *)

\* R: pairs of positions, the one that comes first before the other.
Orders(R, n) ==
    /\ \A a \in 1..n : <<a, a>> \notin R
    /\ \A a, b \in 1..n : a # b => <<a, b>> \in R \/ <<b, a>> \in R
    /\ \A a, b, c \in 1..n : <<a, b>> \in R /\ <<b, c>> \in R => <<a, c>> \in R

PlaceIn(R, n, a) == 1 + Cardinality({b \in 1..n : <<b, a>> \in R})

\* Every position has a place of its own, later than those before it.
LEMMA PlacesAreBijective ==
    ASSUME NEW n \in Nat, NEW R, Orders(R, n)
    PROVE  /\ \A a \in 1..n : PlaceIn(R, n, a) \in 1..n
           /\ \A a, b \in 1..n : <<a, b>> \in R => PlaceIn(R, n, a) < PlaceIn(R, n, b)
           /\ \A i \in 1..n : \E a \in 1..n : PlaceIn(R, n, a) = i
  <1> DEFINE Pred(a) == {b \in 1..n : <<b, a>> \in R}
             f == [a \in 1..n |-> PlaceIn(R, n, a)]
  <1>1. IsFiniteSet(1..n) /\ Cardinality(1..n) = n
    BY FS_Interval
  <1>2. ASSUME NEW a \in 1..n
        PROVE  /\ IsFiniteSet(Pred(a)) /\ Cardinality(Pred(a)) \in Nat
               /\ Cardinality(Pred(a)) < n /\ a \notin Pred(a)
    <2>1. Pred(a) \in SUBSET (1..n) /\ a \notin Pred(a)
      BY DEF Orders
    <2> HIDE DEF Pred
    <2>2. IsFiniteSet(Pred(a)) /\ Cardinality(Pred(a)) \in Nat
      BY <1>1, <2>1, FS_Subset, FS_CardinalityType
    <2>3. Pred(a) # 1..n
      BY <2>1
    <2>4. Cardinality(Pred(a)) <= n /\ Cardinality(Pred(a)) # n
      BY <1>1, <2>1, <2>3, FS_Subset
    <2> QED
      BY <2>1, <2>2, <2>4
  <1>3. ASSUME NEW a \in 1..n PROVE PlaceIn(R, n, a) \in 1..n
    <2>1. PlaceIn(R, n, a) = 1 + Cardinality(Pred(a))
      BY DEF PlaceIn
    <2> HIDE DEF Pred
    <2> QED
      BY <1>2, <2>1
  <1>4. ASSUME NEW a \in 1..n, NEW b \in 1..n, <<a, b>> \in R
        PROVE  PlaceIn(R, n, a) < PlaceIn(R, n, b)
    <2>1. a \in Pred(b) /\ Pred(a) \subseteq Pred(b)
      BY <1>4 DEF Orders
    <2>2. PlaceIn(R, n, a) = 1 + Cardinality(Pred(a)) /\ PlaceIn(R, n, b) = 1 + Cardinality(Pred(b))
      BY DEF PlaceIn
    <2> HIDE DEF Pred
    <2>3. Cardinality(Pred(a)) <= Cardinality(Pred(b)) /\ Cardinality(Pred(a)) # Cardinality(Pred(b))
      BY <1>2, <2>1, FS_Subset
    <2>4. Cardinality(Pred(a)) \in Nat /\ Cardinality(Pred(b)) \in Nat
      BY <1>2
    <2> QED
      BY <2>2, <2>3, <2>4
  <1>5. f \in Injection(1..n, 1..n)
    <2>1. f \in [1..n -> 1..n]
      BY <1>3
    <2>2. ASSUME NEW a \in 1..n, NEW b \in 1..n, f[a] = f[b] PROVE a = b
      <3>1. PlaceIn(R, n, a) = PlaceIn(R, n, b)
        BY <2>2
      <3>2. PlaceIn(R, n, a) \in Nat /\ PlaceIn(R, n, b) \in Nat
        BY <1>3
      <3>3. a # b => <<a, b>> \in R \/ <<b, a>> \in R
        BY DEF Orders
      <3> HIDE DEF f
      <3> QED
        BY <1>4, <3>1, <3>2, <3>3
    <2> HIDE DEF f
    <2> QED
      BY <2>1, <2>2 DEF Injection, IsInjective
  <1>6. f \in Surjection(1..n, 1..n)
    <2> HIDE DEF f
    <2> QED
      BY <1>1, <1>5, FS_Injection
  <1>7. ASSUME NEW i \in 1..n PROVE \E a \in 1..n : PlaceIn(R, n, a) = i
    <2>1. PICK a \in 1..n : f[a] = i
      <3> HIDE DEF f
      <3> QED
        BY <1>6 DEF Surjection
    <2> QED
      BY <2>1
  <1> QED
    BY <1>3, <1>4, <1>7

\* Whoever has the place before comes before.
LEMMA PlacesKeepOrder ==
    ASSUME NEW n \in Nat, NEW R, Orders(R, n), NEW a \in 1..n, NEW b \in 1..n,
           PlaceIn(R, n, a) < PlaceIn(R, n, b)
    PROVE  <<a, b>> \in R
  <1>1. PlaceIn(R, n, a) \in Nat /\ PlaceIn(R, n, b) \in Nat
    BY PlacesAreBijective
  <1>2. a # b
    BY <1>1
  <1>3. <<b, a>> \notin R
    <2>1. <<b, a>> \in R => PlaceIn(R, n, b) < PlaceIn(R, n, a)
      BY PlacesAreBijective
    <2> QED
      BY <1>1, <2>1
  <1> QED
    BY <1>2, <1>3 DEF Orders

-----------------------------------------------------------------------------
(* The rows of a table *)

\* Row x is stored before row y.
StoredBefore(x, y) == x[1] < y[1] \/ (x[1] = y[1] /\ x[2] < y[2])

InStoredOrder(s) == \A a, b \in DOMAIN s : a < b => StoredBefore(s[a], s[b])

Places(pages) == {x \in Nat \X Nat : x[1] \in DOMAIN pages /\ x[2] \in DOMAIN pages[x[1]]}

PageRows(pages, bad, p) == IF p \in bad THEN <<>> ELSE [i \in DOMAIN pages[p] |-> <<p, i>>]

Numbers == Nat \X Nat

\* The flattened pages of a table: rows of the pages that were read, in order.
LEMMA PagesInOrder ==
    ASSUME NEW ps \in Seq(Seq(Numbers)),
           \A p \in 1..Len(ps) : \A i \in 1..Len(ps[p]) : ps[p][i] = <<p, i>>
    PROVE  /\ FlattenSeq(ps) \in Seq(Numbers)
           /\ InStoredOrder(FlattenSeq(ps))
           /\ Range(FlattenSeq(ps)) = {x \in Numbers : x[1] \in 1..Len(ps) /\ x[2] \in 1..Len(ps[x[1]])}
  <1> DEFINE P == Seq(Numbers)
             Numbered(qs) == \A p \in 1..Len(qs) : \A i \in 1..Len(qs[p]) : qs[p][i] = <<p, i>>
             Of(qs) == {x \in Numbers : x[1] \in 1..Len(qs) /\ x[2] \in 1..Len(qs[x[1]])}
             Good(qs) == LET r == FlattenSeq(qs) IN r \in P /\ InStoredOrder(r) /\ Range(r) = Of(qs)
             T == {qs \in Seq(P) : Numbered(qs) => Good(qs)}
  <1>1. <<>> \in T
    <2>1. <<>> \in P /\ <<>> \in Seq(P) /\ Of(<<>>) = {} /\ Range(<<>>) = {} /\ InStoredOrder(<<>>)
      BY DEF Range, InStoredOrder
    <2>2. Good(<<>>)
      <3> HIDE DEF P, Of
      <3> QED
        BY <2>1, FlattenEmpty
    <2> HIDE DEF Good, Numbered, P
    <2> QED
      BY <2>1, <2>2
  <1>2. ASSUME NEW n \in 1..Len(ps), SubSeq(ps, 1, n - 1) \in T
        PROVE  Append(SubSeq(ps, 1, n - 1), ps[n]) \in T
    <2> DEFINE qs == SubSeq(ps, 1, n - 1)
               t  == Append(qs, ps[n])
    <2>1. qs \in Seq(P) /\ ps[n] \in P /\ Len(qs) = n - 1 /\ (Numbered(qs) => Good(qs))
      <3>1. ps \in Seq(P) /\ n \in Nat /\ n >= 1 /\ n <= Len(ps)
        OBVIOUS
      <3>2. qs \in Seq(P) /\ ps[n] \in P /\ Len(qs) = n - 1
        <4> HIDE DEF P
        <4> QED
          BY <3>1
      <3> HIDE DEF P, Good, Numbered, qs
      <3> QED
        BY <1>2, <3>2 DEF qs
    <2> HIDE DEF qs
    <2> SUFFICES t \in T
      <3> HIDE DEF T
      <3> QED
        BY DEF qs
    <2> SUFFICES ASSUME Numbered(t) PROVE Good(t)
      <3>1. t \in Seq(P)
        <4> HIDE DEF P
        <4> QED
          BY <2>1
      <3> HIDE DEF Good, Numbered, P, t
      <3> QED
        BY <3>1
    <2>2. /\ t \in Seq(P) /\ Len(t) = n /\ t[n] = ps[n] /\ n \in Nat /\ n \in 1..n
          /\ \A p \in 1..(n - 1) : t[p] = qs[p] /\ p \in 1..n
          /\ \A p \in 1..n : p # n => p \in 1..(n - 1)
      <3> HIDE DEF P
      <3> QED
        BY <2>1, SMTT(60)
    <2>3. Numbered(qs)
      <3> HIDE DEF t
      <3> QED
        BY <2>1, <2>2, ZenonT(60)
    <2> DEFINE r == FlattenSeq(qs)
               u == FlattenSeq(t)
               m == Len(r)
               k == Len(ps[n])
    <2>4. r \in P /\ InStoredOrder(r) /\ Range(r) = Of(qs)
      <3> HIDE DEF P, Numbered, Of
      <3> QED
        BY <2>1, <2>3
    <2>5. u = r \o ps[n]
      BY <2>1, FlattenAppend
    <2>6. \A i \in 1..Len(ps[n]) : ps[n][i] = <<n, i>>
      <3> HIDE DEF t
      <3> QED
        BY <2>2
    <2> HIDE DEF r, u, t
    <2>7. /\ u \in P /\ m \in Nat /\ k \in Nat /\ Len(u) = m + k
          /\ DOMAIN u = 1..(m + k) /\ DOMAIN r = 1..m
          /\ \A i \in 1..m : u[i] = r[i]
          /\ \A i \in 1..k : u[m + i] = <<n, i>>
      <3>1. r \in Seq(Numbers) /\ ps[n] \in Seq(Numbers) /\ u = r \o ps[n]
        BY <2>1, <2>4, <2>5
      <3>2. m \in Nat /\ k \in Nat /\ DOMAIN r = 1..m
        BY <3>1
      <3>3. u \in Seq(Numbers) /\ Len(u) = m + k /\ DOMAIN u = 1..(m + k)
        BY <3>1
      <3>4. \A i \in 1..m : u[i] = r[i]
        BY <3>1
      <3>5. ASSUME NEW i \in 1..k PROVE u[m + i] = <<n, i>>
        <4>1. u[m + i] = ps[n][i]
          BY <3>1
        <4> QED
          BY <2>6, <4>1
      <3> QED
        BY <3>2, <3>3, <3>4, <3>5
    <2>8. \A i \in 1..m : r[i] \in Numbers /\ r[i][1] < n
      <3>1. \A i \in 1..m : r[i] \in Of(qs)
        <4> HIDE DEF Of
        <4> QED
          BY <2>4, <2>7 DEF Range
      <3>2. ASSUME NEW x \in Of(qs) PROVE x \in Numbers /\ x[1] < n
        <4>1. x \in Numbers /\ x[1] \in 1..Len(qs)
          OBVIOUS
        <4>2. Len(qs) = n - 1 /\ n \in Nat
          BY <2>1, <2>2
        <4>3. x[1] \in 1..(n - 1)
          BY <4>1, <4>2
        <4>4. x[1] < n
          BY <4>2, <4>3
        <4> QED
          BY <4>1, <4>4
      <3> HIDE DEF Of
      <3> QED
        BY <3>1, <3>2
    <2> HIDE DEF m, k
    <2>a. \A i \in 1..(m + k) : i \in 1..m \/ (i - m \in 1..k /\ u[i] = <<n, i - m>>)
      <3>1. ASSUME NEW i \in 1..(m + k), i \notin 1..m PROVE i - m \in 1..k /\ u[i] = <<n, i - m>>
        <4>1. i - m \in 1..k /\ m + (i - m) = i
          BY <2>7, <3>1
        <4> QED
          BY <2>7, <4>1
      <3> QED
        BY <3>1
    <2>9. InStoredOrder(u)
      <3>1. ASSUME NEW a \in 1..(m + k), NEW b \in 1..(m + k), a < b PROVE StoredBefore(u[a], u[b])
        <4>1. CASE b \in 1..m
          <5>1. a \in 1..m
            BY <2>7, <3>1, <4>1
          <5> QED
            BY <2>4, <2>7, <3>1, <4>1, <5>1 DEF InStoredOrder
        <4>2. CASE b \notin 1..m /\ a \in 1..m
          <5>1. u[b][1] = n /\ u[a][1] < n
            BY <2>7, <2>8, <2>a, <4>2
          <5> QED
            BY <5>1 DEF StoredBefore
        <4>3. CASE b \notin 1..m /\ a \notin 1..m
          <5>1. u[a] = <<n, a - m>> /\ u[b] = <<n, b - m>> /\ a - m < b - m
            BY <2>7, <2>a, <3>1, <4>3, SMTT(60)
          <5> QED
            BY <5>1 DEF StoredBefore
        <4> QED
          BY <4>1, <4>2, <4>3
      <3> QED
        BY <2>7, <3>1 DEF InStoredOrder
    <2>b. Range(u) = Of(t)
      <3>1. ASSUME NEW i \in 1..(m + k) PROVE u[i] \in Of(t)
        <4>1. CASE i \in 1..m
          <5>1. r[i] \in Of(qs)
            <6> HIDE DEF Of
            <6> QED
              BY <2>4, <2>7, <4>1 DEF Range
          <5> QED
            BY <2>1, <2>2, <2>7, <4>1, <5>1
        <4>2. CASE i \notin 1..m
          <5>1. i - m \in 1..k /\ u[i] = <<n, i - m>>
            BY <2>a, <4>2
          <5> QED
            BY <2>2, <5>1, SMTT(60) DEF Numbers, k
        <4> QED
          BY <4>1, <4>2
      <3>2. ASSUME NEW x \in Of(t) PROVE \E i \in 1..(m + k) : u[i] = x
        <4>1. x \in Numbers /\ x[1] \in 1..n /\ x[2] \in 1..Len(t[x[1]])
          BY <2>2
        <4>2. CASE x[1] = n
          <5>1. x[2] \in 1..k /\ x = <<n, x[2]>>
            BY <2>2, <4>1, <4>2, SMTT(60) DEF Numbers, k
          <5>2. m + x[2] \in 1..(m + k)
            BY <2>7, <5>1, SMTT(60)
          <5> QED
            BY <2>7, <5>1, <5>2
        <4>3. CASE x[1] # n
          <5>1. x \in Of(qs)
            BY <2>1, <2>2, <4>1, <4>3
          <5>2. PICK i \in 1..m : r[i] = x
            <6> HIDE DEF Of
            <6> QED
              BY <2>4, <2>7, <5>1 DEF Range
          <5> QED
            BY <2>7, <5>2
        <4> QED
          BY <4>2, <4>3
      <3> HIDE DEF Of
      <3>3. ASSUME NEW x \in Range(u) PROVE x \in Of(t)
        BY <2>7, <3>1 DEF Range
      <3>4. ASSUME NEW x \in Of(t) PROVE x \in Range(u)
        BY <2>7, <3>2 DEF Range
      <3> QED
        BY <3>3, <3>4
    <2>c. Good(t)
      <3> HIDE DEF P, Of
      <3> QED
        BY <2>7, <2>9, <2>b DEF u
    <2> QED
      BY <2>2, <2>c
  <1>3. ps \in T
    <2> HIDE DEF T
    <2> QED
      BY <1>1, <1>2, PrefixInduction
  <1> QED
    BY <1>3

\* What loadTableRows returns: rows of the pages that were read, in stored order
\* and, when no page was bad, all of them.
LEMMA RowsOfTable ==
    ASSUME NEW R, NEW pages \in Seq(Seq(R)), NEW bad
    PROVE  /\ RowsOf(pages, bad) \in Seq(Places(pages))
           /\ InStoredOrder(RowsOf(pages, bad))
           /\ Range(RowsOf(pages, bad)) = {x \in Places(pages) : x[1] \notin bad}
  <1> DEFINE ps == [p \in DOMAIN pages |-> PageRows(pages, bad, p)]
             r  == FlattenSeq(ps)
  <1>1. RowsOf(pages, bad) = r
    BY DEF RowsOf, PageRows
  <1>2. /\ Len(pages) \in Nat /\ DOMAIN pages = 1..Len(pages)
        /\ \A p \in 1..Len(pages) : Len(pages[p]) \in Nat /\ DOMAIN pages[p] = 1..Len(pages[p])
    OBVIOUS
  <1>3. ASSUME NEW p \in 1..Len(pages)
        PROVE  /\ PageRows(pages, bad, p) \in Seq(Numbers)
               /\ Len(PageRows(pages, bad, p)) = IF p \in bad THEN 0 ELSE Len(pages[p])
               /\ \A i \in 1..Len(PageRows(pages, bad, p)) : PageRows(pages, bad, p)[i] = <<p, i>>
    <2>1. CASE p \in bad
      BY <2>1 DEF PageRows
    <2>2. CASE p \notin bad
      <3> DEFINE n == Len(pages[p])
                 u == [i \in 1..n |-> <<p, i>>]
      <3>1. n \in Nat /\ PageRows(pages, bad, p) = u
        BY <1>2, <2>2 DEF PageRows
      <3>2. \A i \in 1..n : <<p, i>> \in Numbers
        BY <1>2, <3>1 DEF Numbers
      <3> HIDE DEF n
      <3>3. u \in Seq(Numbers) /\ Len(u) = n /\ \A i \in 1..n : u[i] = <<p, i>>
        BY <3>1, <3>2
      <3> HIDE DEF u
      <3> QED
        BY <2>2, <3>1, <3>3 DEF n
    <2> QED
      BY <2>1, <2>2
  <1>4. /\ ps \in Seq(Seq(Numbers)) /\ Len(ps) = Len(pages)
        /\ \A p \in 1..Len(pages) : ps[p] = PageRows(pages, bad, p)
    BY <1>2, <1>3
  <1> HIDE DEF ps, r
  <1>5. \A p \in 1..Len(ps) : \A i \in 1..Len(ps[p]) : ps[p][i] = <<p, i>>
    BY <1>3, <1>4
  <1>6. /\ r \in Seq(Numbers) /\ InStoredOrder(r)
        /\ Range(r) = {x \in Numbers : x[1] \in 1..Len(ps) /\ x[2] \in 1..Len(ps[x[1]])}
    BY <1>4, <1>5, PagesInOrder DEF r
  <1>7. Range(r) = {x \in Places(pages) : x[1] \notin bad}
    <2>1. ASSUME NEW x \in Numbers
          PROVE  x[1] \in 1..Len(ps) /\ x[2] \in 1..Len(ps[x[1]])
                     <=> (x[1] \in DOMAIN pages /\ x[2] \in DOMAIN pages[x[1]]) /\ x[1] \notin bad
      <3>1. CASE x[1] \in 1..Len(pages)
        <4>1. Len(ps[x[1]]) = IF x[1] \in bad THEN 0 ELSE Len(pages[x[1]])
          BY <1>3, <1>4, <3>1
        <4>2. DOMAIN pages[x[1]] = 1..Len(pages[x[1]])
          BY <1>2, <3>1
        <4>3. CASE x[1] \in bad
          <5>1. ~(x[2] \in 1..Len(ps[x[1]]))
            BY <4>1, <4>3
          <5> QED
            BY <4>3, <5>1
        <4>4. CASE x[1] \notin bad
          BY <1>2, <1>4, <3>1, <4>1, <4>2, <4>4
        <4> QED
          BY <4>3, <4>4
      <3>2. CASE x[1] \notin 1..Len(pages)
        BY <1>2, <1>4, <3>2
      <3> QED
        BY <3>1, <3>2
    <2> QED
      BY <1>6, <2>1 DEF Places, Numbers
  <1>8. r \in Seq(Places(pages))
    <2>1. \A i \in 1..Len(r) : r[i] \in Range(r)
      BY <1>6 DEF Range
    <2>2. \A i \in 1..Len(r) : r[i] \in Places(pages)
      BY <1>7, <2>1
    <2> QED
      BY <1>6, <2>2
  <1> QED
    BY <1>1, <1>6, <1>7, <1>8

\* In stored order no row is there twice.
LEMMA OrderedInjective ==
    ASSUME NEW s \in Seq(Numbers), InStoredOrder(s)
    PROVE  IsInjective(s)
  <1>1. ASSUME NEW a \in DOMAIN s, NEW b \in DOMAIN s, a < b PROVE s[a] # s[b]
    <2>1. s[a] \in Numbers /\ s[b] \in Numbers /\ StoredBefore(s[a], s[b])
      BY <1>1 DEF InStoredOrder
    <2> QED
      BY <2>1 DEF StoredBefore, Numbers
  <1>2. \A a, b \in DOMAIN s : a = b \/ a < b \/ b < a
    OBVIOUS
  <1> QED
    BY <1>1, <1>2 DEF IsInjective

-----------------------------------------------------------------------------
(* ORDER BY *)

Known == Int \cup {Null}

\* Position a comes before position b in the sorted sequence.
SortsBefore(s, a, b) ==
    \/ Less(SortKey(s[a]), SortKey(s[b]))
    \/ a < b /\ ~Less(SortKey(s[b]), SortKey(s[a]))

SortRelation(s) == {x \in (1..Len(s)) \X (1..Len(s)) : SortsBefore(s, x[1], x[2])}

\* The comparison of ORDER BY is a strict weak order, which SliceStable asks for.
LEMMA LessIsWeakOrder ==
    ASSUME NEW u \in Known, NEW v \in Known, NEW w \in Known
    PROVE  /\ ~Less(u, u)
           /\ Less(u, v) => ~Less(v, u)
           /\ Less(u, v) /\ Less(v, w) => Less(u, w)
           /\ Less(u, v) => Less(u, w) \/ Less(w, v)
  <1>1. Null \notin Int
    BY QueryAssumption
  <1> QED
    BY <1>1 DEF Less, Known

\* In words of the property: NULL is below every number.
LEMMA LessIsBelow ==
    ASSUME NEW v \in Known, NEW w \in Known, ~Less(w, v)
    PROVE  /\ q.desc => ~Below(v, w)
           /\ ~q.desc => ~Below(w, v)
           /\ ~Less(v, w) => v = w
  <1>1. Null \notin Int
    BY QueryAssumption
  <1> QED
    BY <1>1 DEF Less, Known, Below

\* With ties broken by position it is a total order of the positions.
LEMMA SortRelationOrders ==
    ASSUME NEW s, Len(s) \in Nat, \A i \in 1..Len(s) : SortKey(s[i]) \in Known
    PROVE  Orders(SortRelation(s), Len(s))
  <1> DEFINE n == Len(s)
             key(i) == SortKey(s[i])
             L(a, b) == Less(key(a), key(b))
             R == SortRelation(s)
  <1>1. \A a, b \in 1..n : <<a, b>> \in R <=> (L(a, b) \/ (a < b /\ ~L(b, a)))
    BY DEF SortRelation, SortsBefore
  <1>2. \A a, b, c \in 1..n :
            /\ ~L(a, a)
            /\ L(a, b) => ~L(b, a)
            /\ L(a, b) /\ L(b, c) => L(a, c)
            /\ L(a, b) => L(a, c) \/ L(c, b)
    BY LessIsWeakOrder
  <1> HIDE DEF R, L
  <1>3. \A a \in 1..n : <<a, a>> \notin R
    BY <1>1, <1>2
  <1>4. ASSUME NEW a \in 1..n, NEW b \in 1..n, a # b PROVE <<a, b>> \in R \/ <<b, a>> \in R
    <2>1. a < b \/ b < a
      BY <1>4
    <2> QED
      BY <1>1, <1>2, <2>1
  <1>5. ASSUME NEW a \in 1..n, NEW b \in 1..n, NEW c \in 1..n, <<a, b>> \in R, <<b, c>> \in R
        PROVE  <<a, c>> \in R
    <2>1. CASE L(a, b) \/ L(b, c)
      <3>1. L(a, c)
        BY <1>1, <1>2, <1>5, <2>1
      <3> QED
        BY <1>1, <3>1
    <2>2. CASE ~L(a, b) /\ ~L(b, c)
      <3>1. a < b /\ ~L(b, a) /\ b < c /\ ~L(c, b)
        BY <1>1, <1>5, <2>2
      <3>2. a < c
        BY <3>1
      <3>3. ~L(c, a)
        BY <1>2, <2>2, <3>1
      <3> QED
        BY <1>1, <3>2, <3>3
    <2> QED
      BY <2>1, <2>2
  <1> QED
    BY <1>3, <1>4, <1>5 DEF Orders, R

\* A sorted sequence has the elements of the other, each at one place, and an
\* element that may not stand before another stands behind it.
LEMMA StableSortSorts ==
    ASSUME NEW S, NEW s \in Seq(S), \A i \in 1..Len(s) : SortKey(s[i]) \in Known
    PROVE  /\ StableSort(s) \in Seq(S) /\ Len(StableSort(s)) = Len(s)
           /\ \A i, j \in 1..Len(s) : i < j =>
                 \E a, b \in 1..Len(s) :
                     /\ StableSort(s)[i] = s[a] /\ StableSort(s)[j] = s[b]
                     /\ SortsBefore(s, a, b)
           /\ Range(StableSort(s)) = Range(s)
  <1> DEFINE n == Len(s)
             R == SortRelation(s)
             Place(a) == PlaceIn(R, n, a)
             from(i) == CHOOSE a \in 1..n : Place(a) = i
             t == StableSort(s)
  <1>1. n \in Nat /\ DOMAIN s = 1..n /\ \A i \in 1..n : s[i] \in S
    OBVIOUS
  <1>2. Orders(R, n)
    BY <1>1, SortRelationOrders
  <1>3. \A a, b \in 1..n : <<a, b>> \in R <=> SortsBefore(s, a, b)
    BY DEF SortRelation
  <1>4. \A i \in 1..n : \E a \in 1..n : Place(a) = i
    <2> HIDE DEF R, n
    <2> QED
      BY <1>1, <1>2, PlacesAreBijective
  <1>5. \A i \in 1..n : from(i) \in 1..n /\ Place(from(i)) = i
    <2> HIDE DEF Place, n
    <2> QED
      BY <1>4
  <1>d. \A a, b \in 1..n : Place(a) = Place(b) => a = b
    <2>1. ASSUME NEW a \in 1..n, NEW b \in 1..n, a # b PROVE Place(a) # Place(b)
      <3>1. <<a, b>> \in R \/ <<b, a>> \in R
        <4> HIDE DEF R, n
        <4> QED
          BY <1>2, <2>1 DEF Orders
      <3>2. Place(a) \in Nat /\ Place(b) \in Nat
        <4>1. Place(a) \in 1..n /\ Place(b) \in 1..n
          <5> HIDE DEF R, n
          <5> QED
            BY <1>1, <1>2, PlacesAreBijective
        <4> HIDE DEF Place
        <4> QED
          BY <4>1
      <3>3. Place(a) < Place(b) \/ Place(b) < Place(a)
        <4> HIDE DEF R, n
        <4> QED
          BY <1>1, <1>2, <3>1, PlacesAreBijective
      <3> HIDE DEF Place
      <3> QED
        BY <3>2, <3>3
    <2> HIDE DEF Place
    <2> QED
      BY <2>1
  <1>6. t = [i \in 1..n |-> s[from(i)]]
    <2>1. ASSUME NEW a \in 1..n
          PROVE  Place(a) = 1 + Cardinality({b \in DOMAIN s : Less(SortKey(s[b]), SortKey(s[a])) \/ (b < a /\ ~Less(SortKey(s[a]), SortKey(s[b])))})
      <3>1. {b \in 1..n : <<b, a>> \in R}
              = {b \in DOMAIN s : Less(SortKey(s[b]), SortKey(s[a])) \/ (b < a /\ ~Less(SortKey(s[a]), SortKey(s[b])))}
        BY <1>1, <1>3 DEF SortsBefore
      <3> QED
        <4> HIDE DEF R, n
        <4> QED
          BY <3>1 DEF PlaceIn
    <2> DEFINE P(a) == 1 + Cardinality({b \in DOMAIN s : Less(SortKey(s[b]), SortKey(s[a])) \/ (b < a /\ ~Less(SortKey(s[a]), SortKey(s[b])))})
               g(i) == CHOOSE a \in DOMAIN s : P(a) = i
    <2>2. t = [i \in DOMAIN s |-> s[g(i)]]
      <3> HIDE DEF R, n, Place, from
      <3> QED
        BY DEF StableSort
    <2>3. \A i \in 1..n : g(i) = from(i)
      <3>1. ASSUME NEW i \in 1..n PROVE \A a : (a \in DOMAIN s /\ P(a) = i) <=> (a \in 1..n /\ Place(a) = i)
        <4> HIDE DEF P, Place
        <4> QED
          BY <1>1, <2>1 DEF P
      <3>2. ASSUME NEW i \in 1..n PROVE g(i) = from(i)
        <4>1. \E a \in 1..n : Place(a) = i
          BY <1>4
        <4>2. \A a, b \in 1..n : Place(a) = i /\ Place(b) = i => a = b
          <5> HIDE DEF Place
          <5> QED
            BY <1>d
        <4>3. from(i) \in 1..n /\ Place(from(i)) = i
          BY <1>5
        <4>4. g(i) \in DOMAIN s /\ P(g(i)) = i
          <5>1. \E a \in DOMAIN s : P(a) = i
            <6> HIDE DEF P, Place
            <6> QED
              BY <3>1, <4>1
          <5> HIDE DEF P
          <5> QED
            BY <5>1
        <4> HIDE DEF P, Place, g, from
        <4> QED
          BY <3>1, <4>2, <4>3, <4>4
      <3> HIDE DEF g, from
      <3> QED
        BY <3>2
    <2> HIDE DEF g, from, t
    <2> QED
      BY <1>1, <2>2, <2>3
  <1> HIDE DEF from, t
  <1>7. t \in Seq(S) /\ Len(t) = n
    BY <1>1, <1>5, <1>6
  <1>8. ASSUME NEW i \in 1..n, NEW j \in 1..n, i < j
        PROVE  \E a, b \in 1..n : t[i] = s[a] /\ t[j] = s[b] /\ SortsBefore(s, a, b)
    <2>1. from(i) \in 1..n /\ from(j) \in 1..n /\ Place(from(i)) < Place(from(j))
      <3> HIDE DEF Place
      <3> QED
        BY <1>5, <1>8
    <2>2. <<from(i), from(j)>> \in R
      <3> HIDE DEF R, n
      <3> QED
        BY <1>1, <1>2, <2>1, PlacesKeepOrder
    <2>3. t[i] = s[from(i)] /\ t[j] = s[from(j)]
      BY <1>6
    <2> HIDE DEF R
    <2> QED
      BY <1>3, <2>1, <2>2, <2>3
  <1>9. Range(t) = Range(s)
    <2>1. \A a \in 1..n : from(Place(a)) = a /\ Place(a) \in 1..n
      <3>1. \A a \in 1..n : Place(a) \in 1..n
        <4> HIDE DEF R, n
        <4> QED
          BY <1>1, <1>2, PlacesAreBijective
      <3>2. \A a \in 1..n : from(Place(a)) \in 1..n /\ Place(from(Place(a))) = Place(a)
        <4> HIDE DEF Place
        <4> QED
          BY <1>5, <3>1
      <3> HIDE DEF Place
      <3> QED
        BY <1>d, <3>1, <3>2
    <2> HIDE DEF Place
    <2>2. Range(s) = {s[a] : a \in 1..n}
      BY <1>1 DEF Range
    <2>3. Range(t) = {s[from(i)] : i \in 1..n}
      BY <1>6 DEF Range
    <2>4. \A i \in 1..n : from(i) \in 1..n
      BY <1>5
    <2> HIDE DEF n
    <2> QED
      BY <2>1, <2>2, <2>3, <2>4
  <1> QED
    BY <1>7, <1>8, <1>9 DEF t

-----------------------------------------------------------------------------
(* Removing a row, and the product of two tables *)

\* Removing an element moves those behind it one place to the front.
LEMMA RemoveAtShifts ==
    ASSUME NEW S, NEW s \in Seq(S), NEW k \in 1..Len(s)
    PROVE  /\ RemoveAt(s, k) \in Seq(S) /\ Len(RemoveAt(s, k)) = Len(s) - 1
           /\ \A i \in 1..(Len(s) - 1) : RemoveAt(s, k)[i] = IF i < k THEN s[i] ELSE s[i + 1]
  <1> DEFINE u == SubSeq(s, 1, k - 1)
             v == SubSeq(s, k + 1, Len(s))
  <1>1. /\ u \in Seq(S) /\ Len(u) = k - 1
        /\ \A i \in 1..(k - 1) : u[i] = s[i]
    OBVIOUS
  <1>2. /\ v \in Seq(S) /\ Len(v) = Len(s) - k
        /\ \A i \in 1..(Len(s) - k) : v[i] = s[i + k]
    OBVIOUS
  <1>3. RemoveAt(s, k) = u \o v
    BY DEF RemoveAt
  <1>4. k \in Nat /\ k >= 1 /\ Len(s) \in Nat /\ k <= Len(s)
    OBVIOUS
  <1> HIDE DEF u, v
  <1>5. /\ u \o v \in Seq(S) /\ Len(u \o v) = Len(s) - 1
        /\ \A i \in 1..(Len(s) - 1) : (u \o v)[i] = IF i <= Len(u) THEN u[i] ELSE v[i - Len(u)]
    BY <1>1, <1>2, <1>4
  <1>6. ASSUME NEW i \in 1..(Len(s) - 1) PROVE (u \o v)[i] = IF i < k THEN s[i] ELSE s[i + 1]
    <2>1. CASE i < k
      <3>1. i \in 1..(k - 1) /\ i <= Len(u)
        BY <1>1, <1>4, <2>1
      <3> QED
        BY <1>1, <1>5, <2>1, <3>1
    <2>2. CASE ~(i < k)
      <3>1. ~(i <= Len(u)) /\ i - Len(u) = i - (k - 1) /\ i - (k - 1) \in 1..(Len(s) - k)
            /\ (i - (k - 1)) + k = i + 1
        BY <1>1, <1>4, <2>2
      <3> QED
        BY <1>2, <1>5, <2>2, <3>1
    <2> QED
      BY <2>1, <2>2
  <1> QED
    BY <1>3, <1>5, <1>6

\* A product is of rows of the one side combined with rows of the other.
LEMMA CrossProductType ==
    ASSUME NEW A, NEW B, NEW z, z \in A, z \in B,
           NEW ls \in Seq([l : A, r : B]), NEW rs \in Seq([l : A, r : B])
    PROVE  CrossProduct(ls, rs) \in Seq([l : A, r : B])
  <1> DEFINE C == [l : A, r : B]
             line(i) == [j \in DOMAIN rs |-> [l |-> ls[i].l, r |-> rs[j].r]]
             ps == [i \in DOMAIN ls |-> line(i)]
  <1>1. /\ DOMAIN ls = 1..Len(ls) /\ Len(ls) \in Nat /\ DOMAIN rs = 1..Len(rs) /\ Len(rs) \in Nat
        /\ \A i \in 1..Len(ls) : ls[i].l \in A
        /\ \A j \in 1..Len(rs) : rs[j].r \in B
    <2>1. ls \in Seq(C) /\ rs \in Seq(C) /\ \A c \in C : c.l \in A /\ c.r \in B
      OBVIOUS
    <2> HIDE DEF C
    <2>2. /\ DOMAIN ls = 1..Len(ls) /\ Len(ls) \in Nat /\ DOMAIN rs = 1..Len(rs) /\ Len(rs) \in Nat
          /\ \A i \in 1..Len(ls) : ls[i] \in C
          /\ \A j \in 1..Len(rs) : rs[j] \in C
      BY <2>1
    <2> QED
      BY <2>1, <2>2
  <1>2. ASSUME NEW i \in 1..Len(ls) PROVE line(i) \in Seq(C)
    BY <1>1
  <1>3. ps \in Seq(Seq(C))
    <2> DEFINE P == Seq(C)
    <2> HIDE DEF line, P
    <2>1. \A i \in 1..Len(ls) : line(i) \in P
      BY <1>2 DEF P
    <2>2. ps \in Seq(P)
      BY <1>1, <2>1
    <2> QED
      BY <2>2 DEF P
  <1>4. FlattenSeq(ps) \in Seq(C)
    <2> HIDE DEF ps, C
    <2> QED
      BY <1>3, FlattenType
  <1> QED
    BY <1>4, Zenon DEF CrossProduct

-----------------------------------------------------------------------------
(* The loop over the values of a group *)

\* What FoldLeft says of the values at the positions D.
FoldStep(h, vs, D) ==
    IF D = {} THEN NoValues ELSE LET m == Max(D) IN Accumulate(h[D \ {m}], vs[m])

Folds(h, vs, F) == h = [D \in F |-> FoldStep(h, vs, D)]

\* The last position of 1..n is its maximum.
LEMMA MaxIsLast ==
    ASSUME NEW n \in Nat, NEW D \in SUBSET (1..n), D # {}
    PROVE  Max(D) \in D /\ \A i \in D : i <= Max(D)
  <1> DEFINE T == {m \in 0..n : n - m \in D}
  <1>1. T \in SUBSET Nat /\ T # {}
    <2>1. PICK i \in D : TRUE
      OBVIOUS
    <2>2. n - i \in 0..n /\ n - (n - i) = i
      BY <2>1
    <2>3. n - i \in T
      BY <2>1, <2>2
    <2>4. T \in SUBSET Nat
      OBVIOUS
    <2> HIDE DEF T
    <2> QED
      BY <2>3, <2>4
  <1>2. PICK m \in T : \A k \in T : ~(k < m)
    <2> HIDE DEF T
    <2> QED
      BY <1>1, NatLeast
  <1>3. n - m \in D /\ \A i \in D : n - m >= i
    <2>1. m \in Nat /\ n - m \in D
      BY <1>2
    <2>2. ASSUME NEW i \in D PROVE n - m >= i
      <3>1. i \in Nat /\ n - i \in 0..n /\ n - (n - i) = i
        OBVIOUS
      <3>2. n - i \in T
        BY <3>1
      <3>3. ~(n - i < m)
        BY <1>2, <3>2
      <3> QED
        BY <2>1, <3>1, <3>3
    <2> QED
      BY <2>1, <2>2
  <1>4. \E x \in D : \A i \in D : x >= i
    BY <1>3
  <1>5. Max(D) \in D /\ \A i \in D : Max(D) >= i
    BY <1>4 DEF Max
  <1> QED
    BY <1>5

\* FoldLeft is defined for the values at any positions.
LEMMA FoldExists ==
    ASSUME NEW vs, NEW n \in Nat
    PROVE  \E h : Folds(h, vs, SUBSET (1..n))
  <1> DEFINE Small(m) == {D \in SUBSET (1..n) : Cardinality(D) <= m}
             T == {m \in Nat : \E h : Folds(h, vs, Small(m))}
  <1>1. \A D \in SUBSET (1..n) : IsFiniteSet(D) /\ Cardinality(D) \in Nat /\ Cardinality(D) <= n
    <2>1. IsFiniteSet(1..n) /\ Cardinality(1..n) = n
      BY FS_Interval
    <2>2. ASSUME NEW D \in SUBSET (1..n)
          PROVE  IsFiniteSet(D) /\ Cardinality(D) \in Nat /\ Cardinality(D) <= n
      BY <2>1, FS_Subset, FS_CardinalityType
    <2> QED
      BY <2>2
  <1>2. 0 \in T
    <2> DEFINE z == [D \in Small(0) |-> NoValues]
    <2>1. \A D \in Small(0) : D = {}
      BY <1>1, FS_EmptySet
    <2>2. Folds(z, vs, Small(0))
      BY <2>1 DEF FoldStep, Folds
    <2> QED
      BY <2>2
  <1>3. ASSUME NEW m \in Nat, m \in T PROVE m + 1 \in T
    <2>1. PICK h : Folds(h, vs, Small(m))
      BY <1>3
    <2> DEFINE g == [D \in Small(m + 1) |-> IF D \in Small(m) THEN h[D] ELSE FoldStep(h, vs, D)]
    <2>2. ASSUME NEW D \in Small(m + 1) PROVE g[D] = FoldStep(g, vs, D)
      <3>1. CASE D = {}
        <4>1. D \in Small(m)
          BY <3>1, FS_EmptySet, <1>1
        <4>2. h[D] = FoldStep(h, vs, D)
          BY <2>1, <4>1 DEF Folds
        <4> QED
          BY <3>1, <4>1, <4>2 DEF FoldStep
      <3>2. CASE D # {}
        <4> DEFINE x == Max(D)
        <4>1. x \in D
          BY <3>2, MaxIsLast
        <4> HIDE DEF x
        <4>2. D \ {x} \in SUBSET (1..n) /\ Cardinality(D \ {x}) = Cardinality(D) - 1
          BY <4>1, <1>1, FS_RemoveElement
        <4>3. D \ {x} \in Small(m) /\ D \ {x} \in Small(m + 1)
          BY <4>2, <1>1
        <4>4. g[D \ {x}] = h[D \ {x}]
          BY <4>3
        <4>5. FoldStep(g, vs, D) = FoldStep(h, vs, D)
          <5> HIDE DEF g
          <5> QED
            BY <4>4, <3>2 DEF FoldStep, x
        <4>6. g[D] = FoldStep(h, vs, D)
          BY <2>1 DEF Folds
        <4> QED
          BY <4>5, <4>6
      <3> QED
        BY <3>1, <3>2
    <2>3. Folds(g, vs, Small(m + 1))
      BY <2>2 DEF Folds
    <2> HIDE DEF g, Small
    <2> QED
      BY <2>3
  <1>4. \A m \in Nat : m \in T
    <2> HIDE DEF T
    <2> QED
      BY <1>2, <1>3, SetInduction
  <1>5. Small(n) = SUBSET (1..n)
    BY <1>1
  <1> QED
    BY <1>4, <1>5

\* Accumulating runs through the values from the first to the last.
LEMMA AccumulateRuns ==
    ASSUME NEW S, NEW vs \in Seq(S)
    PROVE  \E a : /\ a[0] = NoValues
                  /\ \A i \in 1..Len(vs) : a[i] = Accumulate(a[i - 1], vs[i])
                  /\ FoldLeft(Accumulate, NoValues, vs) = a[Len(vs)]
  <1> DEFINE n == Len(vs)
             g == CHOOSE h : Folds(h, vs, SUBSET (1..n))
             a == [i \in 0..n |-> g[1..i]]
  <1>0. n \in Nat /\ DOMAIN vs = 1..n
    OBVIOUS
  <1>1. Folds(g, vs, SUBSET (1..n))
    <2>1. \E h : Folds(h, vs, SUBSET (1..n))
      BY <1>0, FoldExists
    <2> QED
      BY <2>1, Zenon
  <1>2. FoldLeft(Accumulate, NoValues, vs) = g[1..n]
    <2>1. FoldLeft(Accumulate, NoValues, vs) =
              (CHOOSE h : Folds(h, vs, SUBSET (DOMAIN vs)))[DOMAIN vs]
      BY Zenon DEF FoldLeft, MapThenFoldSet, Folds, FoldStep
    <2> QED
      BY <1>0, <2>1
  <1> HIDE DEF g
  <1>3. a[0] = NoValues
    <2>1. 1..0 = {} /\ {} \in SUBSET (1..n) /\ 0 \in 0..n
      BY <1>0
    <2>2. g[{}] = NoValues
      BY <1>1, <2>1 DEF Folds, FoldStep
    <2> QED
      BY <2>1, <2>2
  <1>4. ASSUME NEW i \in 1..n PROVE a[i] = Accumulate(a[i - 1], vs[i])
    <2>1. /\ i \in Nat /\ 1..i \in SUBSET (1..n) /\ 1..i # {} /\ i \in 1..i
          /\ i \in 0..n /\ i - 1 \in 0..n /\ (1..i) \ {i} = 1..(i - 1)
      <3>1. i \in Nat /\ 1 <= i /\ i <= n /\ i \in 0..n /\ i - 1 \in 0..n /\ i \in 1..i
        BY <1>0
      <3>2. 1..i \in SUBSET (1..n)
        BY <1>0, <3>1
      <3>3. \A k : k \in (1..i) \ {i} <=> k \in 1..(i - 1)
        BY <3>1
      <3> QED
        BY <3>1, <3>2, <3>3
    <2>2. Max(1..i) = i
      <3>1. 1..i \in SUBSET (1..i)
        OBVIOUS
      <3>2. Max(1..i) \in 1..i /\ i <= Max(1..i)
        BY <2>1, <3>1, MaxIsLast
      <3> QED
        BY <2>1, <3>2
    <2>3. g[1..i] = Accumulate(g[(1..i) \ {i}], vs[i])
      <3>1. g[1..i] = FoldStep(g, vs, 1..i)
        BY <1>1, <2>1 DEF Folds
      <3> QED
        BY <2>1, <2>2, <3>1 DEF FoldStep
    <2> QED
      BY <2>1, <2>3
  <1>5. FoldLeft(Accumulate, NoValues, vs) = a[n]
    <2>1. n \in 0..n
      BY <1>0
    <2> QED
      BY <1>2, <2>1
  <1> HIDE DEF a
  <1> QED
    BY <1>3, <1>4, <1>5

-----------------------------------------------------------------------------
(* The inductive invariant *)

Stages == {"load", "join", "where", "filter", "union", "group", "order", "limit", "answered", "failed"}

Part(t) == Places(input[t]) \cup {NoRow}

\* The combined rows, and the rows a query without GROUP BY answers.
Combined == [l : Part("l"), r : Part("r")]

Keys == [1..Len(q.groupBy) -> Known]

Results == [key : Keys, rows : Seq(Combined), count : Nat, sum : Known, min : Known, max : Known]

TypeOK ==
    /\ input \in Inputs
    /\ stage \in Stages
    /\ faults \in Nat
    /\ at \in Nat \X Nat /\ at[1] > 0 /\ at[2] > 0
    /\ lrows \in Seq(Places(input.l)) /\ rrows \in Seq(Places(input.r))
    /\ rows \in Seq(Combined)
    /\ \A k \in DOMAIN groups : k \in Keys /\ groups[k] \in Seq(Combined)
    /\ results \in Seq(Results)
    /\ answers \in Seq(IF q.aggregate THEN Seq(Results) ELSE Seq(Combined))

\* What stage leaves to do: nothing is grouped or counted before its turn.
Early == {"load", "join", "where", "filter", "union"}

Staged ==
    /\ stage \in Early => results = <<>>
    /\ stage = "load" => lrows = <<>> /\ rrows = <<>>
    /\ stage \in {"load", "filter"} => groups = <<>>
    /\ stage = "filter" => q.where # <<>>
    /\ stage = "union" => q.kind \in Unions
    /\ stage = "group" => q.aggregate

\* The rows of a table that were loaded, in their order.
LoadedFrom(ps, pages) ==
    InStoredOrder(ps) /\ (faults = 0 => Range(ps) = Places(pages))

Loaded == stage # "load" => LoadedFrom(lrows, input.l) /\ LoadedFrom(rrows, input.r)

Pair(i, j) == [l |-> lrows[i], r |-> rrows[j]]

\* The pairs the nested loop has looked at.
Visited(i, j) == i < at[1] \/ (i = at[1] /\ j < at[2])

JoinedSoFar ==
    stage = "join" =>
        /\ IsInjective(rows)
        /\ q.kind \in Joins =>
             /\ at[1] <= Len(lrows) + 1 /\ at[2] <= Len(rrows) + 1
             /\ \A c \in Range(rows) : \E i \in DOMAIN lrows, j \in DOMAIN rrows :
                   Visited(i, j) /\ c = Pair(i, j) /\ Matches(c)
             /\ \A i \in DOMAIN lrows, j \in DOMAIN rrows :
                   Visited(i, j) /\ Matches(Pair(i, j)) => Pair(i, j) \in Range(rows)

\* Until results are computed no row is there twice.
RowsDiffer == stage \in {"where", "filter", "union", "group", "order"} => IsInjective(rows)

\* The rows of a single table, in their order.
OneTableOnly ==
    stage \in {"where", "filter", "union", "group", "order"} /\ (stage = "order" => q.kind = "table")
    /\ q.kind \in {"table"} \cup Unions =>
        \A a \in DOMAIN rows :
            /\ rows[a].r = NoRow /\ rows[a].l \in Places(input.l)
            /\ \A b \in DOMAIN rows : a < b => StoredBefore(rows[a].l, rows[b].l)

Wanted(c) == q.where = <<>> \/ Satisfies(c, q.where, {})
LeftRows == {[l |-> x, r |-> NoRow] : x \in Places(input.l)}

\* The first SELECT of a UNION, when every page could be read.
Filtered ==
    q.kind \in Unions /\ faults = 0 =>
        /\ stage \in {"where", "filter", "union"} =>
              \A c \in LeftRows : Wanted(c) => c \in Range(rows)
        /\ stage = "filter" => \A i \in DOMAIN rows : i < at[1] => Wanted(rows[i])
        /\ stage = "union" => \A i \in DOMAIN rows : Wanted(rows[i])

Members(k, n) == {i \in 1..n : Grouped(rows[i]) /\ KeyOf(rows[i]) = k}

\* A group holds its rows among the first n.
GroupOf(cs, k, n) == \E f : Picks(f, cs, rows, Members(k, n))

Grouping ==
    stage = "group" /\ q.groupBy # <<>> =>
        /\ at[1] <= Len(rows) + 1
        /\ at[1] <= Len(rows) => results = <<>>
        /\ \A k \in DOMAIN groups : Null \notin Range(k) /\ GroupOf(groups[k], k, at[1] - 1)
        /\ \A n \in DOMAIN results : results[n].key \notin DOMAIN groups
        /\ \A i \in 1..(at[1] - 1) : Grouped(rows[i]) =>
              \/ KeyOf(rows[i]) \in DOMAIN groups
              \/ at[1] > Len(rows) /\ Cardinality(Members(KeyOf(rows[i]), Len(rows))) < q.having
              \/ \E n \in DOMAIN results : results[n].key = KeyOf(rows[i])

ResultsOfGroups ==
    stage \in {"group", "order"} /\ q.groupBy # <<>> =>
        /\ \A n \in DOMAIN results :
              /\ Null \notin Range(results[n].key)
              /\ Len(results[n].rows) >= q.having
              /\ GroupOf(results[n].rows, results[n].key, Len(rows))
        /\ \A m, n \in DOMAIN results : results[m].key = results[n].key => m = n
        /\ stage = "order" /\ q.aggregate => \A i \in DOMAIN rows : Grouped(rows[i]) =>
              \/ Cardinality(Members(KeyOf(rows[i]), Len(rows))) < q.having
              \/ \E n \in DOMAIN results : results[n].key = KeyOf(rows[i])

-----------------------------------------------------------------------------
(* Types *)

\* The query and the sets of its types change with the input only.
LEMMA SameInput ==
    ASSUME input' = input
    PROVE  /\ q' = q /\ Combined' = Combined /\ Keys' = Keys /\ Results' = Results
           /\ Places(input.l)' = Places(input.l) /\ Places(input.r)' = Places(input.r)
  <1>1. q' = q
    BY DEF q
  <1>2. Combined' = Combined
    BY DEF Combined, Part
  <1>3. Keys' = Keys
    BY <1>1 DEF Keys
  <1>4. Results' = Results
    BY <1>2, <1>3 DEF Results
  <1> QED
    BY <1>1, <1>2, <1>3, <1>4

\* What the assumption says of the input.
LEMMA InputType ==
    ASSUME input \in Inputs
    PROVE  /\ input.l \in Seq(Seq([{"k", "n"} -> Known]))
           /\ input.r \in Seq(Seq([{"k", "m"} -> Known]))
           /\ q.kind \in Kinds /\ q.aggregate \in BOOLEAN /\ q.distinct \in BOOLEAN
           /\ q.groupBy \in Seq(Columns) /\ q.limit \in Nat \ {0} /\ q.having \in Nat
           /\ q.where # <<>> => q.where \in Conditions
           /\ q.kind \in Unions => ~q.aggregate
  <1>1. Tables("l") = Seq(Seq([{"k", "n"} -> Known])) /\ Tables("r") = Seq(Seq([{"k", "m"} -> Known]))
    BY DEF Tables, Schemas, Known
  <1> QED
    BY <1>1, QueryAssumption DEF q

\* A column of a combined row has a number or NULL.
LEMMA ValueType ==
    ASSUME input \in Inputs, NEW c \in Combined, NEW col \in Columns
    PROVE  Value(c, col) \in Known
  <1>1. \A p \in Places(input.l) : p[1] \in DOMAIN input.l /\ p[2] \in DOMAIN input.l[p[1]]
    BY DEF Places
  <1>2. \A p \in Places(input.r) : p[1] \in DOMAIN input.r /\ p[2] \in DOMAIN input.r[p[1]]
    BY DEF Places
  <1>3. ASSUME NEW p \in Places(input.l) PROVE input.l[p[1]][p[2]] \in [{"k", "n"} -> Known]
    BY <1>1, InputType
  <1>4. ASSUME NEW p \in Places(input.r) PROVE input.r[p[1]][p[2]] \in [{"k", "m"} -> Known]
    BY <1>2, InputType
  <1>5. Null \in Known
    BY DEF Known
  <1>6. c["l"] \in Places(input.l) \cup {NoRow} /\ c["r"] \in Places(input.r) \cup {NoRow}
    BY DEF Combined, Part
  <1>7. CASE col.table = "l"
    <2>1. col.name \in {"k", "n"}
      BY <1>7 DEF Columns, Schemas
    <2>2. Value(c, col) = IF c["l"] = NoRow THEN Null ELSE input.l[c["l"][1]][c["l"][2]][col.name]
      BY <1>7 DEF Value, ValueIn
    <2> QED
      BY <1>3, <1>5, <1>6, <2>1, <2>2
  <1>8. CASE col.table = "r"
    <2>1. col.name \in {"k", "m"}
      BY <1>8 DEF Columns, Schemas
    <2>2. Value(c, col) = IF c["r"] = NoRow THEN Null ELSE input.r[c["r"][1]][c["r"][2]][col.name]
      BY <1>8 DEF Value, ValueIn
    <2> QED
      BY <1>4, <1>5, <1>6, <2>1, <2>2
  <1> QED
    BY <1>7, <1>8 DEF Columns

\* A key of GROUP BY has a number or NULL for each of its columns.
LEMMA KeyType ==
    ASSUME input \in Inputs, NEW c \in Combined
    PROVE  KeyOf(c) \in Keys
  <1>1. q.groupBy \in Seq(Columns)
    BY InputType
  <1>2. \A i \in 1..Len(q.groupBy) : q.groupBy[i] \in Columns
    BY <1>1
  <1>3. \A i \in 1..Len(q.groupBy) : Value(c, q.groupBy[i]) \in Known
    BY <1>2, ValueType
  <1>4. DOMAIN q.groupBy = 1..Len(q.groupBy)
    BY <1>1
  <1> QED
    BY <1>3, <1>4 DEF KeyOf, Keys

\* Rows of one table, completed with NoRow, are combined rows.
LEMMA LeftRightType ==
    ASSUME NEW A, NEW ps \in Seq(A)
    PROVE  /\ Left(ps) \in Seq([l : A, r : {NoRow}]) /\ Len(Left(ps)) = Len(ps)
           /\ Right(ps) \in Seq([l : {NoRow}, r : A]) /\ Len(Right(ps)) = Len(ps)
           /\ \A i \in 1..Len(ps) : /\ Left(ps)[i] = [l |-> ps[i], r |-> NoRow]
                                    /\ Right(ps)[i] = [l |-> NoRow, r |-> ps[i]]
  <1>1. DOMAIN ps = 1..Len(ps) /\ Len(ps) \in Nat /\ \A i \in 1..Len(ps) : ps[i] \in A
    OBVIOUS
  <1>2. /\ Left(ps) = [i \in 1..Len(ps) |-> [l |-> ps[i], r |-> NoRow]]
        /\ Right(ps) = [i \in 1..Len(ps) |-> [l |-> NoRow, r |-> ps[i]]]
    BY <1>1 DEF Left, Right
  <1> DEFINE B == [l : A, r : {NoRow}]
             C == [l : {NoRow}, r : A]
  <1>3. \A i \in 1..Len(ps) : [l |-> ps[i], r |-> NoRow] \in B /\ [l |-> NoRow, r |-> ps[i]] \in C
    BY <1>1
  <1> HIDE DEF B, C
  <1>4. Left(ps) \in Seq(B) /\ Len(Left(ps)) = Len(ps)
    BY <1>1, <1>2, <1>3
  <1>5. Right(ps) \in Seq(C) /\ Len(Right(ps)) = Len(ps)
    BY <1>1, <1>2, <1>3
  <1> QED
    BY <1>2, <1>4, <1>5 DEF B, C

\* A sequence over a set is one over a larger set.
LEMMA SeqWidens ==
    ASSUME NEW A, NEW B, A \subseteq B, NEW s \in Seq(A)
    PROVE  s \in Seq(B)
  <1>1. Len(s) \in Nat /\ s = [i \in 1..Len(s) |-> s[i]] /\ \A i \in 1..Len(s) : s[i] \in B
    OBVIOUS
  <1> QED
    BY <1>1

\* Left and Right keep the number and the order of the rows.
LEMMA LeftRightRows ==
    ASSUME NEW ls \in Seq(Places(input.l)), NEW rs \in Seq(Places(input.r))
    PROVE  Left(ls) \in Seq(Combined) /\ Right(rs) \in Seq(Combined)
  <1> DEFINE A == Places(input.l)
             B == Places(input.r)
             C == [l : A, r : {NoRow}]
             D == [l : {NoRow}, r : B]
  <1>1. Left(ls) \in Seq(C) /\ Right(rs) \in Seq(D)
    BY LeftRightType
  <1>2. C \subseteq Combined /\ D \subseteq Combined
    BY DEF Combined, Part
  <1> HIDE DEF C, D
  <1>3. Left(ls) \in Seq(Combined)
    BY <1>1, <1>2, SeqWidens
  <1>4. Right(rs) \in Seq(Combined)
    BY <1>1, <1>2, SeqWidens
  <1> QED
    BY <1>3, <1>4

-----------------------------------------------------------------------------
(* What the loop over the values of a group computes *)

Some(vs, n) == {i \in 1..n : vs[i] # Null}

\* The values that count: with DISTINCT the first of those that are equal.
Counted(vs, n) == {i \in Some(vs, n) : q.distinct => \A j \in Some(vs, n) : j < i => vs[j] # vs[i]}

Totals == [total : Int, min : Int, max : Int, count : Nat, seen : SUBSET Int]

\* acc says of the first n values what it is for.
Tells(acc, vs, n) ==
    /\ acc \in Totals
    /\ acc.seen = {vs[i] : i \in Some(vs, n)}
    /\ acc.count = 0 <=> Some(vs, n) = {}
    /\ acc.total = SumOf(vs, Counted(vs, n))
    /\ Some(vs, n) # {} => /\ acc.min \in acc.seen /\ \A v \in acc.seen : acc.min <= v
                           /\ acc.max \in acc.seen /\ \A v \in acc.seen : v <= acc.max

\* Finitely many values count.
LEMMA CountedFinite ==
    ASSUME NEW vs, NEW n \in Nat
    PROVE  IsFiniteSet(Some(vs, n)) /\ IsFiniteSet(Counted(vs, n)) /\ Counted(vs, n) \subseteq Some(vs, n)
  <1>1. IsFiniteSet(1..n)
    BY FS_Interval
  <1>2. Some(vs, n) \in SUBSET (1..n)
    BY DEF Some
  <1>3. Counted(vs, n) \in SUBSET Some(vs, n)
    BY DEF Counted
  <1>4. IsFiniteSet(Some(vs, n))
    BY <1>1, <1>2, FS_Subset
  <1> QED
    BY <1>3, <1>4, FS_Subset

\* One more value is among the values unless it is NULL.
LEMMA SomeNext ==
    ASSUME NEW vs, NEW n \in Nat
    PROVE  /\ Some(vs, n + 1) = IF vs[n + 1] = Null THEN Some(vs, n) ELSE Some(vs, n) \cup {n + 1}
           /\ \A i \in Some(vs, n) : i \in Nat /\ i < n + 1
  <1>1. \A i : i \in 1..(n + 1) <=> i \in 1..n \/ i = n + 1
    OBVIOUS
  <1>2. \A i \in 1..n : i \in Nat /\ i < n + 1
    OBVIOUS
  <1> QED
    BY <1>1, <1>2 DEF Some

\* It counts unless it is NULL or, with DISTINCT, was there before.
LEMMA CountedNext ==
    ASSUME NEW vs, NEW n \in Nat
    PROVE  Counted(vs, n + 1) =
               IF \/ vs[n + 1] = Null
                  \/ q.distinct /\ \E j \in Some(vs, n) : vs[j] = vs[n + 1]
               THEN Counted(vs, n) ELSE Counted(vs, n) \cup {n + 1}
  <1> DEFINE A == Some(vs, n)
             B == Some(vs, n + 1)
  <1>1. /\ B = IF vs[n + 1] = Null THEN A ELSE A \cup {n + 1}
        /\ \A i \in A : i \in Nat /\ i < n + 1
    BY SomeNext
  <1>2. /\ Counted(vs, n) = {i \in A : q.distinct => \A j \in A : j < i => vs[j] # vs[i]}
        /\ Counted(vs, n + 1) = {i \in B : q.distinct => \A j \in B : j < i => vs[j] # vs[i]}
    BY DEF Counted
  <1> HIDE DEF A, B
  <1>3. CASE vs[n + 1] = Null
    <2>1. A = B
      BY <1>1, <1>3
    <2> QED
      BY <1>2, <1>3, <2>1
  <1>4. CASE vs[n + 1] # Null
    <2>1. B = A \cup {n + 1}
      BY <1>1, <1>4
    <2>2. ASSUME NEW i \in A
          PROVE  (\A j \in B : j < i => vs[j] # vs[i]) <=> (\A j \in A : j < i => vs[j] # vs[i])
      <3>1. ~(n + 1 < i)
        BY <1>1
      <3> QED
        BY <2>1, <3>1
    <2>3. (\A j \in B : j < n + 1 => vs[j] # vs[n + 1]) <=> (\A j \in A : vs[j] # vs[n + 1])
      <3>1. ~(n + 1 < n + 1)
        OBVIOUS
      <3> QED
        BY <1>1, <2>1, <3>1
    <2>4. n + 1 \notin A
      BY <1>1
    <2> QED
      BY <1>2, <1>4, <2>1, <2>2, <2>3, <2>4, SMTT(60) DEF A
  <1> QED
    BY <1>3, <1>4

\* One iteration of the loop keeps what the accumulator says.
LEMMA AccumulateTells ==
    ASSUME input \in Inputs, NEW vs \in Seq(Known), NEW n \in Nat, n + 1 \in 1..Len(vs),
           NEW acc, Tells(acc, vs, n)
    PROVE  Tells(Accumulate(acc, vs[n + 1]), vs, n + 1)
  <1> DEFINE v == vs[n + 1]
             A == Some(vs, n)
             B == Some(vs, n + 1)
             C == Counted(vs, n)
             D == Counted(vs, n + 1)
             new == Accumulate(acc, v)
  <1>0. Null \notin Int /\ v \in Known
    BY QueryAssumption
  <1>1. /\ acc \in Totals /\ acc.seen = {vs[i] : i \in A} /\ (acc.count = 0 <=> A = {})
        /\ acc.total = SumOf(vs, C)
        /\ A # {} => /\ acc.min \in acc.seen /\ \A w \in acc.seen : acc.min <= w
                     /\ acc.max \in acc.seen /\ \A w \in acc.seen : w <= acc.max
    BY DEF Tells
  <1>2. B = IF v = Null THEN A ELSE A \cup {n + 1}
    BY SomeNext
  <1>3. D = IF v = Null \/ (q.distinct /\ \E j \in A : vs[j] = v) THEN C ELSE C \cup {n + 1}
    BY CountedNext
  <1>4. v \in acc.seen <=> \E j \in A : vs[j] = v
    BY <1>1
  <1>5. IsFiniteSet(C) /\ C \subseteq A /\ \A i \in A : i \in 1..n /\ vs[i] \in Int
    <2>1. \A i \in A : i \in 1..n /\ vs[i] # Null
      BY DEF Some
    <2>2. \A i \in 1..n : vs[i] \in Known
      OBVIOUS
    <2> HIDE DEF A
    <2>3. \A i \in A : i \in 1..n /\ vs[i] \in Int
      BY <2>1, <2>2 DEF Known
    <2> QED
      BY <2>3, CountedFinite DEF A
  <1> HIDE DEF A, B, C, D, v
  <1>6. CASE v = Null \/ (q.distinct /\ v \in acc.seen)
    <2>1. new = acc
      BY <1>6 DEF Accumulate
    <2>2. D = C
      BY <1>3, <1>4, <1>6
    <2>3. {vs[i] : i \in B} = acc.seen /\ (B = {} <=> A = {})
      <3>1. CASE v = Null
        BY <1>1, <1>2, <3>1
      <3>2. CASE v # Null
        <4>1. B = A \cup {n + 1} /\ v \in acc.seen /\ v = vs[n + 1]
          BY <1>2, <1>6, <3>2 DEF v
        <4>2. A # {}
          BY <1>1, <4>1
        <4> QED
          BY <1>1, <4>1, <4>2
      <3> QED
        BY <3>1, <3>2
    <2>4. Tells(acc, vs, n + 1)
      BY <1>1, <2>2, <2>3 DEF Tells, B, D
    <2> QED
      BY <2>1, <2>4 DEF v
  <1>7. CASE v # Null /\ ~(q.distinct /\ v \in acc.seen)
    <2>1. /\ new = [total |-> acc.total + v, count |-> acc.count + 1, seen |-> acc.seen \cup {v},
                    min |-> IF acc.count = 0 \/ v < acc.min THEN v ELSE acc.min,
                    max |-> IF acc.count = 0 \/ v > acc.max THEN v ELSE acc.max]
          /\ v \in Int
      BY <1>0, <1>7 DEF Accumulate, Known
    <2>2. B = A \cup {n + 1} /\ D = C \cup {n + 1} /\ n + 1 \notin C /\ vs[n + 1] = v
      <3>1. n + 1 \notin A
        BY <1>5
      <3> QED
        BY <1>2, <1>3, <1>4, <1>5, <1>7, <3>1 DEF v
    <2>3. acc.total + v = SumOf(vs, D)
      <3>1. \A i \in C \cup {n + 1} : vs[i] \in Int
        BY <1>5, <2>1, <2>2
      <3>2. SumOf(vs, C \cup {n + 1}) = vs[n + 1] + SumOf(vs, C)
        BY <1>5, <2>2, <3>1, SumAdd
      <3>3. acc.total \in Int
        BY <1>1 DEF Totals
      <3> QED
        BY <1>1, <2>1, <2>2, <3>2, <3>3
    <2>4. acc.seen \cup {v} = {vs[i] : i \in B}
      BY <1>1, <2>2
    <2>5. /\ acc.total \in Int /\ acc.count \in Nat /\ acc.min \in Int /\ acc.max \in Int
          /\ acc.seen \in SUBSET Int
      BY <1>1 DEF Totals
    <2>6. new \in Totals
      <3>1. acc.seen \cup {v} \in SUBSET Int
        BY <2>1, <2>5
      <3>2. acc.total + v \in Int /\ acc.count + 1 \in Nat
        BY <2>1, <2>5
      <3> QED
        BY <2>1, <2>5, <3>1, <3>2 DEF Totals
    <2>7. acc.count + 1 # 0 /\ B # {}
      BY <2>2, <2>5
    <2>8. /\ new.min \in acc.seen \cup {v} /\ \A w \in acc.seen \cup {v} : new.min <= w
          /\ new.max \in acc.seen \cup {v} /\ \A w \in acc.seen \cup {v} : w <= new.max
      <3>1. CASE A = {}
        <4>1. acc.seen = {} /\ new.min = v /\ new.max = v
          BY <1>1, <2>1, <3>1
        <4> QED
          BY <2>1, <4>1
      <3>2. CASE A # {}
        <4>1. /\ new.min = (IF v < acc.min THEN v ELSE acc.min)
              /\ new.max = (IF v > acc.max THEN v ELSE acc.max)
          BY <1>1, <2>1, <3>2
        <4>2. /\ acc.min \in acc.seen /\ \A w \in acc.seen : acc.min <= w /\ w \in Int
              /\ acc.max \in acc.seen /\ \A w \in acc.seen : w <= acc.max
          BY <1>1, <2>5, <3>2
        <4> HIDE DEF new
        <4> QED
          BY <2>1, <2>5, <4>1, <4>2
      <3> QED
        BY <3>1, <3>2
    <2>9. new.seen = acc.seen \cup {v} /\ new.count = acc.count + 1 /\ new.total = acc.total + v
      BY <2>1
    <2> HIDE DEF new
    <2> QED
      BY <2>3, <2>4, <2>6, <2>7, <2>8, <2>9 DEF Tells, B, D, new, v
  <1> QED
    BY <1>6, <1>7 DEF v

\* After the loop the accumulator says it of all values.
LEMMA FoldTells ==
    ASSUME input \in Inputs, NEW vs \in Seq(Known)
    PROVE  Tells(FoldLeft(Accumulate, NoValues, vs), vs, Len(vs))
  <1>1. PICK a : /\ a[0] = NoValues
                 /\ \A i \in 1..Len(vs) : a[i] = Accumulate(a[i - 1], vs[i])
                 /\ FoldLeft(Accumulate, NoValues, vs) = a[Len(vs)]
    BY AccumulateRuns
  <1> DEFINE T == {n \in Nat : n <= Len(vs) => Tells(a[n], vs, n)}
  <1>2. 0 \in T
    <2>1. Some(vs, 0) = {} /\ Counted(vs, 0) = {}
      <3>1. 1..0 = {}
        OBVIOUS
      <3> QED
        BY <3>1 DEF Some, Counted
    <2>2. NoValues \in Totals
      BY DEF NoValues, Totals
    <2>3. SumOf(vs, {}) = 0
      BY SumEmpty
    <2>4. NoValues.seen = {} /\ NoValues.count = 0 /\ NoValues.total = 0
      BY DEF NoValues
    <2>5. Tells(NoValues, vs, 0)
      BY <2>1, <2>2, <2>3, <2>4 DEF Tells
    <2> QED
      BY <1>1, <2>5
  <1>3. ASSUME NEW n \in Nat, n \in T PROVE n + 1 \in T
    <2>1. ASSUME n + 1 <= Len(vs) PROVE Tells(a[n + 1], vs, n + 1)
      <3>1. n <= Len(vs) /\ n + 1 \in 1..Len(vs) /\ (n + 1) - 1 = n
        BY <2>1
      <3>2. Tells(a[n], vs, n) /\ a[n + 1] = Accumulate(a[n], vs[n + 1])
        BY <1>1, <1>3, <3>1
      <3> QED
        BY <3>1, <3>2, AccumulateTells
    <2> QED
      BY <2>1
  <1>4. \A n \in Nat : n \in T
    <2> HIDE DEF T
    <2> QED
      BY <1>2, <1>3, SetInduction
  <1>5. Len(vs) \in Nat /\ Len(vs) <= Len(vs)
    OBVIOUS
  <1> QED
    BY <1>1, <1>4, <1>5

-----------------------------------------------------------------------------
(* The result row of a group *)

\* Some way to look the arguments up in the rows of a group.
Looked(vs, cs) ==
    /\ vs \in [DOMAIN cs -> UNION {Arguments(c) : c \in Range(cs)}]
    /\ \A i \in DOMAIN vs : vs[i] \in Arguments(cs[i])

\* The argument of an aggregate is a number or NULL.
LEMMA ArgumentsKnown ==
    ASSUME input \in Inputs, NEW c \in Combined
    PROVE  Arguments(c) \subseteq Known
  <1>1. \A t \in TablesWith(q.arg) : Col(t, q.arg) \in Columns
    BY DEF TablesWith, Col, Columns, Schemas
  <1>2. \A t \in TablesWith(q.arg) : Value(c, Col(t, q.arg)) \in Known
    BY <1>1, ValueType
  <1>3. Null \in Known
    BY DEF Known
  <1>4. \A t \in {u \in TablesWith(q.arg) : c[u] # NoRow} : t \in TablesWith(q.arg)
    OBVIOUS
  <1> QED
    BY <1>2, <1>3, <1>4 DEF Arguments

\* Arguments looked up in a group are one value for each row.
LEMMA LookedType ==
    ASSUME input \in Inputs, NEW cs \in Seq(Combined), NEW vs, Looked(vs, cs)
    PROVE  vs \in Seq(Known) /\ Len(vs) = Len(cs) /\ DOMAIN vs = 1..Len(cs)
           /\ \A i \in 1..Len(cs) : vs[i] \in Arguments(cs[i])
  <1>1. DOMAIN cs = 1..Len(cs) /\ Len(cs) \in Nat /\ \A i \in 1..Len(cs) : cs[i] \in Combined
    OBVIOUS
  <1>2. \A i \in 1..Len(cs) : Arguments(cs[i]) \subseteq Known
    BY <1>1, ArgumentsKnown
  <1>3. vs = [i \in 1..Len(cs) |-> vs[i]] /\ \A i \in 1..Len(cs) : vs[i] \in Arguments(cs[i])
    BY <1>1 DEF Looked
  <1>4. \A i \in 1..Len(cs) : vs[i] \in Known
    BY <1>2, <1>3
  <1> QED
    BY <1>1, <1>3, <1>4

\* A result row has the key and the rows it was made with, and numbers.
LEMMA ResultType ==
    ASSUME input \in Inputs, NEW k \in Keys, NEW cs \in Seq(Combined), NEW vs, Looked(vs, cs)
    PROVE  LET x == ResultRow(k, cs, vs) IN x \in Results /\ x.key = k /\ x.rows = cs
  <1> DEFINE acc == FoldLeft(Accumulate, NoValues, vs)
  <1>1. vs \in Seq(Known) /\ Len(vs) \in Nat
    BY LookedType
  <1>2. Tells(acc, vs, Len(vs))
    BY <1>1, FoldTells
  <1>3. ResultRow(k, cs, vs) =
            [key |-> k, rows |-> cs,
             count |-> IF q.distinct THEN Cardinality(acc.seen) ELSE Len(cs),
             sum |-> IF acc.count = 0 THEN Null ELSE acc.total,
             min |-> IF acc.count = 0 THEN Null ELSE acc.min,
             max |-> IF acc.count = 0 THEN Null ELSE acc.max]
    BY DEF ResultRow
  <1> HIDE DEF acc
  <1>4. acc.total \in Known /\ acc.min \in Known /\ acc.max \in Known /\ Null \in Known
    BY <1>2 DEF Tells, Totals, Known
  <1>5. Cardinality(acc.seen) \in Nat
    <2>1. IsFiniteSet(Some(vs, Len(vs)))
      BY <1>1, CountedFinite
    <2>2. IsFiniteSet({vs[i] : i \in Some(vs, Len(vs))})
      <3> DEFINE A == Some(vs, Len(vs))
      <3>1. IsFiniteSet(A)
        BY <2>1
      <3> HIDE DEF A
      <3>2. IsFiniteSet({vs[i] : i \in A})
        BY <3>1, FiniteImage
      <3> QED
        BY <3>2 DEF A
    <2>3. IsFiniteSet(acc.seen)
      BY <1>2, <2>2 DEF Tells
    <2> QED
      BY <2>3, FS_CardinalityType
  <1>6. Len(cs) \in Nat
    OBVIOUS
  <1> QED
    BY <1>3, <1>4, <1>5, <1>6 DEF Results

\* A column that only one table has can be looked up in one way.
LEMMA ArgumentOfOneTable ==
    ASSUME Cardinality(TablesWith(q.arg)) = 1, NEW c
    PROVE  LET t == CHOOSE u \in TablesWith(q.arg) : TRUE
           IN  Arguments(c) = {Value(c, Col(t, q.arg))}
  <1> DEFINE T == TablesWith(q.arg)
             t == CHOOSE u \in T : TRUE
  <1>1. T \subseteq {"l", "r"}
    BY DEF TablesWith
  <1>2. IsFiniteSet(T)
    <2>1. IsFiniteSet({"l"}) /\ {"l"} \cup {"r"} = {"l", "r"}
      BY FS_Singleton
    <2>2. IsFiniteSet({"l", "r"})
      BY <2>1, FS_AddElement
    <2> HIDE DEF T
    <2> QED
      BY <1>1, <2>2, FS_Subset
  <1>3. PICK u : T = {u}
    <2> HIDE DEF T
    <2>1. Cardinality(T) = 1
      BY DEF T
    <2> QED
      BY <1>2, <2>1, FS_Singleton
  <1>4. t = u
    <2> HIDE DEF T
    <2> QED
      BY <1>3
  <1> DEFINE found == {Value(c, Col(s, q.arg)) : s \in {v \in T : c[v] # NoRow}}
  <1>5. Arguments(c) = IF found = {} THEN {Null} ELSE found
    BY DEF Arguments
  <1>6. c[t] = NoRow => Value(c, Col(t, q.arg)) = Null
    BY DEF Value, ValueIn, Col
  <1>7. {v \in T : c[v] # NoRow} = IF c[t] = NoRow THEN {} ELSE {t}
    <2> HIDE DEF T, t
    <2> QED
      BY <1>3, <1>4
  <1>8. found = IF c[t] = NoRow THEN {} ELSE {Value(c, Col(t, q.arg))}
    <2> HIDE DEF T, t
    <2> QED
      BY <1>7
  <1> HIDE DEF found, T, t
  <1>9. Arguments(c) = {Value(c, Col(t, q.arg))}
    BY <1>5, <1>6, <1>8
  <1> QED
    BY <1>9 DEF T, t

\* A result says of its group what the aggregates mean (AggregatesOf).
LEMMA ResultTells ==
    ASSUME input \in Inputs, NEW k \in Keys, NEW cs \in Seq(Combined), NEW vs, Looked(vs, cs),
           Cardinality(TablesWith(q.arg)) = 1
    PROVE  AggregatesOf(ResultRow(k, cs, vs))
  <1> DEFINE x == ResultRow(k, cs, vs)
             acc == FoldLeft(Accumulate, NoValues, vs)
             n == Len(cs)
             t == CHOOSE u \in TablesWith(q.arg) : TRUE
             v == ColumnOf(x)
             some    == {i \in DOMAIN v : v[i] # Null}
             counted == {i \in some : q.distinct => \A j \in some : j < i => v[j] # v[i]}
             values  == {v[i] : i \in some}
  <1>1. /\ vs \in Seq(Known) /\ Len(vs) = n /\ DOMAIN vs = 1..n /\ n \in Nat
        /\ \A i \in 1..n : vs[i] \in Arguments(cs[i])
    BY LookedType
  <1>2. Tells(acc, vs, n)
    BY <1>1, FoldTells
  <1>3. /\ x.rows = cs
        /\ q.distinct => x.count = Cardinality(acc.seen)
        /\ x.sum = IF acc.count = 0 THEN Null ELSE acc.total
        /\ x.min = IF acc.count = 0 THEN Null ELSE acc.min
        /\ x.max = IF acc.count = 0 THEN Null ELSE acc.max
    BY DEF ResultRow
  <1> HIDE DEF x, acc
  <1>c. v = [i \in DOMAIN x.rows |-> Value(x.rows[i], Col(t, q.arg))]
    BY DEF ColumnOf
  <1>4. v = vs
    <2>1. \A i \in 1..n : Arguments(cs[i]) = {Value(cs[i], Col(t, q.arg))}
      BY ArgumentOfOneTable
    <2>2. \A i \in 1..n : vs[i] = Value(cs[i], Col(t, q.arg))
      BY <1>1, <2>1
    <2>3. vs = [i \in 1..n |-> vs[i]] /\ DOMAIN cs = 1..n
      BY <1>1
    <2> HIDE DEF t
    <2> QED
      BY <1>3, <1>c, <2>2, <2>3
  <1>5. some = Some(vs, n)
    <2> HIDE DEF v
    <2> QED
      BY <1>1, <1>4 DEF Some
  <1>6. counted = Counted(vs, n)
    <2> HIDE DEF v, some
    <2> QED
      BY <1>4, <1>5 DEF Counted
  <1>7. values = acc.seen
    <2> HIDE DEF v, some
    <2> QED
      BY <1>2, <1>4, <1>5 DEF Tells
  <1>8. CASE some = {}
    <2>1. acc.count = 0
      BY <1>2, <1>5, <1>8 DEF Tells
    <2>2. <<x.sum, x.min, x.max>> = <<Null, Null, Null>>
      BY <1>3, <2>1
    <2> HIDE DEF some
    <2> QED
      BY <1>8, <2>2 DEF AggregatesOf, Says, some, v, x
  <1>9. CASE some # {}
    <2>1. /\ acc.count # 0 /\ acc.total = SumOf(vs, Counted(vs, n))
          /\ acc.min \in acc.seen /\ \A w \in acc.seen : acc.min <= w
          /\ acc.max \in acc.seen /\ \A w \in acc.seen : w <= acc.max
          /\ acc.seen \subseteq Int
      BY <1>2, <1>5, <1>9 DEF Tells, Totals
    <2>2. acc.min = Min(acc.seen) /\ acc.max = Max(acc.seen)
      <3>1. \A w \in acc.seen : (\A z \in acc.seen : w <= z) => w = acc.min
        BY <2>1
      <3>2. \A w \in acc.seen : (\A z \in acc.seen : w >= z) => w = acc.max
        BY <2>1
      <3>3. \A w \in acc.seen : acc.max >= w
        BY <2>1
      <3> QED
        BY <2>1, <3>1, <3>2, <3>3 DEF Min, Max
    <2>3. x.sum = MapThenSumSet(LAMBDA i : v[i], counted)
      <3> HIDE DEF v, counted
      <3>1. x.sum = SumOf(v, counted)
        BY <1>3, <1>4, <1>6, <2>1
      <3> QED
        BY <3>1, Zenon DEF SumOf
    <2>4. x.min = Min(values) /\ x.max = Max(values) /\ (q.distinct => x.count = Cardinality(values))
      <3> HIDE DEF values
      <3> QED
        BY <1>3, <1>7, <2>1, <2>2
    <2> HIDE DEF some, counted, values
    <2> QED
      BY <1>9, <2>3, <2>4, Zenon DEF AggregatesOf, Says, some, counted, values, v, x
  <1> QED
    BY <1>8, <1>9 DEF x

-----------------------------------------------------------------------------
(* Every step keeps the types *)

\* The type invariant holds at the start.
LEMMA TypeInit == Init => TypeOK
  <1> SUFFICES ASSUME Init PROVE TypeOK
    OBVIOUS
  <1>1. /\ input \in Inputs /\ stage = "load" /\ faults = 0 /\ at = <<1, 1>>
        /\ lrows = <<>> /\ rrows = <<>> /\ rows = <<>> /\ groups = <<>> /\ results = <<>>
        /\ answers = <<>>
    BY DEF Init
  <1>2. DOMAIN groups = {} /\ \A S : <<>> \in Seq(S)
    BY <1>1
  <1> QED
    BY <1>1, <1>2 DEF TypeOK, Stages

\* The faults are counted.
LEMMA FaultsAdd ==
    ASSUME input \in Inputs, faults \in Nat,
           NEW A \in SUBSET DOMAIN input.l, NEW B \in SUBSET DOMAIN input.r
    PROVE  /\ Cardinality(A) \in Nat /\ (Cardinality(A) = 0 => A = {})
           /\ Cardinality(B) \in Nat /\ (Cardinality(B) = 0 => B = {})
  <1>1. DOMAIN input.l = 1..Len(input.l) /\ DOMAIN input.r = 1..Len(input.r)
        /\ Len(input.l) \in Nat /\ Len(input.r) \in Nat
    BY InputType
  <1>2. IsFiniteSet(1..Len(input.l)) /\ IsFiniteSet(1..Len(input.r))
    BY <1>1, FS_Interval, SMTT(60)
  <1>3. IsFiniteSet(A) /\ IsFiniteSet(B)
    BY <1>1, <1>2, FS_Subset
  <1> QED
    BY <1>3, FS_CardinalityType, FS_EmptySet

\* Load keeps the types.
LEMMA TypeLoad == TypeOK /\ Load => TypeOK'
  <1> SUFFICES ASSUME TypeOK, Load PROVE TypeOK'
    OBVIOUS
  <1>1. PICK lbad \in SUBSET DOMAIN input.l, rbad \in SUBSET DOMAIN input.r :
            /\ faults' = faults + Cardinality(lbad) + Cardinality(rbad)
            /\ lrows' = RowsOf(input.l, lbad)
            /\ rrows' = RowsOf(input.r, rbad)
    BY DEF Load
  <1>2. /\ stage' = "join" /\ at' = <<1, 1>> /\ rows' = <<>>
        /\ input' = input /\ groups' = groups /\ results' = results /\ answers' = answers
    BY DEF Load
  <1>3. input \in Inputs /\ faults \in Nat
    BY DEF TypeOK
  <1>4. faults' \in Nat
    BY <1>1, <1>3, FaultsAdd
  <1>5. lrows' \in Seq(Places(input.l)) /\ rrows' \in Seq(Places(input.r))
    BY <1>1, <1>3, InputType, RowsOfTable
  <1>6. rows' \in Seq(Combined)
    BY <1>2
  <1> QED
    BY <1>2, <1>4, <1>5, <1>6, SameInput DEF TypeOK, Stages

\* Actions that only change the rows, the stage and the position.
LEMMA TypeRows ==
    ASSUME TypeOK, input' = input, lrows' = lrows, rrows' = rrows, groups' = groups \/ groups' = <<>>,
           results' = results, answers' = answers, faults' \in Nat, stage' \in Stages,
           at'[1] \in Nat, at'[1] > 0, at'[2] \in Nat, at'[2] > 0, at' = <<at'[1], at'[2]>>,
           rows' \in Seq(Combined)
    PROVE  TypeOK'
  <1>1. \A k \in DOMAIN groups' : k \in Keys /\ groups'[k] \in Seq(Combined)
    <2>1. groups' = <<>> => DOMAIN groups' = {}
      OBVIOUS
    <2> QED
      BY <2>1 DEF TypeOK
  <1>2. at' \in Nat \X Nat
    OBVIOUS
  <1> QED
    BY <1>1, <1>2, SameInput DEF TypeOK

\* FROM keeps the types.
LEMMA TypeFrom == TypeOK /\ From => TypeOK'
  <1> SUFFICES ASSUME TypeOK, From PROVE TypeOK'
    OBVIOUS
  <1>1. Left(lrows) \in Seq(Combined) /\ Right(rrows) \in Seq(Combined)
    BY LeftRightRows DEF TypeOK
  <1>2. CrossProduct(Left(lrows), Right(rrows)) \in Seq(Combined)
    <2> DEFINE A == Part("l")
               B == Part("r")
               ls == Left(lrows)
               rs == Right(rrows)
    <2>1. NoRow \in A /\ NoRow \in B /\ Combined = [l : A, r : B] /\ ls \in Seq(Combined) /\ rs \in Seq(Combined)
      BY <1>1 DEF Part, Combined
    <2> HIDE DEF A, B, ls, rs
    <2>2. CrossProduct(ls, rs) \in Seq([l : A, r : B])
      BY <2>1, CrossProductType
    <2> QED
      BY <2>1, <2>2 DEF ls, rs
  <1>3. /\ input' = input /\ lrows' = lrows /\ rrows' = rrows /\ groups' = groups /\ results' = results
        /\ answers' = answers /\ faults' = faults /\ stage' = "where" /\ at' = at
        /\ rows' \in Seq(Combined)
    BY <1>1, <1>2 DEF From
  <1> QED
    BY <1>3, TypeRows DEF TypeOK, Stages

\* JoinPair keeps the types.
LEMMA TypeJoinPair == TypeOK /\ JoinPair => TypeOK'
  <1> SUFFICES ASSUME TypeOK, JoinPair PROVE TypeOK'
    OBVIOUS
  <1>1. /\ input' = input /\ lrows' = lrows /\ rrows' = rrows /\ groups' = groups /\ results' = results
        /\ answers' = answers /\ faults' = faults /\ stage' = stage /\ at' = <<at[1], at[2] + 1>>
        /\ at[1] <= Len(lrows) /\ at[2] <= Len(rrows)
        /\ rows' = IF Matches([l |-> lrows[at[1]], r |-> rrows[at[2]]])
                   THEN Append(rows, [l |-> lrows[at[1]], r |-> rrows[at[2]]]) ELSE rows
    BY DEF JoinPair, InLoop
  <1>2. /\ at[1] \in Nat /\ at[1] > 0 /\ at[2] \in Nat /\ at[2] > 0
        /\ lrows \in Seq(Places(input.l)) /\ rrows \in Seq(Places(input.r)) /\ rows \in Seq(Combined)
        /\ faults \in Nat /\ stage \in Stages
    BY DEF TypeOK
  <1>3. [l |-> lrows[at[1]], r |-> rrows[at[2]]] \in Combined
    <2>1. lrows[at[1]] \in Places(input.l) /\ rrows[at[2]] \in Places(input.r)
      BY <1>1, <1>2
    <2> QED
      BY <2>1 DEF Combined, Part
  <1>4. rows' \in Seq(Combined)
    BY <1>1, <1>2, <1>3
  <1>5. at'[1] \in Nat /\ at'[1] > 0 /\ at'[2] \in Nat /\ at'[2] > 0 /\ at' = <<at'[1], at'[2]>>
    BY <1>1, <1>2
  <1> QED
    BY <1>1, <1>2, <1>4, <1>5, TypeRows

\* NextLeft keeps the types.
LEMMA TypeNextLeft == TypeOK /\ NextLeft => TypeOK'
  <1> SUFFICES ASSUME TypeOK, NextLeft PROVE TypeOK'
    OBVIOUS
  <1>1. /\ input' = input /\ lrows' = lrows /\ rrows' = rrows /\ groups' = groups /\ results' = results
        /\ answers' = answers /\ faults' = faults /\ stage' = stage /\ at' = <<at[1] + 1, 1>>
        /\ rows' = rows
    BY DEF NextLeft
  <1>2. at[1] \in Nat /\ at[1] > 0 /\ rows \in Seq(Combined) /\ faults \in Nat /\ stage \in Stages
    BY DEF TypeOK
  <1>3. at'[1] \in Nat /\ at'[1] > 0 /\ at'[2] \in Nat /\ at'[2] > 0 /\ at' = <<at'[1], at'[2]>>
    BY <1>1, <1>2
  <1> QED
    BY <1>1, <1>2, <1>3, TypeRows

\* The rows without a partner are rows of their table, each once.
LEMMA UnmatchedRows ==
    ASSUME NEW t, NEW A, NEW ps \in Seq(A), IsInjective(ps)
    PROVE  /\ Unmatched(t, ps) \in Seq(A) /\ IsInjective(Unmatched(t, ps))
           /\ Range(Unmatched(t, ps)) = {p \in Range(ps) : \A c \in Range(rows) : c[t] # p}
  <1> DEFINE I == {n \in DOMAIN ps : \A c \in Range(rows) : c[t] # ps[n]}
  <1>1. I \in SUBSET (1..Len(ps)) /\ DOMAIN ps = 1..Len(ps)
    OBVIOUS
  <1>2. {ps[n] : n \in I} = {p \in Range(ps) : \A c \in Range(rows) : c[t] # p}
    BY DEF Range
  <1>3. Unmatched(t, ps) = Keep(ps, I)
    BY DEF Unmatched
  <1> HIDE DEF I
  <1>4. Keep(ps, I) \in Seq(A) /\ IsInjective(Keep(ps, I)) /\ Range(Keep(ps, I)) = {ps[n] : n \in I}
    BY <1>1, KeepRange
  <1> QED
    BY <1>2, <1>3, <1>4

\* No row of a table is loaded twice.
LEMMA LoadedInjective ==
    ASSUME TypeOK, Loaded, stage # "load"
    PROVE  IsInjective(lrows) /\ IsInjective(rrows)
  <1>1. InStoredOrder(lrows) /\ InStoredOrder(rrows)
    BY DEF Loaded, LoadedFrom
  <1>2. Places(input.l) \subseteq Numbers /\ Places(input.r) \subseteq Numbers
    BY DEF Places, Numbers
  <1>3. lrows \in Seq(Places(input.l)) /\ rrows \in Seq(Places(input.r))
    BY DEF TypeOK
  <1>4. lrows \in Seq(Numbers) /\ rrows \in Seq(Numbers)
    BY <1>2, <1>3, SeqWidens
  <1> QED
    BY <1>1, <1>4, OrderedInjective

\* Pad keeps the types.
LEMMA TypePad == TypeOK /\ Loaded /\ Pad => TypeOK'
  <1> SUFFICES ASSUME TypeOK, Loaded, Pad PROVE TypeOK'
    OBVIOUS
  <1> DEFINE ls == Unmatched("l", lrows)
             rs == Unmatched("r", rrows)
             a == IF q.kind \in {"left", "full"} THEN Left(ls) ELSE <<>>
             b == IF q.kind \in {"right", "full"} THEN Right(rs) ELSE <<>>
  <1>1. /\ input' = input /\ lrows' = lrows /\ rrows' = rrows /\ groups' = groups /\ results' = results
        /\ answers' = answers /\ faults' = faults /\ stage' = "where" /\ at' = at /\ stage = "join"
        /\ rows' = rows \o a \o b
    BY DEF Pad
  <1>2. lrows \in Seq(Places(input.l)) /\ rrows \in Seq(Places(input.r)) /\ rows \in Seq(Combined)
    BY DEF TypeOK
  <1>3. IsInjective(lrows) /\ IsInjective(rrows)
    BY <1>1, LoadedInjective
  <1>4. ls \in Seq(Places(input.l)) /\ rs \in Seq(Places(input.r))
    BY <1>2, <1>3, UnmatchedRows
  <1> HIDE DEF ls, rs
  <1>5. Left(ls) \in Seq(Combined) /\ Right(rs) \in Seq(Combined)
    BY <1>4, LeftRightRows
  <1>6. a \in Seq(Combined) /\ b \in Seq(Combined)
    BY <1>5
  <1> HIDE DEF a, b
  <1>7. rows' \in Seq(Combined)
    BY <1>1, <1>2, <1>6
  <1> QED
    BY <1>1, <1>7, TypeRows DEF TypeOK, Stages

\* WHERE keeps the types.
LEMMA TypeWhere == TypeOK /\ (Where \/ WhereRow \/ WhereDone) => TypeOK'
  <1> SUFFICES ASSUME TypeOK, Where \/ WhereRow \/ WhereDone PROVE TypeOK'
    OBVIOUS
  <1>1. /\ at[1] \in Nat /\ at[1] > 0 /\ at[2] \in Nat /\ at[2] > 0 /\ at = <<at[1], at[2]>>
        /\ rows \in Seq(Combined) /\ faults \in Nat /\ input \in Inputs
    BY DEF TypeOK
  <1>2. AfterWhere \in Stages
    BY DEF AfterWhere, Stages
  <1>3. CASE Where
    <2>1. /\ input' = input /\ lrows' = lrows /\ rrows' = rrows /\ groups' = <<>> /\ results' = results
          /\ answers' = answers /\ faults' = faults /\ at' = <<1, 1>> /\ rows' = rows
          /\ stage' \in {AfterWhere, "filter"}
      BY <1>3 DEF Where
    <2> QED
      BY <1>1, <1>2, <2>1, TypeRows DEF Stages
  <1>4. CASE WhereRow
    <2>1. PICK bad \in SUBSET {p \in DOMAIN input.l \cup DOMAIN input.r :
                            \E t \in SubTables[q.where] : p \in DOMAIN input[t]} :
              /\ faults' = faults + Cardinality(bad)
              /\ IF Satisfies(rows[at[1]], q.where, bad)
                 THEN at' = <<at[1] + 1, 1>> /\ UNCHANGED rows
                 ELSE rows' = RemoveAt(rows, at[1]) /\ UNCHANGED at
      BY <1>4 DEF WhereRow
    <2>2. /\ input' = input /\ lrows' = lrows /\ rrows' = rrows /\ groups' = groups /\ results' = results
          /\ answers' = answers /\ stage' = stage /\ at[1] <= Len(rows) /\ stage \in Stages
      BY <1>4 DEF WhereRow, TypeOK
    <2>3. faults' \in Nat
      <3>1. DOMAIN input.l = 1..Len(input.l) /\ DOMAIN input.r = 1..Len(input.r)
            /\ Len(input.l) \in Nat /\ Len(input.r) \in Nat
        BY <1>1, InputType
      <3>2. IsFiniteSet(DOMAIN input.l) /\ IsFiniteSet(DOMAIN input.r)
        BY <3>1, FS_Interval, SMTT(60)
      <3>3. IsFiniteSet(DOMAIN input.l \cup DOMAIN input.r)
        BY <3>2, FS_Union
      <3>4. bad \in SUBSET (DOMAIN input.l \cup DOMAIN input.r)
        OBVIOUS
      <3>5. Cardinality(bad) \in Nat
        BY <3>3, <3>4, FS_Subset, FS_CardinalityType
      <3> QED
        BY <1>1, <2>1, <3>5
    <2>4. CASE Satisfies(rows[at[1]], q.where, bad)
      <3>1. at' = <<at[1] + 1, 1>> /\ rows' = rows
        BY <2>1, <2>4
      <3> QED
        BY <1>1, <2>2, <2>3, <3>1, TypeRows
    <2>5. CASE ~Satisfies(rows[at[1]], q.where, bad)
      <3>1. at' = at /\ rows' = RemoveAt(rows, at[1])
        BY <2>1, <2>5
      <3>2. at[1] \in 1..Len(rows)
        BY <1>1, <2>2
      <3>3. rows' \in Seq(Combined)
        BY <1>1, <3>1, <3>2, RemoveAtShifts
      <3> QED
        BY <1>1, <2>2, <2>3, <3>1, <3>3, TypeRows
    <2> QED
      BY <2>4, <2>5
  <1>5. CASE WhereDone
    <2>1. /\ input' = input /\ lrows' = lrows /\ rrows' = rrows /\ groups' = groups /\ results' = results
          /\ answers' = answers /\ faults' = faults /\ at' = <<1, 1>> /\ rows' = rows
          /\ stage' = AfterWhere
      BY <1>5 DEF WhereDone
    <2> QED
      BY <1>1, <1>2, <2>1, TypeRows DEF Stages
  <1> QED
    BY <1>3, <1>4, <1>5

\* There are finitely many pages.
LEMMA PagesFinite ==
    ASSUME input \in Inputs
    PROVE  IsFiniteSet(DOMAIN input.l \cup DOMAIN input.r)
  <1> DEFINE m == Len(input.l)
             n == Len(input.r)
  <1>1. DOMAIN input.l = 1..m /\ DOMAIN input.r = 1..n /\ m \in Nat /\ n \in Nat
    BY InputType
  <1> HIDE DEF m, n
  <1>2. \A k \in Nat : IsFiniteSet(1..k)
    BY FS_Interval
  <1> QED
    BY <1>1, <1>2, FS_Union

\* A clause that fails leaves everything but the stage and the faults.
LEMMA FailsStep ==
    ASSUME TypeOK, WhereFails \/ GroupFails
    PROVE  /\ input' = input /\ lrows' = lrows /\ rrows' = rrows /\ at' = at /\ rows' = rows
           /\ groups' = groups /\ results' = results /\ answers' = answers
           /\ stage \in {"filter", "group"} /\ stage' = "failed"
           /\ faults' \in Nat /\ (faults' = 0 => faults = 0)
  <1>1. faults \in Nat /\ input \in Inputs
    BY DEF TypeOK
  <1>2. CASE WhereFails
    <2>1. PICK bad \in SUBSET {p \in DOMAIN input.l \cup DOMAIN input.r :
                            \E t \in SubTables[q.where] : p \in DOMAIN input[t]} :
              faults' = faults + Cardinality(bad)
      BY <1>2 DEF WhereFails
    <2>2. IsFiniteSet(DOMAIN input.l \cup DOMAIN input.r)
      BY <1>1, PagesFinite
    <2>3. bad \in SUBSET (DOMAIN input.l \cup DOMAIN input.r)
      OBVIOUS
    <2>4. Cardinality(bad) \in Nat
      BY <2>2, <2>3, FS_Subset, FS_CardinalityType
    <2>5. faults' \in Nat /\ (faults' = 0 => faults = 0)
      BY <1>1, <2>1, <2>4
    <2> QED
      BY <1>2, <2>5 DEF WhereFails
  <1>3. CASE GroupFails
    BY <1>1, <1>3 DEF GroupFails
  <1> QED
    BY <1>2, <1>3

LEMMA TypeFails == TypeOK /\ (WhereFails \/ GroupFails) => TypeOK'
  <1> SUFFICES ASSUME TypeOK, WhereFails \/ GroupFails PROVE TypeOK'
    OBVIOUS
  <1>1. /\ input' = input /\ lrows' = lrows /\ rrows' = rrows /\ at' = at /\ rows' = rows
        /\ groups' = groups /\ results' = results /\ answers' = answers
        /\ faults' \in Nat /\ stage' \in Stages
    BY FailsStep DEF Stages
  <1>2. rows' \in Seq(Combined) /\ at' = <<at[1], at[2]>> /\ at[1] \in Nat /\ at[1] > 0 /\ at[2] \in Nat /\ at[2] > 0
    BY <1>1 DEF TypeOK
  <1> QED
    BY <1>1, <1>2, TypeRows

\* DISTINCT picks rows, in their order.
LEMMA DistinctPicks ==
    ASSUME NEW A, NEW s \in Seq(A)
    PROVE  LET I == {n \in DOMAIN s : \A i \in 1..(n - 1) : RowText(s[i]) # RowText(s[n])}
           IN  /\ Distinct(s) \in Seq(A)
               /\ \E f : Picks(f, Distinct(s), s, I)
  <1> DEFINE I == {n \in DOMAIN s : \A i \in 1..(n - 1) : RowText(s[i]) # RowText(s[n])}
  <1>1. I \in SUBSET (1..Len(s))
    OBVIOUS
  <1>2. Distinct(s) = Keep(s, I)
    BY DEF Distinct
  <1> HIDE DEF I
  <1>3. Keep(s, I) \in Seq(A) /\ \E f : Picks(f, Keep(s, I), s, I)
    BY <1>1, KeepPicks
  <1> QED
    BY <1>2, <1>3 DEF I

\* UNION keeps the types.
LEMMA TypeUnion == TypeOK /\ Union => TypeOK'
  <1> SUFFICES ASSUME TypeOK, Union PROVE TypeOK'
    OBVIOUS
  <1> DEFINE both == rows \o Right(rrows)
  <1>1. /\ input' = input /\ lrows' = lrows /\ rrows' = rrows /\ groups' = groups /\ results' = results
        /\ answers' = answers /\ faults' = faults /\ stage' = "order" /\ at' = at
        /\ rows' = IF q.kind = "union" THEN Distinct(both) ELSE both
    BY DEF Union
  <1>2. both \in Seq(Combined)
    <2>1. rows \in Seq(Combined) /\ Right(rrows) \in Seq(Combined)
      BY LeftRightRows DEF TypeOK
    <2> QED
      BY <2>1
  <1> HIDE DEF both
  <1>3. Distinct(both) \in Seq(Combined)
    BY <1>2, DistinctPicks
  <1>4. rows' \in Seq(Combined)
    BY <1>1, <1>2, <1>3
  <1> QED
    BY <1>1, <1>4, TypeRows DEF TypeOK, Stages

\* Actions that only change the groups, the results, the stage and the position.
LEMMA TypeResults ==
    ASSUME TypeOK, input' = input, lrows' = lrows, rrows' = rrows, rows' = rows,
           answers' = answers, faults' = faults, stage' \in Stages,
           at'[1] \in Nat, at'[1] > 0, at'[2] \in Nat, at'[2] > 0, at' = <<at'[1], at'[2]>>,
           \A k \in DOMAIN groups' : k \in Keys /\ groups'[k] \in Seq(Combined),
           results' \in Seq(Results)
    PROVE  TypeOK'
  <1>1. at' \in Nat \X Nat
    OBVIOUS
  <1> QED
    BY <1>1, SameInput DEF TypeOK

\* The groups after one more row.
Enter(k, c) ==
    [l \in DOMAIN groups \cup {k} |->
        (IF l \in DOMAIN groups THEN groups[l] ELSE <<>>) \o (IF l = k THEN <<c>> ELSE <<>>)]

\* GroupRow, with the groups named.
LEMMA GroupRowStep ==
    ASSUME GroupRow
    PROVE  LET c == rows[at[1]]
           IN  /\ stage = "group" /\ q.groupBy # <<>> /\ at[1] <= Len(rows)
               /\ groups' = IF Grouped(c) THEN Enter(KeyOf(c), c) ELSE groups
               /\ at' = <<at[1] + 1, 1>>
               /\ input' = input /\ stage' = stage /\ lrows' = lrows /\ rrows' = rrows
               /\ rows' = rows /\ results' = results /\ answers' = answers /\ faults' = faults
  BY DEF GroupRow, Enter

\* GroupRow keeps the types.
LEMMA TypeGroupRow == TypeOK /\ GroupRow => TypeOK'
  <1> SUFFICES ASSUME TypeOK, GroupRow PROVE TypeOK'
    OBVIOUS
  <1> DEFINE c == rows[at[1]]
             k == KeyOf(c)
  <1>1. /\ stage = "group" /\ at[1] <= Len(rows)
        /\ groups' = IF Grouped(c) THEN Enter(k, c) ELSE groups
        /\ at' = <<at[1] + 1, 1>>
        /\ input' = input /\ stage' = stage /\ lrows' = lrows /\ rrows' = rrows
        /\ rows' = rows /\ results' = results /\ answers' = answers /\ faults' = faults
    BY GroupRowStep
  <1>2. /\ at[1] \in Nat /\ at[1] > 0 /\ rows \in Seq(Combined) /\ input \in Inputs
        /\ \A l \in DOMAIN groups : l \in Keys /\ groups[l] \in Seq(Combined)
        /\ results \in Seq(Results) /\ stage \in Stages
    BY DEF TypeOK
  <1>3. c \in Combined
    BY <1>1, <1>2
  <1>4. k \in Keys
    BY <1>2, <1>3, KeyType
  <1> HIDE DEF c, k
  <1>5. \A l \in DOMAIN groups' : l \in Keys /\ groups'[l] \in Seq(Combined)
    <2>1. CASE ~Grouped(c)
      BY <1>1, <1>2, <2>1
    <2>2. CASE Grouped(c)
      <3>1. groups' = Enter(k, c) /\ DOMAIN Enter(k, c) = DOMAIN groups \cup {k}
        BY <1>1, <2>2 DEF Enter
      <3>2. ASSUME NEW l \in DOMAIN groups \cup {k} PROVE l \in Keys /\ Enter(k, c)[l] \in Seq(Combined)
        <4>1. (IF l \in DOMAIN groups THEN groups[l] ELSE <<>>) \in Seq(Combined)
          BY <1>2
        <4>2. (IF l = k THEN <<c>> ELSE <<>>) \in Seq(Combined)
          BY <1>3
        <4>3. Enter(k, c)[l] = (IF l \in DOMAIN groups THEN groups[l] ELSE <<>>)
                                  \o (IF l = k THEN <<c>> ELSE <<>>)
          BY DEF Enter
        <4>4. Enter(k, c)[l] \in Seq(Combined)
          BY <4>1, <4>2, <4>3
        <4> QED
          BY <1>2, <1>4, <4>4
      <3> QED
        BY <3>1, <3>2
    <2> QED
      BY <2>1, <2>2
  <1>6. at'[1] \in Nat /\ at'[1] > 0 /\ at'[2] \in Nat /\ at'[2] > 0 /\ at' = <<at'[1], at'[2]>>
    BY <1>1, <1>2
  <1> QED
    BY <1>1, <1>2, <1>5, <1>6, TypeResults

\* What Aggregate does to one group.
LEMMA AggregateStep ==
    ASSUME Aggregate
    PROVE  \E k \in DOMAIN groups : \E vs :
               /\ Looked(vs, groups[k])
               /\ results' = IF Having(groups[k]) THEN Append(results, ResultRow(k, groups[k], vs))
                             ELSE results
               /\ groups' = [l \in DOMAIN groups \ {k} |-> groups[l]]
  <1>1. PICK k \in DOMAIN groups :
            /\ \E vs \in [DOMAIN groups[k] -> UNION {Arguments(c) : c \in Range(groups[k])}] :
                /\ \A i \in DOMAIN vs : vs[i] \in Arguments(groups[k][i])
                /\ results' = IF Having(groups[k])
                              THEN Append(results, ResultRow(k, groups[k], vs))
                              ELSE results
            /\ groups' = [l \in DOMAIN groups \ {k} |-> groups[l]]
    BY DEF Aggregate
  <1>2. PICK vs \in [DOMAIN groups[k] -> UNION {Arguments(c) : c \in Range(groups[k])}] :
            /\ \A i \in DOMAIN vs : vs[i] \in Arguments(groups[k][i])
            /\ results' = IF Having(groups[k])
                          THEN Append(results, ResultRow(k, groups[k], vs))
                          ELSE results
    BY <1>1
  <1>3. Looked(vs, groups[k])
    BY <1>2 DEF Looked
  <1> QED
    BY <1>1, <1>2, <1>3

\* AggregateAll, with the arguments named.
LEMMA AggregateAllStep ==
    ASSUME AggregateAll
    PROVE  \E vs : /\ Looked(vs, rows)
                   /\ results' = IF Having(rows) THEN <<ResultRow(<<>>, rows, vs)>> ELSE <<>>
  <1>1. PICK vs \in [DOMAIN rows -> UNION {Arguments(c) : c \in Range(rows)}] :
            /\ \A i \in DOMAIN vs : vs[i] \in Arguments(rows[i])
            /\ results' = IF Having(rows) THEN <<ResultRow(<<>>, rows, vs)>> ELSE <<>>
    BY DEF AggregateAll
  <1>2. Looked(vs, rows)
    BY <1>1 DEF Looked
  <1> QED
    BY <1>1, <1>2

\* Aggregate keeps the types.
LEMMA TypeAggregate == TypeOK /\ Aggregate => TypeOK'
  <1> SUFFICES ASSUME TypeOK, Aggregate PROVE TypeOK'
    OBVIOUS
  <1>1. PICK k \in DOMAIN groups : \E vs :
               /\ Looked(vs, groups[k])
               /\ results' = IF Having(groups[k]) THEN Append(results, ResultRow(k, groups[k], vs))
                             ELSE results
               /\ groups' = [l \in DOMAIN groups \ {k} |-> groups[l]]
    BY AggregateStep
  <1>2. PICK vs :
               /\ Looked(vs, groups[k])
               /\ results' = IF Having(groups[k]) THEN Append(results, ResultRow(k, groups[k], vs))
                             ELSE results
               /\ groups' = [l \in DOMAIN groups \ {k} |-> groups[l]]
    BY <1>1
  <1>3. /\ input' = input /\ stage' = stage /\ lrows' = lrows /\ rrows' = rrows /\ at' = at
        /\ rows' = rows /\ answers' = answers /\ faults' = faults
    BY DEF Aggregate
  <1>4. /\ \A l \in DOMAIN groups : l \in Keys /\ groups[l] \in Seq(Combined)
        /\ results \in Seq(Results) /\ input \in Inputs /\ stage \in Stages
        /\ at[1] \in Nat /\ at[1] > 0 /\ at[2] \in Nat /\ at[2] > 0 /\ at = <<at[1], at[2]>>
    BY DEF TypeOK
  <1>5. \A l \in DOMAIN groups' : l \in Keys /\ groups'[l] \in Seq(Combined)
    BY <1>2, <1>4
  <1>6. ResultRow(k, groups[k], vs) \in Results
    BY <1>2, <1>4, ResultType
  <1>7. results' \in Seq(Results)
    BY <1>2, <1>4, <1>6
  <1> QED
    BY <1>3, <1>4, <1>5, <1>7, TypeResults

\* AggregateAll keeps the types.
LEMMA TypeAggregateAll == TypeOK /\ AggregateAll => TypeOK'
  <1> SUFFICES ASSUME TypeOK, AggregateAll PROVE TypeOK'
    OBVIOUS
  <1>1. PICK vs : /\ Looked(vs, rows)
                  /\ results' = IF Having(rows) THEN <<ResultRow(<<>>, rows, vs)>> ELSE <<>>
    BY AggregateAllStep
  <1>2. /\ input' = input /\ stage' = "order" /\ lrows' = lrows /\ rrows' = rrows /\ at' = at
        /\ rows' = rows /\ answers' = answers /\ faults' = faults /\ groups' = groups
        /\ q.groupBy = <<>>
    BY DEF AggregateAll
  <1>3. /\ \A l \in DOMAIN groups : l \in Keys /\ groups[l] \in Seq(Combined)
        /\ rows \in Seq(Combined) /\ input \in Inputs
        /\ at[1] \in Nat /\ at[1] > 0 /\ at[2] \in Nat /\ at[2] > 0 /\ at = <<at[1], at[2]>>
    BY DEF TypeOK
  <1>4. <<>> \in Keys
    <2>1. Len(q.groupBy) = 0 /\ 1..0 = {}
      BY <1>2
    <2>2. <<>> \in [{} -> Known]
      OBVIOUS
    <2> QED
      BY <2>1, <2>2 DEF Keys
  <1>5. ResultRow(<<>>, rows, vs) \in Results
    BY <1>1, <1>3, <1>4, ResultType
  <1>6. results' \in Seq(Results)
    BY <1>1, <1>5
  <1> QED
    BY <1>2, <1>3, <1>6, TypeResults DEF Stages

\* GroupsDone keeps the types.
LEMMA TypeGroupsDone == TypeOK /\ GroupsDone => TypeOK'
  <1> SUFFICES ASSUME TypeOK, GroupsDone PROVE TypeOK'
    OBVIOUS
  <1>1. /\ input' = input /\ stage' = "order" /\ lrows' = lrows /\ rrows' = rrows /\ at' = at
        /\ rows' = rows /\ answers' = answers /\ faults' = faults /\ groups' = groups
        /\ results' = results
    BY DEF GroupsDone
  <1>2. /\ \A l \in DOMAIN groups : l \in Keys /\ groups[l] \in Seq(Combined)
        /\ results \in Seq(Results)
        /\ at[1] \in Nat /\ at[1] > 0 /\ at[2] \in Nat /\ at[2] > 0 /\ at = <<at[1], at[2]>>
    BY DEF TypeOK
  <1> QED
    BY <1>1, <1>2, TypeResults DEF Stages

\* A row that is sorted by a column has a number or NULL there.
LEMMA RowKeys ==
    ASSUME TypeOK, ~q.aggregate, q.orderBy # "none", NEW c \in Combined
    PROVE  SortKey(c) \in Known
  <1>1. input \in Inputs
    BY DEF TypeOK
  <1>2. CASE q.kind \in Unions
    <2>1. Col("l", "n") \in Columns /\ Col("r", "m") \in Columns
      BY DEF Col, Columns, Schemas
    <2>2. Value(c, Col("l", "n")) \in Known /\ Value(c, Col("r", "m")) \in Known
      BY <1>1, <2>1, ValueType
    <2>3. RowText(c)[2] = IF c.r = NoRow THEN Value(c, Col("l", "n")) ELSE Value(c, Col("r", "m"))
      BY DEF RowText
    <2> QED
      BY <1>2, <2>2, <2>3 DEF SortKey
  <1>3. CASE q.kind \notin Unions
    <2>1. q.orderBy \in Schemas.l
      BY <1>1, <1>3, QueryAssumption DEF q
    <2>2. Col("l", q.orderBy) \in Columns
      BY <2>1 DEF Col, Columns, Schemas
    <2>3. Value(c, Col("l", q.orderBy)) \in Known
      BY <1>1, <2>2, ValueType
    <2> QED
      BY <1>3, <2>3 DEF SortKey
  <1> QED
    BY <1>2, <1>3

\* A result that is sorted by a column has a number or NULL there.
LEMMA ResultKeys ==
    ASSUME TypeOK, q.aggregate, q.orderBy # "none", NEW x \in Results
    PROVE  SortKey(x) \in Known
  <1>1. input \in Inputs
    BY DEF TypeOK
  <1>2. CASE q.orderBy = "count"
    <2>1. SortKey(x) = x.count /\ x.count \in Nat
      BY <1>2 DEF SortKey, Results
    <2> QED
      BY <2>1 DEF Known
  <1>3. CASE q.orderBy # "count"
    <2>1. q.groupBy # <<>>
      BY <1>1, <1>3, QueryAssumption DEF q
    <2>2. q.groupBy \in Seq(Columns)
      BY <1>1, InputType
    <2>3. 1 \in 1..Len(q.groupBy)
      BY <2>1, <2>2
    <2>4. x.key[1] \in Known
      BY <2>3 DEF Results, Keys
    <2> QED
      BY <1>3, <2>4 DEF SortKey
  <1> QED
    BY <1>2, <1>3

\* ORDER BY keeps the types.
LEMMA TypeOrder == TypeOK /\ Order => TypeOK'
  <1> SUFFICES ASSUME TypeOK, Order PROVE TypeOK'
    OBVIOUS
  <1>1. /\ input' = input /\ stage' = "limit" /\ lrows' = lrows /\ rrows' = rrows /\ at' = at
        /\ answers' = answers /\ faults' = faults /\ groups' = groups
        /\ IF q.aggregate
           THEN results' = (IF q.orderBy = "none" THEN results ELSE StableSort(results))
                /\ rows' = rows
           ELSE rows' = (IF q.orderBy = "none" THEN rows ELSE StableSort(rows))
                /\ results' = results
    BY DEF Order
  <1>2. /\ \A l \in DOMAIN groups : l \in Keys /\ groups[l] \in Seq(Combined)
        /\ results \in Seq(Results) /\ rows \in Seq(Combined) /\ faults \in Nat
        /\ at[1] \in Nat /\ at[1] > 0 /\ at[2] \in Nat /\ at[2] > 0 /\ at = <<at[1], at[2]>>
    BY DEF TypeOK
  <1>3. CASE q.aggregate
    <2>1. q.orderBy # "none" => StableSort(results) \in Seq(Results)
      <3>1. SUFFICES ASSUME q.orderBy # "none" PROVE StableSort(results) \in Seq(Results)
        OBVIOUS
      <3>2. \A i \in 1..Len(results) : SortKey(results[i]) \in Known
        <4>1. \A i \in 1..Len(results) : results[i] \in Results
          BY <1>2
        <4> QED
          BY <1>3, <3>1, <4>1, ResultKeys
      <3> QED
        BY <1>2, <3>2, StableSortSorts
    <2>2. results' \in Seq(Results) /\ rows' = rows
      BY <1>1, <1>2, <1>3, <2>1
    <2> QED
      BY <1>1, <1>2, <2>2, TypeResults DEF Stages
  <1>4. CASE ~q.aggregate
    <2>1. q.orderBy # "none" => StableSort(rows) \in Seq(Combined)
      <3>1. SUFFICES ASSUME q.orderBy # "none" PROVE StableSort(rows) \in Seq(Combined)
        OBVIOUS
      <3>2. \A i \in 1..Len(rows) : SortKey(rows[i]) \in Known
        <4>1. \A i \in 1..Len(rows) : rows[i] \in Combined
          BY <1>2
        <4> QED
          BY <1>4, <3>1, <4>1, RowKeys
      <3> QED
        BY <1>2, <3>2, StableSortSorts
    <2>2. rows' \in Seq(Combined) /\ results' = results
      BY <1>1, <1>2, <1>4, <2>1
    <2> QED
      BY <1>1, <1>2, <2>2, TypeRows DEF Stages
  <1> QED
    BY <1>3, <1>4

\* A page of an answer is of the rows of the answer.
LEMMA PageType ==
    ASSUME NEW S, NEW s \in Seq(S), NEW offset \in Nat, NEW count \in Nat
    PROVE  ApplyLimitAndOffset(s, offset, count) \in Seq(S)
  <1>1. Len(s) \in Nat
    OBVIOUS
  <1>2. CASE offset >= Len(s)
    BY <1>2 DEF ApplyLimitAndOffset
  <1>3. CASE ~(offset >= Len(s))
    <2> DEFINE m == IF offset + count > Len(s) THEN Len(s) ELSE offset + count
    <2>1. m \in Nat /\ m <= Len(s) /\ offset + 1 \in Nat /\ 1 <= offset + 1
      BY <1>1
    <2>2. ApplyLimitAndOffset(s, offset, count) = SubSeq(s, offset + 1, m)
      BY <1>3 DEF ApplyLimitAndOffset
    <2> HIDE DEF m
    <2>3. \A i \in (offset + 1)..m : s[i] \in S
      BY <2>1
    <2>4. SubSeq(s, offset + 1, m) \in Seq(S)
      BY <2>1, <2>3
    <2> QED
      BY <2>2, <2>4
  <1> QED
    BY <1>2, <1>3

\* LIMIT keeps the types.
LEMMA TypeLimit == TypeOK /\ Limit => TypeOK'
  <1> SUFFICES ASSUME TypeOK, Limit PROVE TypeOK'
    OBVIOUS
  <1> DEFINE s == IF q.aggregate THEN results ELSE rows
             S == IF q.aggregate THEN Results ELSE Combined
             o == Len(answers) * q.limit
  <1>1. /\ input' = input /\ stage' = "answered" /\ lrows' = lrows /\ rrows' = rrows /\ at' = at
        /\ rows' = rows /\ results' = results /\ faults' = faults /\ groups' = groups
        /\ answers' = Append(answers, ApplyLimitAndOffset(s, o, q.limit))
    BY DEF Limit
  <1>2. s \in Seq(S) /\ answers \in Seq(Seq(S)) /\ Len(answers) \in Nat
    <2>1. answers \in Seq(IF q.aggregate THEN Seq(Results) ELSE Seq(Combined))
      BY DEF TypeOK
    <2>2. (IF q.aggregate THEN Seq(Results) ELSE Seq(Combined)) = Seq(S)
      OBVIOUS
    <2> QED
      BY <2>1, <2>2 DEF TypeOK
  <1>3. q.limit \in Nat
    BY InputType DEF TypeOK
  <1>4. o \in Nat
    BY <1>2, <1>3
  <1> HIDE DEF s, S, o
  <1>5. ApplyLimitAndOffset(s, o, q.limit) \in Seq(S)
    BY <1>2, <1>3, <1>4, PageType
  <1>6. answers' \in Seq(Seq(S))
    BY <1>1, <1>2, <1>5
  <1>7. answers' \in Seq(IF q.aggregate THEN Seq(Results) ELSE Seq(Combined))
    BY <1>6 DEF S
  <1> QED
    BY <1>1, <1>7, SameInput DEF TypeOK, Stages

\* NextPage keeps the types.
LEMMA TypeNextPage == TypeOK /\ NextPage => TypeOK'
  <1> SUFFICES ASSUME TypeOK, NextPage PROVE TypeOK'
    OBVIOUS
  <1>1. /\ input' = input /\ stage' = "load" /\ at' = <<1, 1>> /\ answers' = answers /\ faults' = faults
        /\ lrows' = <<>> /\ rrows' = <<>> /\ rows' = <<>> /\ groups' = <<>> /\ results' = <<>>
    BY DEF NextPage
  <1>2. DOMAIN groups' = {} /\ \A S : <<>> \in Seq(S)
    BY <1>1
  <1> QED
    BY <1>1, <1>2, SameInput DEF TypeOK, Stages

\* Every action keeps the type invariant.
LEMMA TypeNext ==
    ASSUME TypeOK, Loaded, Next
    PROVE  TypeOK'
  BY TypeLoad, TypeFrom, TypeJoinPair, TypeNextLeft, TypePad, TypeWhere, TypeFails, TypeUnion, TypeGroupRow,
     TypeAggregate, TypeGroupsDone, TypeAggregateAll, TypeOrder, TypeLimit, TypeNextPage DEF Next

-----------------------------------------------------------------------------
(* Every step keeps the other parts of the invariant *)

\* What stage leaves to do, step by step.
LEMMA StagedNext == TypeOK /\ Staged /\ Next => Staged'
  <1> SUFFICES ASSUME TypeOK, Staged, Next PROVE Staged'
    OBVIOUS
  <1>1. CASE Load
    BY <1>1 DEF Staged, Load, Early
  <1>2. CASE From \/ JoinPair \/ NextLeft \/ Pad
    BY <1>2 DEF Staged, From, JoinPair, NextLeft, Pad, Early
  <1>3. CASE Where \/ WhereRow \/ WhereDone \/ Union
    <2>1. input' = input /\ q' = q /\ results' = results /\ results = <<>>
      BY <1>3 DEF Staged, Where, WhereRow, WhereDone, Union, Early, q
    <2>2. CASE Where
      BY <2>1, <2>2 DEF Staged, Where, AfterWhere
    <2>3. CASE WhereRow
      BY <2>1, <2>3 DEF Staged, WhereRow
    <2>4. CASE WhereDone
      BY <2>1, <2>4 DEF Staged, WhereDone, AfterWhere
    <2>5. CASE Union
      BY <2>1, <2>5 DEF Staged, Union
    <2> QED
      BY <1>3, <2>2, <2>3, <2>4, <2>5
  <1>4. CASE GroupRow \/ Aggregate \/ GroupsDone \/ AggregateAll
    <2>1. input' = input /\ q' = q /\ stage = "group" /\ stage' \in {"group", "order"}
      BY <1>4 DEF GroupRow, Aggregate, GroupsDone, AggregateAll, q
    <2> QED
      BY <2>1 DEF Staged, Early
  <1>5. CASE Order \/ Limit \/ NextPage
    BY <1>5 DEF Staged, Order, Limit, NextPage, Early
  <1>6. CASE WhereFails \/ GroupFails
    <2>1. stage' = "failed"
      BY <1>6, FailsStep
    <2> QED
      BY <2>1 DEF Staged, Early
  <1> QED
    BY <1>1, <1>2, <1>3, <1>4, <1>5, <1>6 DEF Next

\* Faults only add up; the loaded rows stay until the next page is asked for.
LEMMA LoadedStays ==
    ASSUME TypeOK, Next, stage # "load", stage' # "load"
    PROVE  /\ input' = input /\ lrows' = lrows /\ rrows' = rrows
           /\ faults' = 0 => faults = 0
  <1>1. CASE WhereRow
    <2>1. PICK bad \in SUBSET {p \in DOMAIN input.l \cup DOMAIN input.r :
                            \E t \in SubTables[q.where] : p \in DOMAIN input[t]} :
              faults' = faults + Cardinality(bad)
      BY <1>1 DEF WhereRow
    <2>2. input \in Inputs /\ faults \in Nat
      BY DEF TypeOK
    <2>3. DOMAIN input.l = 1..Len(input.l) /\ DOMAIN input.r = 1..Len(input.r)
          /\ Len(input.l) \in Nat /\ Len(input.r) \in Nat
      BY <2>2, InputType
    <2>4. IsFiniteSet(DOMAIN input.l) /\ IsFiniteSet(DOMAIN input.r)
      <3>1. IsFiniteSet(1..Len(input.l)) /\ IsFiniteSet(1..Len(input.r))
        BY <2>3, FS_Interval, SMTT(60)
      <3> QED
        BY <2>3, <3>1
    <2>5. IsFiniteSet(DOMAIN input.l \cup DOMAIN input.r)
      BY <2>4, FS_Union
    <2>6. bad \in SUBSET (DOMAIN input.l \cup DOMAIN input.r)
      OBVIOUS
    <2>7. Cardinality(bad) \in Nat
      BY <2>5, <2>6, FS_Subset, FS_CardinalityType
    <2>8. input' = input /\ lrows' = lrows /\ rrows' = rrows
      BY <1>1 DEF WhereRow
    <2> QED
      BY <2>1, <2>2, <2>7, <2>8
  <1>2. CASE From \/ JoinPair \/ NextLeft \/ Pad \/ Where \/ WhereDone \/ Union
    BY <1>2 DEF From, JoinPair, NextLeft, Pad, Where, WhereDone, Union
  <1>3. CASE GroupRow \/ Aggregate \/ GroupsDone \/ AggregateAll \/ Order \/ Limit
    BY <1>3 DEF GroupRow, Aggregate, GroupsDone, AggregateAll, Order, Limit
  <1>4. ~Load /\ ~NextPage
    BY DEF Load, NextPage
  <1>5. CASE WhereFails \/ GroupFails
    BY <1>5, FailsStep
  <1> QED
    BY <1>1, <1>2, <1>3, <1>4, <1>5 DEF Next

\* The loaded rows stay those of the stored tables, in their order.
LEMMA LoadedNext == TypeOK /\ Loaded /\ Next => Loaded'
  <1> SUFFICES ASSUME TypeOK, Loaded, Next, stage' # "load" PROVE Loaded'
    BY DEF Loaded
  <1>1. CASE stage = "load"
    <2>1. Load
      BY <1>1 DEF Next, From, JoinPair, NextLeft, Pad, Where, WhereRow, WhereFails, WhereDone, Union, GroupRow, GroupFails,
                  Aggregate, GroupsDone, AggregateAll, Order, Limit, NextPage
    <2>2. PICK lbad \in SUBSET DOMAIN input.l, rbad \in SUBSET DOMAIN input.r :
              /\ faults' = faults + Cardinality(lbad) + Cardinality(rbad)
              /\ lrows' = RowsOf(input.l, lbad)
              /\ rrows' = RowsOf(input.r, rbad)
      BY <2>1 DEF Load
    <2>3. input' = input
      BY <2>1 DEF Load
    <2>4. input \in Inputs /\ faults \in Nat
      BY DEF TypeOK
    <2>5. faults' = 0 => lbad = {} /\ rbad = {}
      <3> DEFINE m == Cardinality(lbad)
                 n == Cardinality(rbad)
      <3>1. m \in Nat /\ (m = 0 => lbad = {}) /\ n \in Nat /\ (n = 0 => rbad = {})
        BY <2>4, FaultsAdd
      <3>2. faults' = faults + m + n
        BY <2>2
      <3> HIDE DEF m, n
      <3>3. faults' = 0 => m = 0 /\ n = 0
        BY <2>4, <3>1, <3>2
      <3> QED
        BY <3>1, <3>3
    <2>6. /\ InStoredOrder(RowsOf(input.l, lbad)) /\ InStoredOrder(RowsOf(input.r, rbad))
          /\ Range(RowsOf(input.l, lbad)) = {x \in Places(input.l) : x[1] \notin lbad}
          /\ Range(RowsOf(input.r, rbad)) = {x \in Places(input.r) : x[1] \notin rbad}
      BY <2>4, InputType, RowsOfTable
    <2>7. LoadedFrom(lrows, input.l)'
      BY <2>2, <2>3, <2>5, <2>6 DEF LoadedFrom
    <2>8. LoadedFrom(rrows, input.r)'
      BY <2>2, <2>3, <2>5, <2>6 DEF LoadedFrom
    <2> QED
      BY <2>7, <2>8 DEF Loaded
  <1>2. CASE stage # "load"
    <2>1. /\ input' = input /\ lrows' = lrows /\ rrows' = rrows
          /\ faults' = 0 => faults = 0
      BY <1>2, LoadedStays
    <2> QED
      BY <1>2, <2>1 DEF Loaded, LoadedFrom
  <1> QED
    BY <1>1, <1>2

\* Whether a pair matches depends on the input only.
LEMMA SameMatches ==
    ASSUME input' = input, NEW c
    PROVE  Matches(c)' <=> Matches(c)
  BY DEF Matches, Value, ValueIn, q, Col

\* Whether a row is wanted depends on the input only.
LEMMA SameWanted ==
    ASSUME input' = input, NEW c
    PROVE  Wanted(c)' <=> Wanted(c)
  BY DEF Wanted, Satisfies, q

\* One more row, of one more element.
LEMMA AppendRange ==
    ASSUME NEW A, NEW s \in Seq(A), NEW x \in A, IsInjective(s), x \notin Range(s)
    PROVE  IsInjective(Append(s, x)) /\ Range(Append(s, x)) = Range(s) \cup {x}
  <1>1. /\ Len(s) \in Nat /\ DOMAIN s = 1..Len(s) /\ DOMAIN Append(s, x) = 1..(Len(s) + 1)
        /\ \A i \in 1..Len(s) : Append(s, x)[i] = s[i]
        /\ Append(s, x)[Len(s) + 1] = x
    OBVIOUS
  <1>2. \A i \in 1..(Len(s) + 1) : i \in 1..Len(s) \/ i = Len(s) + 1
    BY <1>1
  <1>3. \A i \in 1..Len(s) : s[i] # x
    BY <1>1 DEF Range
  <1>4. IsInjective(Append(s, x))
    BY <1>1, <1>2, <1>3 DEF IsInjective
  <1>5. Range(Append(s, x)) = Range(s) \cup {x}
    BY <1>1, <1>2 DEF Range
  <1> QED
    BY <1>4, <1>5

\* Before the nested loop no pair was looked at.
LEMMA JoinedLoad == TypeOK /\ Load => JoinedSoFar'
  <1> SUFFICES ASSUME TypeOK, Load PROVE JoinedSoFar'
    OBVIOUS
  <1>1. stage' = "join" /\ at' = <<1, 1>> /\ rows' = <<>>
    BY DEF Load
  <1>2. lrows' \in Seq(Places(input.l)') /\ rrows' \in Seq(Places(input.r)')
    BY TypeLoad DEF TypeOK
  <1>3. IsInjective(rows)'
    BY <1>1 DEF IsInjective
  <1>4. Range(rows)' = {}
    BY <1>1 DEF Range
  <1>5. \A i \in DOMAIN lrows', j \in DOMAIN rrows' : ~Visited(i, j)'
    BY <1>1, <1>2 DEF Visited
  <1>6. at'[1] <= Len(lrows') + 1 /\ at'[2] <= Len(rrows') + 1
    BY <1>1, <1>2
  <1> QED
    BY <1>3, <1>4, <1>5, <1>6 DEF JoinedSoFar

\* Different positions make different pairs.
LEMMA PairsDiffer ==
    ASSUME TypeOK, Loaded, stage # "load",
           NEW i \in DOMAIN lrows, NEW j \in DOMAIN rrows,
           NEW m \in DOMAIN lrows, NEW n \in DOMAIN rrows, Pair(i, j) = Pair(m, n)
    PROVE  i = m /\ j = n
  <1>1. IsInjective(lrows) /\ IsInjective(rrows)
    BY LoadedInjective
  <1>2. lrows[i] = lrows[m] /\ rrows[j] = rrows[n]
    BY DEF Pair
  <1> QED
    BY <1>1, <1>2 DEF IsInjective

\* One iteration looks at one pair.
LEMMA JoinedPair == TypeOK /\ Loaded /\ JoinedSoFar /\ JoinPair => JoinedSoFar'
  <1> SUFFICES ASSUME TypeOK, Loaded, JoinedSoFar, JoinPair PROVE JoinedSoFar'
    OBVIOUS
  <1>0. PICK a, b : a = at[1] /\ b = at[2]
    OBVIOUS
  <1> DEFINE c == Pair(a, b)
             L == DOMAIN lrows
             R == DOMAIN rrows
  <1>1. /\ input' = input /\ lrows' = lrows /\ rrows' = rrows /\ stage' = stage /\ stage = "join"
        /\ q.kind \in Joins /\ a <= Len(lrows) /\ b <= Len(rrows) /\ at' = <<a, b + 1>>
        /\ rows' = IF Matches(c) THEN Append(rows, c) ELSE rows
    BY <1>0 DEF JoinPair, InLoop, Pair
  <1>2. a \in Nat /\ a > 0 /\ b \in Nat /\ b > 0 /\ rows \in Seq(Combined)
        /\ Len(lrows) \in Nat /\ Len(rrows) \in Nat /\ L = 1..Len(lrows) /\ R = 1..Len(rrows)
    BY <1>0 DEF TypeOK
  <1>3. a \in L /\ b \in R
    BY <1>1, <1>2
  <1>4. c \in Combined
    <2>1. lrows[a] \in Places(input.l) /\ rrows[b] \in Places(input.r)
      BY <1>2, <1>3 DEF TypeOK
    <2> QED
      BY <2>1 DEF Combined, Part, Pair
  <1>5. /\ IsInjective(rows)
        /\ \A d \in Range(rows) : \E i \in L, j \in R : Visited(i, j) /\ d = Pair(i, j) /\ Matches(d)
        /\ \A i \in L, j \in R : Visited(i, j) /\ Matches(Pair(i, j)) => Pair(i, j) \in Range(rows)
    BY <1>1 DEF JoinedSoFar
  <1>6. ~Visited(a, b)
    BY <1>0, <1>2 DEF Visited
  <1>7. \A i \in L, j \in R : Visited(i, j)' <=> Visited(i, j) \/ (i = a /\ j = b)
    BY <1>0, <1>1, <1>2 DEF Visited
  <1>8. \A i \in L, j \in R : Pair(i, j)' = Pair(i, j)
    BY <1>1 DEF Pair
  <1>9. \A d : Matches(d)' <=> Matches(d)
    BY <1>1, SameMatches
  <1>10. c \notin Range(rows)
    <2>1. SUFFICES ASSUME c \in Range(rows) PROVE FALSE
      OBVIOUS
    <2>2. PICK i \in L, j \in R : Visited(i, j) /\ c = Pair(i, j)
      BY <1>5, <2>1
    <2>3. i = a /\ j = b
      BY <1>1, <1>3, <2>2, PairsDiffer
    <2> QED
      BY <1>6, <2>2, <2>3
  <1>11. /\ IsInjective(rows')
         /\ Range(rows') = IF Matches(c) THEN Range(rows) \cup {c} ELSE Range(rows)
    <2>1. CASE Matches(c)
      <3>1. rows' = Append(rows, c)
        BY <1>1, <2>1
      <3>2. IsInjective(Append(rows, c)) /\ Range(Append(rows, c)) = Range(rows) \cup {c}
        BY <1>2, <1>4, <1>5, <1>10, AppendRange
      <3> QED
        BY <2>1, <3>1, <3>2
    <2>2. CASE ~Matches(c)
      BY <1>1, <1>5, <2>2
    <2> QED
      BY <2>1, <2>2
  <1>12. \A d \in Range(rows') : \E i \in L, j \in R :
            Visited(i, j)' /\ d = Pair(i, j) /\ Matches(d)
    <2>1. SUFFICES ASSUME NEW d \in Range(rows')
                   PROVE  \E i \in L, j \in R : Visited(i, j)' /\ d = Pair(i, j) /\ Matches(d)
      OBVIOUS
    <2>2. CASE d \in Range(rows)
      BY <1>5, <1>7, <2>2
    <2>3. CASE d \notin Range(rows)
      <3>1. Matches(c) /\ d = c
        BY <1>11, <2>1, <2>3
      <3>2. Visited(a, b)'
        BY <1>3, <1>7
      <3> QED
        BY <1>3, <3>1, <3>2
    <2> QED
      BY <2>2, <2>3
  <1>13. \A i \in L, j \in R : Visited(i, j)' /\ Matches(Pair(i, j)) => Pair(i, j) \in Range(rows')
    <2>1. SUFFICES ASSUME NEW i \in L, NEW j \in R, Visited(i, j)', Matches(Pair(i, j))
                   PROVE  Pair(i, j) \in Range(rows')
      OBVIOUS
    <2>2. CASE Visited(i, j)
      BY <1>5, <1>11, <2>1, <2>2
    <2>3. CASE ~Visited(i, j)
      <3>1. i = a /\ j = b
        BY <1>7, <2>1, <2>3
      <3> QED
        BY <1>11, <2>1, <3>1
    <2> QED
      BY <2>2, <2>3
  <1>14. at'[1] <= Len(lrows) + 1 /\ at'[2] <= Len(rrows) + 1
    BY <1>1, <1>2
  <1> HIDE DEF c
  <1> QED
    BY <1>1, <1>8, <1>9, <1>11, <1>12, <1>13, <1>14 DEF JoinedSoFar

\* The next row of the first table begins with the first of the second.
LEMMA JoinedLeft == TypeOK /\ JoinedSoFar /\ NextLeft => JoinedSoFar'
  <1> SUFFICES ASSUME TypeOK, JoinedSoFar, NextLeft PROVE JoinedSoFar'
    OBVIOUS
  <1> DEFINE L == DOMAIN lrows
             R == DOMAIN rrows
  <1>1. /\ input' = input /\ lrows' = lrows /\ rrows' = rrows /\ stage' = stage /\ stage = "join"
        /\ q.kind \in Joins /\ at[1] <= Len(lrows) /\ at[2] > Len(rrows) /\ at' = <<at[1] + 1, 1>>
        /\ rows' = rows
    BY DEF NextLeft, InLoop
  <1>2. at[1] \in Nat /\ at[1] > 0 /\ at[2] \in Nat
        /\ Len(lrows) \in Nat /\ Len(rrows) \in Nat /\ L = 1..Len(lrows) /\ R = 1..Len(rrows)
    BY DEF TypeOK
  <1>3. /\ IsInjective(rows)
        /\ \A d \in Range(rows) : \E i \in L, j \in R : Visited(i, j) /\ d = Pair(i, j) /\ Matches(d)
        /\ \A i \in L, j \in R : Visited(i, j) /\ Matches(Pair(i, j)) => Pair(i, j) \in Range(rows)
    BY <1>1 DEF JoinedSoFar
  <1>4. \A i \in L, j \in R : Visited(i, j)' <=> Visited(i, j)
    BY <1>1, <1>2 DEF Visited
  <1>5. \A i \in L, j \in R : Pair(i, j)' = Pair(i, j)
    BY <1>1 DEF Pair
  <1>6. \A d : Matches(d)' <=> Matches(d)
    BY <1>1, SameMatches
  <1>7. at'[1] <= Len(lrows) + 1 /\ at'[2] <= Len(rrows) + 1
    BY <1>1, <1>2
  <1>8. \A d \in Range(rows) : \E i \in L, j \in R : Visited(i, j)' /\ d = Pair(i, j) /\ Matches(d)
    BY <1>3, <1>4
  <1>9. \A i \in L, j \in R : Visited(i, j)' /\ Matches(Pair(i, j)) => Pair(i, j) \in Range(rows)
    BY <1>3, <1>4
  <1> QED
    BY <1>1, <1>3, <1>5, <1>6, <1>7, <1>8, <1>9 DEF JoinedSoFar

\* The nested loop has the pairs that match among those it has looked at.
LEMMA JoinedNext == TypeOK /\ Loaded /\ JoinedSoFar /\ Next => JoinedSoFar'
  <1> SUFFICES ASSUME TypeOK, Loaded, JoinedSoFar, Next, stage' = "join" PROVE JoinedSoFar'
    BY DEF JoinedSoFar
  <1>1. ~From /\ ~Pad /\ ~WhereRow /\ ~Union /\ ~GroupRow /\ ~Aggregate /\ ~GroupsDone
        /\ ~AggregateAll /\ ~Order /\ ~Limit /\ ~NextPage /\ ~WhereFails /\ ~GroupFails
    BY DEF From, Pad, WhereRow, WhereFails, GroupFails, Union, GroupRow, Aggregate, GroupsDone, AggregateAll, Order, Limit,
           NextPage
  <1>2. ~Where /\ ~WhereDone
    BY DEF Where, WhereDone, AfterWhere
  <1> QED
    BY <1>1, <1>2, JoinedLoad, JoinedPair, JoinedLeft DEF Next

\* Two sequences without repetition that share nothing, one after the other.
LEMMA ConcatDiffer ==
    ASSUME NEW S, NEW s \in Seq(S), NEW t \in Seq(S)
    PROVE  /\ s \o t \in Seq(S)
           /\ Range(s \o t) = Range(s) \cup Range(t)
           /\ IsInjective(s) /\ IsInjective(t) /\ Range(s) \cap Range(t) = {} => IsInjective(s \o t)
  <1> DEFINE u == s \o t
             m == Len(s)
             n == Len(t)
  <1>1. /\ m \in Nat /\ n \in Nat /\ DOMAIN s = 1..m /\ DOMAIN t = 1..n /\ DOMAIN u = 1..(m + n)
        /\ \A i \in 1..m : u[i] = s[i]
        /\ \A i \in 1..n : u[m + i] = t[i]
        /\ u \in Seq(S)
    OBVIOUS
  <1> HIDE DEF u, m, n
  <1>2. ASSUME NEW i \in 1..(m + n), i \notin 1..m PROVE i - m \in 1..n /\ u[i] = t[i - m]
    <2>1. i - m \in 1..n /\ m + (i - m) = i
      BY <1>1, <1>2
    <2> QED
      BY <1>1, <2>1
  <1>3. Range(u) = Range(s) \cup Range(t)
    <2>1. Range(u) \subseteq Range(s) \cup Range(t)
      BY <1>1, <1>2 DEF Range
    <2>2. \A i \in 1..m : i \in 1..(m + n)
      BY <1>1
    <2>3. \A i \in 1..n : m + i \in 1..(m + n)
      BY <1>1
    <2>4. Range(s) \subseteq Range(u)
      BY <1>1, <2>2 DEF Range
    <2>5. Range(t) \subseteq Range(u)
      BY <1>1, <2>3 DEF Range
    <2> QED
      BY <2>1, <2>4, <2>5
  <1>4. ASSUME IsInjective(s), IsInjective(t), Range(s) \cap Range(t) = {} PROVE IsInjective(u)
    <2>1. SUFFICES ASSUME NEW i \in 1..(m + n), NEW j \in 1..(m + n), u[i] = u[j] PROVE i = j
      BY <1>1 DEF IsInjective
    <2>2. \A a \in 1..m, b \in 1..n : s[a] # t[b]
      BY <1>1, <1>4 DEF Range
    <2>3. CASE i \in 1..m /\ j \in 1..m
      BY <1>1, <1>4, <2>1, <2>3 DEF IsInjective
    <2>4. CASE i \notin 1..m /\ j \notin 1..m
      <3>1. i - m \in 1..n /\ j - m \in 1..n /\ t[i - m] = t[j - m]
        BY <1>2, <2>1, <2>4
      <3>2. i - m = j - m
        BY <1>1, <1>4, <3>1 DEF IsInjective
      <3> QED
        BY <1>1, <3>2
    <2>5. CASE i \in 1..m /\ j \notin 1..m
      BY <1>1, <1>2, <2>1, <2>2, <2>5
    <2>6. CASE i \notin 1..m /\ j \in 1..m
      BY <1>1, <1>2, <2>1, <2>2, <2>6
    <2> QED
      BY <2>3, <2>4, <2>5, <2>6
  <1> QED
    BY <1>1, <1>3, <1>4 DEF u

\* Sequences that share nothing, one after the other.
LEMMA FlattenDiffers ==
    ASSUME NEW S, NEW ps \in Seq(Seq(S)),
           \A i \in 1..Len(ps) : IsInjective(ps[i]),
           \A i, j \in 1..Len(ps) : i # j => Range(ps[i]) \cap Range(ps[j]) = {}
    PROVE  FlattenSeq(ps) \in Seq(S) /\ IsInjective(FlattenSeq(ps))
  <1> DEFINE P == Seq(S)
             Good(qs) == /\ FlattenSeq(qs) \in P
                         /\ IsInjective(FlattenSeq(qs))
                         /\ \A x \in Range(FlattenSeq(qs)) : \E i \in 1..Len(qs) : x \in Range(qs[i])
             T == {qs \in Seq(P) : Good(qs)}
  <1>1. <<>> \in T
    <2>1. FlattenSeq(<<>>) = <<>> /\ <<>> \in P
      BY FlattenEmpty
    <2>2. IsInjective(<<>>) /\ Range(<<>>) = {}
      BY DEF IsInjective, Range
    <2>3. Good(<<>>)
      BY <2>1, <2>2
    <2>4. <<>> \in Seq(P)
      OBVIOUS
    <2> HIDE DEF Good, P
    <2> QED
      BY <2>3, <2>4
  <1>2. ASSUME NEW n \in 1..Len(ps), SubSeq(ps, 1, n - 1) \in T
        PROVE  Append(SubSeq(ps, 1, n - 1), ps[n]) \in T
    <2> DEFINE qs == SubSeq(ps, 1, n - 1)
               t  == Append(qs, ps[n])
    <2>1. /\ Len(ps) \in Nat /\ n \in Nat /\ n > 0 /\ n <= Len(ps)
          /\ qs \in Seq(P) /\ Len(qs) = n - 1 /\ ps[n] \in P
          /\ \A i \in 1..(n - 1) : qs[i] = ps[i] /\ i \in 1..Len(ps) /\ i # n
      <3>1. /\ Len(ps) \in Nat /\ n \in Nat /\ n > 0 /\ n <= Len(ps)
            /\ \A i \in 1..(n - 1) : i \in 1..Len(ps) /\ i # n
        OBVIOUS
      <3>2. \A i \in 1..(n - 1) : ps[i] \in P
        BY <3>1
      <3>3. qs \in Seq(P) /\ Len(qs) = n - 1 /\ \A i \in 1..(n - 1) : qs[i] = ps[i]
        BY <3>1, <3>2
      <3> QED
        BY <3>1, <3>3
    <2>2. Good(qs)
      BY <1>2
    <2> HIDE DEF qs, P
    <2>3. t \in Seq(P) /\ Len(t) = n /\ t[n] = ps[n] /\ \A i \in 1..(n - 1) : t[i] = qs[i]
      BY <2>1
    <2>4. FlattenSeq(t) = FlattenSeq(qs) \o ps[n]
      BY <2>1, FlattenAppend DEF P
    <2>5. Range(FlattenSeq(qs)) \cap Range(ps[n]) = {}
      <3>1. ASSUME NEW x \in Range(FlattenSeq(qs)) PROVE x \notin Range(ps[n])
        <4>1. PICK i \in 1..(n - 1) : x \in Range(ps[i])
          BY <2>1, <2>2
        <4>2. i \in 1..Len(ps) /\ i # n
          BY <2>1
        <4> QED
          BY <4>1, <4>2
      <3> QED
        BY <3>1
    <2>6. /\ FlattenSeq(t) \in P /\ IsInjective(FlattenSeq(t))
          /\ Range(FlattenSeq(t)) = Range(FlattenSeq(qs)) \cup Range(ps[n])
      <3>1. FlattenSeq(qs) \in Seq(S) /\ ps[n] \in Seq(S) /\ IsInjective(FlattenSeq(qs)) /\ IsInjective(ps[n])
        BY <2>1, <2>2 DEF P
      <3> QED
        BY <2>4, <2>5, <3>1, ConcatDiffer DEF P
    <2>7. \A x \in Range(FlattenSeq(t)) : \E i \in 1..Len(t) : x \in Range(t[i])
      <3>1. \A i \in 1..(n - 1) : i \in 1..n
        BY <2>1
      <3>2. n \in 1..n
        BY <2>1
      <3> QED
        BY <2>1, <2>2, <2>3, <2>6, <3>1, <3>2
    <2>8. Good(t)
      BY <2>6, <2>7 DEF P
    <2> HIDE DEF Good
    <2> QED
      BY <2>3, <2>8 DEF qs
  <1> HIDE DEF T
  <1>3. ps \in T
    BY <1>1, <1>2, PrefixInduction
  <1> QED
    BY <1>3 DEF T

\* Completing different rows with NoRow leaves them different.
LEMMA LeftRightDiffer ==
    ASSUME NEW A, NEW ps \in Seq(A)
    PROVE  /\ Range(Left(ps)) = {[l |-> p, r |-> NoRow] : p \in Range(ps)}
           /\ Range(Right(ps)) = {[l |-> NoRow, r |-> p] : p \in Range(ps)}
           /\ IsInjective(ps) => IsInjective(Left(ps)) /\ IsInjective(Right(ps))
  <1>1. /\ Len(ps) \in Nat /\ DOMAIN ps = 1..Len(ps)
        /\ DOMAIN Left(ps) = 1..Len(ps) /\ DOMAIN Right(ps) = 1..Len(ps)
        /\ \A i \in 1..Len(ps) : /\ Left(ps)[i] = [l |-> ps[i], r |-> NoRow]
                                 /\ Right(ps)[i] = [l |-> NoRow, r |-> ps[i]]
    BY LeftRightType DEF Left, Right
  <1>2. Range(Left(ps)) = {[l |-> p, r |-> NoRow] : p \in Range(ps)}
    BY <1>1 DEF Range
  <1>3. Range(Right(ps)) = {[l |-> NoRow, r |-> p] : p \in Range(ps)}
    BY <1>1 DEF Range
  <1>4. ASSUME IsInjective(ps) PROVE IsInjective(Left(ps)) /\ IsInjective(Right(ps))
    <2>1. \A i, j \in 1..Len(ps) : Left(ps)[i] = Left(ps)[j] => ps[i] = ps[j]
      BY <1>1
    <2>2. \A i, j \in 1..Len(ps) : Right(ps)[i] = Right(ps)[j] => ps[i] = ps[j]
      BY <1>1
    <2> QED
      BY <1>1, <1>4, <2>1, <2>2 DEF IsInjective
  <1> QED
    BY <1>2, <1>3, <1>4

\* The rows of a product.
LEMMA ProductDiffers ==
    ASSUME NEW A, NEW B, NEW ps \in Seq(A), NEW qs \in Seq(B), IsInjective(ps), IsInjective(qs)
    PROVE  IsInjective(CrossProduct(Left(ps), Right(qs)))
  <1> DEFINE ls == Left(ps)
             rs == Right(qs)
  <1>1. IsInjective(ls) /\ IsInjective(rs)
    BY LeftRightDiffer
  <1>2. CASE ls = <<>> \/ rs = <<>>
    BY <1>1, <1>2 DEF CrossProduct
  <1>3. CASE ls # <<>> /\ rs # <<>>
    <2> DEFINE row(i) == [j \in DOMAIN rs |-> [l |-> ls[i].l, r |-> rs[j].r]]
               all == [i \in DOMAIN ls |-> row(i)]
               S == [l : A, r : B]
    <2>1. CrossProduct(ls, rs) = FlattenSeq(all)
      BY <1>3 DEF CrossProduct
    <2>2. /\ DOMAIN ls = 1..Len(ps) /\ DOMAIN rs = 1..Len(qs) /\ Len(ps) \in Nat /\ Len(qs) \in Nat
          /\ \A i \in 1..Len(ps) : ls[i].l = ps[i] /\ ps[i] \in A
          /\ \A j \in 1..Len(qs) : rs[j].r = qs[j] /\ qs[j] \in B
          /\ DOMAIN ps = 1..Len(ps) /\ DOMAIN qs = 1..Len(qs)
      BY LeftRightType DEF Left, Right
    <2> HIDE DEF ls, rs
    <2>3. \A i \in 1..Len(ps) : row(i) = [j \in 1..Len(qs) |-> [l |-> ps[i], r |-> qs[j]]]
      BY <2>2
    <2>4. all = [i \in 1..Len(ps) |-> row(i)]
      BY <2>2
    <2> HIDE DEF row
    <2>5. ASSUME NEW i \in 1..Len(ps) PROVE row(i) \in Seq(S) /\ IsInjective(row(i))
      <3>1. \A j \in 1..Len(qs) : [l |-> ps[i], r |-> qs[j]] \in S
        BY <2>2
      <3>2. row(i) \in Seq(S)
        <4> HIDE DEF S
        <4>1. row(i) \in [1..Len(qs) -> S]
          BY <2>3, <3>1
        <4> QED
          BY <2>2, <4>1
      <3>3. \A j, k \in 1..Len(qs) : row(i)[j] = row(i)[k] => qs[j] = qs[k]
        BY <2>3
      <3>4. DOMAIN row(i) = 1..Len(qs)
        BY <2>3
      <3>5. IsInjective(row(i))
        BY <2>2, <3>3, <3>4 DEF IsInjective
      <3> QED
        BY <3>2, <3>5
    <2>6. \A i, j \in 1..Len(ps) : i # j => Range(row(i)) \cap Range(row(j)) = {}
      <3>1. \A i \in 1..Len(ps) : \A x \in Range(row(i)) : x.l = ps[i]
        BY <2>3 DEF Range
      <3>2. \A i, j \in 1..Len(ps) : i # j => ps[i] # ps[j]
        BY <2>2 DEF IsInjective
      <3> QED
        BY <3>1, <3>2
    <2> HIDE DEF S
    <2>7. all \in Seq(Seq(S)) /\ Len(all) = Len(ps) /\ \A i \in 1..Len(ps) : all[i] = row(i)
      BY <2>2, <2>4, <2>5
    <2> HIDE DEF all
    <2>8. \A i \in 1..Len(all) : IsInjective(all[i])
      BY <2>5, <2>7
    <2>9. \A i, j \in 1..Len(all) : i # j => Range(all[i]) \cap Range(all[j]) = {}
      BY <2>6, <2>7
    <2>10. IsInjective(FlattenSeq(all))
      BY <2>7, <2>8, <2>9, FlattenDiffers
    <2> QED
      BY <2>1, <2>10 DEF ls, rs
  <1> QED
    BY <1>2, <1>3

\* NoRow is no row of a table.
LEMMA NoRowIsNoPlace ==
    ASSUME NEW R, NEW pages \in Seq(R)
    PROVE  NoRow \notin Places(pages)
  <1>1. DOMAIN pages = 1..Len(pages) /\ Len(pages) \in Nat
    OBVIOUS
  <1>2. \A x \in Places(pages) : x[1] \in 1..Len(pages)
    BY <1>1 DEF Places
  <1>3. NoRow[1] = 0
    BY DEF NoRow
  <1> QED
    BY <1>1, <1>2, <1>3

\* What is left of a sequence without one of its elements.
LEMMA RemoveDiffers ==
    ASSUME NEW S, NEW s \in Seq(S), NEW k \in 1..Len(s)
    PROVE  /\ IsInjective(s) => IsInjective(RemoveAt(s, k))
           /\ \A x \in Range(s) : x # s[k] => x \in Range(RemoveAt(s, k))
           /\ \A i \in 1..(Len(s) - 1) : i < k => RemoveAt(s, k)[i] = s[i]
           /\ \A a, b \in DOMAIN RemoveAt(s, k) :
                 \E c, d \in DOMAIN s : /\ RemoveAt(s, k)[a] = s[c] /\ RemoveAt(s, k)[b] = s[d]
                                        /\ a < b => c < d
  <1> DEFINE t == RemoveAt(s, k)
             n == Len(s)
             f == [i \in 1..(n - 1) |-> IF i < k THEN i ELSE i + 1]
  <1>1. /\ n \in Nat /\ k \in Nat /\ DOMAIN s = 1..n /\ DOMAIN t = 1..(n - 1) /\ k <= n /\ k >= 1
        /\ \A i \in 1..(n - 1) : t[i] = IF i < k THEN s[i] ELSE s[i + 1]
    <2>1. t \in Seq(S) /\ Len(t) = n - 1 /\ \A i \in 1..(n - 1) : t[i] = IF i < k THEN s[i] ELSE s[i + 1]
      BY RemoveAtShifts
    <2>2. n \in Nat /\ k \in 1..n /\ DOMAIN s = 1..n
      OBVIOUS
    <2> HIDE DEF t, n
    <2>3. DOMAIN t = 1..(n - 1)
      BY <2>1
    <2> QED
      BY <2>1, <2>2, <2>3
  <1> HIDE DEF t, n
  <1>2. /\ \A i \in 1..(n - 1) : f[i] \in 1..n /\ t[i] = s[f[i]]
        /\ \A i, j \in 1..(n - 1) : i < j => f[i] < f[j]
        /\ \A i, j \in 1..(n - 1) : f[i] = f[j] => i = j
        /\ \A i \in 1..(n - 1) : i < k => t[i] = s[i]
    BY <1>1
  <1>3. \A m \in 1..n : m # k => \E i \in 1..(n - 1) : f[i] = m
    <2>1. SUFFICES ASSUME NEW m \in 1..n, m # k PROVE \E i \in 1..(n - 1) : f[i] = m
      OBVIOUS
    <2>2. CASE m < k
      <3>1. m \in 1..(n - 1) /\ f[m] = m
        BY <1>1, <2>2
      <3> QED
        BY <3>1
    <2>3. CASE m > k
      <3>1. m - 1 \in 1..(n - 1) /\ f[m - 1] = m
        BY <1>1, <2>3
      <3> QED
        BY <3>1
    <2> QED
      BY <1>1, <2>1, <2>2, <2>3
  <1> HIDE DEF f
  <1>4. ASSUME IsInjective(s) PROVE IsInjective(t)
    <2>1. \A i, j \in 1..(n - 1) : t[i] = t[j] => f[i] = f[j]
      BY <1>1, <1>2, <1>4 DEF IsInjective
    <2> QED
      BY <1>1, <1>2, <2>1 DEF IsInjective
  <1>5. ASSUME NEW x \in Range(s), x # s[k] PROVE x \in Range(t)
    <2>1. PICK m \in 1..n : x = s[m]
      BY <1>1 DEF Range
    <2>2. PICK i \in 1..(n - 1) : f[i] = m
      BY <1>3, <1>5, <2>1
    <2>3. t[i] = x
      BY <1>2, <2>1, <2>2
    <2>4. i \in DOMAIN t
      BY <1>1
    <2> QED
      BY <2>3, <2>4 DEF Range
  <1>6. \A a, b \in 1..(n - 1) :
            \E c, d \in 1..n : t[a] = s[c] /\ t[b] = s[d] /\ (a < b => c < d)
    BY <1>2
  <1>7. /\ \A i \in 1..(n - 1) : i < k => t[i] = s[i]
        /\ \A a, b \in DOMAIN t : \E c, d \in DOMAIN s : t[a] = s[c] /\ t[b] = s[d] /\ (a < b => c < d)
    <2>1. DOMAIN t = 1..(n - 1) /\ DOMAIN s = 1..n
      BY <1>1
    <2>2. \A a, b \in DOMAIN t : \E c, d \in DOMAIN s : t[a] = s[c] /\ t[b] = s[d] /\ (a < b => c < d)
      BY <1>6, <2>1, Zenon
    <2> QED
      BY <1>2, <2>2
  <1> QED
    BY <1>4, <1>5, <1>7 DEF t, n

\* WhereRow decides by what the condition means when some pages cannot be read:
\* none if there has been no fault.
LEMMA WhereRowReads ==
    ASSUME TypeOK, WhereRow
    PROVE  \E bad :
             /\ faults' = 0 => bad = {}
             /\ \/ rows' = rows /\ at' = <<at[1] + 1, 1>> /\ Satisfies(rows[at[1]], q.where, bad)
                \/ rows' = RemoveAt(rows, at[1]) /\ at' = at /\ ~Satisfies(rows[at[1]], q.where, bad)
  <1>1. PICK bad \in SUBSET {p \in DOMAIN input.l \cup DOMAIN input.r :
                            \E t \in SubTables[q.where] : p \in DOMAIN input[t]} :
              /\ faults' = faults + Cardinality(bad)
              /\ IF Satisfies(rows[at[1]], q.where, bad)
                 THEN at' = <<at[1] + 1, 1>> /\ UNCHANGED rows
                 ELSE rows' = RemoveAt(rows, at[1]) /\ UNCHANGED at
    BY DEF WhereRow
  <1>2. input \in Inputs /\ faults \in Nat
    BY DEF TypeOK
  <1>3. faults' = 0 => bad = {}
    <2>1. IsFiniteSet(DOMAIN input.l \cup DOMAIN input.r)
      BY <1>2, PagesFinite
    <2>2. bad \in SUBSET (DOMAIN input.l \cup DOMAIN input.r)
      OBVIOUS
    <2>3. IsFiniteSet(bad)
      BY <2>1, <2>2, FS_Subset
    <2> DEFINE m == Cardinality(bad)
    <2>4. m \in Nat /\ (m = 0 => bad = {})
      BY <2>3, FS_CardinalityType, FS_EmptySet
    <2>5. faults' = faults + m
      BY <1>1
    <2> HIDE DEF m
    <2> QED
      BY <1>2, <2>4, <2>5
  <1>4. \/ rows' = rows /\ at' = <<at[1] + 1, 1>> /\ Satisfies(rows[at[1]], q.where, bad)
        \/ rows' = RemoveAt(rows, at[1]) /\ at' = at /\ ~Satisfies(rows[at[1]], q.where, bad)
    BY <1>1
  <1> QED
    BY <1>3, <1>4

\* WhereRow goes on to the next row or removes this one; with no fault so far
\* it decides by what the condition means.
LEMMA WhereRowStep ==
    ASSUME TypeOK, WhereRow
    PROVE  /\ input' = input /\ stage' = stage /\ stage = "filter" /\ at[1] \in 1..Len(rows)
           /\ lrows' = lrows /\ rrows' = rrows /\ groups' = groups /\ results' = results
           /\ \/ /\ rows' = rows /\ at' = <<at[1] + 1, 1>>
                 /\ faults' = 0 => Satisfies(rows[at[1]], q.where, {})
              \/ /\ rows' = RemoveAt(rows, at[1]) /\ at' = at
                 /\ faults' = 0 => ~Satisfies(rows[at[1]], q.where, {})
  <1>1. /\ input' = input /\ stage' = stage /\ stage = "filter" /\ at[1] <= Len(rows)
        /\ lrows' = lrows /\ rrows' = rrows /\ groups' = groups /\ results' = results
    BY DEF WhereRow
  <1>2. at[1] \in 1..Len(rows)
    BY <1>1 DEF TypeOK
  <1> QED
    BY <1>1, <1>2, WhereRowReads

-----------------------------------------------------------------------------

\* The rows of a query over one table stay in stored order through WHERE.
LEMMA OneTableNext == TypeOK /\ Loaded /\ Staged /\ OneTableOnly /\ Next => OneTableOnly'
  <1> SUFFICES ASSUME TypeOK, Loaded, Staged, OneTableOnly, Next,
                      stage' \in {"where", "filter", "union", "group", "order"},
                      stage' = "order" => q'.kind = "table", q'.kind \in {"table"} \cup Unions
               PROVE  (\A a \in DOMAIN rows :
                          /\ rows[a].r = NoRow /\ rows[a].l \in Places(input.l)
                          /\ \A b \in DOMAIN rows : a < b => StoredBefore(rows[a].l, rows[b].l))'
    BY DEF OneTableOnly
  <1> DEFINE Single(rs) == \A a \in DOMAIN rs :
                              /\ rs[a].r = NoRow /\ rs[a].l \in Places(input.l)
                              /\ \A b \in DOMAIN rs : a < b => StoredBefore(rs[a].l, rs[b].l)
  <1>1. input' = input /\ q' = q
    BY DEF Next, Load, From, JoinPair, NextLeft, Pad, Where, WhereRow, WhereFails, WhereDone, Union, GroupRow, GroupFails,
           Aggregate, GroupsDone, AggregateAll, Order, Limit, NextPage, q
  <1>2. q.kind \in {"table"} \cup Unions
    BY <1>1
  <1>3. CASE From
    <2>1. rows' = Left(lrows)
      BY <1>2, <1>3 DEF From, Unions
    <2>2. lrows \in Seq(Places(input.l)) /\ InStoredOrder(lrows)
      BY <1>3 DEF TypeOK, Loaded, LoadedFrom, From
    <2>3. /\ DOMAIN lrows = 1..Len(lrows) /\ DOMAIN rows' = 1..Len(lrows)
          /\ \A i \in 1..Len(lrows) : rows'[i] = [l |-> lrows[i], r |-> NoRow] /\ lrows[i] \in Places(input.l)
      BY <2>1, <2>2, LeftRightType DEF Left
    <2>4. Single(rows')
      BY <2>2, <2>3 DEF InStoredOrder
    <2> QED
      BY <1>1, <2>4
  <1>4. CASE ~From
    <2>1. Single(rows)
      <3>1. stage \in {"where", "filter", "union", "group", "order"} /\ (stage = "order" => q.kind = "table")
        <4>1. CASE Where \/ WhereRow \/ WhereDone
          BY <4>1 DEF Where, WhereRow, WhereDone
        <4>2. CASE GroupRow \/ Aggregate \/ GroupsDone \/ AggregateAll
          BY <4>2 DEF GroupRow, Aggregate, GroupsDone, AggregateAll
        <4>3. CASE Union
          BY <4>3 DEF Union
        <4>4. CASE JoinPair \/ NextLeft \/ Pad
          BY <1>2, <4>4 DEF JoinPair, NextLeft, Pad, Joins, Unions
        <4>5. CASE Load \/ Order \/ Limit \/ NextPage \/ WhereFails \/ GroupFails
          BY <4>5 DEF Load, Order, Limit, NextPage, WhereFails, GroupFails
        <4> QED
          BY <1>4, <4>1, <4>2, <4>3, <4>4, <4>5 DEF Next
      <3> QED
        BY <1>2, <3>1 DEF OneTableOnly
    <2>2. CASE rows' = rows
      BY <1>1, <2>1, <2>2
    <2>3. CASE WhereRow
      <3>1. \/ rows' = rows
            \/ rows' = RemoveAt(rows, at[1])
        BY <2>3, WhereRowStep
      <3>2. at[1] \in 1..Len(rows) /\ rows \in Seq(Combined)
        BY <2>3, WhereRowStep DEF TypeOK
      <3>3. ASSUME rows' = RemoveAt(rows, at[1]) PROVE Single(rows')
        <4>1. \A a, b \in DOMAIN rows' :
                 \E c, d \in DOMAIN rows : /\ rows'[a] = rows[c] /\ rows'[b] = rows[d]
                                           /\ a < b => c < d
          BY <3>2, <3>3, RemoveDiffers
        <4> QED
          BY <2>1, <4>1
      <3> QED
        BY <1>1, <2>2, <3>1, <3>3
    <2>4. CASE Union
      <3>1. stage' = "order" /\ stage = "union"
        BY <2>4 DEF Union
      <3>2. q.kind \in Unions
        BY <3>1 DEF Staged
      <3> QED
        BY <1>1, <3>1, <3>2 DEF Unions
    <2>5. CASE Where \/ WhereDone \/ GroupRow \/ Aggregate \/ GroupsDone \/ AggregateAll
      BY <2>2, <2>5 DEF Where, WhereDone, GroupRow, Aggregate, GroupsDone, AggregateAll
    <2>6. CASE JoinPair \/ NextLeft \/ Pad
      BY <1>2, <2>6 DEF JoinPair, NextLeft, Pad, Joins, Unions
    <2>7. CASE Load \/ Order \/ Limit \/ NextPage \/ WhereFails \/ GroupFails
      BY <2>7 DEF Load, Order, Limit, NextPage, WhereFails, GroupFails
    <2> QED
      BY <1>4, <2>3, <2>4, <2>5, <2>6, <2>7 DEF Next
  <1> QED
    BY <1>3, <1>4

\* Of rows each of which is there once, none is there twice.
LEMMA PicksDiffer ==
    ASSUME NEW f, NEW S, NEW t \in Seq(S), NEW s \in Seq(S), NEW J \in SUBSET DOMAIN s, Picks(f, t, s, J)
    PROVE  /\ IsInjective(s) => IsInjective(t)
           /\ Range(t) = {s[n] : n \in J}
  <1>1. /\ \A i \in 1..Len(t) : f[i] \in J /\ t[i] = s[f[i]]
        /\ \A i, j \in 1..Len(t) : i < j => f[i] < f[j]
        /\ \A n \in J : \E i \in 1..Len(t) : f[i] = n
        /\ DOMAIN t = 1..Len(t) /\ Len(t) \in Nat
    BY DEF Picks
  <1>2. ASSUME IsInjective(s), NEW i \in 1..Len(t), NEW j \in 1..Len(t), i < j PROVE t[i] # t[j]
    <2>1. f[i] \in DOMAIN s /\ f[j] \in DOMAIN s /\ f[i] < f[j]
      BY <1>1, <1>2
    <2>2. f[i] # f[j]
      <3>1. SUFFICES ASSUME f[i] = f[j] PROVE FALSE
        OBVIOUS
      <3>2. f[j] < f[j]
        BY <2>1, <3>1
      <3>3. f[j] \in Nat
        BY <2>1
      <3> QED
        BY <3>2, <3>3
    <2> QED
      BY <1>1, <1>2, <2>1, <2>2 DEF IsInjective
  <1>3. IsInjective(s) => IsInjective(t)
    <2>1. \A i, j \in 1..Len(t) : i = j \/ i < j \/ j < i
      BY <1>1
    <2> QED
      BY <1>1, <1>2, <2>1 DEF IsInjective
  <1>4. Range(t) = {s[n] : n \in J}
    <2>1. Range(t) \subseteq {s[n] : n \in J}
      BY <1>1 DEF Range
    <2>2. ASSUME NEW n \in J PROVE s[n] \in Range(t)
      <3>1. PICK i \in 1..Len(t) : f[i] = n
        BY <1>1
      <3> QED
        BY <1>1, <3>1 DEF Range
    <2> QED
      BY <2>1, <2>2
  <1> QED
    BY <1>3, <1>4

\* The rows an outer join adds differ from the matches and from each other.
LEMMA PadDiffers ==
    ASSUME TypeOK, Loaded, JoinedSoFar, stage = "join", q.kind \in Joins
    PROVE  LET ls == Unmatched("l", lrows)
               rs == Unmatched("r", rrows)
           IN  /\ Left(ls) \in Seq(Combined) /\ Right(rs) \in Seq(Combined)
               /\ IsInjective(Left(ls)) /\ IsInjective(Right(rs))
               /\ Range(Left(ls)) = {[l |-> p, r |-> NoRow] : p \in {x \in Range(lrows) : \A c \in Range(rows) : c["l"] # x}}
               /\ Range(Right(rs)) = {[l |-> NoRow, r |-> p] : p \in {x \in Range(rrows) : \A c \in Range(rows) : c["r"] # x}}
               /\ \A c \in Range(rows) : c.l # NoRow /\ c.r # NoRow
               /\ \A c \in Range(Left(ls)) : c.l # NoRow /\ c.r = NoRow
               /\ \A c \in Range(Right(rs)) : c.l = NoRow /\ c.r # NoRow
  <1> DEFINE ls == Unmatched("l", lrows)
             rs == Unmatched("r", rrows)
             A == Places(input.l)
             B == Places(input.r)
  <1>1. lrows \in Seq(A) /\ rrows \in Seq(B) /\ IsInjective(lrows) /\ IsInjective(rrows)
    BY LoadedInjective DEF TypeOK
  <1>2. /\ ls \in Seq(A) /\ IsInjective(ls)
        /\ Range(ls) = {x \in Range(lrows) : \A c \in Range(rows) : c["l"] # x}
    BY <1>1, UnmatchedRows
  <1>3. /\ rs \in Seq(B) /\ IsInjective(rs)
        /\ Range(rs) = {x \in Range(rrows) : \A c \in Range(rows) : c["r"] # x}
    BY <1>1, UnmatchedRows
  <1>4. NoRow \notin A /\ NoRow \notin B
    BY InputType, NoRowIsNoPlace DEF TypeOK
  <1>5. Range(lrows) \subseteq A /\ Range(rrows) \subseteq B
    BY <1>1 DEF Range
  <1>6. Range(ls) \subseteq A /\ Range(rs) \subseteq B
    BY <1>2, <1>3, <1>5
  <1> HIDE DEF ls, rs
  <1>7. Left(ls) \in Seq(Combined) /\ Right(rs) \in Seq(Combined)
    BY <1>2, <1>3, LeftRightRows
  <1>8. /\ IsInjective(Left(ls)) /\ Range(Left(ls)) = {[l |-> p, r |-> NoRow] : p \in Range(ls)}
        /\ IsInjective(Right(rs)) /\ Range(Right(rs)) = {[l |-> NoRow, r |-> p] : p \in Range(rs)}
    BY <1>2, <1>3, LeftRightDiffer
  <1>9. \A c \in Range(rows) : c.l # NoRow /\ c.r # NoRow
    <2>1. SUFFICES ASSUME NEW c \in Range(rows) PROVE c.l # NoRow /\ c.r # NoRow
      OBVIOUS
    <2>2. PICK i \in DOMAIN lrows, j \in DOMAIN rrows : c = Pair(i, j)
      BY DEF JoinedSoFar
    <2>3. lrows[i] \in A /\ rrows[j] \in B
      BY <1>1
    <2> QED
      BY <1>4, <2>2, <2>3 DEF Pair
  <1>10. /\ \A c \in Range(Left(ls)) : c.l # NoRow /\ c.r = NoRow
         /\ \A c \in Range(Right(rs)) : c.l = NoRow /\ c.r # NoRow
    BY <1>4, <1>6, <1>8
  <1> QED
    BY <1>2, <1>3, <1>7, <1>8, <1>9, <1>10 DEF ls, rs

\* After a join no row is there twice.
LEMMA DifferPad == TypeOK /\ Loaded /\ JoinedSoFar /\ Pad => IsInjective(rows)'
  <1> SUFFICES ASSUME TypeOK, Loaded, JoinedSoFar, Pad PROVE IsInjective(rows')
    OBVIOUS
  <1> DEFINE ls == Left(Unmatched("l", lrows))
             rs == Right(Unmatched("r", rrows))
             a == IF q.kind \in {"left", "full"} THEN ls ELSE <<>>
             b == IF q.kind \in {"right", "full"} THEN rs ELSE <<>>
  <1>1. rows' = rows \o a \o b /\ stage = "join" /\ q.kind \in Joins
    BY DEF Pad
  <1>2. /\ ls \in Seq(Combined) /\ rs \in Seq(Combined)
        /\ IsInjective(ls) /\ IsInjective(rs)
        /\ \A c \in Range(rows) : c.l # NoRow /\ c.r # NoRow
        /\ \A c \in Range(ls) : c.l # NoRow /\ c.r = NoRow
        /\ \A c \in Range(rs) : c.l = NoRow /\ c.r # NoRow
    BY <1>1, PadDiffers
  <1>3. rows \in Seq(Combined) /\ IsInjective(rows)
    BY <1>1 DEF TypeOK, JoinedSoFar
  <1> HIDE DEF ls, rs
  <1>4. IsInjective(<<>>) /\ Range(<<>>) = {} /\ <<>> \in Seq(Combined)
    BY DEF IsInjective, Range
  <1>5. /\ a \in Seq(Combined) /\ IsInjective(a) /\ Range(a) \subseteq Range(ls)
        /\ b \in Seq(Combined) /\ IsInjective(b) /\ Range(b) \subseteq Range(rs)
    BY <1>2, <1>4
  <1> HIDE DEF a, b
  <1>6. Range(rows) \cap Range(a) = {}
    BY <1>2, <1>5
  <1>7. /\ rows \o a \in Seq(Combined) /\ IsInjective(rows \o a)
        /\ Range(rows \o a) = Range(rows) \cup Range(a)
    BY <1>3, <1>5, <1>6, ConcatDiffer
  <1>8. Range(rows \o a) \cap Range(b) = {}
    BY <1>2, <1>5, <1>7
  <1>9. IsInjective((rows \o a) \o b)
    BY <1>5, <1>7, <1>8, ConcatDiffer
  <1> QED
    BY <1>1, <1>9

\* After FROM no row is there twice.
LEMMA DifferFrom == TypeOK /\ Loaded /\ From => IsInjective(rows)'
  <1> SUFFICES ASSUME TypeOK, Loaded, From PROVE IsInjective(rows')
    OBVIOUS
  <1>1. /\ rows' = IF q.kind = "comma" THEN CrossProduct(Left(lrows), Right(rrows)) ELSE Left(lrows)
        /\ stage = "join"
    BY DEF From
  <1>2. /\ lrows \in Seq(Places(input.l)) /\ rrows \in Seq(Places(input.r))
        /\ IsInjective(lrows) /\ IsInjective(rrows)
    BY <1>1, LoadedInjective DEF TypeOK
  <1>3. IsInjective(CrossProduct(Left(lrows), Right(rrows)))
    BY <1>2, ProductDiffers
  <1>4. IsInjective(Left(lrows))
    BY <1>2, LeftRightDiffer
  <1> QED
    BY <1>1, <1>3, <1>4

\* The rows of the two SELECTs of a UNION differ.
LEMMA BothDiffer ==
    ASSUME TypeOK, Loaded, Staged, OneTableOnly, RowsDiffer, stage = "union"
    PROVE  /\ rows \o Right(rrows) \in Seq(Combined)
           /\ IsInjective(rows \o Right(rrows))
           /\ Range(rows \o Right(rrows)) = Range(rows) \cup Range(Right(rrows))
           /\ Range(rows) \subseteq LeftRows
           /\ Range(Right(rrows)) = {[l |-> NoRow, r |-> p] : p \in Range(rrows)}
  <1>1. /\ rows \in Seq(Combined) /\ IsInjective(rows) /\ rrows \in Seq(Places(input.r))
        /\ lrows \in Seq(Places(input.l)) /\ IsInjective(rrows)
    BY LoadedInjective DEF TypeOK, RowsDiffer
  <1>2. /\ Right(rrows) \in Seq(Combined) /\ IsInjective(Right(rrows))
        /\ Range(Right(rrows)) = {[l |-> NoRow, r |-> p] : p \in Range(rrows)}
    BY <1>1, LeftRightRows, LeftRightDiffer
  <1>3. \A n \in DOMAIN rows : rows[n].r = NoRow /\ rows[n].l \in Places(input.l)
    BY DEF OneTableOnly, Staged
  <1>4. Range(rows) \subseteq LeftRows
    <2>1. SUFFICES ASSUME NEW n \in DOMAIN rows PROVE rows[n] \in LeftRows
      BY DEF Range
    <2>2. rows[n] \in Combined
      BY <1>1
    <2>3. rows[n] = [l |-> rows[n].l, r |-> rows[n].r]
      BY <2>2 DEF Combined
    <2> QED
      BY <1>3, <2>3 DEF LeftRows
  <1>5. Range(rows) \cap Range(Right(rrows)) = {}
    <2>1. NoRow \notin Places(input.l)
      BY InputType, NoRowIsNoPlace DEF TypeOK
    <2>2. \A c \in LeftRows : c.l # NoRow
      BY <2>1 DEF LeftRows
    <2>3. \A c \in Range(Right(rrows)) : c.l = NoRow
      BY <1>2
    <2> QED
      BY <1>4, <2>2, <2>3
  <1> QED
    BY <1>1, <1>2, <1>4, <1>5, ConcatDiffer

\* After UNION no row is there twice.
LEMMA DifferUnion ==
    TypeOK /\ Loaded /\ Staged /\ OneTableOnly /\ RowsDiffer /\ Union => IsInjective(rows)'
  <1> SUFFICES ASSUME TypeOK, Loaded, Staged, OneTableOnly, RowsDiffer, Union PROVE IsInjective(rows')
    OBVIOUS
  <1> DEFINE both == rows \o Right(rrows)
             I == {n \in DOMAIN both : \A i \in 1..(n - 1) : RowText(both[i]) # RowText(both[n])}
  <1>1. rows' = (IF q.kind = "union" THEN Distinct(both) ELSE both) /\ stage = "union"
    BY DEF Union
  <1>2. both \in Seq(Combined) /\ IsInjective(both)
    BY <1>1, BothDiffer
  <1> HIDE DEF both
  <1>3. Distinct(both) \in Seq(Combined) /\ \E f : Picks(f, Distinct(both), both, I)
    BY <1>2, DistinctPicks
  <1>4. I \in SUBSET DOMAIN both
    OBVIOUS
  <1> HIDE DEF I
  <1>5. IsInjective(Distinct(both))
    BY <1>2, <1>3, <1>4, PicksDiffer
  <1> QED
    BY <1>1, <1>2, <1>5

\* No clause repeats a row.
LEMMA DifferNext ==
    TypeOK /\ Loaded /\ JoinedSoFar /\ Staged /\ OneTableOnly /\ RowsDiffer /\ Next => RowsDiffer'
  <1> SUFFICES ASSUME TypeOK, Loaded, JoinedSoFar, Staged, OneTableOnly, RowsDiffer, Next,
                      stage' \in {"where", "filter", "union", "group", "order"}
               PROVE  IsInjective(rows)'
    BY DEF RowsDiffer
  <1>1. CASE WhereRow
    <2>1. /\ stage = "filter" /\ at[1] \in 1..Len(rows)
          /\ rows' = rows \/ rows' = RemoveAt(rows, at[1])
      BY <1>1, WhereRowStep
    <2>2. rows \in Seq(Combined) /\ IsInjective(rows)
      BY <2>1 DEF TypeOK, RowsDiffer
    <2>3. IsInjective(RemoveAt(rows, at[1]))
      BY <2>1, <2>2, RemoveDiffers
    <2> QED
      BY <2>1, <2>2, <2>3
  <1>2. CASE Where \/ WhereDone \/ GroupRow \/ Aggregate \/ GroupsDone \/ AggregateAll
    <2>1. rows' = rows /\ stage \in {"where", "filter", "group"}
      BY <1>2 DEF Where, WhereDone, GroupRow, Aggregate, GroupsDone, AggregateAll
    <2> QED
      BY <2>1 DEF RowsDiffer
  <1>3. ~Load /\ ~JoinPair /\ ~NextLeft /\ ~Order /\ ~Limit /\ ~NextPage /\ ~WhereFails /\ ~GroupFails
    BY DEF Load, JoinPair, NextLeft, Order, Limit, NextPage, WhereFails, GroupFails
  <1> QED
    BY <1>1, <1>2, <1>3, DifferPad, DifferFrom, DifferUnion DEF Next

\* WHERE removes a row only when the condition is false of it.
LEMMA FilteredWhere ==
    TypeOK /\ Staged /\ Filtered /\ q.kind \in Unions /\ (Where \/ WhereRow \/ WhereDone) => Filtered'
  <1> SUFFICES ASSUME TypeOK, Staged, Filtered, q.kind \in Unions, Where \/ WhereRow \/ WhereDone,
                      faults' = 0
               PROVE  Filtered'
    BY DEF Filtered
  <1>1. /\ input' = input /\ stage \in {"where", "filter"} /\ stage # "load" /\ stage' # "load"
    BY DEF Where, WhereRow, WhereDone, AfterWhere
  <1>2. faults = 0
    BY <1>1, LoadedStays DEF Next
  <1>3. /\ \A c \in LeftRows : Wanted(c) => c \in Range(rows)
        /\ stage = "filter" => \A i \in DOMAIN rows : i < at[1] => Wanted(rows[i])
    BY <1>1, <1>2 DEF Filtered
  <1>4. LeftRows' = LeftRows /\ \A c : Wanted(c)' <=> Wanted(c)
    BY <1>1, SameWanted DEF LeftRows
  <1>5. at[1] \in Nat /\ at[1] > 0 /\ rows \in Seq(Combined) /\ DOMAIN rows = 1..Len(rows) /\ Len(rows) \in Nat
    BY DEF TypeOK
  <1>6. CASE Where
    <2>1. rows' = rows /\ at' = <<1, 1>> /\ stage' = IF q.where = <<>> THEN AfterWhere ELSE "filter"
      BY <1>6 DEF Where
    <2>2. stage' = "filter" \/ (stage' = "union" /\ q.where = <<>>)
      BY <2>1 DEF AfterWhere
    <2>3. \A i \in DOMAIN rows : ~(i < at'[1])
      BY <1>5, <2>1
    <2>4. q.where = <<>> => \A c : Wanted(c)
      BY DEF Wanted
    <2>5. \A c \in LeftRows' : Wanted(c)' => c \in Range(rows')
      BY <1>3, <1>4, <2>1
    <2>6. stage' = "filter" => \A i \in DOMAIN rows' : i < at'[1] => Wanted(rows[i])'
      BY <2>1, <2>3
    <2>7. stage' = "union" => \A i \in DOMAIN rows' : Wanted(rows[i])'
      BY <1>4, <2>2, <2>4
    <2> QED
      BY <2>5, <2>6, <2>7 DEF Filtered
  <1>7. CASE WhereDone
    <2>1. rows' = rows /\ at[1] > Len(rows) /\ stage = "filter" /\ stage' = AfterWhere
      BY <1>7 DEF WhereDone
    <2>2. stage' = "union"
      BY <2>1 DEF AfterWhere
    <2>3. \A i \in DOMAIN rows : i < at[1]
      BY <1>5, <2>1
    <2>4. \A c \in LeftRows' : Wanted(c)' => c \in Range(rows')
      BY <1>3, <1>4, <2>1
    <2>5. \A i \in DOMAIN rows' : Wanted(rows[i])'
      BY <1>3, <1>4, <2>1, <2>3
    <2> QED
      BY <2>2, <2>4, <2>5 DEF Filtered
  <1>8. CASE WhereRow
    <2>1. /\ stage' = "filter" /\ stage = "filter" /\ at[1] \in 1..Len(rows)
          /\ \/ /\ rows' = rows /\ at' = <<at[1] + 1, 1>>
                /\ Satisfies(rows[at[1]], q.where, {})
             \/ /\ rows' = RemoveAt(rows, at[1]) /\ at' = at
                /\ ~Satisfies(rows[at[1]], q.where, {})
      BY <1>8, WhereRowStep
    <2>2. Wanted(rows[at[1]]) <=> Satisfies(rows[at[1]], q.where, {})
      BY <2>1 DEF Wanted, Staged
    <2>3. CASE rows' = rows /\ at' = <<at[1] + 1, 1>> /\ Satisfies(rows[at[1]], q.where, {})
      <3>1. \A c \in LeftRows' : Wanted(c)' => c \in Range(rows')
        BY <1>3, <1>4, <2>3
      <3>2. \A i \in DOMAIN rows : i < at'[1] => i < at[1] \/ i = at[1]
        BY <1>5, <2>3
      <3>3. \A i \in DOMAIN rows' : i < at'[1] => Wanted(rows[i])'
        BY <1>3, <1>4, <2>1, <2>2, <2>3, <3>2
      <3> QED
        BY <2>1, <3>1, <3>3 DEF Filtered
    <2>4. CASE rows' = RemoveAt(rows, at[1]) /\ at' = at /\ ~Satisfies(rows[at[1]], q.where, {})
      <3> DEFINE k == at[1]
      <3>1. /\ \A x \in Range(rows) : x # rows[k] => x \in Range(rows')
            /\ \A i \in 1..(Len(rows) - 1) : i < k => rows'[i] = rows[i]
        BY <1>5, <2>1, <2>4, RemoveDiffers
      <3>2. DOMAIN rows' = 1..(Len(rows) - 1)
        <4>1. rows' \in Seq(Combined) /\ Len(rows') = Len(rows) - 1
          BY <1>5, <2>1, <2>4, RemoveAtShifts
        <4> QED
          BY <4>1
      <3>3. \A c \in LeftRows' : Wanted(c)' => c \in Range(rows')
        BY <1>3, <1>4, <2>2, <2>4, <3>1
      <3>4. \A i \in DOMAIN rows' : i < at[1] => Wanted(rows'[i])
        <4>1. SUFFICES ASSUME NEW i \in DOMAIN rows', i < at[1] PROVE Wanted(rows'[i])
          OBVIOUS
        <4>2. rows'[i] = rows[i] /\ i \in DOMAIN rows
          BY <1>5, <3>1, <3>2, <4>1
        <4> QED
          BY <1>3, <2>1, <4>1, <4>2
      <3>5. \A i \in DOMAIN rows' : i < at'[1] => Wanted(rows[i])'
        BY <1>4, <2>4, <3>4
      <3> QED
        BY <2>1, <3>3, <3>5 DEF Filtered
    <2> QED
      BY <2>1, <2>3, <2>4
  <1> QED
    BY <1>6, <1>7, <1>8

\* The first SELECT of a UNION keeps the rows its WHERE is true of.
LEMMA FilteredNext == TypeOK /\ Staged /\ Loaded /\ Filtered /\ Next => Filtered'
  <1> SUFFICES ASSUME TypeOK, Staged, Loaded, Filtered, Next, q'.kind \in Unions, faults' = 0,
                      stage' \in {"where", "filter", "union"}
               PROVE  Filtered'
    BY DEF Filtered
  <1>1. q' = q /\ input' = input
    BY DEF Next, Load, From, JoinPair, NextLeft, Pad, Where, WhereRow, WhereFails, WhereDone, Union, GroupRow, GroupFails,
           Aggregate, GroupsDone, AggregateAll, Order, Limit, NextPage, q
  <1>2. CASE From
    <2>1. rows' = Left(lrows) /\ stage' = "where" /\ stage = "join" /\ faults = 0
      BY <1>1, <1>2 DEF From, Unions
    <2>2. lrows \in Seq(Places(input.l)) /\ Range(lrows) = Places(input.l)
      BY <2>1 DEF TypeOK, Loaded, LoadedFrom
    <2>3. Range(rows') = LeftRows
      BY <2>1, <2>2, LeftRightDiffer DEF LeftRows
    <2>4. LeftRows' = LeftRows
      BY <1>1 DEF LeftRows
    <2> QED
      BY <2>1, <2>3, <2>4 DEF Filtered
  <1>3. CASE Pad
    BY <1>1, <1>3 DEF Pad, Joins, Unions
  <1>4. ~Load /\ ~JoinPair /\ ~NextLeft /\ ~Union /\ ~GroupRow /\ ~Aggregate /\ ~GroupsDone
        /\ ~AggregateAll /\ ~Order /\ ~Limit /\ ~NextPage /\ ~WhereFails /\ ~GroupFails
    BY DEF WhereFails, GroupFails, Load, JoinPair, NextLeft, Union, GroupRow, Aggregate, GroupsDone, AggregateAll, Order, Limit,
           NextPage
  <1> QED
    BY <1>1, <1>2, <1>3, <1>4, FilteredWhere DEF Next

\* What JoinIsRelational asks for, in terms of the places of the tables.
Matching == {c \in [l : Places(input.l), r : Places(input.r)] : Equal(c.l, c.r)}
LeftAlone == {[l |-> a, r |-> NoRow] : a \in {x \in Places(input.l) : \A b \in Places(input.r) : ~Equal(x, b)}}
RightAlone == {[l |-> NoRow, r |-> b] : b \in {x \in Places(input.r) : \A a \in Places(input.l) : ~Equal(a, x)}}
AllJoined == Matching \cup (IF q.kind \in {"left", "full"} THEN LeftAlone ELSE {})
                      \cup (IF q.kind \in {"right", "full"} THEN RightAlone ELSE {})

\* The rows of a table, when every page is read, are its places.
LEMMA AllRows ==
    ASSUME input \in Inputs
    PROVE  /\ Range(RowsOf(input.l, {})) = Places(input.l)
           /\ Range(RowsOf(input.r, {})) = Places(input.r)
  <1>1. Range(RowsOf(input.l, {})) = {x \in Places(input.l) : x[1] \notin {}}
    BY InputType, RowsOfTable
  <1>2. Range(RowsOf(input.r, {})) = {x \in Places(input.r) : x[1] \notin {}}
    BY InputType, RowsOfTable
  <1> QED
    BY <1>1, <1>2

\* JoinIsRelational, in terms of the places of the tables.
LEMMA JoinMeaning ==
    ASSUME input \in Inputs, input' = input
    PROVE  JoinIsRelational' <=>
             (stage' = "where" /\ q.kind \in {"join", "left", "right", "full"} =>
                /\ IsInjective(rows')
                /\ faults' = 0 => Range(rows') = AllJoined
                /\ q.kind = "join" => Range(rows') \subseteq AllJoined)
  <1>1. /\ Range(RowsOf(input'.l, {})) = Places(input.l)
        /\ Range(RowsOf(input'.r, {})) = Places(input.r)
    BY AllRows
  <1>2. q' = q /\ \A a, b : Equal(a, b)' <=> Equal(a, b)
    BY DEF q, Equal
  <1> QED
    BY <1>1, <1>2 DEF JoinIsRelational, AllJoined, Matching, LeftAlone, RightAlone

\* A pair of rows matches when their values of k are equal.
LEMMA MatchesEqual ==
    ASSUME input \in Inputs, q.kind # "natural", NEW a \in Places(input.l), NEW b \in Places(input.r)
    PROVE  Matches([l |-> a, r |-> b]) <=> Equal(a, b)
  <1> DEFINE c == [l |-> a, r |-> b]
  <1>1. NoRow \notin Places(input.l) /\ NoRow \notin Places(input.r)
    BY InputType, NoRowIsNoPlace
  <1>2. a # NoRow /\ b # NoRow
    BY <1>1
  <1>3. Value(c, Col("l", "k")) = input.l[a[1]][a[2]].k
    BY <1>2 DEF Value, ValueIn, Col
  <1>4. Value(c, Col("r", "k")) = input.r[b[1]][b[2]].k
    BY <1>2 DEF Value, ValueIn, Col
  <1> HIDE DEF c
  <1>5. Matches(c) <=> input.l[a[1]][a[2]].k = input.r[b[1]][b[2]].k
    BY <1>3, <1>4 DEF Matches
  <1> QED
    BY <1>5 DEF Equal, c

\* When the loop is over the rows are the pairs of loaded rows that match.
LEMMA LoopOver ==
    ASSUME TypeOK, JoinedSoFar, stage = "join", q.kind \in Joins, q.kind # "natural", ~InLoop
    PROVE  Range(rows) = {c \in [l : Range(lrows), r : Range(rrows)] : Equal(c.l, c.r)}
  <1> DEFINE L == DOMAIN lrows
             R == DOMAIN rrows
  <1>1. /\ at[1] \in Nat /\ at[1] > Len(lrows) /\ Len(lrows) \in Nat /\ L = 1..Len(lrows)
        /\ lrows \in Seq(Places(input.l)) /\ rrows \in Seq(Places(input.r)) /\ input \in Inputs
    BY DEF TypeOK, InLoop
  <1>2. /\ \A c \in Range(rows) : \E i \in L, j \in R : c = Pair(i, j) /\ Matches(c)
        /\ \A i \in L, j \in R : Visited(i, j) /\ Matches(Pair(i, j)) => Pair(i, j) \in Range(rows)
    BY DEF JoinedSoFar
  <1>3. \A i \in L, j \in R : Visited(i, j)
    BY <1>1 DEF Visited
  <1>4. \A i \in L, j \in R : Matches(Pair(i, j)) <=> Equal(lrows[i], rrows[j])
    <2>1. \A i \in L : lrows[i] \in Places(input.l)
      BY <1>1
    <2>2. \A j \in R : rrows[j] \in Places(input.r)
      BY <1>1
    <2> QED
      BY <1>1, <2>1, <2>2, MatchesEqual DEF Pair
  <1> DEFINE Right1 == {c \in [l : Range(lrows), r : Range(rrows)] : Equal(c.l, c.r)}
  <1>5. ASSUME NEW c \in Range(rows) PROVE c \in Right1
    <2>1. PICK i \in L, j \in R : c = Pair(i, j) /\ Matches(c)
      BY <1>2
    <2>2. Equal(lrows[i], rrows[j]) /\ lrows[i] \in Range(lrows) /\ rrows[j] \in Range(rrows)
      BY <1>4, <2>1 DEF Range
    <2> QED
      BY <2>1, <2>2 DEF Pair
  <1>6. ASSUME NEW c \in Right1 PROVE c \in Range(rows)
    <2>1. c.l \in Range(lrows) /\ c.r \in Range(rrows) /\ Equal(c.l, c.r) /\ c = [l |-> c.l, r |-> c.r]
      OBVIOUS
    <2>2. PICK i \in L, j \in R : c.l = lrows[i] /\ c.r = rrows[j]
      BY <2>1 DEF Range
    <2>3. c = Pair(i, j)
      BY <2>1, <2>2 DEF Pair
    <2> QED
      BY <1>2, <1>3, <1>4, <2>1, <2>2, <2>3
  <1> QED
    BY <1>5, <1>6

\* What a join answers is what relational algebra asks for.
LEMMA PadRelational == TypeOK /\ Loaded /\ JoinedSoFar /\ Pad => JoinIsRelational'
  <1> SUFFICES ASSUME TypeOK, Loaded, JoinedSoFar, Pad PROVE JoinIsRelational'
    OBVIOUS
  <1> DEFINE ls == Left(Unmatched("l", lrows))
             rs == Right(Unmatched("r", rrows))
             a == IF q.kind \in {"left", "full"} THEN ls ELSE <<>>
             b == IF q.kind \in {"right", "full"} THEN rs ELSE <<>>
             X == Range(lrows)
             Y == Range(rrows)
  <1>1. /\ rows' = rows \o a \o b /\ stage = "join" /\ stage' = "where" /\ q.kind \in Joins /\ ~InLoop
        /\ input' = input /\ faults' = faults
    BY DEF Pad
  <1>2. input \in Inputs
    BY DEF TypeOK
  <1>3. JoinIsRelational' <=>
             (stage' = "where" /\ q.kind \in {"join", "left", "right", "full"} =>
                /\ IsInjective(rows')
                /\ faults' = 0 => Range(rows') = AllJoined
                /\ q.kind = "join" => Range(rows') \subseteq AllJoined)
    BY <1>1, <1>2, JoinMeaning
  <1>4. SUFFICES ASSUME q.kind \in {"join", "left", "right", "full"}
                 PROVE  /\ faults = 0 => Range(rows') = AllJoined
                        /\ q.kind = "join" => Range(rows') \subseteq AllJoined
    <2>1. IsInjective(rows')
      BY DifferPad
    <2> HIDE DEF ls, rs, a, b, X, Y
    <2> QED
      BY <1>1, <1>2, <1>3, <2>1
  <1>5. /\ ls \in Seq(Combined) /\ rs \in Seq(Combined)
        /\ Range(ls) = {[l |-> p, r |-> NoRow] : p \in {x \in X : \A c \in Range(rows) : c["l"] # x}}
        /\ Range(rs) = {[l |-> NoRow, r |-> p] : p \in {x \in Y : \A c \in Range(rows) : c["r"] # x}}
    BY <1>1, PadDiffers
  <1>6. Range(rows) = {c \in [l : X, r : Y] : Equal(c.l, c.r)} /\ rows \in Seq(Combined)
    BY <1>1, <1>4, LoopOver DEF TypeOK
  <1>7. X \subseteq Places(input.l) /\ Y \subseteq Places(input.r)
    <2>1. lrows \in Seq(Places(input.l)) /\ rrows \in Seq(Places(input.r))
      BY DEF TypeOK
    <2> QED
      BY <2>1 DEF Range
  <1>8. faults = 0 => X = Places(input.l) /\ Y = Places(input.r)
    BY <1>1 DEF Loaded, LoadedFrom
  <1> HIDE DEF ls, rs, X, Y
  <1>9. Range(rows') = Range(rows) \cup Range(a) \cup Range(b)
    <2>1. <<>> \in Seq(Combined)
      OBVIOUS
    <2>2. a \in Seq(Combined) /\ b \in Seq(Combined)
      BY <1>5, <2>1
    <2> HIDE DEF a, b
    <2> DEFINE u == rows \o a
    <2>3. u \in Seq(Combined) /\ Range(u) = Range(rows) \cup Range(a)
      BY <1>6, <2>2, ConcatDiffer
    <2>4. rows' = u \o b
      BY <1>1
    <2> HIDE DEF u
    <2>5. Range(u \o b) = Range(u) \cup Range(b)
      BY <2>2, <2>3, ConcatDiffer
    <2> QED
      BY <2>3, <2>4, <2>5
  <1>10. Range(<<>>) = {}
    BY DEF Range
  <1>11. \A x \in X : (\A c \in Range(rows) : c["l"] # x) <=> (\A y \in Y : ~Equal(x, y))
    <2>1. SUFFICES ASSUME NEW x \in X
                   PROVE  (\E c \in Range(rows) : c["l"] = x) <=> (\E y \in Y : Equal(x, y))
      OBVIOUS
    <2>2. ASSUME NEW c \in Range(rows), c["l"] = x PROVE \E y \in Y : Equal(x, y)
      BY <1>6, <2>2
    <2>3. ASSUME NEW y \in Y, Equal(x, y) PROVE \E c \in Range(rows) : c["l"] = x
      <3>1. [l |-> x, r |-> y] \in Range(rows)
        BY <1>6, <2>3
      <3> QED
        BY <3>1
    <2> QED
      BY <2>2, <2>3
  <1>12. \A y \in Y : (\A c \in Range(rows) : c["r"] # y) <=> (\A x \in X : ~Equal(x, y))
    <2>1. SUFFICES ASSUME NEW y \in Y
                   PROVE  (\E c \in Range(rows) : c["r"] = y) <=> (\E x \in X : Equal(x, y))
      OBVIOUS
    <2>2. ASSUME NEW c \in Range(rows), c["r"] = y PROVE \E x \in X : Equal(x, y)
      BY <1>6, <2>2
    <2>3. ASSUME NEW x \in X, Equal(x, y) PROVE \E c \in Range(rows) : c["r"] = y
      <3>1. [l |-> x, r |-> y] \in Range(rows)
        BY <1>6, <2>3
      <3> QED
        BY <3>1
    <2> QED
      BY <2>2, <2>3
  <1>13. ASSUME faults = 0 PROVE Range(rows') = AllJoined
    <2>1. X = Places(input.l) /\ Y = Places(input.r)
      BY <1>8, <1>13
    <2>2. Range(rows) = Matching
      BY <1>6, <2>1 DEF Matching
    <2>3. Range(ls) = LeftAlone
      <3>1. {x \in X : \A c \in Range(rows) : c["l"] # x} = {x \in X : \A y \in Y : ~Equal(x, y)}
        BY <1>11
      <3> QED
        BY <1>5, <2>1, <3>1 DEF LeftAlone
    <2>4. Range(rs) = RightAlone
      <3>1. {y \in Y : \A c \in Range(rows) : c["r"] # y} = {y \in Y : \A x \in X : ~Equal(x, y)}
        BY <1>12
      <3> QED
        BY <1>5, <2>1, <3>1 DEF RightAlone
    <2>5. Range(a) = (IF q.kind \in {"left", "full"} THEN LeftAlone ELSE {})
      BY <1>10, <2>3
    <2>6. Range(b) = (IF q.kind \in {"right", "full"} THEN RightAlone ELSE {})
      BY <1>10, <2>4
    <2> HIDE DEF a, b
    <2> QED
      BY <1>9, <2>2, <2>5, <2>6 DEF AllJoined
  <1>14. ASSUME q.kind = "join" PROVE Range(rows') \subseteq AllJoined
    <2>1. Range(a) = {} /\ Range(b) = {}
      BY <1>10, <1>14
    <2>2. Range(rows) \subseteq Matching
      BY <1>6, <1>7 DEF Matching
    <2> HIDE DEF a, b
    <2> QED
      BY <1>9, <2>1, <2>2 DEF AllJoined
  <1> QED
    BY <1>13, <1>14

\* No other step disturbs it.
LEMMA JoinNext == TypeOK /\ Loaded /\ JoinedSoFar /\ Next => JoinIsRelational'
  <1> SUFFICES ASSUME TypeOK, Loaded, JoinedSoFar, Next PROVE JoinIsRelational'
    OBVIOUS
  <1>1. CASE Pad
    BY <1>1, PadRelational
  <1>2. CASE From
    <2>1. q' = q /\ q.kind \notin Joins
      BY <1>2 DEF From, q
    <2> QED
      BY <2>1 DEF JoinIsRelational, Joins
  <1>3. CASE ~Pad /\ ~From
    <2>1. stage' # "where"
      BY <1>3 DEF Next, Load, JoinPair, NextLeft, Where, WhereRow, WhereFails, WhereDone, Union, GroupRow, GroupFails,
           Aggregate, GroupsDone, AggregateAll, Order, Limit, NextPage, AfterWhere
    <2> QED
      BY <2>1 DEF JoinIsRelational
  <1> QED
    BY <1>1, <1>2, <1>3

RightRows == {[l |-> NoRow, r |-> x] : x \in Places(input.r)}
AllOfUnion == {c \in LeftRows : Wanted(c)} \cup RightRows

\* Of the rows s exactly one has the text of c.
OneOfText(s, c) ==
    \E i \in DOMAIN s : \A j \in DOMAIN s : (RowText(s[j]) = RowText(c)) = (i = j)

\* UnionIsSet, in terms of the places of the tables.
LEMMA UnionMeaning ==
    ASSUME input \in Inputs, input' = input
    PROVE  UnionIsSet' <=>
             (stage' = "order" /\ q.kind \in Unions =>
                /\ IsInjective(rows')
                /\ Range(rows') \subseteq LeftRows \cup RightRows
                /\ faults' = 0 =>
                      /\ Range(rows') \subseteq AllOfUnion
                      /\ IF q.kind = "unionall" THEN Range(rows') = AllOfUnion
                         ELSE \A c \in AllOfUnion : OneOfText(rows', c))
  <1> DEFINE X == RowsOf(input.l, {})
             Y == RowsOf(input.r, {})
  <1>1. Range(X) = Places(input.l) /\ Range(Y) = Places(input.r)
    BY AllRows
  <1>2. X \in Seq(Places(input.l)) /\ Y \in Seq(Places(input.r))
    BY InputType, RowsOfTable
  <1>3. Range(Left(X)) = LeftRows /\ Range(Right(Y)) = RightRows
    BY <1>1, <1>2, LeftRightDiffer DEF LeftRows, RightRows
  <1>4. q' = q /\ input'.l = input.l /\ input'.r = input.r
    BY DEF q
  <1>5. \A c : Wanted(c)' <=> Wanted(c)
    BY SameWanted
  <1>6. \A c : RowText(c)' = RowText(c)
    BY DEF RowText, Value, ValueIn, Col
  <1>7. \A c : (q.where = <<>> \/ Satisfies(c, q.where, {}))' <=> Wanted(c)
    BY DEF Satisfies, Wanted, q
  <1>9. Range(Left(X))' = LeftRows /\ Range(Right(Y))' = RightRows
    BY <1>3
  <1> DEFINE L == Range(Left(X))
             R == Range(Right(Y))
             All == {c \in L : q.where = <<>> \/ Satisfies(c, q.where, {})} \cup R
  <1>10. All' = AllOfUnion
    <2>1. \A c \in L' : (q.where = <<>> \/ Satisfies(c, q.where, {}))' <=> Wanted(c)
      BY <1>7
    <2> QED
      BY <1>7, <1>9 DEF AllOfUnion
  <1>11. UnionIsSet' <=>
           (stage' = "order" /\ q'.kind \in Unions =>
                /\ IsInjective(rows')
                /\ Range(rows') \subseteq L' \cup R'
                /\ faults' = 0 =>
                      /\ Range(rows') \subseteq All'
                      /\ IF q'.kind = "unionall" THEN Range(rows') = All'
                         ELSE \A c \in All' : OneOfText(rows, c)')
    BY DEF UnionIsSet, OneOfText
  <1>12. L' = LeftRows /\ R' = RightRows
    BY <1>9
  <1>13. \A c : OneOfText(rows, c)' <=> OneOfText(rows', c)
    BY <1>6 DEF OneOfText
  <1> HIDE DEF L, R, All
  <1> QED
    BY <1>4, <1>10, <1>11, <1>12, <1>13

\* Of the rows with one text the first is kept and no other.
LEMMA DistinctTexts ==
    ASSUME NEW s \in Seq(Combined), NEW m \in DOMAIN s
    PROVE  OneOfText(Distinct(s), s[m])
  <1> DEFINE t == Distinct(s)
             I == {n \in DOMAIN s : \A i \in 1..(n - 1) : RowText(s[i]) # RowText(s[n])}
             N == {n \in DOMAIN s : RowText(s[n]) = RowText(s[m])}
  <1>1. t \in Seq(Combined) /\ \E f : Picks(f, t, s, I)
    BY DistinctPicks
  <1>2. DOMAIN s = 1..Len(s) /\ Len(s) \in Nat
    OBVIOUS
  <1>3. N \in SUBSET Nat /\ N # {}
    BY <1>2
  <1>4. PICK n \in N : \A k \in N : ~(k < n)
    BY <1>3, NatLeast
  <1>5. n \in I
    <2>1. n \in DOMAIN s /\ RowText(s[n]) = RowText(s[m])
      OBVIOUS
    <2>2. ASSUME NEW i \in 1..(n - 1), RowText(s[i]) = RowText(s[n]) PROVE FALSE
      <3>1. i \in DOMAIN s /\ i < n
        BY <1>2, <2>1
      <3>2. i \in N
        BY <2>1, <2>2, <3>1
      <3> QED
        BY <1>4, <3>1, <3>2
    <2> QED
      BY <2>1, <2>2
  <1>6. PICK f : Picks(f, t, s, I)
    BY <1>1
  <1> HIDE DEF t, I
  <1>7. /\ \A i \in 1..Len(t) : f[i] \in I /\ t[i] = s[f[i]]
        /\ \A i, j \in 1..Len(t) : i < j => f[i] < f[j]
        /\ \A k \in I : \E i \in 1..Len(t) : f[i] = k
        /\ DOMAIN t = 1..Len(t) /\ Len(t) \in Nat
    <2>1. f \in [1..Len(t) -> I]
      BY <1>6 DEF Picks
    <2>2. /\ \A i \in 1..Len(t) : t[i] = s[f[i]]
          /\ \A i, j \in 1..Len(t) : i < j => f[i] < f[j]
          /\ \A k \in I : \E i \in 1..Len(t) : f[i] = k
      BY <1>6 DEF Picks
    <2>3. DOMAIN t = 1..Len(t) /\ Len(t) \in Nat
      BY <1>1
    <2>4. \A i \in 1..Len(t) : f[i] \in I
      BY <2>1
    <2> QED
      BY <2>2, <2>3, <2>4
  <1>8. PICK i \in 1..Len(t) : f[i] = n
    BY <1>5, <1>7
  <1>9. \A a, b \in I : a < b => RowText(s[a]) # RowText(s[b])
    <2>1. \A a, b \in I : a < b => a \in 1..(b - 1)
      BY <1>2 DEF I
    <2> QED
      BY <2>1 DEF I
  <1>10. \A a \in I : a \in Nat
    BY <1>2 DEF I
  <1>11. RowText(t[i]) = RowText(s[m])
    BY <1>7, <1>8
  <1>12. ASSUME NEW j \in 1..Len(t), RowText(t[j]) = RowText(s[m]), i # j PROVE FALSE
    <2>1. RowText(s[f[i]]) = RowText(s[f[j]]) /\ f[i] \in I /\ f[j] \in I
      BY <1>7, <1>11, <1>12
    <2> HIDE DEF I
    <2>2. f[i] < f[j] \/ f[j] < f[i]
      <3>1. i < j \/ j < i
        BY <1>12
      <3> QED
        BY <1>7, <3>1
    <2> QED
      BY <1>9, <2>1, <2>2
  <1> QED
    BY <1>7, <1>11, <1>12, SMTT(60) DEF OneOfText, t

\* Before duplicates are removed the rows of both SELECTs are there.
LEMMA UnionAll ==
    ASSUME TypeOK, Loaded, Staged, OneTableOnly, RowsDiffer, Filtered, stage = "union"
    PROVE  /\ Range(rows \o Right(rrows)) \subseteq LeftRows \cup RightRows
           /\ faults = 0 => Range(rows \o Right(rrows)) = AllOfUnion
  <1> DEFINE both == rows \o Right(rrows)
             R == Range(Right(rrows))
  <1>1. Range(both) = Range(rows) \cup R /\ Range(rows) \subseteq LeftRows
    BY BothDiffer
  <1>2. R = {[l |-> NoRow, r |-> p] : p \in Range(rrows)}
    BY BothDiffer
  <1>3. Range(rrows) \subseteq Places(input.r)
    <2>1. rrows \in Seq(Places(input.r))
      BY DEF TypeOK
    <2> QED
      BY <2>1 DEF Range
  <1>4. R \subseteq RightRows
    BY <1>2, <1>3 DEF RightRows
  <1>5. ASSUME faults = 0 PROVE Range(both) = AllOfUnion
    <2>1. Range(rrows) = Places(input.r)
      BY <1>5 DEF Loaded, LoadedFrom
    <2>2. R = RightRows
      BY <1>2, <2>1 DEF RightRows
    <2>3. q.kind \in Unions
      BY DEF Staged
    <2>4. (\A c \in LeftRows : Wanted(c) => c \in Range(rows)) /\ \A c \in Range(rows) : Wanted(c)
      <3>1. (\A c \in LeftRows : Wanted(c) => c \in Range(rows)) /\ \A i \in DOMAIN rows : Wanted(rows[i])
        BY <1>5, <2>3 DEF Filtered
      <3> QED
        BY <3>1 DEF Range
    <2>5. Range(rows) = {c \in LeftRows : Wanted(c)}
      BY <1>1, <2>4
    <2> HIDE DEF both, R
    <2> QED
      BY <1>1, <2>2, <2>5 DEF AllOfUnion
  <1> HIDE DEF both, R
  <1>6. Range(both) \subseteq LeftRows \cup RightRows
    BY <1>1, <1>4
  <1> QED
    BY <1>5, <1>6 DEF both

\* UNION has of the rows with one text one, UNION ALL has all rows.
LEMMA UnionMakesSet ==
    TypeOK /\ Loaded /\ Staged /\ OneTableOnly /\ RowsDiffer /\ Filtered /\ Union => UnionIsSet'
  <1> SUFFICES ASSUME TypeOK, Loaded, Staged, OneTableOnly, RowsDiffer, Filtered, Union
               PROVE  UnionIsSet'
    OBVIOUS
  <1> DEFINE both == rows \o Right(rrows)
             I == {n \in DOMAIN both : \A i \in 1..(n - 1) : RowText(both[i]) # RowText(both[n])}
  <1>1. /\ rows' = IF q.kind = "union" THEN Distinct(both) ELSE both
        /\ input' = input /\ faults' = faults /\ stage = "union"
    BY DEF Union
  <1>2. input \in Inputs /\ q.kind \in Unions
    BY <1>1 DEF TypeOK, Staged
  <1>3. IsInjective(rows')
    BY DifferUnion
  <1>4. both \in Seq(Combined)
    BY <1>1, BothDiffer
  <1>5. Range(both) \subseteq LeftRows \cup RightRows /\ (faults = 0 => Range(both) = AllOfUnion)
    BY <1>1, UnionAll
  <1> HIDE DEF both
  <1>6. Range(Distinct(both)) \subseteq Range(both)
    <2>1. Distinct(both) \in Seq(Combined) /\ \E f : Picks(f, Distinct(both), both, I)
      BY <1>4, DistinctPicks
    <2>2. I \in SUBSET DOMAIN both
      OBVIOUS
    <2> HIDE DEF I
    <2>3. Range(Distinct(both)) = {both[n] : n \in I}
      BY <1>4, <2>1, <2>2, PicksDiffer
    <2> QED
      BY <2>2, <2>3 DEF Range
  <1>7. \A c \in Range(both) : OneOfText(Distinct(both), c)
    BY <1>4, DistinctTexts DEF Range
  <1>8. /\ Range(rows') \subseteq LeftRows \cup RightRows
        /\ faults = 0 =>
              /\ Range(rows') \subseteq AllOfUnion
              /\ IF q.kind = "unionall" THEN Range(rows') = AllOfUnion
                 ELSE \A c \in AllOfUnion : OneOfText(rows', c)
    <2>1. CASE q.kind = "union"
      <3>1. rows' = Distinct(both)
        BY <1>1, <2>1
      <3> QED
        BY <1>5, <1>6, <1>7, <2>1, <3>1
    <2>2. CASE q.kind = "unionall"
      <3>1. rows' = both
        BY <1>1, <2>2
      <3> QED
        BY <1>5, <2>2, <3>1
    <2> QED
      BY <1>2, <2>1, <2>2 DEF Unions
  <1> QED
    BY <1>1, <1>2, <1>3, <1>8, UnionMeaning

\* No other step disturbs it.
LEMMA UnionNext ==
    TypeOK /\ Loaded /\ Staged /\ OneTableOnly /\ RowsDiffer /\ Filtered /\ Next => UnionIsSet'
  <1> SUFFICES ASSUME TypeOK, Loaded, Staged, OneTableOnly, RowsDiffer, Filtered, Next
               PROVE  UnionIsSet'
    OBVIOUS
  <1>1. CASE Union
    BY <1>1, UnionMakesSet
  <1>2. CASE Where \/ WhereDone
    <2>1. q' = q /\ stage' \in {AfterWhere, "filter"}
      BY <1>2 DEF Where, WhereDone, q
    <2>2. q.kind \in Unions => stage' # "order"
      BY <2>1 DEF AfterWhere
    <2> QED
      BY <2>1, <2>2 DEF UnionIsSet
  <1>3. CASE GroupsDone \/ AggregateAll
    <2>1. q' = q /\ stage = "group"
      BY <1>3 DEF GroupsDone, AggregateAll, q
    <2>2. q.kind \notin Unions
      BY <2>1, InputType DEF TypeOK, Staged
    <2> QED
      BY <2>1, <2>2 DEF UnionIsSet
  <1>4. CASE ~(Union \/ Where \/ WhereDone \/ GroupsDone \/ AggregateAll)
    <2>1. stage' # "order"
      BY <1>4 DEF Next, Load, From, JoinPair, NextLeft, Pad, WhereRow, WhereFails, GroupRow, GroupFails,
           Aggregate, Order, Limit, NextPage
    <2> QED
      BY <2>1 DEF UnionIsSet
  <1> QED
    BY <1>1, <1>2, <1>3, <1>4

\* What SortedAndStable asks for of the sorted sequence s.
Sorted(s) ==
    \A a, b \in DOMAIN s : a < b =>
        /\ IF q.desc THEN ~Below(SortKey(s[a]), SortKey(s[b])) ELSE ~Below(SortKey(s[b]), SortKey(s[a]))
        /\ SortKey(s[a]) = SortKey(s[b]) /\ ~q.aggregate /\ q.kind = "table" => StoredBefore(s[a].l, s[b].l)

\* A sorted sequence of rows is in order, and stable when the rows were in
\* stored order.
LEMMA SortedSequence ==
    ASSUME NEW S, NEW s \in Seq(S), \A i \in 1..Len(s) : SortKey(s[i]) \in Known,
           ~q.aggregate /\ q.kind = "table" =>
               \A a, b \in DOMAIN s : a < b => StoredBefore(s[a].l, s[b].l)
    PROVE  Sorted(StableSort(s))
  <1> DEFINE t == StableSort(s)
             n == Len(s)
  <1>1. t \in Seq(S) /\ Len(t) = n
    BY StableSortSorts
  <1>2. \A i, j \in 1..n : i < j =>
            \E a, b \in 1..n : t[i] = s[a] /\ t[j] = s[b] /\ SortsBefore(s, a, b)
    BY StableSortSorts
  <1>3. DOMAIN t = 1..n /\ DOMAIN s = 1..n /\ n \in Nat
    BY <1>1
  <1> HIDE DEF t
  <1>4. SUFFICES ASSUME NEW i \in 1..n, NEW j \in 1..n, i < j
                 PROVE  /\ IF q.desc THEN ~Below(SortKey(t[i]), SortKey(t[j]))
                           ELSE ~Below(SortKey(t[j]), SortKey(t[i]))
                        /\ SortKey(t[i]) = SortKey(t[j]) /\ ~q.aggregate /\ q.kind = "table" =>
                              StoredBefore(t[i].l, t[j].l)
    BY <1>3 DEF Sorted, t
  <1>5. PICK a \in 1..n, b \in 1..n : t[i] = s[a] /\ t[j] = s[b] /\ SortsBefore(s, a, b)
    BY <1>2, <1>4
  <1>6. PICK v \in Known, w \in Known : v = SortKey(s[a]) /\ w = SortKey(s[b])
    OBVIOUS
  <1>7. Less(v, w) \/ (a < b /\ ~Less(w, v))
    BY <1>5, <1>6 DEF SortsBefore
  <1>8. ~Less(w, v) /\ (v = w => ~Less(v, w))
    BY <1>7, LessIsWeakOrder
  <1>9. IF q.desc THEN ~Below(v, w) ELSE ~Below(w, v)
    BY <1>8, LessIsBelow
  <1>10. v = w => a < b
    BY <1>7, <1>8
  <1> QED
    BY <1>3, <1>5, <1>6, <1>9, <1>10

\* ORDER BY sorts the rows or the results.
LEMMA SortedNext == TypeOK /\ OneTableOnly /\ Next => SortedAndStable'
  <1> SUFFICES ASSUME TypeOK, OneTableOnly, Next, stage' = "limit", q'.orderBy # "none"
               PROVE  SortedAndStable'
    BY DEF SortedAndStable
  <1>1. Order
    BY DEF Next, Load, From, JoinPair, NextLeft, Pad, Where, WhereRow, WhereFails, WhereDone, Union, GroupRow, GroupFails,
           Aggregate, GroupsDone, AggregateAll, Limit, NextPage, AfterWhere
  <1>2. /\ stage = "order" /\ input' = input
        /\ IF q.aggregate
           THEN results' = (IF q.orderBy = "none" THEN results ELSE StableSort(results))
           ELSE rows' = (IF q.orderBy = "none" THEN rows ELSE StableSort(rows))
    BY <1>1 DEF Order
  <1>3. q' = q
    BY <1>2 DEF q
  <1>4. \A x : SortKey(x)' = SortKey(x)
    BY <1>2 DEF SortKey, RowText, Value, ValueIn, Col, q
  <1> DEFINE s == IF q.aggregate THEN results' ELSE rows'
  <1>5. Sorted(s)
    <2>1. CASE q.aggregate
      <3>1. results \in Seq(Results) /\ \A i \in 1..Len(results) : results[i] \in Results
        BY DEF TypeOK
      <3>2. \A i \in 1..Len(results) : SortKey(results[i]) \in Known
        BY <1>3, <2>1, <3>1, ResultKeys
      <3>3. Sorted(StableSort(results))
        BY <2>1, <3>1, <3>2, SortedSequence
      <3> QED
        BY <1>2, <1>3, <2>1, <3>3
    <2>2. CASE ~q.aggregate
      <3>1. rows \in Seq(Combined) /\ \A i \in 1..Len(rows) : rows[i] \in Combined
        BY DEF TypeOK
      <3>2. \A i \in 1..Len(rows) : SortKey(rows[i]) \in Known
        BY <1>3, <2>2, <3>1, RowKeys
      <3>3. q.kind = "table" => \A a, b \in DOMAIN rows : a < b => StoredBefore(rows[a].l, rows[b].l)
        BY <1>2 DEF OneTableOnly
      <3>4. Sorted(StableSort(rows))
        BY <3>1, <3>2, <3>3, SortedSequence
      <3> QED
        BY <1>2, <1>3, <2>2, <3>4
    <2> QED
      BY <2>1, <2>2
  <1> HIDE DEF s
  <1>6. \A a, b \in DOMAIN s : a < b =>
          /\ IF q.desc THEN ~Below(SortKey(s[a]), SortKey(s[b])) ELSE ~Below(SortKey(s[b]), SortKey(s[a]))
          /\ SortKey(s[a]) = SortKey(s[b]) /\ ~q.aggregate /\ q.kind = "table" =>
                \/ s[a].l[1] < s[b].l[1]
                \/ s[a].l[1] = s[b].l[1] /\ s[a].l[2] < s[b].l[2]
    BY <1>5 DEF Sorted, StoredBefore
  <1>7. \A v, w : Below(v, w)' <=> Below(v, w)
    BY DEF Below
  <1>8. SortedAndStable' <=>
          \A a, b \in DOMAIN s : a < b =>
            /\ (IF q.desc THEN ~Below(SortKey(s[a]), SortKey(s[b])) ELSE ~Below(SortKey(s[b]), SortKey(s[a])))
            /\ SortKey(s[a]) = SortKey(s[b]) /\ ~q.aggregate /\ q.kind = "table" =>
                \/ s[a].l[1] < s[b].l[1]
                \/ s[a].l[1] = s[b].l[1] /\ s[a].l[2] < s[b].l[2]
    BY <1>2, <1>3, <1>4, <1>7 DEF SortedAndStable, s
  <1> QED
    BY <1>6, <1>8

\* Picks, taken apart.
LEMMA PicksFacts ==
    ASSUME NEW f, NEW S, NEW t \in Seq(S), NEW s, NEW J, Picks(f, t, s, J)
    PROVE  /\ \A i \in 1..Len(t) : f[i] \in J /\ t[i] = s[f[i]]
           /\ \A i, j \in 1..Len(t) : i < j => f[i] < f[j]
           /\ \A k \in J : \E i \in 1..Len(t) : f[i] = k
           /\ DOMAIN t = 1..Len(t) /\ Len(t) \in Nat
  <1>1. f \in [1..Len(t) -> J]
    BY DEF Picks
  <1>2. /\ \A i \in 1..Len(t) : t[i] = s[f[i]]
        /\ \A i, j \in 1..Len(t) : i < j => f[i] < f[j]
        /\ \A k \in J : \E i \in 1..Len(t) : f[i] = k
    BY DEF Picks
  <1>3. DOMAIN t = 1..Len(t) /\ Len(t) \in Nat
    OBVIOUS
  <1>4. \A i \in 1..Len(t) : f[i] \in J
    BY <1>1
  <1> QED
    BY <1>2, <1>3, <1>4

\* As many as there are positions.
LEMMA PicksCount ==
    ASSUME NEW f, NEW S, NEW t \in Seq(S), NEW s, NEW J \in SUBSET Nat, Picks(f, t, s, J)
    PROVE  IsFiniteSet(J) /\ Cardinality(J) = Len(t)
  <1> DEFINE n == Len(t)
  <1>1. /\ \A i \in 1..n : f[i] \in J
        /\ \A i, j \in 1..n : i < j => f[i] < f[j]
        /\ \A k \in J : \E i \in 1..n : f[i] = k
        /\ n \in Nat
    BY PicksFacts
  <1>2. f \in [1..n -> J]
    BY DEF Picks
  <1> HIDE DEF n
  <1>3. \A i, j \in 1..n : i = j \/ i < j \/ j < i
    BY <1>1
  <1>4. \A i \in 1..n : f[i] \in Nat
    BY <1>1
  <1>5. \A i, j \in 1..n : f[i] = f[j] => i = j
    <2>1. SUFFICES ASSUME NEW i \in 1..n, NEW j \in 1..n, f[i] = f[j], i < j PROVE FALSE
      BY <1>3
    <2>2. f[i] < f[j] /\ f[i] \in Nat
      BY <1>1, <1>4, <2>1
    <2> QED
      BY <2>1, <2>2
  <1>6. f \in Bijection(1..n, J)
    BY <1>1, <1>2, <1>5 DEF Bijection, Injection, Surjection, IsInjective
  <1>7. ExistsBijection(1..n, J)
    BY <1>6 DEF ExistsBijection
  <1>8. IsFiniteSet(1..n) /\ Cardinality(1..n) = n
    BY <1>1, FS_Interval
  <1>9. IsFiniteSet(J) /\ Cardinality(J) = Cardinality(1..n)
    BY <1>7, <1>8, FS_Bijection
  <1> QED
    BY <1>8, <1>9 DEF n

\* One more position behind the others.
LEMMA PicksAppend ==
    ASSUME NEW S, NEW s \in Seq(S), NEW t \in Seq(S), NEW f, NEW J \in SUBSET Nat,
           NEW n \in 1..Len(s), \A k \in J : k < n, Picks(f, t, s, J)
    PROVE  \E g : Picks(g, t \o <<s[n]>>, s, J \cup {n})
  <1> DEFINE m == Len(t)
             u == t \o <<s[n]>>
             g == [i \in 1..(m + 1) |-> IF i = m + 1 THEN n ELSE f[i]]
             K == J \cup {n}
  <1>1. /\ \A i \in 1..m : f[i] \in J /\ t[i] = s[f[i]]
        /\ \A i, j \in 1..m : i < j => f[i] < f[j]
        /\ \A k \in J : \E i \in 1..m : f[i] = k
        /\ m \in Nat
    BY PicksFacts
  <1>2. s[n] \in S
    OBVIOUS
  <1>3. Len(u) = m + 1 /\ u[m + 1] = s[n] /\ \A i \in 1..m : u[i] = t[i]
    BY <1>1, <1>2
  <1> HIDE DEF m, u
  <1>4. \A i \in 1..(m + 1) : i \in 1..m \/ i = m + 1
    BY <1>1
  <1>5. m + 1 \in 1..(m + 1) /\ \A i \in 1..m : i \in 1..(m + 1) /\ i # m + 1 /\ i < m + 1
    BY <1>1
  <1>6. g[m + 1] = n /\ \A i \in 1..m : g[i] = f[i]
    BY <1>5
  <1>7. g \in [1..(m + 1) -> K]
    BY <1>1, <1>4
  <1>8. \A i, j \in 1..(m + 1) : i < j => g[i] < g[j]
    <2>1. SUFFICES ASSUME NEW i \in 1..(m + 1), NEW j \in 1..(m + 1), i < j PROVE g[i] < g[j]
      OBVIOUS
    <2>2. i \in 1..m
      BY <1>1, <2>1
    <2>3. CASE j \in 1..m
      BY <1>1, <1>6, <2>1, <2>2, <2>3
    <2>4. CASE j = m + 1
      BY <1>1, <1>6, <2>2, <2>4
    <2> QED
      BY <1>4, <2>3, <2>4
  <1>9. \A k \in K : \E i \in 1..(m + 1) : g[i] = k
    BY <1>1, <1>5, <1>6
  <1>10. \A i \in 1..(m + 1) : u[i] = s[g[i]]
    BY <1>1, <1>3, <1>4, <1>6
  <1> HIDE DEF g
  <1>11. Picks(g, u, s, K)
    BY <1>3, <1>7, <1>8, <1>9, <1>10 DEF Picks
  <1> QED
    BY <1>11 DEF u

\* Nothing is picked at no position.
LEMMA PicksNone ==
    ASSUME NEW s
    PROVE  \E f : Picks(f, <<>>, s, {})
  <1>1. Len(<<>>) = 0 /\ 1..0 = {}
    OBVIOUS
  <1> DEFINE f == [i \in {} |-> 0]
  <1>2. f \in [{} -> {}]
    OBVIOUS
  <1> HIDE DEF f
  <1>3. Picks(f, <<>>, s, {})
    BY <1>1, <1>2 DEF Picks
  <1> QED
    BY <1>3

\* One more row is a member of its own group only.
LEMMA MembersNext ==
    ASSUME NEW k, NEW n \in Nat, n > 0
    PROVE  /\ Members(k, n) = IF Grouped(rows[n]) /\ KeyOf(rows[n]) = k THEN Members(k, n - 1) \cup {n}
                              ELSE Members(k, n - 1)
           /\ Members(k, n) \in SUBSET Nat
           /\ Members(k, n - 1) \in SUBSET Nat /\ \A i \in Members(k, n - 1) : i < n
  <1>1. \A i : i \in 1..n <=> i \in 1..(n - 1) \/ i = n
    OBVIOUS
  <1>2. n - 1 \in Nat /\ \A i \in 1..(n - 1) : i \in Nat /\ i < n
    OBVIOUS
  <1> QED
    BY <1>1, <1>2 DEF Members

\* Groups depend on the input and on the rows.
LEMMA SameMembers ==
    ASSUME input' = input, rows' = rows
    PROVE  /\ \A k, n : Members(k, n)' = Members(k, n)
           /\ \A cs, k, n : GroupOf(cs, k, n)' <=> GroupOf(cs, k, n)
           /\ \A c : Grouped(c)' <=> Grouped(c)
           /\ \A c : KeyOf(c)' = KeyOf(c)
  <1>1. \A k, n : Members(k, n)' = Members(k, n)
    BY DEF Members, Grouped, KeyOf, Value, ValueIn, q
  <1>2. \A cs, k, n : GroupOf(cs, k, n)' <=> GroupOf(cs, k, n)
    BY <1>1 DEF GroupOf
  <1>3. \A c : KeyOf(c)' = KeyOf(c)
    BY DEF KeyOf, Value, ValueIn, q
  <1>4. \A c : Grouped(c)' <=> Grouped(c)
    BY <1>3 DEF Grouped
  <1> QED
    BY <1>1, <1>2, <1>3, <1>4

\* After one more row each group has its rows.
LEMMA GroupOfNext ==
    ASSUME TypeOK, Grouping, stage = "group", q.groupBy # <<>>, at[1] <= Len(rows),
           Grouped(rows[at[1]]), NEW l \in DOMAIN groups \cup {KeyOf(rows[at[1]])}
    PROVE  GroupOf(Enter(KeyOf(rows[at[1]]), rows[at[1]])[l], l, at[1])
  <1> DEFINE n == at[1]
             c == rows[n]
             k == KeyOf(c)
             old == IF l \in DOMAIN groups THEN groups[l] ELSE <<>>
             J == Members(l, n - 1)
  <1>1. /\ n \in Nat /\ n > 0 /\ rows \in Seq(Combined) /\ n \in 1..Len(rows) /\ results = <<>>
        /\ \A m \in DOMAIN groups : groups[m] \in Seq(Combined)
        /\ \A m \in DOMAIN groups : GroupOf(groups[m], m, n - 1)
        /\ \A i \in 1..(n - 1) : Grouped(rows[i]) =>
              \/ KeyOf(rows[i]) \in DOMAIN groups
              \/ n > Len(rows)
              \/ \E m \in DOMAIN results : results[m].key = KeyOf(rows[i])
    <2>1. /\ n \in Nat /\ n > 0 /\ rows \in Seq(Combined)
          /\ \A m \in DOMAIN groups : groups[m] \in Seq(Combined)
      BY DEF TypeOK
    <2>2. /\ results = <<>>
          /\ \A m \in DOMAIN groups : GroupOf(groups[m], m, n - 1)
          /\ \A i \in 1..(n - 1) : Grouped(rows[i]) =>
              \/ KeyOf(rows[i]) \in DOMAIN groups
              \/ n > Len(rows)
              \/ \E m \in DOMAIN results : results[m].key = KeyOf(rows[i])
      BY DEF Grouping
    <2>3. n \in 1..Len(rows)
      BY <2>1
    <2> QED
      BY <2>1, <2>2, <2>3
  <1>2. Enter(k, c)[l] = old \o (IF l = k THEN <<c>> ELSE <<>>)
    BY DEF Enter
  <1>3. /\ Members(l, n) = IF Grouped(c) /\ k = l THEN J \cup {n} ELSE J
        /\ J \in SUBSET Nat /\ \A i \in J : i < n
    BY <1>1, MembersNext
  <1>4. old \in Seq(Combined) /\ GroupOf(old, l, n - 1)
    <2>1. CASE l \in DOMAIN groups
      BY <1>1, <2>1
    <2>2. CASE l \notin DOMAIN groups
      <3>1. old = <<>> /\ old \in Seq(Combined)
        BY <2>2
      <3>2. J = {}
        <4>1. SUFFICES ASSUME NEW i \in J PROVE FALSE
          OBVIOUS
        <4>2. i \in 1..(n - 1) /\ Grouped(rows[i]) /\ KeyOf(rows[i]) = l
          BY DEF Members
        <4>3. ~(n > Len(rows)) /\ DOMAIN results = {}
          BY <1>1
        <4> QED
          BY <1>1, <2>2, <4>2, <4>3
      <3> QED
        BY <3>1, <3>2, PicksNone DEF GroupOf
    <2> QED
      BY <2>1, <2>2
  <1>5. PICK f : Picks(f, old, rows, J)
    BY <1>4 DEF GroupOf
  <1> HIDE DEF J, old
  <1>6. CASE l = k
    <2>1. Enter(k, c)[l] = old \o <<c>> /\ Members(l, n) = J \cup {n}
      BY <1>2, <1>3, <1>6
    <2>2. \E g : Picks(g, old \o <<c>>, rows, J \cup {n})
      BY <1>1, <1>3, <1>4, <1>5, PicksAppend
    <2> QED
      BY <2>1, <2>2 DEF GroupOf
  <1>7. CASE l # k
    <2>1. Enter(k, c)[l] = old /\ Members(l, n) = J
      <3>1. old \o <<>> = old
        BY <1>4
      <3> QED
        BY <1>2, <1>3, <1>7, <3>1
    <2> QED
      BY <1>5, <2>1 DEF GroupOf
  <1> QED
    BY <1>6, <1>7

\* GroupRow puts the row into the group of its key.
LEMMA GroupingRow == TypeOK /\ Grouping /\ GroupRow => Grouping'
  <1> SUFFICES ASSUME TypeOK, Grouping, GroupRow PROVE Grouping'
    OBVIOUS
  <1>0. PICK n, c : n = at[1] /\ c = rows[at[1]]
    OBVIOUS
  <1> DEFINE k == KeyOf(rows[at[1]])
  <1>1. /\ stage = "group" /\ q.groupBy # <<>> /\ n <= Len(rows)
        /\ groups' = IF Grouped(c) THEN Enter(KeyOf(c), c) ELSE groups
        /\ at' = <<n + 1, 1>>
        /\ input' = input /\ stage' = stage /\ rows' = rows /\ results' = results
    BY <1>0, GroupRowStep
  <1>2. /\ n \in Nat /\ n > 0 /\ Len(rows) \in Nat
        /\ results = <<>> /\ DOMAIN results = {}
        /\ \A m \in DOMAIN groups : Null \notin Range(m) /\ GroupOf(groups[m], m, n - 1)
        /\ \A i \in 1..(n - 1) : Grouped(rows[i]) => KeyOf(rows[i]) \in DOMAIN groups
    <2>1. n \in Nat /\ n > 0 /\ rows \in Seq(Combined)
      BY <1>0 DEF TypeOK
    <2>2. results = <<>> /\ DOMAIN results = {}
      BY <1>0, <1>1 DEF Grouping
    <2>3. /\ \A m \in DOMAIN groups : Null \notin Range(m) /\ GroupOf(groups[m], m, n - 1)
          /\ \A i \in 1..(n - 1) : Grouped(rows[i]) =>
              \/ KeyOf(rows[i]) \in DOMAIN groups
              \/ n > Len(rows)
              \/ \E m \in DOMAIN results : results[m].key = KeyOf(rows[i])
      BY <1>0, <1>1 DEF Grouping
    <2>4. ~(n > Len(rows))
      BY <1>1, <2>1
    <2> QED
      BY <2>1, <2>2, <2>3, <2>4
  <1>3. q' = q /\ at'[1] = n + 1 /\ at'[1] - 1 = n /\ n + 1 <= Len(rows) + 1
    BY <1>1, <1>2 DEF q
  <1>4. \A i \in 1..n : i \in 1..(n - 1) \/ i = n
    BY <1>2
  <1>5. \A m \in DOMAIN groups' : Null \notin Range(m) /\ GroupOf(groups'[m], m, n)
    <2>1. CASE Grouped(c)
      <3>1. groups' = Enter(KeyOf(c), c) /\ DOMAIN groups' = DOMAIN groups \cup {KeyOf(c)}
        BY <1>1, <2>1 DEF Enter
      <3>2. Null \notin Range(KeyOf(c))
        BY <2>1 DEF Grouped
      <3>3. \A m \in DOMAIN groups' : GroupOf(groups'[m], m, n)
        BY <1>0, <1>1, <2>1, <3>1, GroupOfNext
      <3> QED
        BY <1>2, <3>1, <3>2, <3>3
    <2>2. CASE ~Grouped(c)
      <3>1. groups' = groups
        BY <1>1, <2>2
      <3>2. \A m : Members(m, n) = Members(m, n - 1)
        BY <1>0, <1>2, <2>2, MembersNext
      <3>3. \A m : \A cs : GroupOf(cs, m, n) <=> GroupOf(cs, m, n - 1)
        BY <3>2 DEF GroupOf
      <3> QED
        BY <1>2, <3>1, <3>3
    <2> QED
      BY <2>1, <2>2
  <1>6. \A i \in 1..n : Grouped(rows[i]) => KeyOf(rows[i]) \in DOMAIN groups'
    <2>1. CASE Grouped(c)
      <3>1. DOMAIN groups' = DOMAIN groups \cup {KeyOf(c)}
        BY <1>1, <2>1 DEF Enter
      <3> QED
        BY <1>0, <1>2, <1>4, <3>1
    <2>2. CASE ~Grouped(c)
      BY <1>0, <1>1, <1>2, <1>4, <2>2
    <2> QED
      BY <2>1, <2>2
  <1>7. /\ \A cs, m, i : GroupOf(cs, m, i)' <=> GroupOf(cs, m, i)
        /\ \A d : Grouped(d)' <=> Grouped(d)
        /\ \A d : KeyOf(d)' = KeyOf(d)
    BY <1>1, SameMembers
  <1>8. at'[1] - 1 = n /\ DOMAIN results' = {} /\ results' = <<>>
    BY <1>1, <1>2, <1>3
  <1> QED
    BY <1>1, <1>3, <1>5, <1>6, <1>7, <1>8 DEF Grouping

\* What Aggregate does with group k, in the invariant's terms.
Aggregated(k, vs) ==
    /\ Looked(vs, groups[k]) /\ k \in Keys /\ Null \notin Range(k)
    /\ groups[k] \in Seq(Combined) /\ GroupOf(groups[k], k, Len(rows))
    /\ Cardinality(Members(k, Len(rows))) = Len(groups[k])
    /\ results' = IF Len(groups[k]) >= q.having
                  THEN Append(results, ResultRow(k, groups[k], vs)) ELSE results
    /\ ResultRow(k, groups[k], vs) \in Results
    /\ ResultRow(k, groups[k], vs).key = k
    /\ ResultRow(k, groups[k], vs).rows = groups[k]
    /\ groups' = [l \in DOMAIN groups \ {k} |-> groups[l]]

\* The group Aggregate takes has a result of its own.
LEMMA AggregateFacts ==
    ASSUME TypeOK, Grouping, Aggregate
    PROVE  \E k \in DOMAIN groups : \E vs : Aggregated(k, vs)
  <1>1. /\ stage = "group" /\ q.groupBy # <<>> /\ at[1] > Len(rows)
    BY DEF Aggregate
  <1>2. PICK k \in DOMAIN groups : \E vs :
               /\ Looked(vs, groups[k])
               /\ results' = IF Having(groups[k]) THEN Append(results, ResultRow(k, groups[k], vs))
                             ELSE results
               /\ groups' = [l \in DOMAIN groups \ {k} |-> groups[l]]
    BY AggregateStep
  <1>3. PICK vs :
               /\ Looked(vs, groups[k])
               /\ results' = IF Having(groups[k]) THEN Append(results, ResultRow(k, groups[k], vs))
                             ELSE results
               /\ groups' = [l \in DOMAIN groups \ {k} |-> groups[l]]
    BY <1>2
  <1>4. k \in Keys /\ groups[k] \in Seq(Combined) /\ input \in Inputs /\ at[1] \in Nat /\ Len(rows) \in Nat
    BY DEF TypeOK
  <1>5. at[1] - 1 = Len(rows)
    <2>1. at[1] <= Len(rows) + 1
      BY <1>1 DEF Grouping
    <2> QED
      BY <1>1, <1>4, <2>1
  <1>6. Null \notin Range(k) /\ GroupOf(groups[k], k, Len(rows))
    BY <1>1, <1>5 DEF Grouping
  <1>7. Cardinality(Members(k, Len(rows))) = Len(groups[k])
    <2>1. PICK f : Picks(f, groups[k], rows, Members(k, Len(rows)))
      BY <1>6 DEF GroupOf
    <2>2. Members(k, Len(rows)) \in SUBSET Nat
      BY DEF Members
    <2> QED
      BY <1>4, <2>1, <2>2, PicksCount
  <1>8. LET x == ResultRow(k, groups[k], vs) IN x \in Results /\ x.key = k /\ x.rows = groups[k]
    BY <1>3, <1>4, ResultType
  <1>9. results' = IF Len(groups[k]) >= q.having
                   THEN Append(results, ResultRow(k, groups[k], vs)) ELSE results
    BY <1>3 DEF Having
  <1>10. Aggregated(k, vs)
    BY <1>3, <1>4, <1>6, <1>7, <1>8, <1>9 DEF Aggregated
  <1> QED
    BY <1>10

\* A group that was taken has a result or too few rows for HAVING.
LEMMA GroupingAggregate == TypeOK /\ Grouping /\ Aggregate => Grouping'
  <1> SUFFICES ASSUME TypeOK, Grouping, Aggregate PROVE Grouping'
    OBVIOUS
  <1>1. /\ stage = "group" /\ q.groupBy # <<>> /\ at[1] > Len(rows)
        /\ input' = input /\ stage' = stage /\ at' = at /\ rows' = rows
    BY DEF Aggregate
  <1>2. PICK k \in DOMAIN groups : \E vs : Aggregated(k, vs)
    BY AggregateFacts
  <1>a. PICK vs : Aggregated(k, vs)
    BY <1>2
  <1>b. /\ Cardinality(Members(k, Len(rows))) = Len(groups[k])
        /\ results' = IF Len(groups[k]) >= q.having
                      THEN Append(results, ResultRow(k, groups[k], vs)) ELSE results
        /\ ResultRow(k, groups[k], vs) \in Results
        /\ ResultRow(k, groups[k], vs).key = k
        /\ groups' = [l \in DOMAIN groups \ {k} |-> groups[l]]
        /\ groups[k] \in Seq(Combined)
    BY <1>a DEF Aggregated
  <1>3. PICK x : x = ResultRow(k, groups[k], vs)
    OBVIOUS
  <1>4. /\ at[1] \in Nat /\ results \in Seq(Results) /\ Len(rows) \in Nat
        /\ q.having \in Nat /\ Len(groups[k]) \in Nat
    BY <1>b, InputType DEF TypeOK
  <1>5. /\ at[1] <= Len(rows) + 1
        /\ \A l \in DOMAIN groups : Null \notin Range(l) /\ GroupOf(groups[l], l, at[1] - 1)
        /\ \A n \in DOMAIN results : results[n].key \notin DOMAIN groups
        /\ \A i \in 1..(at[1] - 1) : Grouped(rows[i]) =>
              \/ KeyOf(rows[i]) \in DOMAIN groups
              \/ at[1] > Len(rows) /\ Cardinality(Members(KeyOf(rows[i]), Len(rows))) < q.having
              \/ \E n \in DOMAIN results : results[n].key = KeyOf(rows[i])
    BY <1>1 DEF Grouping
  <1>6. /\ DOMAIN results = 1..Len(results) /\ Len(results) \in Nat
        /\ \A n \in DOMAIN results : n \in DOMAIN results' /\ results'[n] = results[n]
        /\ Len(groups[k]) >= q.having => \E n \in DOMAIN results' : results'[n].key = k
        /\ \A n \in DOMAIN results' : n \in DOMAIN results \/ results'[n].key = k
    <2>1. CASE Len(groups[k]) >= q.having
      <3>1. results' = Append(results, x) /\ x.key = k /\ x \in Results
        BY <1>b, <1>3, <2>1
      <3>2. /\ DOMAIN results = 1..Len(results) /\ Len(results) \in Nat
            /\ DOMAIN results' = 1..(Len(results) + 1)
            /\ results'[Len(results) + 1] = x
            /\ \A n \in 1..Len(results) : results'[n] = results[n]
        BY <1>4, <3>1
      <3>3. \A n \in 1..(Len(results) + 1) : n \in 1..Len(results) \/ n = Len(results) + 1
        BY <3>2
      <3>4. Len(results) + 1 \in 1..(Len(results) + 1) /\ \A n \in 1..Len(results) : n \in 1..(Len(results) + 1)
        BY <3>2
      <3> QED
        BY <3>1, <3>2, <3>3, <3>4
    <2>2. CASE ~(Len(groups[k]) >= q.having)
      BY <1>b, <1>4, <2>2
    <2> QED
      BY <2>1, <2>2
  <1>7. DOMAIN groups' = DOMAIN groups \ {k} /\ \A l \in DOMAIN groups' : groups'[l] = groups[l]
    BY <1>b
  <1>8. \A n \in DOMAIN results' : results'[n].key \notin DOMAIN groups'
    BY <1>5, <1>6, <1>7
  <1>9. \A i \in 1..(at[1] - 1) : Grouped(rows[i]) =>
              \/ KeyOf(rows[i]) \in DOMAIN groups'
              \/ at[1] > Len(rows) /\ Cardinality(Members(KeyOf(rows[i]), Len(rows))) < q.having
              \/ \E n \in DOMAIN results' : results'[n].key = KeyOf(rows[i])
    <2>1. SUFFICES ASSUME NEW i \in 1..(at[1] - 1), Grouped(rows[i]), KeyOf(rows[i]) = k
                   PROVE  \/ Cardinality(Members(KeyOf(rows[i]), Len(rows))) < q.having
                          \/ \E n \in DOMAIN results' : results'[n].key = KeyOf(rows[i])
      BY <1>1, <1>5, <1>6, <1>7
    <2> QED
      BY <1>b, <1>4, <1>6, <2>1
  <1>10. \A l \in DOMAIN groups' : Null \notin Range(l) /\ GroupOf(groups'[l], l, at[1] - 1)
    BY <1>5, <1>7
  <1>11. q' = q
    BY <1>1 DEF q
  <1>12. /\ \A cs, l, i : GroupOf(cs, l, i)' <=> GroupOf(cs, l, i)
         /\ \A l, n : Members(l, n)' = Members(l, n)
         /\ \A d : Grouped(d)' <=> Grouped(d)
         /\ \A d : KeyOf(d)' = KeyOf(d)
    BY <1>1, SameMembers
  <1>13. ~(at[1] <= Len(rows))
    BY <1>1, <1>4
  <1> QED
    BY <1>1, <1>5, <1>8, <1>9, <1>10, <1>11, <1>12, <1>13 DEF Grouping

\* Every row is in its group, or its group was taken.
LEMMA GroupingNext == TypeOK /\ Staged /\ Grouping /\ Next => Grouping'
  <1> SUFFICES ASSUME TypeOK, Staged, Grouping, Next, stage' = "group" PROVE Grouping'
    BY DEF Grouping
  <1>1. CASE Where \/ WhereDone
    <2>1. at' = <<1, 1>> /\ groups' = <<>> /\ results' = <<>> /\ rows' = rows
      BY <1>1 DEF Where, WhereDone, Staged, Early
    <2>2. DOMAIN groups' = {} /\ DOMAIN results' = {} /\ 1..0 = {} /\ at'[1] = 1 /\ at'[1] - 1 = 0
      BY <2>1
    <2>3. 1 <= Len(rows') + 1
      BY <2>1 DEF TypeOK
    <2> QED
      BY <2>1, <2>2, <2>3 DEF Grouping
  <1>2. CASE ~(Where \/ WhereDone \/ GroupRow \/ Aggregate)
    BY <1>2 DEF Next, Load, From, JoinPair, NextLeft, Pad, WhereRow, WhereFails, GroupFails, Union, GroupsDone, AggregateAll,
           Order, Limit, NextPage
  <1> QED
    BY <1>1, <1>2, GroupingRow, GroupingAggregate

\* What the aggregates say, as the property asks, of every result so far.
AggregatesSoFar ==
    stage \in {"group", "order"} /\ Cardinality(TablesWith(q.arg)) = 1 =>
        \A n \in DOMAIN results : AggregatesOf(results[n])

\* Each result is of a group of its own that HAVING accepts.
OfGroups(rs) ==
    /\ \A n \in DOMAIN rs : /\ Null \notin Range(rs[n].key)
                            /\ Len(rs[n].rows) >= q.having
                            /\ GroupOf(rs[n].rows, rs[n].key, Len(rows))
    /\ \A m, n \in DOMAIN rs : rs[m].key = rs[n].key => m = n

\* One more result is of one more group.
LEMMA ResultsAggregate ==
    ASSUME TypeOK, Grouping, ResultsOfGroups, Aggregate
    PROVE  OfGroups(results')
  <1>1. /\ stage = "group" /\ q.groupBy # <<>>
    BY DEF Aggregate
  <1>2. PICK k \in DOMAIN groups : \E vs : Aggregated(k, vs)
    BY AggregateFacts
  <1>3. PICK vs : Aggregated(k, vs)
    BY <1>2
  <1>4. PICK x : x = ResultRow(k, groups[k], vs)
    OBVIOUS
  <1>5. /\ x.key = k /\ Null \notin Range(k) /\ x.rows = groups[k] /\ GroupOf(x.rows, k, Len(rows))
        /\ results' = (IF Len(groups[k]) >= q.having THEN Append(results, x) ELSE results)
        /\ x \in Results
    BY <1>3, <1>4 DEF Aggregated
  <1>6. results \in Seq(Results)
    BY DEF TypeOK
  <1>7. /\ \A n \in DOMAIN results :
              /\ Null \notin Range(results[n].key)
              /\ Len(results[n].rows) >= q.having
              /\ GroupOf(results[n].rows, results[n].key, Len(rows))
        /\ \A m, n \in DOMAIN results : results[m].key = results[n].key => m = n
    BY <1>1 DEF ResultsOfGroups
  <1>8. \A n \in DOMAIN results : results[n].key # k
    BY <1>1 DEF Grouping
  <1>9. CASE Len(groups[k]) >= q.having
    <2>1. results' = Append(results, x)
      BY <1>5, <1>9
    <2>2. /\ DOMAIN results = 1..Len(results) /\ Len(results) \in Nat
          /\ DOMAIN results' = 1..(Len(results) + 1)
          /\ results'[Len(results) + 1] = x
          /\ \A n \in 1..Len(results) : results'[n] = results[n]
      BY <1>5, <1>6, <2>1
    <2>3. \A n \in 1..(Len(results) + 1) : n \in 1..Len(results) \/ n = Len(results) + 1
      BY <2>2
    <2>4. \A n \in DOMAIN results' :
              /\ Null \notin Range(results'[n].key)
              /\ Len(results'[n].rows) >= q.having
              /\ GroupOf(results'[n].rows, results'[n].key, Len(rows))
      BY <1>5, <1>7, <1>9, <2>2, <2>3
    <2>5. \A m, n \in DOMAIN results' : results'[m].key = results'[n].key => m = n
      BY <1>5, <1>7, <1>8, <2>2, <2>3
    <2> QED
      BY <2>4, <2>5 DEF OfGroups
  <1>10. CASE ~(Len(groups[k]) >= q.having)
    BY <1>5, <1>7, <1>10 DEF OfGroups
  <1> QED
    BY <1>9, <1>10

\* At the end every group HAVING accepts has one result.
LEMMA ResultsNext == TypeOK /\ Staged /\ Grouping /\ ResultsOfGroups /\ Next => ResultsOfGroups'
  <1> SUFFICES ASSUME TypeOK, Staged, Grouping, ResultsOfGroups, Next,
                      stage' \in {"group", "order"}, q'.groupBy # <<>>
               PROVE  ResultsOfGroups'
    BY DEF ResultsOfGroups
  <1>1. CASE Where \/ WhereDone \/ Union
    <2>1. results' = <<>> /\ q' = q /\ input' = input /\ DOMAIN <<>> = {}
      BY <1>1 DEF Where, WhereDone, Union, Staged, Early, q
    <2>2. stage' = "order" => ~q.aggregate
      <3>1. CASE Where \/ WhereDone
        BY <3>1 DEF Where, WhereDone, AfterWhere
      <3>2. CASE Union
        BY <3>2, InputType DEF Union, Staged, TypeOK
      <3> QED
        BY <1>1, <3>1, <3>2
    <2> QED
      BY <2>1, <2>2 DEF ResultsOfGroups
  <1>2. CASE GroupRow \/ Aggregate \/ GroupsDone
    <2>1. /\ input' = input /\ rows' = rows /\ q' = q /\ stage = "group"
          /\ q.groupBy # <<>>
      BY <1>2 DEF GroupRow, Aggregate, GroupsDone, q
    <2>2. OfGroups(results')
      <3>1. CASE GroupRow \/ GroupsDone
        <4>1. results' = results
          BY <3>1 DEF GroupRow, GroupsDone
        <4> QED
          BY <2>1, <4>1 DEF ResultsOfGroups, OfGroups
      <3>2. CASE Aggregate
        BY <3>2, ResultsAggregate
      <3> QED
        BY <1>2, <3>1, <3>2
    <2>3. ASSUME stage' = "order", NEW i \in DOMAIN rows, Grouped(rows[i])
          PROVE  \/ Cardinality(Members(KeyOf(rows[i]), Len(rows))) < q.having
                 \/ \E n \in DOMAIN results' : results'[n].key = KeyOf(rows[i])
      <3>1. GroupsDone
        BY <1>2, <2>1, <2>3 DEF GroupRow, Aggregate
      <3>2. at[1] > Len(rows) /\ DOMAIN groups = {} /\ results' = results
        BY <3>1 DEF GroupsDone
      <3>3. i \in 1..(at[1] - 1)
        <4>1. at[1] \in Nat /\ rows \in Seq(Combined)
          BY DEF TypeOK
        <4> QED
          BY <3>2, <4>1
      <3> QED
        BY <2>1, <2>3, <3>2, <3>3 DEF Grouping
    <2>4. /\ \A cs, l, i : GroupOf(cs, l, i)' <=> GroupOf(cs, l, i)
          /\ \A l, n : Members(l, n)' = Members(l, n)
          /\ \A d : Grouped(d)' <=> Grouped(d)
          /\ \A d : KeyOf(d)' = KeyOf(d)
      BY <2>1, SameMembers
    <2> QED
      BY <2>1, <2>2, <2>3, <2>4 DEF ResultsOfGroups, OfGroups
  <1>3. CASE AggregateAll
    BY <1>3 DEF AggregateAll, q
  <1>4. ~Load /\ ~From /\ ~JoinPair /\ ~NextLeft /\ ~Pad /\ ~WhereRow /\ ~Order /\ ~Limit /\ ~NextPage
        /\ ~WhereFails /\ ~GroupFails
    BY DEF Load, From, JoinPair, NextLeft, Pad, WhereRow, Order, Limit, NextPage, WhereFails, GroupFails
  <1> QED
    BY <1>1, <1>2, <1>3, <1>4 DEF Next

\* What a result says depends on the input only.
LEMMA SameAggregates ==
    ASSUME input' = input, NEW x
    PROVE  AggregatesOf(x)' <=> AggregatesOf(x)
  <1>1. q' = q
    BY DEF q
  <1>2. ColumnOf(x)' = ColumnOf(x)
    BY DEF ColumnOf, Value, ValueIn, TablesWith, Col, q
  <1>3. AggregatesOf(x) <=> Says(x, ColumnOf(x), q.distinct)
    BY DEF AggregatesOf
  <1>4. AggregatesOf(x)' <=> Says(x, ColumnOf(x)', q'.distinct)
    BY DEF AggregatesOf
  <1> QED
    BY <1>1, <1>2, <1>3, <1>4

\* Every result says what the aggregates mean.
LEMMA AggregatesNext ==
    TypeOK /\ Staged /\ Grouping /\ AggregatesSoFar /\ Next => AggregatesSoFar'
  <1> SUFFICES ASSUME TypeOK, Staged, Grouping, AggregatesSoFar, Next, stage' \in {"group", "order"},
                      Cardinality(TablesWith(q.arg))' = 1
               PROVE  (\A n \in DOMAIN results : AggregatesOf(results[n]))'
    BY DEF AggregatesSoFar
  <1>1. input' = input /\ input \in Inputs
    BY DEF Next, Load, From, JoinPair, NextLeft, Pad, Where, WhereRow, WhereFails, WhereDone, Union, GroupRow, GroupFails,
           Aggregate, GroupsDone, AggregateAll, Order, Limit, NextPage, TypeOK
  <1>2. Cardinality(TablesWith(q.arg)) = 1
    BY <1>1 DEF TablesWith, q
  <1>3. SUFFICES \A n \in DOMAIN results' : AggregatesOf(results'[n])
    BY <1>1, SameAggregates
  <1>4. CASE Where \/ WhereDone \/ Union
    <2>1. results' = <<>> /\ DOMAIN <<>> = {}
      BY <1>4 DEF Where, WhereDone, Union, Staged, Early
    <2> QED
      BY <2>1
  <1>5. CASE GroupRow \/ GroupsDone
    <2>1. results' = results /\ stage = "group"
      BY <1>5 DEF GroupRow, GroupsDone
    <2> QED
      BY <1>2, <2>1 DEF AggregatesSoFar
  <1>6. CASE Aggregate
    <2>1. PICK k \in DOMAIN groups : \E vs : Aggregated(k, vs)
      BY <1>6, AggregateFacts
    <2>2. PICK vs : Aggregated(k, vs)
      BY <2>1
    <2>3. PICK x : x = ResultRow(k, groups[k], vs)
      OBVIOUS
    <2>4. AggregatesOf(x)
      <3>1. Looked(vs, groups[k]) /\ k \in Keys /\ groups[k] \in Seq(Combined)
        BY <2>2 DEF Aggregated
      <3> QED
        BY <1>1, <1>2, <2>3, <3>1, ResultTells
    <2>5. results' = results \/ results' = Append(results, x)
      BY <2>2, <2>3 DEF Aggregated
    <2>6. x \in Results /\ results \in Seq(Results)
      BY <2>2, <2>3 DEF Aggregated, TypeOK
    <2>7. \A n \in DOMAIN results : AggregatesOf(results[n])
      BY <1>2, <1>6 DEF AggregatesSoFar, Aggregate
    <2>8. CASE results' = Append(results, x)
      <3>1. /\ DOMAIN results = 1..Len(results) /\ Len(results) \in Nat
            /\ DOMAIN results' = 1..(Len(results) + 1)
            /\ results'[Len(results) + 1] = x
            /\ \A n \in 1..Len(results) : results'[n] = results[n]
        BY <2>6, <2>8
      <3>2. \A n \in 1..(Len(results) + 1) : n \in 1..Len(results) \/ n = Len(results) + 1
        BY <3>1
      <3> QED
        BY <2>4, <2>7, <3>1, <3>2
    <2> QED
      BY <2>5, <2>7, <2>8
  <1>7. CASE AggregateAll
    <2>1. PICK vs : /\ Looked(vs, rows)
                    /\ results' = IF Having(rows) THEN <<ResultRow(<<>>, rows, vs)>> ELSE <<>>
      BY <1>7, AggregateAllStep
    <2>2. PICK x : x = ResultRow(<<>>, rows, vs)
      OBVIOUS
    <2>3. <<>> \in Keys
      <3>1. Len(q.groupBy) = 0 /\ 1..0 = {}
        BY <1>7 DEF AggregateAll
      <3>2. <<>> \in [{} -> Known]
        OBVIOUS
      <3> QED
        BY <3>1, <3>2 DEF Keys
    <2>4. AggregatesOf(x)
      <3>1. rows \in Seq(Combined)
        BY DEF TypeOK
      <3> QED
        BY <1>1, <1>2, <2>1, <2>2, <2>3, <3>1, ResultTells
    <2>5. results' = <<>> \/ results' = <<x>>
      BY <2>1, <2>2
    <2>6. DOMAIN <<>> = {} /\ DOMAIN <<x>> = {1} /\ <<x>>[1] = x
      OBVIOUS
    <2> QED
      BY <2>4, <2>5, <2>6
  <1>8. ~Load /\ ~From /\ ~JoinPair /\ ~NextLeft /\ ~Pad /\ ~WhereRow /\ ~Order /\ ~Limit /\ ~NextPage
        /\ ~WhereFails /\ ~GroupFails
    BY DEF Load, From, JoinPair, NextLeft, Pad, WhereRow, Order, Limit, NextPage, WhereFails, GroupFails
  <1> QED
    BY <1>4, <1>5, <1>6, <1>7, <1>8 DEF Next

-----------------------------------------------------------------------------
(* What the groups mean *)

\* Rows of one group have one key, and a row without a key is in no group.
LEMMA KeysTell ==
    ASSUME NEW c, NEW d
    PROVE  /\ SameGroup(c, d) <=> KeyOf(c) = KeyOf(d)
           /\ Grouped(c) <=> ~\E i \in DOMAIN q.groupBy : Value(c, q.groupBy[i]) = Null
  <1> DEFINE D == DOMAIN q.groupBy
  <1>1. /\ KeyOf(c) = [i \in D |-> Value(c, q.groupBy[i])]
        /\ KeyOf(d) = [i \in D |-> Value(d, q.groupBy[i])]
    BY DEF KeyOf
  <1>2. SameGroup(c, d) <=> \A i \in D : Value(c, q.groupBy[i]) = Value(d, q.groupBy[i])
    BY DEF SameGroup
  <1>3. Range(KeyOf(c)) = {Value(c, q.groupBy[i]) : i \in D}
    BY <1>1 DEF Range
  <1> HIDE DEF D
  <1>4. KeyOf(c) = KeyOf(d) => \A i \in D : Value(c, q.groupBy[i]) = Value(d, q.groupBy[i])
    <2>1. ASSUME KeyOf(c) = KeyOf(d), NEW i \in D
          PROVE  Value(c, q.groupBy[i]) = Value(d, q.groupBy[i])
      <3>1. KeyOf(c)[i] = Value(c, q.groupBy[i]) /\ KeyOf(d)[i] = Value(d, q.groupBy[i])
        BY <1>1
      <3> QED
        BY <2>1, <3>1
    <2> QED
      BY <2>1
  <1>5. SameGroup(c, d) => KeyOf(c) = KeyOf(d)
    BY <1>1, <1>2
  <1>6. Grouped(c) <=> Null \notin {Value(c, q.groupBy[i]) : i \in D}
    BY <1>3 DEF Grouped
  <1> QED
    BY <1>2, <1>4, <1>5, <1>6 DEF D

\* The rows a result is made of.
LEMMA RowsOfResult ==
    ASSUME TypeOK, ResultsOfGroups, RowsDiffer, stage = "order", q.groupBy # <<>>,
           NEW n \in DOMAIN results
    PROVE  /\ IsInjective(results[n].rows)
           /\ Range(results[n].rows) = {rows[i] : i \in Members(results[n].key, Len(rows))}
           /\ Cardinality(Members(results[n].key, Len(rows))) = Len(results[n].rows)
           /\ Len(results[n].rows) >= q.having
  <1> DEFINE J == Members(results[n].key, Len(rows))
             cs == results[n].rows
  <1>1. Len(cs) >= q.having /\ GroupOf(cs, results[n].key, Len(rows))
    BY DEF ResultsOfGroups
  <1>2. PICK f : Picks(f, cs, rows, J)
    BY <1>1 DEF GroupOf
  <1>3. cs \in Seq(Combined) /\ rows \in Seq(Combined)
    <2>1. results \in Seq(Results) /\ rows \in Seq(Combined)
      BY DEF TypeOK
    <2>2. results[n] \in Results
      BY <2>1
    <2> QED
      BY <2>1, <2>2 DEF Results
  <1>4. J \in SUBSET DOMAIN rows /\ J \in SUBSET Nat
    BY <1>3 DEF Members
  <1>5. IsInjective(rows)
    BY DEF RowsDiffer
  <1> HIDE DEF J, cs
  <1>6. IsInjective(cs)
    BY <1>2, <1>3, <1>4, <1>5, PicksDiffer
  <1>7. Cardinality(J) = Len(cs)
    BY <1>2, <1>3, <1>4, PicksCount
  <1>8. Range(cs) = {rows[i] : i \in J}
    <2>1. /\ \A i \in 1..Len(cs) : f[i] \in J /\ cs[i] = rows[f[i]]
          /\ \A k \in J : \E i \in 1..Len(cs) : f[i] = k
          /\ DOMAIN cs = 1..Len(cs)
      BY <1>2, <1>3, PicksFacts
    <2> QED
      BY <2>1 DEF Range
  <1> QED
    BY <1>1, <1>6, <1>7, <1>8 DEF J, cs

\* The group of a row with a key: the rows with this key.
LEMMA GroupIsMembers ==
    ASSUME TypeOK, NEW c, Grouped(c)
    PROVE  Group(c) = Members(KeyOf(c), Len(rows))
  <1>1. DOMAIN rows = 1..Len(rows)
    BY DEF TypeOK
  <1>2. \A d : SameGroup(c, d) <=> KeyOf(c) = KeyOf(d)
    BY KeysTell
  <1>3. \A d : KeyOf(d) = KeyOf(c) => Grouped(d)
    BY DEF Grouped
  <1> QED
    BY <1>1, <1>2, <1>3 DEF Group, Members

\* What the invariant says of results is what GROUP BY and HAVING mean.
LEMMA GroupsMeaning == TypeOK /\ RowsDiffer /\ ResultsOfGroups => OneRowPerGroup
  <1> SUFFICES ASSUME TypeOK, RowsDiffer, ResultsOfGroups, stage = "order", q.aggregate, q.groupBy # <<>>
               PROVE
        /\ \A c \in Range(rows) :
              Cardinality({i \in DOMAIN results : \E d \in Range(results[i].rows) : SameGroup(c, d)})
                = (IF \/ \E i \in DOMAIN q.groupBy : Value(c, q.groupBy[i]) = Null
                      \/ Cardinality(Group(c)) < q.having
                   THEN 0 ELSE 1)
        /\ \A x \in Range(results) :
              /\ IsInjective(x.rows)
              /\ \A c \in Range(x.rows) : Range(x.rows) = {rows[i] : i \in Group(c)}
    BY DEF OneRowPerGroup
  <1>1. \A n \in DOMAIN results :
           /\ IsInjective(results[n].rows)
           /\ Range(results[n].rows) = {rows[i] : i \in Members(results[n].key, Len(rows))}
           /\ Cardinality(Members(results[n].key, Len(rows))) = Len(results[n].rows)
           /\ Len(results[n].rows) >= q.having
           /\ Len(results[n].rows) \in Nat
    <2>1. ASSUME NEW n \in DOMAIN results PROVE Len(results[n].rows) \in Nat
      <3>1. results \in Seq(Results)
        BY DEF TypeOK
      <3>2. results[n] \in Results
        BY <3>1
      <3> QED
        BY <3>2 DEF Results
    <2>2. ASSUME NEW n \in DOMAIN results
          PROVE  /\ IsInjective(results[n].rows)
                 /\ Range(results[n].rows) = {rows[i] : i \in Members(results[n].key, Len(rows))}
                 /\ Cardinality(Members(results[n].key, Len(rows))) = Len(results[n].rows)
                 /\ Len(results[n].rows) >= q.having
      BY RowsOfResult
    <2> QED
      BY <2>1, <2>2, Zenon
  <1>2. q.having \in Nat
    BY InputType DEF TypeOK
  <1>3. /\ \A m, n \in DOMAIN results : results[m].key = results[n].key => m = n
        /\ \A i \in DOMAIN rows : Grouped(rows[i]) =>
              \/ Cardinality(Members(KeyOf(rows[i]), Len(rows))) < q.having
              \/ \E n \in DOMAIN results : results[n].key = KeyOf(rows[i])
    BY DEF ResultsOfGroups
  <1>4. DOMAIN rows = 1..Len(rows)
    BY DEF TypeOK
  <1>5. \A n \in DOMAIN results : \A d \in Range(results[n].rows) :
            Grouped(d) /\ KeyOf(d) = results[n].key
    <2>1. SUFFICES ASSUME NEW n \in DOMAIN results, NEW d \in Range(results[n].rows)
                   PROVE  Grouped(d) /\ KeyOf(d) = results[n].key
      OBVIOUS
    <2>2. d \in {rows[i] : i \in Members(results[n].key, Len(rows))}
      BY <1>1, <2>1
    <2>3. PICK i \in Members(results[n].key, Len(rows)) : d = rows[i]
      BY <2>2
    <2> QED
      BY <2>3 DEF Members
  <1>6. ASSUME NEW c \in Range(rows)
        PROVE  Cardinality({i \in DOMAIN results : \E d \in Range(results[i].rows) : SameGroup(c, d)})
                = (IF \/ \E i \in DOMAIN q.groupBy : Value(c, q.groupBy[i]) = Null
                      \/ Cardinality(Group(c)) < q.having
                   THEN 0 ELSE 1)
    <2> DEFINE S == {i \in DOMAIN results : \E d \in Range(results[i].rows) : SameGroup(c, d)}
    <2>1. PICK i \in DOMAIN rows : c = rows[i]
      BY <1>6 DEF Range
    <2>2. \A d : SameGroup(c, d) <=> KeyOf(c) = KeyOf(d)
      BY KeysTell
    <2>3. \A d : KeyOf(d) = KeyOf(c) => (Grouped(d) <=> Grouped(c))
      BY DEF Grouped
    <2>4. CASE ~Grouped(c)
      <3>1. S = {}
        BY <1>5, <2>2, <2>3, <2>4
      <3>2. \E j \in DOMAIN q.groupBy : Value(c, q.groupBy[j]) = Null
        BY <2>4, KeysTell
      <3>3. Cardinality(S) = 0
        BY <3>1, FS_EmptySet
      <3> QED
        BY <3>2, <3>3
    <2>5. CASE Grouped(c)
      <3>1. \A n \in DOMAIN results : n \in S <=> results[n].key = KeyOf(c)
        <4>1. ASSUME NEW n \in DOMAIN results, n \in S PROVE results[n].key = KeyOf(c)
          BY <1>5, <2>2, <4>1
        <4>2. ASSUME NEW n \in DOMAIN results, results[n].key = KeyOf(c) PROVE n \in S
          <5>1. i \in Members(results[n].key, Len(rows))
            BY <1>4, <2>1, <2>5, <4>2 DEF Members
          <5>2. c \in Range(results[n].rows)
            BY <1>1, <2>1, <5>1
          <5> QED
            BY <2>2, <5>2
        <4> QED
          BY <4>1, <4>2
      <3>2. Group(c) = Members(KeyOf(c), Len(rows))
        BY <2>5, GroupIsMembers
      <3>3. ~\E j \in DOMAIN q.groupBy : Value(c, q.groupBy[j]) = Null
        BY <2>5, KeysTell
      <3>4. S \subseteq DOMAIN results
        OBVIOUS
      <3> HIDE DEF S
      <3>5. CASE Cardinality(Group(c)) < q.having
        <4>1. \A n \in DOMAIN results : results[n].key # KeyOf(c)
          <5>1. SUFFICES ASSUME NEW n \in DOMAIN results, results[n].key = KeyOf(c) PROVE FALSE
            OBVIOUS
          <5>2. Cardinality(Group(c)) = Len(results[n].rows)
            BY <1>1, <3>2, <5>1
          <5>3. Len(results[n].rows) >= q.having /\ Len(results[n].rows) \in Nat
            BY <1>1
          <5> QED
            BY <1>2, <3>5, <5>2, <5>3
        <4>2. S = {}
          BY <3>1, <3>4, <4>1
        <4>3. Cardinality(S) = 0
          BY <4>2, FS_EmptySet
        <4> QED
          BY <3>5, <4>3 DEF S
      <3>6. CASE ~(Cardinality(Group(c)) < q.having)
        <4>1. PICK n \in DOMAIN results : results[n].key = KeyOf(c)
          BY <1>3, <2>1, <2>5, <3>2, <3>6
        <4>2. S = {n}
          BY <1>3, <3>1, <3>4, <4>1
        <4>3. Cardinality(S) = 1
          BY <4>2, FS_Singleton
        <4> QED
          BY <3>3, <3>6, <4>3 DEF S
      <3> QED
        BY <3>5, <3>6
    <2> QED
      BY <2>4, <2>5
  <1>7. ASSUME NEW x \in Range(results)
        PROVE  /\ IsInjective(x.rows)
               /\ \A c \in Range(x.rows) : Range(x.rows) = {rows[i] : i \in Group(c)}
    <2>1. PICK n \in DOMAIN results : x = results[n]
      BY <1>7 DEF Range
    <2>2. ASSUME NEW c \in Range(x.rows) PROVE Range(x.rows) = {rows[i] : i \in Group(c)}
      <3>1. Grouped(c) /\ KeyOf(c) = results[n].key
        BY <1>5, <2>1, <2>2
      <3>2. Group(c) = Members(results[n].key, Len(rows))
        BY <3>1, GroupIsMembers
      <3> QED
        BY <1>1, <2>1, <3>2
    <2> QED
      BY <1>1, <2>1, <2>2
  <1> QED
    BY <1>6, <1>7

-----------------------------------------------------------------------------
(* The theorems *)

IInv ==
    /\ TypeOK /\ Staged /\ Loaded
    /\ JoinedSoFar /\ RowsDiffer /\ OneTableOnly /\ Filtered
    /\ Grouping /\ ResultsOfGroups /\ AggregatesSoFar
    /\ TablesCombined /\ SortedAndStable

\* The inductive invariant holds at the start.
LEMMA InitIInv == Init => IInv
  <1> SUFFICES ASSUME Init PROVE IInv
    OBVIOUS
  <1>1. TypeOK
    BY TypeInit
  <1>2. /\ stage = "load" /\ lrows = <<>> /\ rrows = <<>> /\ groups = <<>> /\ results = <<>>
    BY DEF Init
  <1>3. Staged /\ Loaded /\ JoinedSoFar /\ RowsDiffer /\ OneTableOnly /\ Filtered
    BY <1>2 DEF Staged, Loaded, JoinedSoFar, RowsDiffer, OneTableOnly, Filtered
  <1>4. Grouping /\ ResultsOfGroups /\ AggregatesSoFar
    BY <1>2 DEF Grouping, ResultsOfGroups, AggregatesSoFar
  <1>5. TablesCombined /\ SortedAndStable
    BY <1>2 DEF TablesCombined, JoinIsRelational, UnionIsSet, SortedAndStable
  <1> QED
    BY <1>1, <1>3, <1>4, <1>5 DEF IInv

\* Every step keeps the inductive invariant.
LEMMA NextIInv == IInv /\ [Next]_vars => IInv'
  <1> SUFFICES ASSUME IInv, [Next]_vars PROVE IInv'
    OBVIOUS
  <1>0. /\ TypeOK /\ Staged /\ Loaded /\ JoinedSoFar /\ RowsDiffer /\ OneTableOnly /\ Filtered
        /\ Grouping /\ ResultsOfGroups /\ AggregatesSoFar
    BY DEF IInv
  <1>1. CASE Next
    <2>1. TypeOK'
      BY <1>0, <1>1, TypeNext
    <2>2. Staged' /\ Loaded'
      BY <1>0, <1>1, StagedNext, LoadedNext
    <2>3. JoinedSoFar'
      BY <1>0, <1>1, JoinedNext
    <2>4. RowsDiffer'
      BY <1>0, <1>1, DifferNext
    <2>5. OneTableOnly' /\ Filtered'
      BY <1>0, <1>1, OneTableNext, FilteredNext
    <2>6. Grouping' /\ ResultsOfGroups' /\ AggregatesSoFar'
      BY <1>0, <1>1, GroupingNext, ResultsNext, AggregatesNext
    <2>7. TablesCombined'
      BY <1>0, <1>1, JoinNext, UnionNext DEF TablesCombined
    <2>8. SortedAndStable'
      BY <1>0, <1>1, SortedNext
    <2> QED
      BY <2>1, <2>2, <2>3, <2>4, <2>5, <2>6, <2>7, <2>8 DEF IInv
  <1>2. CASE UNCHANGED vars
    <2>1. /\ input' = input /\ stage' = stage /\ lrows' = lrows /\ rrows' = rrows /\ at' = at
          /\ rows' = rows /\ groups' = groups /\ results' = results /\ answers' = answers
          /\ faults' = faults
      BY <1>2 DEF vars
    <2>2. q' = q /\ Combined' = Combined /\ Results' = Results /\ Keys' = Keys
      BY <2>1, SameInput DEF q
    <2>3. TypeOK' /\ Staged'
      BY <1>0, <2>1, <2>2 DEF TypeOK, Staged
    <2>4. Loaded' /\ RowsDiffer'
      BY <1>0, <2>1 DEF Loaded, LoadedFrom, RowsDiffer
    <2>5. JoinedSoFar' /\ OneTableOnly'
      BY <1>0, <2>1, <2>2, SameMatches DEF JoinedSoFar, Visited, Pair, OneTableOnly
    <2>6. Filtered'
      BY <1>0, <2>1, <2>2, SameWanted DEF Filtered, LeftRows
    <2>7. Grouping' /\ ResultsOfGroups'
      BY <1>0, <2>1, <2>2, SameMembers DEF Grouping, ResultsOfGroups
    <2>8. AggregatesSoFar'
      BY <1>0, <2>1, <2>2, SameAggregates DEF AggregatesSoFar, TablesWith
    <2>9. JoinIsRelational'
      <3>1. \A a, b : Equal(a, b)' <=> Equal(a, b)
        BY <2>1 DEF Equal
      <3>2. JoinIsRelational
        BY DEF IInv, TablesCombined
      <3> QED
        BY <2>1, <2>2, <3>1, <3>2 DEF JoinIsRelational
    <2>10. UnionIsSet'
      <3>1. /\ \A c : Satisfies(c, q.where, {})' <=> Satisfies(c, q.where, {})
            /\ \A c : RowText(c)' = RowText(c)
        BY <2>1, <2>2 DEF Satisfies, RowText, Value
      <3>2. UnionIsSet
        BY DEF IInv, TablesCombined
      <3> QED
        BY <2>1, <2>2, <3>1, <3>2 DEF UnionIsSet
    <2>11. SortedAndStable'
      BY <2>1, <2>2 DEF IInv, SortedAndStable, SortKey, Value, RowText
    <2> QED
      BY <2>3, <2>4, <2>5, <2>6, <2>7, <2>8, <2>9, <2>10, <2>11 DEF IInv, TablesCombined
  <1> QED
    BY <1>1, <1>2

\* Whatever the tables, the query and the pages that cannot be read, the clauses
\* of QueryDB pass each other values of their types (executeSelect, query.go).
THEOREM TypeCorrect == Spec => []TypeOK
  <1>1. IInv => TypeOK
    BY DEF IInv
  <1> QED
    BY <1>1, InitIInv, NextIInv, PTL DEF Spec

\* Joins answer what relational algebra asks for and UNION is a set, for tables
\* and pages of any size and whatever pages could not be read.
THEOREM CombinesTables == Spec => []TablesCombined
  <1>1. IInv => TablesCombined
    BY DEF IInv
  <1> QED
    BY <1>1, InitIInv, NextIInv, PTL DEF Spec

\* ORDER BY sorts, NULL below every number, and leaves rows that compare equal in
\* the order they were inserted, for any rows.
THEOREM SortsStably == Spec => []SortedAndStable
  <1>1. IInv => SortedAndStable
    BY DEF IInv
  <1> QED
    BY <1>1, InitIInv, NextIInv, PTL DEF Spec

\* Of every group HAVING accepts there is one result row, made of just its rows,
\* and SUM, MIN, MAX and COUNT say of them what they mean, for any rows, any
\* columns and whatever order Go visits the groups in.
THEOREM Groups == Spec => []GroupsRight
  <1>1. IInv => GroupsRight
    <2> SUFFICES ASSUME IInv PROVE GroupsRight
      OBVIOUS
    <2>1. OneRowPerGroup
      BY GroupsMeaning DEF IInv
    <2>2. AggregatesRight
      <3>1. AggregatesSoFar
        BY DEF IInv
      <3> QED
        BY <3>1 DEF AggregatesSoFar, AggregatesRight, Range
    <2> QED
      BY <2>1, <2>2 DEF GroupsRight
  <1> QED
    BY <1>1, InitIInv, NextIInv, PTL DEF Spec

-----------------------------------------------------------------------------
(* The recursive functions on conditions                                     *)

LEMMA ConditionParts ==
    ASSUME NEW e \in Conditions
    PROVE  /\ e.op \in Compound => /\ e.left \in Conditions /\ Depth[e.left] < Depth[e]
                                   /\ e.right \in Conditions /\ Depth[e.right] < Depth[e]
           /\ e.op = "exists" => e.sub # <<>>
           /\ e.op \in WithSubQuery /\ e.sub # <<>> =>
                 /\ e.sub.from \in {"l", "r"}
                 /\ e.sub.where # <<>> => e.sub.where \in Conditions /\ Depth[e.sub.where] < Depth[e]
  BY ConditionAssumption

NegativeStep(f, e) == IF e.op \in Compound THEN f[e.left] \/ f[e.right] ELSE e.op = "notin"

LEMMA NegativeDef == \A e \in Conditions : Negative[e] = NegativeStep(Negative, e)
  <1> DEFINE H == [p \in [Conditions -> BOOLEAN] \X Conditions |-> NegativeStep(p[1], p[2])]
             Is(h) == h = [e \in Conditions |-> NegativeStep(h, e)]
  <1>1. \A f \in [Conditions -> BOOLEAN] : \A e \in Conditions : H[<<f, e>>] = NegativeStep(f, e)
    OBVIOUS
  <1>2. \A f \in [Conditions -> BOOLEAN] : \A e \in Conditions : NegativeStep(f, e) \in BOOLEAN
    BY DEF NegativeStep
  <1> HIDE DEF H
  <1>3. LooksBelow(H, Conditions, BOOLEAN, Depth)
    <2>1. ASSUME NEW e \in Conditions, NEW f \in [Conditions -> BOOLEAN], NEW g \in [Conditions -> BOOLEAN],
                 \A y \in Conditions : Depth[y] < Depth[e] => f[y] = g[y]
          PROVE  NegativeStep(f, e) = NegativeStep(g, e)
      BY <2>1, ConditionParts DEF NegativeStep
    <2> QED
      BY <1>1, <2>1 DEF LooksBelow
  <1>4. \E h \in [Conditions -> BOOLEAN] : Solves(h, H, Conditions)
    <2>1. StaysIn(H, Conditions, BOOLEAN)
      BY <1>1, <1>2 DEF StaysIn
    <2>2. Depth \in [Conditions -> Nat] /\ TRUE \in BOOLEAN
      BY ConditionAssumption
    <2> QED
      BY <1>3, <2>1, <2>2, RecursionExists
  <1>5. \E h : Is(h)
    BY <1>1, <1>4 DEF Solves
  <1>6. Negative = CHOOSE h : Is(h)
    BY Zenon DEF Negative, NegativeStep
  <1>7. Is(Negative)
    <2> HIDE DEF Is
    <2> QED
      BY <1>5, <1>6, Zenon
  <1> QED
    BY <1>7

SemiJoinStep(f, e) ==
    IF e.op \in Compound THEN f[e.left] /\ f[e.right]
    ELSE /\ e.op # "column"
         /\ e.op # "exists" => e.col.table = "l"
         /\ e.op \in WithSubQuery /\ e.sub # <<>> =>
               /\ e.sub.from = "r"
               /\ e.op # "exists" => e.sub.select.table = "r"
               /\ e.sub.where # <<>> => e.sub.where = OnKeys

LEMMA SemiJoinDef == \A e \in Conditions : SemiJoin[e] = SemiJoinStep(SemiJoin, e)
  <1> DEFINE H == [p \in [Conditions -> BOOLEAN] \X Conditions |-> SemiJoinStep(p[1], p[2])]
             Is(h) == h = [e \in Conditions |-> SemiJoinStep(h, e)]
  <1>1. \A f \in [Conditions -> BOOLEAN] : \A e \in Conditions : H[<<f, e>>] = SemiJoinStep(f, e)
    OBVIOUS
  <1>2. \A f \in [Conditions -> BOOLEAN] : \A e \in Conditions : SemiJoinStep(f, e) \in BOOLEAN
    BY DEF SemiJoinStep
  <1> HIDE DEF H
  <1>3. LooksBelow(H, Conditions, BOOLEAN, Depth)
    <2>1. ASSUME NEW e \in Conditions, NEW f \in [Conditions -> BOOLEAN], NEW g \in [Conditions -> BOOLEAN],
                 \A y \in Conditions : Depth[y] < Depth[e] => f[y] = g[y]
          PROVE  SemiJoinStep(f, e) = SemiJoinStep(g, e)
      BY <2>1, ConditionParts DEF SemiJoinStep
    <2> QED
      BY <1>1, <2>1 DEF LooksBelow
  <1>4. \E h \in [Conditions -> BOOLEAN] : Solves(h, H, Conditions)
    <2>1. StaysIn(H, Conditions, BOOLEAN)
      BY <1>1, <1>2 DEF StaysIn
    <2>2. Depth \in [Conditions -> Nat] /\ TRUE \in BOOLEAN
      BY ConditionAssumption
    <2> QED
      BY <1>3, <2>1, <2>2, RecursionExists
  <1>5. \E h : Is(h)
    BY <1>1, <1>4 DEF Solves
  <1>6. SemiJoin = CHOOSE h : Is(h)
    BY Zenon DEF SemiJoin, SemiJoinStep
  <1>7. Is(SemiJoin)
    <2> HIDE DEF Is
    <2> QED
      BY <1>5, <1>6, Zenon
  <1> QED
    BY <1>7

\* The rows of the second table that a subquery finds for row a of the first, and
\* the values it lists.
PartnersIn(in, a, e) ==
  {b \in Range(RowsOf(in.r, {})) :
     e.sub.where # <<>> => in.l[a[1]][a[2]].k = in.r[b[1]][b[2]].k}
ListedIn(in, a, e) ==
  IF e.sub = <<>> THEN e.vals
  ELSE {in.r[b[1]][b[2]][e.sub.select.name] : b \in PartnersIn(in, a, e)}

TrueOf(in, f, e, a) ==
  LET v == in.l[a[1]][a[2]][e.col.name]
  IN  CASE e.op = "and"    -> a \in f[e.left] \cap f[e.right]
        [] e.op = "or"     -> a \in f[e.left] \cup f[e.right]
        [] e.op = "exists" -> PartnersIn(in, a, e) # {}
        [] e.op = "in"     -> v \in ListedIn(in, a, e) \ {Null}
        [] e.op = "notin"  -> v \notin ListedIn(in, a, e) \cup {Null}
        [] OTHER           -> Holds(v, e.op, e.val)

MeansStep(in, f, e) == {a \in Range(RowsOf(in.l, {})) : TrueOf(in, f, e, a)}

LEMMA MeansDef ==
    ASSUME NEW in
    PROVE  \A e \in Conditions : Means(in)[e] = MeansStep(in, Means(in), e)
  <1> DEFINE V == SUBSET Range(RowsOf(in.l, {}))
             H == [p \in [Conditions -> V] \X Conditions |-> MeansStep(in, p[1], p[2])]
             Is(h) == h = [e \in Conditions |-> MeansStep(in, h, e)]
  <1>1. \A f \in [Conditions -> V] : \A e \in Conditions : H[<<f, e>>] = MeansStep(in, f, e)
    OBVIOUS
  <1>2. \A f \in [Conditions -> V] : \A e \in Conditions : MeansStep(in, f, e) \in V
    BY DEF MeansStep
  <1>0. {} \in V
    OBVIOUS
  <1> HIDE DEF H, V
  <1>3. LooksBelow(H, Conditions, V, Depth)
    <2>1. ASSUME NEW e \in Conditions, NEW f \in [Conditions -> V], NEW g \in [Conditions -> V],
                 \A y \in Conditions : Depth[y] < Depth[e] => f[y] = g[y]
          PROVE  MeansStep(in, f, e) = MeansStep(in, g, e)
      <3>1. e.op \in {"and", "or"} => f[e.left] = g[e.left] /\ f[e.right] = g[e.right]
        BY <2>1, ConditionParts DEF Compound
      <3>2. ASSUME NEW a PROVE TrueOf(in, f, e, a) = TrueOf(in, g, e, a)
        BY <3>1 DEF TrueOf
      <3> QED
        BY <3>2 DEF MeansStep
    <2> QED
      BY <1>1, <2>1 DEF LooksBelow
  <1>4. \E h \in [Conditions -> V] : Solves(h, H, Conditions)
    <2>1. StaysIn(H, Conditions, V)
      BY <1>1, <1>2 DEF StaysIn
    <2>2. Depth \in [Conditions -> Nat] /\ {} \in V
      BY <1>0, ConditionAssumption
    <2> QED
      BY <1>3, <2>1, <2>2, RecursionExists
  <1>5. \E h : Is(h)
    BY <1>1, <1>4 DEF Solves
  <1>6. Means(in) = CHOOSE h : Is(h)
    BY Zenon DEF Means, MeansStep, TrueOf, PartnersIn, ListedIn
  <1>7. Is(Means(in))
    <2> HIDE DEF Is
    <2> QED
      BY <1>5, <1>6, Zenon
  <1> QED
    BY <1>7

\* The rows a condition may be asked about.
CombinedRows == [l : Nat \X Nat, r : Nat \X Nat]

SatisfiedBy(in, bad, f, e, c) ==
  LET v == ValueIn(in, c, e.col)
  IN  CASE e.op = "and"    -> c \in f[e.left] /\ c \in f[e.right]
        [] e.op = "or"     -> c \in f[e.left] \/ c \in f[e.right]
        [] e.op = "exists" -> SubQuery(in, f, c, e.sub, bad) # {}
        [] e.op = "column" -> v = ValueIn(in, c, e.other)
        [] e.op \in {"in", "notin"} -> Member(v, e.op, Values(in, f, c, e, bad))
        [] OTHER -> Holds(v, e.op, e.val)

MeaningStep(in, bad, f, e) == {c \in CombinedRows : SatisfiedBy(in, bad, f, e, c)}

LEMMA MeaningDef ==
    ASSUME NEW in, NEW bad
    PROVE  \A e \in Conditions : Meaning(in, bad)[e] = MeaningStep(in, bad, Meaning(in, bad), e)
  <1> DEFINE V == SUBSET CombinedRows
             H == [p \in [Conditions -> V] \X Conditions |-> MeaningStep(in, bad, p[1], p[2])]
             Is(h) == h = [e \in Conditions |-> MeaningStep(in, bad, h, e)]
  <1>1. \A f \in [Conditions -> V] : \A e \in Conditions : H[<<f, e>>] = MeaningStep(in, bad, f, e)
    OBVIOUS
  <1>2. \A f \in [Conditions -> V] : \A e \in Conditions : MeaningStep(in, bad, f, e) \in V
    BY DEF MeaningStep
  <1>0. {} \in V
    OBVIOUS
  <1> HIDE DEF H, V
  <1>3. LooksBelow(H, Conditions, V, Depth)
    <2>1. ASSUME NEW e \in Conditions, NEW f \in [Conditions -> V], NEW g \in [Conditions -> V],
                 \A y \in Conditions : Depth[y] < Depth[e] => f[y] = g[y]
          PROVE  MeaningStep(in, bad, f, e) = MeaningStep(in, bad, g, e)
      <3>1. e.op \in {"and", "or"} => f[e.left] = g[e.left] /\ f[e.right] = g[e.right]
        BY <2>1, ConditionParts DEF Compound
      <3>2. ASSUME e.op \in WithSubQuery, e.sub # <<>>, NEW c
            PROVE  SubQuery(in, f, c, e.sub, bad) = SubQuery(in, g, c, e.sub, bad)
        <4>1. e.sub.where # <<>> => f[e.sub.where] = g[e.sub.where]
          BY <2>1, <3>2, ConditionParts
        <4> QED
          BY <4>1, Zenon DEF SubQuery
      <3>3. ASSUME e.op \in WithSubQuery, NEW c PROVE Values(in, f, c, e, bad) = Values(in, g, c, e, bad)
        BY <3>2, <3>3, Zenon DEF Values
      <3>4. e.op = "exists" => e.sub # <<>>
        BY ConditionParts
      <3>5. ASSUME NEW c PROVE SatisfiedBy(in, bad, f, e, c) = SatisfiedBy(in, bad, g, e, c)
        <4>1. e.op = "exists" => SubQuery(in, f, c, e.sub, bad) = SubQuery(in, g, c, e.sub, bad)
          BY <3>2, <3>4 DEF WithSubQuery
        <4>2. e.op \in {"in", "notin"} => Values(in, f, c, e, bad) = Values(in, g, c, e, bad)
          BY <3>3 DEF WithSubQuery
        <4> QED
          BY <3>1, <4>1, <4>2 DEF SatisfiedBy
      <3> QED
        BY <3>5 DEF MeaningStep
    <2> QED
      BY <1>1, <2>1 DEF LooksBelow
  <1>4. \E h \in [Conditions -> V] : Solves(h, H, Conditions)
    <2>1. StaysIn(H, Conditions, V)
      BY <1>1, <1>2 DEF StaysIn
    <2>2. Depth \in [Conditions -> Nat] /\ {} \in V
      BY <1>0, ConditionAssumption
    <2> QED
      BY <1>3, <2>1, <2>2, RecursionExists
  <1>5. \E h : Is(h)
    BY <1>1, <1>4 DEF Solves
  <1>6. Meaning(in, bad) = CHOOSE h : Is(h)
    BY Zenon DEF Meaning, MeaningStep, SatisfiedBy, CombinedRows
  <1>7. Is(Meaning(in, bad))
    <2> HIDE DEF Is
    <2> QED
      BY <1>5, <1>6, Zenon
  <1> QED
    BY <1>7

-----------------------------------------------------------------------------
(* A condition on one table means what a semijoin says.                      *)

\* Row a of the first table, by itself.
Alone(a) == [l |-> a, r |-> NoRow]

\* The rows of the second table that a subquery reads and matches.
PartnersRead(in, bad, a, e) ==
  {b \in Range(RowsOf(in.r, bad)) :
     e.sub.where # <<>> => in.l[a[1]][a[2]].k = in.r[b[1]][b[2]].k}

LEMMA TablesOfInput ==
    ASSUME NEW in \in Inputs
    PROVE  /\ in.l \in Seq(Seq([Schemas["l"] -> Int \cup {Null}]))
           /\ in.r \in Seq(Seq([Schemas["r"] -> Int \cup {Null}]))
  BY QueryAssumption DEF Tables

LEMMA ReadIsPlaces ==
    ASSUME NEW in \in Inputs, NEW bad
    PROVE  /\ Range(RowsOf(in.l, {})) = Places(in.l) /\ NoRow \notin Places(in.l)
           /\ Range(RowsOf(in.r, {})) = Places(in.r) /\ NoRow \notin Places(in.r)
           /\ Range(RowsOf(in.r, bad)) = {x \in Places(in.r) : x[1] \notin bad}
           /\ Places(in.l) \subseteq Nat \X Nat /\ Places(in.r) \subseteq Nat \X Nat
  <1>1. /\ in.l \in Seq(Seq([Schemas["l"] -> Int \cup {Null}]))
        /\ in.r \in Seq(Seq([Schemas["r"] -> Int \cup {Null}]))
    BY TablesOfInput
  <1>2. Range(RowsOf(in.l, {})) = Places(in.l)
    <2>1. Range(RowsOf(in.l, {})) = {x \in Places(in.l) : x[1] \notin {}}
      BY <1>1, RowsOfTable
    <2> QED
      BY <2>1
  <1>3. Range(RowsOf(in.r, {})) = Places(in.r)
    <2>1. Range(RowsOf(in.r, {})) = {x \in Places(in.r) : x[1] \notin {}}
      BY <1>1, RowsOfTable
    <2> QED
      BY <2>1
  <1>4. Range(RowsOf(in.r, bad)) = {x \in Places(in.r) : x[1] \notin bad}
    BY <1>1, RowsOfTable
  <1>5. NoRow \notin Places(in.l) /\ NoRow \notin Places(in.r)
    BY <1>1, NoRowIsNoPlace
  <1>6. Places(in.l) \subseteq Nat \X Nat /\ Places(in.r) \subseteq Nat \X Nat
    BY DEF Places
  <1> QED
    BY <1>2, <1>3, <1>4, <1>5, <1>6

\* What l.k = r.k says of two rows.
LEMMA OnKeysMeans ==
    ASSUME NEW in \in Inputs, NEW bad, NEW a \in Places(in.l), NEW b \in Places(in.r), OnKeys \in Conditions
    PROVE  [l |-> a, r |-> b] \in Meaning(in, bad)[OnKeys]
             <=> in.l[a[1]][a[2]].k = in.r[b[1]][b[2]].k
  <1> DEFINE c == [l |-> a, r |-> b]
             f == Meaning(in, bad)
  <1>1. f[OnKeys] = MeaningStep(in, bad, f, OnKeys)
    BY MeaningDef
  <1>2. c \in CombinedRows /\ a # NoRow /\ b # NoRow
    BY ReadIsPlaces DEF CombinedRows
  <1>3. /\ c["l"] = a /\ c["r"] = b
        /\ Col("l", "k").table = "l" /\ Col("l", "k").name = "k"
        /\ Col("r", "k").table = "r" /\ Col("r", "k").name = "k"
    BY DEF Col
  <1> HIDE DEF c, f
  <1>4. ValueIn(in, c, Col("l", "k")) = in.l[a[1]][a[2]].k
    BY <1>2, <1>3 DEF ValueIn
  <1>5. ValueIn(in, c, Col("r", "k")) = in.r[b[1]][b[2]].k
    BY <1>2, <1>3 DEF ValueIn
  <1>6. OnKeys.op = "column" /\ OnKeys.col = Col("l", "k") /\ OnKeys.other = Col("r", "k")
    BY DEF OnKeys
  <1>7. SatisfiedBy(in, bad, f, OnKeys, c) <=> in.l[a[1]][a[2]].k = in.r[b[1]][b[2]].k
    BY <1>4, <1>5, <1>6 DEF SatisfiedBy
  <1>8. c \in f[OnKeys] <=> SatisfiedBy(in, bad, f, OnKeys, c)
    BY <1>1, <1>2 DEF MeaningStep
  <1> QED
    BY <1>7, <1>8 DEF c, f

\* What a subquery of the second table finds.
LEMMA SubQueryFinds ==
    ASSUME NEW in \in Inputs, in.query.kind \notin Joins, NEW bad, NEW a \in Places(in.l),
           NEW e \in Conditions, e.op \in WithSubQuery, e.sub # <<>>, e.sub.from = "r",
           e.sub.where # <<>> => e.sub.where = OnKeys
    PROVE  SubQuery(in, Meaning(in, bad), Alone(a), e.sub, bad)
             = {[l |-> IF e.sub.where = <<>> THEN NoRow ELSE a, r |-> b] : b \in PartnersRead(in, bad, a, e)}
  <1> DEFINE f == Meaning(in, bad)
             R == Range(RowsOf(in.r, bad))
             inner == {[[l |-> NoRow, r |-> NoRow] EXCEPT !["r"] = p] : p \in R}
             Merged(d) == Merge(in, Alone(a), d)
  <1>1. SubQuery(in, f, Alone(a), e.sub, bad)
          = IF e.sub.where = <<>> THEN inner ELSE {m \in {Merged(d) : d \in inner} : m \in f[e.sub.where]}
    BY Zenon DEF SubQuery, InnerRows
  <1>2. inner = {[l |-> NoRow, r |-> p] : p \in R}
    <2>1. \A p : [[l |-> NoRow, r |-> NoRow] EXCEPT !["r"] = p] = [l |-> NoRow, r |-> p]
      OBVIOUS
    <2> QED
      BY <2>1
  <1>3. \A p : Merged([l |-> NoRow, r |-> p]) = [l |-> a, r |-> p]
    <2>1. Alone(a)["l"] = a /\ Alone(a)["r"] = NoRow /\ a # NoRow
      BY ReadIsPlaces DEF Alone
    <2>2. InRow(in, Alone(a), "l") /\ ~InRow(in, Alone(a), "r")
      BY <2>1 DEF InRow
    <2> QED
      BY <2>1, <2>2 DEF Merge
  <1>4. R \subseteq Places(in.r)
    <2>1. R = {y \in Places(in.r) : y[1] \notin bad}
      BY ReadIsPlaces
    <2> HIDE DEF R
    <2> QED
      BY <2>1
  <1> HIDE DEF f, R, Merged
  <1>5. CASE e.sub.where = <<>>
    <2>1. PartnersRead(in, bad, a, e) = R
      BY <1>5 DEF PartnersRead, R
    <2> HIDE DEF inner
    <2> QED
      BY <1>1, <1>2, <1>5, <2>1 DEF f
  <1>6. CASE e.sub.where # <<>>
    <2>1. e.sub.where = OnKeys /\ OnKeys \in Conditions
      BY <1>6, ConditionParts
    <2>2. {Merged(d) : d \in inner} = {[l |-> a, r |-> p] : p \in R}
      <3> HIDE DEF inner
      <3>1. {Merged(d) : d \in inner} = {Merged([l |-> NoRow, r |-> p]) : p \in R}
        BY <1>2
      <3> QED
        BY <1>3, <3>1
    <2>3. \A b \in R : [l |-> a, r |-> b] \in f[OnKeys] <=> in.l[a[1]][a[2]].k = in.r[b[1]][b[2]].k
      BY <1>4, <2>1, OnKeysMeans DEF f
    <2>4. {m \in {[l |-> a, r |-> p] : p \in R} : m \in f[OnKeys]} = {[l |-> a, r |-> b] : b \in PartnersRead(in, bad, a, e)}
      BY <1>6, <2>3 DEF PartnersRead, R
    <2> HIDE DEF inner
    <2> QED
      BY <1>1, <1>6, <2>1, <2>2, <2>4 DEF f
  <1> QED
    BY <1>5, <1>6

\* The condition is true of no row by itself that Means does not name, and of all
\* these when all pages are read.
Agrees(in, bad, e) ==
  SemiJoin[e] => \A a \in Places(in.l) :
    /\ bad = {} /\ a \in Means(in)[e] => Alone(a) \in Meaning(in, bad)[e]
    /\ (bad = {} \/ ~Negative[e]) /\ Alone(a) \in Meaning(in, bad)[e] => a \in Means(in)[e]

\* The rows found, and the values listed, are some of those there are.
LEMMA SubQueryAgrees ==
    ASSUME NEW in \in Inputs, in.query.kind \notin Joins, NEW bad, NEW a \in Places(in.l),
           NEW e \in Conditions, e.op \in WithSubQuery, SemiJoin[e]
    PROVE  /\ e.op = "exists" /\ SubQuery(in, Meaning(in, bad), Alone(a), e.sub, bad) # {}
                => PartnersIn(in, a, e) # {}
           /\ e.op = "exists" /\ bad = {} /\ PartnersIn(in, a, e) # {}
                => SubQuery(in, Meaning(in, bad), Alone(a), e.sub, bad) # {}
           /\ e.op # "exists" => Values(in, Meaning(in, bad), Alone(a), e, bad) \subseteq ListedIn(in, a, e)
           /\ e.op # "exists" /\ bad = {}
                => Values(in, Meaning(in, bad), Alone(a), e, bad) = ListedIn(in, a, e)
  <1> DEFINE f == Meaning(in, bad)
             x == IF e.sub.where = <<>> THEN NoRow ELSE a
             P == PartnersRead(in, bad, a, e)
  <1>1. SemiJoinStep(SemiJoin, e) /\ e.op \notin Compound /\ (e.op = "exists" => e.sub # <<>>)
    BY SemiJoinDef, ConditionParts DEF WithSubQuery, Compound
  <1>2. CASE e.sub = <<>>
    <2>1. e.op # "exists"
      BY <1>1, <1>2
    <2>2. Values(in, f, Alone(a), e, bad) = e.vals /\ ListedIn(in, a, e) = e.vals
      BY <1>2 DEF Values, ListedIn
    <2> QED
      BY <2>1, <2>2
  <1>3. CASE e.sub # <<>>
    <2>1. e.sub.from = "r" /\ (e.sub.where # <<>> => e.sub.where = OnKeys)
          /\ (e.op # "exists" => e.sub.select.table = "r")
      BY <1>1, <1>3 DEF SemiJoinStep
    <2>2. SubQuery(in, f, Alone(a), e.sub, bad) = {[l |-> x, r |-> b] : b \in P}
      BY <1>3, <2>1, SubQueryFinds
    <2>3. P \subseteq PartnersIn(in, a, e) /\ (bad = {} => P = PartnersIn(in, a, e)) /\ NoRow \notin P
      <3> DEFINE R == Range(RowsOf(in.r, bad))
                 S == Range(RowsOf(in.r, {}))
      <3>1. R = {y \in Places(in.r) : y[1] \notin bad} /\ S = Places(in.r) /\ NoRow \notin S
        BY ReadIsPlaces
      <3>2. /\ P = {b \in R : e.sub.where # <<>> => in.l[a[1]][a[2]].k = in.r[b[1]][b[2]].k}
            /\ PartnersIn(in, a, e) = {b \in S : e.sub.where # <<>> => in.l[a[1]][a[2]].k = in.r[b[1]][b[2]].k}
        BY DEF PartnersRead, PartnersIn
      <3>3. bad = {} => R = S
        OBVIOUS
      <3> HIDE DEF R, S, P
      <3>4. R \subseteq S /\ NoRow \notin R
        BY <3>1
      <3> QED
        BY <3>2, <3>3, <3>4
    <2> HIDE DEF f, P, x
    <2>4. ASSUME e.op # "exists"
          PROVE  Values(in, f, Alone(a), e, bad) = {in.r[b[1]][b[2]][e.sub.select.name] : b \in P}
      <3>1. Values(in, f, Alone(a), e, bad)
              = {ValueIn(in, m, e.sub.select) : m \in {[l |-> x, r |-> b] : b \in P}}
        BY <1>3, <2>2, Zenon DEF Values
      <3>2. ASSUME NEW b \in P
            PROVE  ValueIn(in, [l |-> x, r |-> b], e.sub.select) = in.r[b[1]][b[2]][e.sub.select.name]
        <4>1. [l |-> x, r |-> b]["r"] = b /\ b # NoRow
          BY <2>3
        <4> QED
          BY <2>1, <2>4, <4>1 DEF ValueIn
      <3> QED
        BY <3>1, <3>2
    <2>5. ListedIn(in, a, e) = {in.r[b[1]][b[2]][e.sub.select.name] : b \in PartnersIn(in, a, e)}
      BY <1>3, Zenon DEF ListedIn
    <2>6. SubQuery(in, f, Alone(a), e.sub, bad) # {} <=> P # {}
      BY <2>2
    <2> QED
      BY <2>3, <2>4, <2>5, <2>6 DEF f
  <1> QED
    BY <1>2, <1>3

LEMMA MeaningAgrees ==
    ASSUME NEW in \in Inputs, in.query.kind \notin Joins, NEW bad, NEW e \in Conditions,
           \A y \in Conditions : Depth[y] < Depth[e] => Agrees(in, bad, y)
    PROVE  Agrees(in, bad, e)
  <1> DEFINE f == Meaning(in, bad)
             g == Means(in)
  <1>1. SUFFICES ASSUME SemiJoin[e], NEW a \in Places(in.l)
                 PROVE  /\ bad = {} /\ a \in g[e] => Alone(a) \in f[e]
                        /\ (bad = {} \/ ~Negative[e]) /\ Alone(a) \in f[e] => a \in g[e]
    BY DEF Agrees
  <1>2. /\ Alone(a) \in f[e] <=> SatisfiedBy(in, bad, f, e, Alone(a))
        /\ a \in g[e] <=> TrueOf(in, g, e, a)
    <2>1. f[e] = MeaningStep(in, bad, f, e) /\ g[e] = MeansStep(in, g, e)
      BY MeaningDef, MeansDef
    <2>2. Alone(a) \in CombinedRows /\ a \in Range(RowsOf(in.l, {}))
      BY ReadIsPlaces DEF CombinedRows, Alone, NoRow
    <2> HIDE DEF f, g
    <2> QED
      BY <2>1, <2>2 DEF MeaningStep, MeansStep
  <1>3. CASE e.op \in Compound
    <2>1. /\ e.left \in Conditions /\ e.right \in Conditions
          /\ Agrees(in, bad, e.left) /\ Agrees(in, bad, e.right)
      BY <1>3, ConditionParts
    <2>2. SemiJoin[e.left] /\ SemiJoin[e.right] /\ (Negative[e] = (Negative[e.left] \/ Negative[e.right]))
      BY <1>1, <1>3, SemiJoinDef, NegativeDef DEF SemiJoinStep, NegativeStep
    <2>3. \A y \in {e.left, e.right} :
            /\ bad = {} /\ a \in g[y] => Alone(a) \in f[y]
            /\ (bad = {} \/ ~Negative[y]) /\ Alone(a) \in f[y] => a \in g[y]
      BY <1>1, <2>1, <2>2 DEF Agrees
    <2> HIDE DEF f, g
    <2>4. CASE e.op = "and"
      <3>1. SatisfiedBy(in, bad, f, e, Alone(a)) <=> Alone(a) \in f[e.left] /\ Alone(a) \in f[e.right]
        BY <2>4 DEF SatisfiedBy
      <3>2. TrueOf(in, g, e, a) <=> a \in g[e.left] /\ a \in g[e.right]
        BY <2>4 DEF TrueOf
      <3> QED
        BY <1>2, <2>2, <2>3, <3>1, <3>2
    <2>5. CASE e.op = "or"
      <3>1. SatisfiedBy(in, bad, f, e, Alone(a)) <=> Alone(a) \in f[e.left] \/ Alone(a) \in f[e.right]
        BY <2>5 DEF SatisfiedBy
      <3>2. TrueOf(in, g, e, a) <=> a \in g[e.left] \/ a \in g[e.right]
        BY <2>5 DEF TrueOf
      <3> QED
        BY <1>2, <2>2, <2>3, <3>1, <3>2
    <2> QED
      BY <1>3, <2>4, <2>5 DEF Compound
  <1>4. CASE e.op \notin Compound
    <2>1. /\ e.op # "column" /\ (e.op # "exists" => e.col.table = "l")
          /\ Negative[e] = (e.op = "notin")
      BY <1>1, <1>4, SemiJoinDef, NegativeDef DEF SemiJoinStep, NegativeStep
    <2> DEFINE v == ValueIn(in, Alone(a), e.col)
               w == in.l[a[1]][a[2]][e.col.name]
    <2>2. e.op # "exists" => v = w
      <3>1. Alone(a)["l"] = a /\ a # NoRow
        BY ReadIsPlaces DEF Alone
      <3> QED
        BY <2>1, <3>1 DEF ValueIn
    <2> HIDE DEF f, g
    <2>3. CASE e.op = "exists"
      <3>1. SatisfiedBy(in, bad, f, e, Alone(a)) <=> SubQuery(in, f, Alone(a), e.sub, bad) # {}
        BY <2>3, Zenon DEF SatisfiedBy
      <3>2. TrueOf(in, g, e, a) <=> PartnersIn(in, a, e) # {}
        BY <2>3, Zenon DEF TrueOf
      <3>3. e.op \in WithSubQuery
        BY <2>3 DEF WithSubQuery
      <3> QED
        BY <1>1, <1>2, <2>3, <3>1, <3>2, <3>3, SubQueryAgrees DEF f
    <2>4. CASE e.op \in {"in", "notin"}
      <3> DEFINE vs == Values(in, f, Alone(a), e, bad)
                 ls == ListedIn(in, a, e)
      <3>1. vs \subseteq ls /\ (bad = {} => vs = ls)
        <4>1. e.op \in WithSubQuery /\ e.op # "exists"
          BY <2>4 DEF WithSubQuery
        <4> QED
          BY <1>1, <4>1, SubQueryAgrees DEF f
      <3>2. SatisfiedBy(in, bad, f, e, Alone(a)) <=> v # Null /\ ((v \in vs) <=> (e.op = "in"))
        <4>1. SatisfiedBy(in, bad, f, e, Alone(a)) <=> Member(v, e.op, vs)
          BY <2>4 DEF SatisfiedBy
        <4> HIDE DEF v, vs
        <4> QED
          BY <4>1 DEF Member
      <3>3. e.op = "in" => (TrueOf(in, g, e, a) <=> w \in ls \ {Null})
        BY DEF TrueOf
      <3>4. e.op = "notin" => (TrueOf(in, g, e, a) <=> w \notin ls \cup {Null})
        BY DEF TrueOf
      <3>5. v = w
        BY <2>2, <2>4
      <3> HIDE DEF v, w, vs, ls
      <3> QED
        BY <1>2, <2>1, <2>4, <3>1, <3>2, <3>3, <3>4, <3>5
    <2>5. CASE e.op \notin {"exists", "in", "notin"}
      <3>1. v = w /\ e.op \notin {"and", "or", "exists", "column", "in", "notin"}
        BY <1>4, <2>1, <2>2, <2>5 DEF Compound
      <3>2. SatisfiedBy(in, bad, f, e, Alone(a)) <=> Holds(v, e.op, e.val)
        BY <3>1 DEF SatisfiedBy
      <3>3. TrueOf(in, g, e, a) <=> Holds(w, e.op, e.val)
        BY <3>1 DEF TrueOf
      <3> HIDE DEF v, w
      <3> QED
        BY <1>2, <3>1, <3>2, <3>3
    <2> QED
      BY <2>3, <2>4, <2>5
  <1> QED
    BY <1>3, <1>4

\* WHERE means what Means says, by induction on the depth of the condition.
LEMMA MeaningIsMeans ==
    ASSUME NEW in \in Inputs, in.query.kind \notin Joins, NEW bad
    PROVE  \A e \in Conditions : Agrees(in, bad, e)
  <1> DEFINE T == {n \in Nat : \A e \in Conditions : Depth[e] < n => Agrees(in, bad, e)}
  <1>1. Depth \in [Conditions -> Nat]
    BY ConditionAssumption
  <1>2. 0 \in T
    BY <1>1
  <1>3. ASSUME NEW n \in Nat, n \in T PROVE n + 1 \in T
    <2>1. ASSUME NEW e \in Conditions, Depth[e] < n + 1 PROVE Agrees(in, bad, e)
      <3>1. \A y \in Conditions : Depth[y] < Depth[e] => Agrees(in, bad, y)
        BY <1>1, <1>3, <2>1
      <3> QED
        BY <3>1, MeaningAgrees
    <2> QED
      BY <2>1
  <1>4. \A n \in Nat : n \in T
    <2> HIDE DEF T
    <2> QED
      BY <1>2, <1>3, SetInduction
  <1>5. ASSUME NEW e \in Conditions PROVE Agrees(in, bad, e)
    <2>1. Depth[e] + 1 \in T /\ Depth[e] < Depth[e] + 1
      <3> HIDE DEF T
      <3> QED
        BY <1>1, <1>4
    <2> QED
      BY <2>1
  <1> QED
    BY <1>5

-----------------------------------------------------------------------------
(* Such a condition is an error of no row.                                   *)

FailsOn(in, bad, f, e, c) ==
  CASE e.op = "and" -> c \in f[e.left] \/ (c \in Meaning(in, bad)[e.left] /\ c \in f[e.right])
    [] e.op = "or"  -> c \in f[e.left] \/ (c \notin Meaning(in, bad)[e.left] /\ c \in f[e.right])
    [] e.op = "isnull" -> ~InRow(in, c, e.col.table)
    [] e.op \in WithSubQuery ->
          /\ e.sub # <<>> /\ e.sub.where # <<>>
          /\ \E d \in InnerRows(in, e.sub, bad) : Merge(in, c, d) \in f[e.sub.where]
    [] OTHER -> FALSE

FailsStepOf(in, bad, f, e) == {c \in CombinedRows : FailsOn(in, bad, f, e, c)}

LEMMA FailsDef ==
    ASSUME NEW in, NEW bad
    PROVE  \A e \in Conditions : Fails(in, bad)[e] = FailsStepOf(in, bad, Fails(in, bad), e)
  <1> DEFINE V == SUBSET CombinedRows
             H == [p \in [Conditions -> V] \X Conditions |-> FailsStepOf(in, bad, p[1], p[2])]
             Is(h) == h = [e \in Conditions |-> FailsStepOf(in, bad, h, e)]
  <1>1. \A f \in [Conditions -> V] : \A e \in Conditions : H[<<f, e>>] = FailsStepOf(in, bad, f, e)
    OBVIOUS
  <1>2. \A f \in [Conditions -> V] : \A e \in Conditions : FailsStepOf(in, bad, f, e) \in V
    BY DEF FailsStepOf
  <1>0. {} \in V
    OBVIOUS
  <1> HIDE DEF H, V
  <1>3. LooksBelow(H, Conditions, V, Depth)
    <2>1. ASSUME NEW e \in Conditions, NEW f \in [Conditions -> V], NEW g \in [Conditions -> V],
                 \A y \in Conditions : Depth[y] < Depth[e] => f[y] = g[y]
          PROVE  FailsStepOf(in, bad, f, e) = FailsStepOf(in, bad, g, e)
      <3>1. e.op \in {"and", "or"} => f[e.left] = g[e.left] /\ f[e.right] = g[e.right]
        BY <2>1, ConditionParts DEF Compound
      <3>2. e.op \in WithSubQuery /\ e.sub # <<>> /\ e.sub.where # <<>> => f[e.sub.where] = g[e.sub.where]
        BY <2>1, ConditionParts
      <3>3. ASSUME NEW c PROVE FailsOn(in, bad, f, e, c) <=> FailsOn(in, bad, g, e, c)
        <4>1. CASE e.op \in {"and", "or"}
          BY <3>1, <4>1 DEF FailsOn, WithSubQuery
        <4>2. CASE e.op = "isnull"
          BY <4>2 DEF FailsOn, WithSubQuery
        <4>3. CASE e.op \in WithSubQuery
          BY <3>2, <4>3 DEF FailsOn, WithSubQuery
        <4>4. CASE e.op \notin {"and", "or", "isnull"} \cup WithSubQuery
          BY <4>4 DEF FailsOn
        <4> QED
          BY <4>1, <4>2, <4>3, <4>4
      <3> QED
        BY <3>3 DEF FailsStepOf
    <2> QED
      BY <1>1, <2>1 DEF LooksBelow
  <1>4. \E h \in [Conditions -> V] : Solves(h, H, Conditions)
    <2>1. StaysIn(H, Conditions, V)
      BY <1>1, <1>2 DEF StaysIn
    <2>2. Depth \in [Conditions -> Nat] /\ {} \in V
      BY <1>0, ConditionAssumption
    <2> QED
      BY <1>3, <2>1, <2>2, RecursionExists
  <1>5. \E h : Is(h)
    BY <1>1, <1>4 DEF Solves
  <1>6. Fails(in, bad) = CHOOSE h : Is(h)
    BY Zenon DEF Fails, FailsStepOf, FailsOn, CombinedRows
  <1>7. Is(Fails(in, bad))
    <2> HIDE DEF Is
    <2> QED
      BY <1>5, <1>6, Zenon
  <1> QED
    BY <1>7

\* The condition can be evaluated for every row by itself.
Sound(in, bad, e) == SemiJoin[e] => \A a \in Places(in.l) : Alone(a) \notin Fails(in, bad)[e]

LEMMA SoundStep ==
    ASSUME NEW in \in Inputs, NEW bad, NEW e \in Conditions,
           \A y \in Conditions : Depth[y] < Depth[e] => Sound(in, bad, y)
    PROVE  Sound(in, bad, e)
  <1> DEFINE f == Fails(in, bad)
  <1>1. SUFFICES ASSUME SemiJoin[e], NEW a \in Places(in.l), Alone(a) \in f[e] PROVE FALSE
    BY DEF Sound
  <1>2. FailsOn(in, bad, f, e, Alone(a))
    <2>1. f[e] = FailsStepOf(in, bad, f, e)
      BY FailsDef
    <2> HIDE DEF f
    <2> QED
      BY <1>1, <2>1 DEF FailsStepOf
  <1>3. SemiJoinStep(SemiJoin, e)
    BY <1>1, SemiJoinDef
  <1>4. CASE e.op \in Compound
    <2>1. /\ e.left \in Conditions /\ e.right \in Conditions
          /\ Sound(in, bad, e.left) /\ Sound(in, bad, e.right)
      BY <1>4, ConditionParts
    <2>2. SemiJoin[e.left] /\ SemiJoin[e.right]
      BY <1>3, <1>4 DEF SemiJoinStep
    <2>3. Alone(a) \notin f[e.left] /\ Alone(a) \notin f[e.right]
      BY <2>1, <2>2 DEF Sound
    <2> HIDE DEF f
    <2> QED
      BY <1>2, <1>4, <2>3 DEF FailsOn, Compound, WithSubQuery
  <1>5. CASE e.op = "isnull"
    <2>1. e.col.table = "l" /\ Alone(a)["l"] = a /\ a # NoRow
      BY <1>3, <1>5, ReadIsPlaces DEF SemiJoinStep, Compound, Alone
    <2>2. InRow(in, Alone(a), e.col.table)
      BY <2>1 DEF InRow
    <2> HIDE DEF f
    <2> QED
      BY <1>2, <1>5, <2>2 DEF FailsOn, WithSubQuery
  <1>6. CASE e.op \in WithSubQuery
    <2>1. PICK d : /\ e.sub # <<>> /\ e.sub.where # <<>>
                   /\ Merge(in, Alone(a), d) \in f[e.sub.where]
      <3> HIDE DEF f
      <3> QED
        BY <1>2, <1>6 DEF FailsOn, WithSubQuery
    <2>2. e.sub.where = OnKeys /\ OnKeys \in Conditions
      BY <1>3, <1>6, <2>1, ConditionParts DEF SemiJoinStep, WithSubQuery, Compound
    <2>3. f[OnKeys] = FailsStepOf(in, bad, f, OnKeys)
      BY <2>2, FailsDef
    <2>4. OnKeys.op = "column"
      BY DEF OnKeys
    <2> HIDE DEF f
    <2>5. FailsOn(in, bad, f, OnKeys, Merge(in, Alone(a), d))
      BY <2>1, <2>2, <2>3 DEF FailsStepOf
    <2> QED
      BY <2>4, <2>5 DEF FailsOn, WithSubQuery
  <1>7. CASE e.op \notin Compound \cup WithSubQuery \cup {"isnull"}
    <2> HIDE DEF f
    <2> QED
      BY <1>2, <1>7 DEF FailsOn, Compound
  <1> QED
    BY <1>4, <1>5, <1>6, <1>7

\* By induction on the depth of the condition.
LEMMA AllSound ==
    ASSUME NEW in \in Inputs, NEW bad
    PROVE  \A e \in Conditions : Sound(in, bad, e)
  <1> DEFINE T == {n \in Nat : \A e \in Conditions : Depth[e] < n => Sound(in, bad, e)}
  <1>1. Depth \in [Conditions -> Nat]
    BY ConditionAssumption
  <1>2. 0 \in T
    BY <1>1
  <1>3. ASSUME NEW n \in Nat, n \in T PROVE n + 1 \in T
    <2>1. ASSUME NEW e \in Conditions, Depth[e] < n + 1 PROVE Sound(in, bad, e)
      <3>1. \A y \in Conditions : Depth[y] < Depth[e] => Sound(in, bad, y)
        BY <1>1, <1>3, <2>1
      <3> QED
        BY <3>1, SoundStep
    <2> QED
      BY <2>1
  <1>4. \A n \in Nat : n \in T
    <2> HIDE DEF T
    <2> QED
      BY <1>2, <1>3, SetInduction
  <1>5. ASSUME NEW e \in Conditions PROVE Sound(in, bad, e)
    <2>1. Depth[e] + 1 \in T /\ Depth[e] < Depth[e] + 1
      <3> HIDE DEF T
      <3> QED
        BY <1>1, <1>4
    <2> QED
      BY <2>1
  <1> QED
    BY <1>5

\* So a query with such a condition does not fail in WHERE.
NeverFails ==
    ~q.aggregate /\ q.kind \in {"table"} \cup Unions /\ q.where # <<>> /\ SemiJoin[q.where]
        => stage # "failed"

LEMMA NeverFailsNext == TypeOK /\ Staged /\ OneTableOnly /\ NeverFails /\ Next => NeverFails'
  <1> SUFFICES ASSUME TypeOK, Staged, OneTableOnly, NeverFails, Next, stage' = "failed", ~q'.aggregate,
                      q'.kind \in {"table"} \cup Unions, q'.where # <<>>, SemiJoin[q'.where]
               PROVE  FALSE
    BY DEF NeverFails
  <1>1. q' = q
    BY DEF Next, Load, From, JoinPair, NextLeft, Pad, Where, WhereRow, WhereFails, WhereDone, Union, GroupRow, GroupFails,
           Aggregate, GroupsDone, AggregateAll, Order, Limit, NextPage, q
  <1>2. WhereFails \/ GroupFails
    <2>1. stage # "failed"
      BY <1>1 DEF NeverFails
    <2> QED
      BY <2>1 DEF Next, Load, From, JoinPair, NextLeft, Pad, Where, WhereRow, WhereDone, Union, GroupRow,
           Aggregate, GroupsDone, AggregateAll, Order, Limit, NextPage, AfterWhere
  <1>3. ~GroupFails
    BY <1>1 DEF GroupFails, Staged
  <1>4. PICK bad : rows[at[1]] \in Fails(input, bad)[q.where] /\ stage = "filter" /\ at[1] <= Len(rows)
    BY <1>2, <1>3 DEF WhereFails
  <1>5. at[1] \in DOMAIN rows /\ rows[at[1]] \in Combined
    <2>1. rows \in Seq(Combined) /\ at[1] \in Nat /\ at[1] > 0
      BY DEF TypeOK
    <2> QED
      BY <1>4, <2>1
  <1>6. rows[at[1]].r = NoRow /\ rows[at[1]].l \in Places(input.l)
    BY <1>1, <1>4, <1>5 DEF OneTableOnly
  <1>7. PICK a \in Places(input.l) : rows[at[1]] = Alone(a)
    BY <1>5, <1>6 DEF Combined, Alone
  <1>8. input \in Inputs /\ q.where \in Conditions
    <2>1. input \in Inputs
      BY DEF TypeOK
    <2> QED
      BY <1>1, <2>1, QueryAssumption DEF q
  <1>9. Sound(input, bad, q.where)
    BY <1>8, AllSound
  <1> QED
    BY <1>1, <1>4, <1>7, <1>9 DEF Sound

-----------------------------------------------------------------------------
(* The rows WHERE leaves                                                     *)

\* Two sequences in stored order with the same rows are the same.
LEMMA OrderDetermines ==
    ASSUME NEW s \in Seq(Numbers), NEW t \in Seq(Numbers), InStoredOrder(s), InStoredOrder(t),
           Range(s) = Range(t)
    PROVE  s = t
  <1> DEFINE m == Len(s)
             n == Len(t)
  <1>1. /\ m \in Nat /\ n \in Nat /\ DOMAIN s = 1..m /\ DOMAIN t = 1..n
        /\ s = [i \in 1..m |-> s[i]] /\ t = [i \in 1..n |-> t[i]]
    OBVIOUS
  <1> HIDE DEF m, n
  <1>2. ASSUME NEW x \in Numbers, NEW y \in Numbers, StoredBefore(x, y) PROVE ~StoredBefore(y, x) /\ x # y
    BY <1>2 DEF StoredBefore, Numbers
  <1>3. /\ \A i \in 1..m : s[i] \in Numbers /\ \E j \in 1..n : s[i] = t[j]
        /\ \A j \in 1..n : t[j] \in Numbers /\ \E i \in 1..m : s[i] = t[j]
    <2>1. (\A i \in 1..m : s[i] \in Numbers) /\ (\A j \in 1..n : t[j] \in Numbers)
      BY <1>1
    <2>2. Range(s) = {s[i] : i \in 1..m} /\ Range(t) = {t[j] : j \in 1..n}
      BY <1>1 DEF Range
    <2>3. \A i \in 1..m : s[i] \in {t[j] : j \in 1..n}
      BY <2>2
    <2>4. \A j \in 1..n : t[j] \in {s[i] : i \in 1..m}
      BY <2>2
    <2> QED
      BY <2>1, <2>3, <2>4
  <1>4. /\ \A i, j \in 1..m : i < j => StoredBefore(s[i], s[j])
        /\ \A i, j \in 1..n : i < j => StoredBefore(t[i], t[j])
    BY <1>1 DEF InStoredOrder
  <1>5. ASSUME NEW k \in Nat, \A i \in 1..m : i <= k => i \in 1..n /\ s[i] = t[i],
               \A i \in 1..n : i <= k => i \in 1..m /\ s[i] = t[i]
        PROVE  /\ \A i \in 1..m : i <= k + 1 => i \in 1..n /\ s[i] = t[i]
               /\ \A i \in 1..n : i <= k + 1 => i \in 1..m /\ s[i] = t[i]
    <2>1. ASSUME k + 1 \in 1..m PROVE k + 1 \in 1..n /\ s[k + 1] = t[k + 1]
      <3>1. PICK j \in 1..n : s[k + 1] = t[j]
        BY <1>3, <2>1
      <3>2. ~(j <= k)
        <4>1. SUFFICES ASSUME j <= k PROVE FALSE
          OBVIOUS
        <4>2. j \in 1..m /\ s[j] = t[j] /\ j < k + 1
          BY <1>5, <4>1
        <4> QED
          BY <1>2, <1>3, <1>4, <2>1, <3>1, <4>2
      <3>3. k + 1 \in 1..n
        BY <1>1, <3>2
      <3>4. j = k + 1
        <4>1. SUFFICES ASSUME k + 1 < j PROVE FALSE
          BY <3>2
        <4>2. StoredBefore(t[k + 1], t[j])
          BY <1>4, <3>3, <4>1
        <4>3. PICK i \in 1..m : s[i] = t[k + 1]
          BY <1>3, <3>3
        <4>4. ~(i <= k)
          <5>1. SUFFICES ASSUME i <= k PROVE FALSE
            OBVIOUS
          <5>2. i \in 1..n /\ s[i] = t[i] /\ i < k + 1
            BY <1>5, <5>1
          <5> QED
            BY <1>2, <1>3, <1>4, <3>3, <4>3, <5>2
        <4>5. i = k + 1 \/ StoredBefore(s[k + 1], s[i])
          BY <1>4, <2>1, <4>4
        <4> QED
          BY <1>2, <1>3, <2>1, <3>1, <3>3, <4>2, <4>3, <4>5
      <3> QED
        BY <3>1, <3>3, <3>4
    <2>2. ASSUME k + 1 \in 1..n PROVE k + 1 \in 1..m
      <3>1. PICK i \in 1..m : s[i] = t[k + 1]
        BY <1>3, <2>2
      <3>2. ~(i <= k)
        <4>1. SUFFICES ASSUME i <= k PROVE FALSE
          OBVIOUS
        <4>2. i \in 1..n /\ s[i] = t[i] /\ i < k + 1
          BY <1>5, <4>1
        <4> QED
          BY <1>2, <1>3, <1>4, <2>2, <3>1, <4>2
      <3> QED
        BY <1>1, <3>2
    <2>3. \A i \in 1..m : i <= k + 1 => i <= k \/ i = k + 1
      BY <1>1
    <2>4. \A i \in 1..n : i <= k + 1 => i <= k \/ i = k + 1
      BY <1>1
    <2> QED
      BY <1>5, <2>1, <2>2, <2>3, <2>4
  <1> DEFINE W == {k \in Nat : /\ \A i \in 1..m : i <= k => i \in 1..n /\ s[i] = t[i]
                               /\ \A i \in 1..n : i <= k => i \in 1..m /\ s[i] = t[i]}
  <1>6. \A k \in Nat : k \in W
    <2>1. 0 \in W
      OBVIOUS
    <2>2. ASSUME NEW k \in Nat, k \in W PROVE k + 1 \in W
      <3>1. /\ \A i \in 1..m : i <= k => i \in 1..n /\ s[i] = t[i]
            /\ \A i \in 1..n : i <= k => i \in 1..m /\ s[i] = t[i]
        BY <2>2
      <3>2. /\ \A i \in 1..m : i <= k + 1 => i \in 1..n /\ s[i] = t[i]
            /\ \A i \in 1..n : i <= k + 1 => i \in 1..m /\ s[i] = t[i]
        BY <1>5, <3>1
      <3> QED
        BY <3>2
    <2> HIDE DEF W
    <2> QED
      BY <2>1, <2>2, SetInduction
  <1>7. m = n
    <2>1. m \in W /\ n \in W
      <3> HIDE DEF W
      <3> QED
        BY <1>1, <1>6
    <2> QED
      BY <1>1, <2>1, SMTT(60)
  <1>8. \A i \in 1..m : s[i] = t[i]
    <2>1. m \in W
      <3> HIDE DEF W
      <3> QED
        BY <1>1, <1>6
    <2> QED
      BY <1>1, <2>1
  <1> QED
    BY <1>1, <1>7, <1>8

\* A row that WHERE has let pass: its condition was true with the pages read then,
\* and these were all pages unless there was a fault.
Passed(c) == \E bad : (faults = 0 => bad = {}) /\ Satisfies(c, q.where, bad)

SelectedSoFar ==
    q.kind \in {"table"} \cup Unions /\ ~q.aggregate /\ q.where # <<>> =>
        /\ stage \in {"where", "filter", AfterWhere} /\ faults = 0 =>
              \A c \in LeftRows : Satisfies(c, q.where, {}) => c \in Range(rows)
        /\ stage = "filter" => \A i \in DOMAIN rows : i < at[1] => Passed(rows[i])
        /\ stage = AfterWhere => \A i \in DOMAIN rows : Passed(rows[i])

\* What passed has passed.
LEMMA PassedStays ==
    ASSUME input' = input, faults \in Nat, faults' = 0 => faults = 0
    PROVE  /\ \A c : Passed(c) => \E bad : (faults' = 0 => bad = {}) /\ Satisfies(c, q.where, bad)
           /\ \A c : \A bad : Satisfies(c, q.where, bad)' <=> Satisfies(c, q.where, bad)
  BY DEF Passed, Satisfies, q

LEMMA SelectedWhere ==
    ASSUME TypeOK, Staged, SelectedSoFar, Where \/ WhereRow \/ WhereDone,
           q.kind \in {"table"} \cup Unions, ~q.aggregate, q.where # <<>>
    PROVE  SelectedSoFar'
  <1> DEFINE Passes(c) == \E bad : (faults' = 0 => bad = {}) /\ Satisfies(c, q.where, bad)
  <1>1. /\ input' = input /\ q' = q /\ stage \in {"where", "filter"} /\ stage # "load" /\ stage' # "load"
        /\ AfterWhere' = AfterWhere /\ AfterWhere \in {"union", "order"}
    BY DEF Where, WhereRow, WhereDone, AfterWhere, q
  <1>2. faults \in Nat /\ (faults' = 0 => faults = 0)
    BY <1>1, LoadedStays DEF Next, TypeOK
  <1>3. /\ faults' = 0 => \A c \in LeftRows : Satisfies(c, q.where, {}) => c \in Range(rows)
        /\ stage = "filter" => \A i \in DOMAIN rows : i < at[1] => Passes(rows[i])
    <2>1. \A c : Passed(c) => Passes(c)
      BY <1>1, <1>2, PassedStays
    <2> HIDE DEF Passes
    <2> QED
      BY <1>1, <1>2, <2>1 DEF SelectedSoFar
  <1>4. /\ LeftRows' = LeftRows
        /\ \A c : Satisfies(c, q.where, {})' <=> Satisfies(c, q.where, {})
        /\ \A c : Passes(c) => Passed(c)'
    <2>1. \A c : \A bad : Satisfies(c, q.where, bad)' <=> Satisfies(c, q.where, bad)
      BY <1>1, <1>2, PassedStays
    <2>2. \A c : Satisfies(c, q.where, {})' <=> Satisfies(c, q.where, {})
      BY <2>1
    <2>3. \A c : Passes(c) => Passed(c)'
      BY <2>1 DEF Passed
    <2> QED
      BY <1>1, <2>2, <2>3 DEF LeftRows
  <1> HIDE DEF Passes
  <1>5. at[1] \in Nat /\ at[1] > 0 /\ rows \in Seq(Combined) /\ DOMAIN rows = 1..Len(rows) /\ Len(rows) \in Nat
    BY DEF TypeOK
  <1>6. SUFFICES /\ faults' = 0 => \A c \in LeftRows : Satisfies(c, q.where, {}) => c \in Range(rows')
                 /\ stage' = "filter" => \A i \in DOMAIN rows' : i < at'[1] => Passes(rows'[i])
                 /\ stage' = AfterWhere => \A i \in DOMAIN rows' : Passes(rows'[i])
    BY <1>1, <1>4 DEF SelectedSoFar
  <1>7. CASE Where
    <2>1. rows' = rows /\ at' = <<1, 1>> /\ stage' = "filter"
      BY <1>7 DEF Where
    <2>2. \A i \in DOMAIN rows : ~(i < at'[1])
      BY <1>5, <2>1
    <2> QED
      BY <1>1, <1>3, <2>1, <2>2
  <1>8. CASE WhereDone
    <2>1. rows' = rows /\ at[1] > Len(rows) /\ stage = "filter" /\ stage' = AfterWhere
      BY <1>8 DEF WhereDone
    <2>2. \A i \in DOMAIN rows : i < at[1]
      BY <1>5, <2>1
    <2> QED
      BY <1>1, <1>3, <2>1, <2>2
  <1>9. CASE WhereRow
    <2>1. /\ stage' = "filter" /\ stage = "filter" /\ at[1] \in 1..Len(rows)
      BY <1>9, WhereRowStep
    <2>2. PICK bad :
             /\ faults' = 0 => bad = {}
             /\ \/ rows' = rows /\ at' = <<at[1] + 1, 1>> /\ Satisfies(rows[at[1]], q.where, bad)
                \/ rows' = RemoveAt(rows, at[1]) /\ at' = at /\ ~Satisfies(rows[at[1]], q.where, bad)
      BY <1>9, WhereRowReads
    <2>3. CASE rows' = rows /\ at' = <<at[1] + 1, 1>> /\ Satisfies(rows[at[1]], q.where, bad)
      <3>1. Passes(rows[at[1]])
        BY <2>2, <2>3 DEF Passes
      <3>2. \A i \in DOMAIN rows : i < at'[1] => i < at[1] \/ i = at[1]
        BY <1>5, <2>3
      <3>3. \A i \in DOMAIN rows' : i < at'[1] => Passes(rows'[i])
        BY <1>3, <2>1, <2>3, <3>1, <3>2
      <3> QED
        BY <1>1, <1>3, <2>1, <2>3, <3>3
    <2>4. CASE rows' = RemoveAt(rows, at[1]) /\ at' = at /\ ~Satisfies(rows[at[1]], q.where, bad)
      <3> DEFINE k == at[1]
      <3>1. /\ \A x \in Range(rows) : x # rows[k] => x \in Range(rows')
            /\ \A i \in 1..(Len(rows) - 1) : i < k => rows'[i] = rows[i]
        BY <1>5, <2>1, <2>4, RemoveDiffers
      <3>2. DOMAIN rows' = 1..(Len(rows) - 1)
        <4>1. rows' \in Seq(Combined) /\ Len(rows') = Len(rows) - 1
          BY <1>5, <2>1, <2>4, RemoveAtShifts
        <4> QED
          BY <4>1
      <3>3. faults' = 0 => \A c \in LeftRows : Satisfies(c, q.where, {}) => c \in Range(rows')
        BY <1>3, <2>2, <2>4, <3>1
      <3>4. \A i \in DOMAIN rows' : i < at'[1] => Passes(rows'[i])
        <4>1. SUFFICES ASSUME NEW i \in DOMAIN rows', i < at[1] PROVE Passes(rows'[i])
          BY <2>4
        <4>2. rows'[i] = rows[i] /\ i \in DOMAIN rows
          BY <1>5, <3>1, <3>2, <4>1
        <4> QED
          BY <1>3, <2>1, <4>1, <4>2
      <3> QED
        BY <1>1, <2>1, <3>3, <3>4
    <2> QED
      BY <2>2, <2>3, <2>4
  <1> QED
    BY <1>7, <1>8, <1>9

LEMMA SelectedNext == TypeOK /\ Staged /\ Loaded /\ SelectedSoFar /\ Next => SelectedSoFar'
  <1> SUFFICES ASSUME TypeOK, Staged, Loaded, SelectedSoFar, Next, q'.kind \in {"table"} \cup Unions,
                      ~q'.aggregate, q'.where # <<>>, stage' \in {"where", "filter", AfterWhere'}
               PROVE  SelectedSoFar'
    BY DEF SelectedSoFar
  <1>1. q' = q /\ input' = input /\ AfterWhere' = AfterWhere
    BY DEF Next, Load, From, JoinPair, NextLeft, Pad, Where, WhereRow, WhereFails, WhereDone, Union, GroupRow, GroupFails,
           Aggregate, GroupsDone, AggregateAll, Order, Limit, NextPage, q, AfterWhere
  <1>2. CASE From
    <2>1. rows' = Left(lrows) /\ stage' = "where" /\ stage = "join" /\ faults' = faults
      BY <1>1, <1>2 DEF From, Unions
    <2>2. lrows \in Seq(Places(input.l)) /\ (faults = 0 => Range(lrows) = Places(input.l))
      BY <2>1 DEF TypeOK, Loaded, LoadedFrom
    <2>3. faults = 0 => Range(rows') = LeftRows
      BY <2>1, <2>2, LeftRightDiffer DEF LeftRows
    <2>4. LeftRows' = LeftRows /\ AfterWhere # "where"
      BY <1>1 DEF LeftRows, AfterWhere
    <2> QED
      BY <1>1, <2>1, <2>3, <2>4 DEF SelectedSoFar
  <1>3. CASE Pad
    BY <1>1, <1>3 DEF Pad, Joins, Unions
  <1>4. AfterWhere = IF q.kind \in Unions THEN "union" ELSE "order"
    BY <1>1 DEF AfterWhere
  <1>5. ~Load /\ ~JoinPair /\ ~NextLeft /\ ~Order /\ ~Limit /\ ~NextPage /\ ~WhereFails /\ ~GroupFails
    BY <1>1, <1>4 DEF Load, JoinPair, NextLeft, Order, Limit, NextPage, WhereFails, GroupFails, Staged
  <1>6. ~GroupRow /\ ~Aggregate /\ ~GroupsDone /\ ~AggregateAll
    BY <1>1 DEF GroupRow, Aggregate, GroupsDone, AggregateAll, Staged
  <1>7. ~Union
    BY <1>1, <1>4 DEF Union, Staged
  <1> QED
    BY <1>1, <1>2, <1>3, <1>5, <1>6, <1>7, SelectedWhere DEF Next

\* What is kept stays in stored order.
LEMMA KeepOrder ==
    ASSUME NEW s \in Seq(Numbers), NEW I \in SUBSET (1..Len(s)), InStoredOrder(s)
    PROVE  InStoredOrder(Keep(s, I))
  <1> DEFINE t == Keep(s, I)
  <1>1. t \in Seq(Numbers) /\ \E f : Picks(f, t, s, I)
    BY KeepPicks
  <1> HIDE DEF t
  <1>2. PICK f : Picks(f, t, s, I)
    BY <1>1
  <1>3. DOMAIN t = 1..Len(t) /\ DOMAIN s = 1..Len(s)
    BY <1>1
  <1>4. ASSUME NEW a \in DOMAIN t, NEW b \in DOMAIN t, a < b PROVE StoredBefore(t[a], t[b])
    <2>1. f[a] \in 1..Len(s) /\ f[b] \in 1..Len(s) /\ f[a] < f[b] /\ t[a] = s[f[a]] /\ t[b] = s[f[b]]
      BY <1>2, <1>3, <1>4 DEF Picks
    <2> QED
      BY <1>3, <2>1 DEF InStoredOrder
  <1> QED
    BY <1>4 DEF InStoredOrder, t

\* The rows that SelectionRight asks for.
LEMMA SelectedRows ==
    ASSUME NEW in \in Inputs, NEW M
    PROVE  LET stored == RowsOf(in.l, {})
               right == Keep(stored, {n \in DOMAIN stored : stored[n] \in M})
           IN  /\ right \in Seq(Numbers) /\ InStoredOrder(right)
               /\ Range(right) = {a \in Places(in.l) : a \in M}
  <1> DEFINE s == RowsOf(in.l, {})
             I == {n \in DOMAIN s : s[n] \in M}
  <1>1. s \in Seq(Numbers) /\ InStoredOrder(s) /\ Range(s) = Places(in.l)
    <2>1. in.l \in Seq(Seq([Schemas["l"] -> Int \cup {Null}]))
      BY TablesOfInput
    <2>2. s \in Seq(Places(in.l)) /\ InStoredOrder(s)
      BY <2>1, RowsOfTable
    <2>3. Places(in.l) \subseteq Numbers /\ Range(s) = Places(in.l)
      BY ReadIsPlaces DEF Numbers
    <2> HIDE DEF s
    <2> QED
      BY <2>2, <2>3
  <1> HIDE DEF s
  <1>2. DOMAIN s = 1..Len(s) /\ I \in SUBSET (1..Len(s)) /\ IsInjective(s)
    BY <1>1, OrderedInjective
  <1>3. Range(s) = {s[n] : n \in 1..Len(s)}
    BY <1>2 DEF Range
  <1>4. {s[n] : n \in I} = {a \in Places(in.l) : a \in M}
    <2>1. \A a \in Places(in.l) : \E n \in 1..Len(s) : a = s[n]
      BY <1>1, <1>3
    <2>2. \A n \in 1..Len(s) : s[n] \in Places(in.l)
      BY <1>1, <1>3
    <2> QED
      BY <1>2, <2>1, <2>2
  <1> HIDE DEF I
  <1>5. Keep(s, I) \in Seq(Numbers) /\ Range(Keep(s, I)) = {s[n] : n \in I}
    BY <1>1, <1>2, KeepRange
  <1>6. InStoredOrder(Keep(s, I))
    BY <1>1, <1>2, KeepOrder
  <1> QED
    BY <1>4, <1>5, <1>6 DEF s, I

\* Rows of one table, and what names them.
LEMMA RowsByThemselves ==
    ASSUME TypeOK, NEW ps \in Seq(Numbers), InStoredOrder(ps),
           \A a \in DOMAIN rows :
              /\ rows[a].r = NoRow /\ rows[a].l \in Places(input.l)
              /\ \A b \in DOMAIN rows : a < b => StoredBefore(rows[a].l, rows[b].l)
    PROVE  /\ \A c \in Range(rows) : c = Alone(c.l) /\ c.l \in Places(input.l)
           /\ (\A p : p \in Range(ps) <=> Alone(p) \in Range(rows)) => rows = Left(ps)
  <1> DEFINE n == Len(rows)
             s == [i \in 1..n |-> rows[i].l]
  <1>1. /\ rows \in Seq(Combined) /\ n \in Nat /\ DOMAIN rows = 1..n /\ rows = [i \in 1..n |-> rows[i]]
        /\ Range(rows) = {rows[i] : i \in 1..n}
    <2>1. rows \in Seq(Combined)
      BY DEF TypeOK
    <2>2. n \in Nat /\ DOMAIN rows = 1..n /\ rows = [i \in 1..n |-> rows[i]]
      BY <2>1
    <2> QED
      BY <2>1, <2>2 DEF Range
  <1>2. \A i \in 1..n : rows[i] = Alone(rows[i].l)
    <2>1. \A i \in 1..n : rows[i] \in Combined
      BY <1>1
    <2> QED
      BY <1>1, <2>1 DEF Combined, Alone
  <1>3. \A c \in Range(rows) : c = Alone(c.l) /\ c.l \in Places(input.l)
    BY <1>1, <1>2
  <1> HIDE DEF n
  <1>4. s \in Seq(Numbers) /\ Len(s) = n /\ DOMAIN s = 1..n /\ \A i \in 1..n : s[i] = rows[i].l
    <2>1. \A i \in 1..n : rows[i].l \in Numbers
      BY <1>1 DEF Places, Numbers
    <2> QED
      BY <1>1, <2>1
  <1> HIDE DEF s
  <1>5. InStoredOrder(s)
    BY <1>1, <1>4 DEF InStoredOrder
  <1>6. ASSUME \A p : p \in Range(ps) <=> Alone(p) \in Range(rows) PROVE rows = Left(ps)
    <2>1. \A p, r : Alone(p) = Alone(r) => p = r
      BY DEF Alone
    <2>2. Range(s) = {rows[i].l : i \in 1..n}
      BY <1>4 DEF Range
    <2>3. \A p : p \in Range(s) <=> Alone(p) \in Range(rows)
      <3>1. ASSUME NEW p, p \in Range(s) PROVE Alone(p) \in Range(rows)
        <4>1. PICK i \in 1..n : p = rows[i].l
          BY <2>2, <3>1
        <4> QED
          BY <1>1, <1>2, <4>1
      <3>2. ASSUME NEW p, Alone(p) \in Range(rows) PROVE p \in Range(s)
        <4>1. PICK i \in 1..n : Alone(p) = rows[i]
          BY <1>1, <3>2
        <4>2. p = rows[i].l
          BY <1>2, <2>1, <4>1
        <4> QED
          BY <2>2, <4>2
      <3> QED
        BY <3>1, <3>2
    <2>4. Range(s) = Range(ps)
      BY <1>6, <2>3
    <2>5. s = ps
      BY <1>4, <1>5, <2>4, OrderDetermines
    <2>6. Left(s) = [i \in 1..n |-> Alone(s[i])]
      BY <1>4 DEF Left, Alone
    <2>7. \A i \in 1..n : rows[i] = Alone(s[i])
      BY <1>2, <1>4
    <2> QED
      BY <1>1, <2>5, <2>6, <2>7
  <1> QED
    BY <1>3, <1>6

\* What SelectedSoFar says at the end of WHERE is what WHERE should do.
LEMMA SelectionMeaning ==
    TypeOK /\ RowsDiffer /\ OneTableOnly /\ SelectedSoFar /\ NeverFails => SelectionRight
  <1> DEFINE M == Means(input)[q.where]
             stored == RowsOf(input.l, {})
             right == Keep(stored, {n \in DOMAIN stored : stored[n] \in M})
  <1> SUFFICES ASSUME TypeOK, RowsDiffer, OneTableOnly, SelectedSoFar, NeverFails,
                      stage = AfterWhere, ~q.aggregate, q.kind \in {"table"} \cup Unions,
                      q.where # <<>>, SemiJoin[q.where]
               PROVE  /\ faults = 0 => rows = Left(right)
                      /\ ~Negative[q.where] => Range(rows) \subseteq Range(Left(right))
                      /\ IsInjective(rows)
    BY DEF SelectionRight, NeverFails
  <1>1. /\ stage \in {"union", "order"} /\ (stage = "order" => q.kind = "table")
        /\ input \in Inputs /\ q = input.query /\ q.kind \notin Joins /\ q.where \in Conditions
    <2>1. input \in Inputs /\ q = input.query
      BY DEF TypeOK, q
    <2>2. q.where \in Conditions
      BY <2>1, QueryAssumption
    <2> QED
      BY <2>1, <2>2 DEF AfterWhere, Joins, Unions
  <1>2. right \in Seq(Numbers) /\ InStoredOrder(right) /\ Range(right) = {a \in Places(input.l) : a \in M}
    <2> HIDE DEF M
    <2> QED
      BY <1>1, SelectedRows
  <1> HIDE DEF M, right, stored
  <1>3. IsInjective(rows)
    BY <1>1 DEF RowsDiffer
  <1>4. \A a \in DOMAIN rows :
              /\ rows[a].r = NoRow /\ rows[a].l \in Places(input.l)
              /\ \A b \in DOMAIN rows : a < b => StoredBefore(rows[a].l, rows[b].l)
    BY <1>1 DEF OneTableOnly
  <1>5. /\ \A c \in Range(rows) : c = Alone(c.l) /\ c.l \in Places(input.l)
        /\ (\A p : p \in Range(right) <=> Alone(p) \in Range(rows)) => rows = Left(right)
    BY <1>2, <1>4, RowsByThemselves
  <1>6. \A bad : \A a \in Places(input.l) :
          /\ bad = {} /\ a \in M => Satisfies(Alone(a), q.where, bad)
          /\ (bad = {} \/ ~Negative[q.where]) /\ Satisfies(Alone(a), q.where, bad) => a \in M
    <2>1. \A bad : Agrees(input, bad, q.where)
      BY <1>1, MeaningIsMeans
    <2> QED
      BY <2>1 DEF Agrees, Satisfies, M
  <1>7. ASSUME NEW c \in Range(rows), faults = 0 \/ ~Negative[q.where] PROVE c.l \in M
    <2>1. PICK i \in DOMAIN rows : c = rows[i]
      BY <1>7 DEF Range
    <2>2. Passed(c)
      BY <2>1 DEF SelectedSoFar
    <2>3. PICK bad : (faults = 0 => bad = {}) /\ Satisfies(c, q.where, bad)
      BY <2>2 DEF Passed
    <2>4. c = Alone(c.l) /\ c.l \in Places(input.l)
      BY <1>5
    <2> QED
      BY <1>6, <1>7, <2>3, <2>4
  <1>8. ASSUME faults = 0 PROVE rows = Left(right)
    <2>1. ASSUME NEW p, p \in Range(right) PROVE Alone(p) \in Range(rows)
      <3>1. p \in Places(input.l) /\ Satisfies(Alone(p), q.where, {})
        BY <1>2, <1>6, <2>1
      <3>2. Alone(p) \in LeftRows
        BY <3>1 DEF Alone, LeftRows
      <3> QED
        BY <1>8, <3>1, <3>2 DEF SelectedSoFar
    <2>2. ASSUME NEW p, Alone(p) \in Range(rows) PROVE p \in Range(right)
      <3>1. Alone(p).l = p
        BY DEF Alone
      <3>2. p \in Places(input.l) /\ p \in M
        BY <1>5, <1>7, <1>8, <2>2, <3>1
      <3> QED
        BY <1>2, <3>2
    <2> QED
      BY <1>5, <2>1, <2>2
  <1>9. ASSUME ~Negative[q.where] PROVE Range(rows) \subseteq Range(Left(right))
    <2>1. Range(Left(right)) = {[l |-> p, r |-> NoRow] : p \in Range(right)}
      BY <1>2, LeftRightDiffer
    <2>2. ASSUME NEW c \in Range(rows) PROVE c \in Range(Left(right))
      <3>1. c = Alone(c.l) /\ c.l \in Range(right)
        BY <1>2, <1>5, <1>7, <1>9, <2>2
      <3> QED
        BY <2>1, <3>1 DEF Alone
    <2> QED
      BY <2>2
  <1> QED
    BY <1>3, <1>8, <1>9

\* WHERE keeps the rows its condition is true of, each once and in their order.
THEOREM SelectsRight == Spec => []SelectionRight
  <1> DEFINE SInv == IInv /\ SelectedSoFar /\ NeverFails
  <1>1. Init => SInv
    <2>1. Init => SelectedSoFar /\ NeverFails
      BY DEF Init, SelectedSoFar, NeverFails, AfterWhere
    <2> QED
      BY <2>1, InitIInv
  <1>2. SInv /\ [Next]_vars => SInv'
    <2>1. IInv /\ [Next]_vars => IInv'
      BY NextIInv
    <2>2. ASSUME SInv, Next PROVE SelectedSoFar' /\ NeverFails'
      BY <2>2, SelectedNext, NeverFailsNext DEF IInv
    <2>3. ASSUME SInv, UNCHANGED vars PROVE SelectedSoFar' /\ NeverFails'
      <3>1. UNCHANGED <<input, stage, rows, at, faults>> /\ q' = q /\ AfterWhere' = AfterWhere /\ LeftRows' = LeftRows
        BY <2>3 DEF vars, q, AfterWhere, LeftRows
      <3>2. \A c : (Satisfies(c, q.where, {})' <=> Satisfies(c, q.where, {})) /\ (Passed(c)' <=> Passed(c))
        BY <3>1 DEF Satisfies, Passed
      <3> QED
        BY <2>3, <3>1, <3>2 DEF SelectedSoFar, NeverFails
    <2> QED
      BY <2>1, <2>2, <2>3
  <1>3. SInv => SelectionRight
    BY SelectionMeaning DEF IInv
  <1> QED
    BY <1>1, <1>2, <1>3, PTL DEF Spec

-----------------------------------------------------------------------------
(* Sequences that ascend *)

\* R: pairs, the one that comes first before the other.
Ascends(R, s) == \A a, b \in DOMAIN s : a < b => <<s[a], s[b]>> \in R

\* Never both of two before each other.
Strict(R) == \A x, y : <<x, y>> \in R => <<y, x>> \notin R

\* What ascends strictly has nothing twice.
LEMMA AscendsDiffers ==
    ASSUME NEW S, NEW s \in Seq(S), NEW R, Strict(R), Ascends(R, s)
    PROVE  IsInjective(s)
  <1>1. DOMAIN s = 1..Len(s) /\ Len(s) \in Nat
    OBVIOUS
  <1>2. ASSUME NEW a \in DOMAIN s, NEW b \in DOMAIN s, a < b PROVE s[a] # s[b]
    BY <1>2 DEF Ascends, Strict
  <1>3. \A a, b \in DOMAIN s : a = b \/ a < b \/ b < a
    BY <1>1
  <1> QED
    BY <1>2, <1>3 DEF IsInjective

\* Two that ascend and have the same elements are the same up to any position.
LEMMA AscendTogether ==
    ASSUME NEW S, NEW s \in Seq(S), NEW t \in Seq(S), NEW R, Strict(R),
           Ascends(R, s), Ascends(R, t), Range(s) = Range(t),
           NEW k \in Nat, \A i \in 1..Len(s) : i <= k => i \in 1..Len(t) /\ s[i] = t[i]
    PROVE  \A i \in 1..Len(s) : i <= k + 1 => i \in 1..Len(t) /\ s[i] = t[i]
  <1> DEFINE m == Len(s)
             n == Len(t)
  <1>1. m \in Nat /\ n \in Nat /\ DOMAIN s = 1..m /\ DOMAIN t = 1..n
    OBVIOUS
  <1> HIDE DEF m, n
  <1>2. /\ \A i, j \in 1..m : i < j => <<s[i], s[j]>> \in R
        /\ \A i, j \in 1..n : i < j => <<t[i], t[j]>> \in R
    BY <1>1 DEF Ascends
  <1>3. /\ \A i \in 1..m : \E j \in 1..n : s[i] = t[j]
        /\ \A j \in 1..n : \E i \in 1..m : s[i] = t[j]
    <2>1. Range(s) = {s[i] : i \in 1..m} /\ Range(t) = {t[j] : j \in 1..n}
      BY <1>1 DEF Range
    <2>2. \A i \in 1..m : s[i] \in {t[j] : j \in 1..n}
      BY <2>1
    <2>3. \A j \in 1..n : t[j] \in {s[i] : i \in 1..m}
      BY <2>1
    <2> QED
      BY <2>2, <2>3
  <1>4. \A x, y : <<x, y>> \in R => <<y, x>> \notin R /\ x # y
    BY DEF Strict
  <1>5. \A i \in 1..m : i <= k => i \in 1..n /\ s[i] = t[i]
    BY DEF m, n
  <1>6. ASSUME k + 1 \in 1..m PROVE k + 1 \in 1..n /\ s[k + 1] = t[k + 1]
    <2>1. PICK j \in 1..n : s[k + 1] = t[j]
      BY <1>3, <1>6
    <2>2. ~(j <= k)
      <3>1. SUFFICES ASSUME j <= k PROVE FALSE
        OBVIOUS
      <3>2. j \in 1..m /\ j < k + 1
        BY <1>1, <1>6, <3>1
      <3>3. s[j] = t[j] /\ <<s[j], s[k + 1]>> \in R
        BY <1>2, <1>5, <1>6, <3>1, <3>2
      <3> QED
        BY <1>4, <2>1, <3>3
    <2>3. k + 1 \in 1..n
      BY <1>1, <2>2
    <2>4. ASSUME k + 1 < j PROVE FALSE
      <3>1. <<t[k + 1], t[j]>> \in R
        BY <1>2, <2>3, <2>4
      <3>2. PICK i \in 1..m : s[i] = t[k + 1]
        BY <1>3, <2>3
      <3>3. CASE i <= k
        <4>1. i \in 1..n /\ s[i] = t[i] /\ i < k + 1
          BY <1>5, <3>3
        <4>2. <<t[i], t[k + 1]>> \in R
          BY <1>2, <2>3, <4>1
        <4> QED
          BY <1>4, <3>2, <4>1, <4>2
      <3>4. CASE i = k + 1
        BY <1>4, <2>1, <3>1, <3>2, <3>4
      <3>5. CASE k + 1 < i
        <4>1. <<s[k + 1], s[i]>> \in R
          BY <1>2, <1>6, <3>5
        <4> QED
          BY <1>4, <2>1, <3>1, <3>2, <4>1
      <3> QED
        BY <3>3, <3>4, <3>5
    <2> QED
      BY <2>1, <2>2, <2>3, <2>4
  <1>7. \A i \in 1..m : i <= k + 1 => i <= k \/ i = k + 1
    BY <1>1
  <1> QED
    BY <1>5, <1>6, <1>7 DEF m, n

\* Elements and order determine a sequence.
LEMMA AscendDetermines ==
    ASSUME NEW S, NEW s \in Seq(S), NEW t \in Seq(S), NEW R, Strict(R),
           Ascends(R, s), Ascends(R, t), Range(s) = Range(t)
    PROVE  s = t
  <1> DEFINE m == Len(s)
             n == Len(t)
             W == {k \in Nat : /\ \A i \in 1..m : i <= k => i \in 1..n /\ s[i] = t[i]
                               /\ \A i \in 1..n : i <= k => i \in 1..m /\ t[i] = s[i]}
  <1>1. m \in Nat /\ n \in Nat /\ s = [i \in 1..m |-> s[i]] /\ t = [i \in 1..n |-> t[i]]
    OBVIOUS
  <1>2. 0 \in W
    OBVIOUS
  <1>3. ASSUME NEW k \in Nat, k \in W PROVE k + 1 \in W
    <2>1. /\ \A i \in 1..m : i <= k => i \in 1..n /\ s[i] = t[i]
          /\ \A i \in 1..n : i <= k => i \in 1..m /\ t[i] = s[i]
      BY <1>3
    <2>2. \A i \in 1..m : i <= k + 1 => i \in 1..n /\ s[i] = t[i]
      BY <2>1, AscendTogether
    <2>3. \A i \in 1..n : i <= k + 1 => i \in 1..m /\ t[i] = s[i]
      BY <2>1, AscendTogether
    <2> QED
      BY <2>2, <2>3
  <1>4. \A k \in Nat : k \in W
    <2> HIDE DEF W
    <2> QED
      BY <1>2, <1>3, SetInduction
  <1>5. m \in W /\ n \in W
    <2> HIDE DEF W
    <2> QED
      BY <1>1, <1>4
  <1>6. m = n
    <2>1. m <= n
      BY <1>1, <1>5, SMTT(60)
    <2>2. n <= m
      BY <1>1, <1>5, SMTT(60)
    <2>3. m \in Nat /\ n \in Nat
      BY <1>1
    <2> HIDE DEF m, n, W
    <2> QED
      BY <2>1, <2>2, <2>3
  <1>7. \A i \in 1..m : s[i] = t[i]
    BY <1>1, <1>5
  <1> HIDE DEF W
  <1> QED
    BY <1>1, <1>6, <1>7

\* One sequence behind another.
LEMMA ConcatAscends ==
    ASSUME NEW S, NEW s \in Seq(S), NEW t \in Seq(S), NEW R, Ascends(R, s), Ascends(R, t),
           \A x \in Range(s), y \in Range(t) : <<x, y>> \in R
    PROVE  s \o t \in Seq(S) /\ Ascends(R, s \o t) /\ Range(s \o t) = Range(s) \cup Range(t)
  <1> DEFINE u == s \o t
             m == Len(s)
             n == Len(t)
  <1>1. /\ m \in Nat /\ n \in Nat /\ DOMAIN s = 1..m /\ DOMAIN t = 1..n /\ DOMAIN u = 1..(m + n)
        /\ \A i \in 1..m : u[i] = s[i]
        /\ \A i \in 1..n : u[m + i] = t[i]
    OBVIOUS
  <1> HIDE DEF u, m, n
  <1>2. ASSUME NEW i \in 1..(m + n), i \notin 1..m PROVE i - m \in 1..n /\ u[i] = t[i - m]
    <2>1. i - m \in 1..n /\ m + (i - m) = i
      BY <1>1, <1>2
    <2> QED
      BY <1>1, <2>1
  <1>3. /\ \A i, j \in 1..m : i < j => <<s[i], s[j]>> \in R
        /\ \A i, j \in 1..n : i < j => <<t[i], t[j]>> \in R
        /\ \A i \in 1..m, j \in 1..n : <<s[i], t[j]>> \in R
    <2>1. \A i \in 1..m, j \in 1..n : s[i] \in Range(s) /\ t[j] \in Range(t)
      BY <1>1 DEF Range
    <2> QED
      BY <1>1, <2>1 DEF Ascends
  <1>4. ASSUME NEW i \in 1..(m + n), NEW j \in 1..(m + n), i < j PROVE <<u[i], u[j]>> \in R
    <2>1. CASE i \in 1..m /\ j \in 1..m
      BY <1>1, <1>3, <1>4, <2>1
    <2>2. CASE i \in 1..m /\ j \notin 1..m
      BY <1>1, <1>2, <1>3, <2>2
    <2>3. CASE i \notin 1..m
      <3>1. j \notin 1..m
        BY <1>1, <1>4, <2>3
      <3>2. i - m < j - m
        BY <1>1, <1>4
      <3> QED
        BY <1>2, <1>3, <2>3, <3>1, <3>2
    <2> QED
      BY <2>1, <2>2, <2>3
  <1>5. Ascends(R, u)
    BY <1>1, <1>4 DEF Ascends
  <1>6. u \in Seq(S) /\ Range(u) = Range(s) \cup Range(t)
    BY ConcatDiffer DEF u
  <1> QED
    BY <1>5, <1>6 DEF u

\* Sequences behind each other.
LEMMA FlattenAscends ==
    ASSUME NEW S, NEW ps \in Seq(Seq(S)), NEW R,
           \A i \in 1..Len(ps) : Ascends(R, ps[i]),
           \A i, j \in 1..Len(ps) : i < j => \A x \in Range(ps[i]), y \in Range(ps[j]) : <<x, y>> \in R
    PROVE  /\ FlattenSeq(ps) \in Seq(S) /\ Ascends(R, FlattenSeq(ps))
           /\ \A x : x \in Range(FlattenSeq(ps)) <=> \E i \in 1..Len(ps) : x \in Range(ps[i])
  <1> DEFINE P == Seq(S)
             Good(qs) == /\ FlattenSeq(qs) \in P
                         /\ Ascends(R, FlattenSeq(qs))
                         /\ \A x : x \in Range(FlattenSeq(qs)) <=> \E i \in 1..Len(qs) : x \in Range(qs[i])
             T == {qs \in Seq(P) : Good(qs)}
  <1>1. <<>> \in T
    <2>1. FlattenSeq(<<>>) = <<>> /\ <<>> \in P
      BY FlattenEmpty
    <2>2. Ascends(R, <<>>) /\ Range(<<>>) = {} /\ Len(<<>>) = 0 /\ 1..0 = {}
      BY DEF Ascends, Range
    <2>3. Good(<<>>)
      BY <2>1, <2>2
    <2>4. <<>> \in Seq(P)
      OBVIOUS
    <2> HIDE DEF Good, P
    <2> QED
      BY <2>3, <2>4
  <1>2. ASSUME NEW n \in 1..Len(ps), SubSeq(ps, 1, n - 1) \in T
        PROVE  Append(SubSeq(ps, 1, n - 1), ps[n]) \in T
    <2> DEFINE qs == SubSeq(ps, 1, n - 1)
               t  == Append(qs, ps[n])
    <2>1. /\ Len(ps) \in Nat /\ n \in Nat /\ n > 0 /\ n <= Len(ps)
          /\ qs \in Seq(P) /\ Len(qs) = n - 1 /\ ps[n] \in P
          /\ \A i \in 1..(n - 1) : qs[i] = ps[i] /\ i \in 1..Len(ps) /\ i < n
      <3>1. /\ Len(ps) \in Nat /\ n \in Nat /\ n > 0 /\ n <= Len(ps)
            /\ \A i \in 1..(n - 1) : i \in 1..Len(ps) /\ i < n
        OBVIOUS
      <3>2. \A i \in 1..(n - 1) : ps[i] \in P
        BY <3>1
      <3>3. qs \in Seq(P) /\ Len(qs) = n - 1 /\ \A i \in 1..(n - 1) : qs[i] = ps[i]
        BY <3>1, <3>2
      <3> QED
        BY <3>1, <3>3
    <2>2. Good(qs)
      BY <1>2
    <2> HIDE DEF qs, P
    <2>3. t \in Seq(P) /\ Len(t) = n /\ t[n] = ps[n] /\ \A i \in 1..(n - 1) : t[i] = qs[i]
      BY <2>1
    <2>4. FlattenSeq(t) = FlattenSeq(qs) \o ps[n]
      BY <2>1, FlattenAppend DEF P
    <2>5. \A x \in Range(FlattenSeq(qs)), y \in Range(ps[n]) : <<x, y>> \in R
      <3>1. ASSUME NEW x \in Range(FlattenSeq(qs)), NEW y \in Range(ps[n]) PROVE <<x, y>> \in R
        <4>1. PICK i \in 1..(n - 1) : x \in Range(ps[i])
          BY <2>1, <2>2
        <4>2. i \in 1..Len(ps) /\ i < n
          BY <2>1
        <4> QED
          BY <4>1, <4>2
      <3> QED
        BY <3>1
    <2>6. /\ FlattenSeq(t) \in P /\ Ascends(R, FlattenSeq(t))
          /\ Range(FlattenSeq(t)) = Range(FlattenSeq(qs)) \cup Range(ps[n])
      <3>1. FlattenSeq(qs) \in Seq(S) /\ ps[n] \in Seq(S) /\ Ascends(R, FlattenSeq(qs)) /\ Ascends(R, ps[n])
        BY <2>1, <2>2 DEF P
      <3> QED
        BY <2>4, <2>5, <3>1, ConcatAscends DEF P
    <2>7. \A x : x \in Range(FlattenSeq(t)) <=> \E i \in 1..Len(t) : x \in Range(t[i])
      <3>1. \A i \in 1..n : i \in 1..(n - 1) \/ i = n
        BY <2>1
      <3>2. n \in 1..n /\ \A i \in 1..(n - 1) : i \in 1..n
        BY <2>1
      <3>3. \A x : x \in Range(FlattenSeq(qs)) <=> \E i \in 1..(n - 1) : x \in Range(qs[i])
        BY <2>1, <2>2
      <3> QED
        BY <2>3, <2>6, <3>1, <3>2, <3>3
    <2>8. Good(t)
      BY <2>6, <2>7 DEF P
    <2> HIDE DEF Good
    <2> QED
      BY <2>3, <2>8 DEF qs
  <1> HIDE DEF T
  <1>3. ps \in T
    BY <1>1, <1>2, PrefixInduction
  <1> QED
    BY <1>3 DEF T

\* What is picked, in its order, ascends as before.
LEMMA PicksAscend ==
    ASSUME NEW S, NEW t \in Seq(S), NEW s \in Seq(S), NEW J \in SUBSET (1..Len(s)), NEW f,
           Picks(f, t, s, J), NEW R, Ascends(R, s)
    PROVE  Ascends(R, t) /\ Range(t) = {s[n] : n \in J}
  <1>1. /\ \A i \in 1..Len(t) : f[i] \in J /\ t[i] = s[f[i]]
        /\ \A i, j \in 1..Len(t) : i < j => f[i] < f[j]
        /\ \A k \in J : \E i \in 1..Len(t) : f[i] = k
        /\ DOMAIN t = 1..Len(t) /\ DOMAIN s = 1..Len(s)
    BY PicksFacts
  <1>2. ASSUME NEW a \in DOMAIN t, NEW b \in DOMAIN t, a < b PROVE <<t[a], t[b]>> \in R
    <2>1. f[a] \in 1..Len(s) /\ f[b] \in 1..Len(s) /\ f[a] < f[b] /\ t[a] = s[f[a]] /\ t[b] = s[f[b]]
      BY <1>1, <1>2
    <2> QED
      BY <1>1, <2>1 DEF Ascends
  <1>3. \A i \in 1..Len(t) : t[i] \in {s[n] : n \in J}
    BY <1>1
  <1>4. \A n \in J : \E i \in 1..Len(t) : t[i] = s[n]
    BY <1>1
  <1>5. Range(t) = {s[n] : n \in J}
    <2>1. Range(t) = {t[i] : i \in 1..Len(t)}
      BY <1>1 DEF Range
    <2>2. \A n \in J : s[n] \in {t[i] : i \in 1..Len(t)}
      BY <1>4
    <2>3. {t[i] : i \in 1..Len(t)} = {s[n] : n \in J}
      BY <1>3, <2>2
    <2> QED
      BY <2>1, <2>3
  <1> QED
    BY <1>2, <1>5 DEF Ascends

-----------------------------------------------------------------------------
(* The order of combined rows *)

Pairs == [l : Numbers, r : Numbers]

\* Rows with both sides come first, then those of the first table alone, then
\* those of the second.
Rank(c) == IF c.r = NoRow THEN 1 ELSE IF c.l = NoRow THEN 2 ELSE 0

Precedes(c, d) ==
    \/ Rank(c) < Rank(d)
    \/ Rank(c) = Rank(d) /\ StoredBefore(c.l, d.l)
    \/ Rank(c) = Rank(d) /\ c.l = d.l /\ StoredBefore(c.r, d.r)

RowOrder == {x \in Pairs \X Pairs : Precedes(x[1], x[2])}

\* Membership in the order.
LEMMA RowOrderIs ==
    ASSUME NEW c \in Pairs, NEW d \in Pairs
    PROVE  <<c, d>> \in RowOrder <=> Precedes(c, d)
  BY DEF RowOrder

LEMMA RowOrderStrict == Strict(RowOrder)
  <1>1. SUFFICES ASSUME NEW c, NEW d, <<c, d>> \in RowOrder PROVE <<d, c>> \notin RowOrder
    BY DEF Strict
  <1>2. c \in Pairs /\ d \in Pairs /\ Precedes(c, d)
    BY <1>1 DEF RowOrder
  <1>3. c.l \in Numbers /\ c.r \in Numbers /\ d.l \in Numbers /\ d.r \in Numbers
    BY <1>2 DEF Pairs
  <1>4. ASSUME NEW x \in Numbers, NEW y \in Numbers, StoredBefore(x, y) PROVE ~StoredBefore(y, x) /\ x # y
    BY <1>4 DEF StoredBefore, Numbers
  <1>5. Rank(c) \in Nat /\ Rank(d) \in Nat
    BY DEF Rank
  <1>6. ~Precedes(d, c)
    <2>1. CASE Rank(c) < Rank(d)
      BY <1>5, <2>1 DEF Precedes
    <2>2. CASE Rank(c) = Rank(d) /\ StoredBefore(c.l, d.l)
      BY <1>3, <1>4, <1>5, <2>2 DEF Precedes
    <2>3. CASE Rank(c) = Rank(d) /\ c.l = d.l /\ StoredBefore(c.r, d.r)
      BY <1>3, <1>4, <1>5, <2>3 DEF Precedes
    <2> QED
      BY <1>2, <2>1, <2>2, <2>3 DEF Precedes
  <1> QED
    BY <1>2, <1>6, RowOrderIs

\* The rows of a database are pairs of places or of places and NoRow.
LEMMA CombinedPairs ==
    ASSUME input \in Inputs
    PROVE  /\ Combined \subseteq Pairs
           /\ Places(input.l) \subseteq Numbers /\ Places(input.r) \subseteq Numbers
           /\ NoRow \notin Places(input.l) /\ NoRow \notin Places(input.r) /\ NoRow \in Numbers
           /\ \A x \in Places(input.l) : [l |-> x, r |-> NoRow] \in Combined
           /\ \A x \in Places(input.r) : [l |-> NoRow, r |-> x] \in Combined
           /\ \A x \in Places(input.l), y \in Places(input.r) : [l |-> x, r |-> y] \in Combined
  <1>1. NoRow \notin Places(input.l) /\ NoRow \notin Places(input.r)
    BY InputType, NoRowIsNoPlace
  <1>2. Places(input.l) \subseteq Numbers /\ Places(input.r) \subseteq Numbers /\ NoRow \in Numbers
    BY DEF Places, Numbers, NoRow
  <1>3. Part("l") \subseteq Numbers /\ Part("r") \subseteq Numbers
    BY <1>2 DEF Part
  <1>4. Combined \subseteq Pairs
    BY <1>3 DEF Combined, Pairs
  <1>5. /\ \A x \in Places(input.l) : [l |-> x, r |-> NoRow] \in Combined
        /\ \A x \in Places(input.r) : [l |-> NoRow, r |-> x] \in Combined
        /\ \A x \in Places(input.l), y \in Places(input.r) : [l |-> x, r |-> y] \in Combined
    BY DEF Combined, Part
  <1> QED
    BY <1>1, <1>2, <1>4, <1>5

\* Rows of one table in stored order are in the order of combined rows.
LEMMA LeftRightAscend ==
    ASSUME NEW ps \in Seq(Numbers), InStoredOrder(ps), NoRow \notin Range(ps)
    PROVE  Ascends(RowOrder, Left(ps)) /\ Ascends(RowOrder, Right(ps))
  <1>1. /\ DOMAIN ps = 1..Len(ps)
        /\ DOMAIN Left(ps) = 1..Len(ps) /\ DOMAIN Right(ps) = 1..Len(ps)
        /\ \A i \in 1..Len(ps) : /\ Left(ps)[i] = [l |-> ps[i], r |-> NoRow]
                                 /\ Right(ps)[i] = [l |-> NoRow, r |-> ps[i]]
    BY LeftRightType DEF Left, Right
  <1>2. ASSUME NEW a \in 1..Len(ps), NEW b \in 1..Len(ps), a < b
        PROVE  <<Left(ps)[a], Left(ps)[b]>> \in RowOrder /\ <<Right(ps)[a], Right(ps)[b]>> \in RowOrder
    <2> DEFINE x == ps[a]
               y == ps[b]
    <2>1. x \in Numbers /\ y \in Numbers /\ x # NoRow /\ y # NoRow /\ StoredBefore(x, y) /\ NoRow \in Numbers
      <3>1. x \in Numbers /\ y \in Numbers
        BY <1>1
      <3>2. x \in Range(ps) /\ y \in Range(ps)
        BY <1>1 DEF Range
      <3>3. StoredBefore(x, y)
        BY <1>1, <1>2 DEF InStoredOrder
      <3>4. NoRow \in Numbers
        BY DEF NoRow, Numbers
      <3> QED
        BY <3>1, <3>2, <3>3, <3>4
    <2>2. /\ Left(ps)[a] = [l |-> x, r |-> NoRow] /\ Left(ps)[b] = [l |-> y, r |-> NoRow]
          /\ Right(ps)[a] = [l |-> NoRow, r |-> x] /\ Right(ps)[b] = [l |-> NoRow, r |-> y]
      BY <1>1
    <2> HIDE DEF x, y
    <2>3. <<[l |-> x, r |-> NoRow], [l |-> y, r |-> NoRow]>> \in RowOrder
      BY <2>1 DEF RowOrder, Precedes, Rank, Pairs
    <2>4. <<[l |-> NoRow, r |-> x], [l |-> NoRow, r |-> y]>> \in RowOrder
      BY <2>1 DEF RowOrder, Precedes, Rank, Pairs
    <2> QED
      BY <2>2, <2>3, <2>4
  <1> QED
    BY <1>1, <1>2 DEF Ascends

\* A product is in the order of its first side, then of its second.
LEMMA ProductAscends ==
    ASSUME NEW ps \in Seq(Numbers), NEW qs \in Seq(Numbers), InStoredOrder(ps), InStoredOrder(qs),
           NoRow \notin Range(ps), NoRow \notin Range(qs)
    PROVE  LET all == CrossProduct(Left(ps), Right(qs))
           IN  /\ Ascends(RowOrder, all)
               /\ \A c : c \in Range(all) <=>
                     IF Range(ps) = {} THEN \E y \in Range(qs) : c = [l |-> NoRow, r |-> y]
                     ELSE IF Range(qs) = {} THEN \E x \in Range(ps) : c = [l |-> x, r |-> NoRow]
                     ELSE \E x \in Range(ps), y \in Range(qs) : c = [l |-> x, r |-> y]
  <1> DEFINE ls == Left(ps)
             rs == Right(qs)
  <1>1. Ascends(RowOrder, ls) /\ Ascends(RowOrder, rs)
    BY LeftRightAscend
  <1>2. /\ Range(ls) = {[l |-> x, r |-> NoRow] : x \in Range(ps)}
        /\ Range(rs) = {[l |-> NoRow, r |-> y] : y \in Range(qs)}
    BY LeftRightDiffer
  <1>3. /\ DOMAIN ls = 1..Len(ps) /\ DOMAIN rs = 1..Len(qs) /\ Len(ps) \in Nat /\ Len(qs) \in Nat
        /\ \A i \in 1..Len(ps) : ls[i].l = ps[i] /\ ps[i] \in Numbers
        /\ \A j \in 1..Len(qs) : rs[j].r = qs[j] /\ qs[j] \in Numbers
        /\ DOMAIN ps = 1..Len(ps) /\ DOMAIN qs = 1..Len(qs)
    BY LeftRightType DEF Left, Right
  <1>4. (ls = <<>> <=> Range(ps) = {}) /\ (rs = <<>> <=> Range(qs) = {})
    <2>1. ls = [i \in 1..Len(ps) |-> ls[i]] /\ rs = [j \in 1..Len(qs) |-> rs[j]]
      BY <1>3, LeftRightType DEF Left, Right
    <2>2. (Range(ps) = {} <=> Len(ps) = 0) /\ (Range(qs) = {} <=> Len(qs) = 0)
      <3>1. \A n \in Nat : 1..n = {} <=> n = 0
        OBVIOUS
      <3>2. Range(ps) = {} <=> 1..Len(ps) = {}
        <4>1. Range(ps) = {ps[i] : i \in 1..Len(ps)}
          BY <1>3, Zenon DEF Range
        <4> QED
          BY <4>1, Zenon
      <3>3. Range(qs) = {} <=> 1..Len(qs) = {}
        <4>1. Range(qs) = {qs[i] : i \in 1..Len(qs)}
          BY <1>3, Zenon DEF Range
        <4> QED
          BY <4>1, Zenon
      <3> QED
        BY <1>3, <3>1, <3>2, <3>3
    <2>3. Len(ls) = Len(ps) /\ Len(rs) = Len(qs)
      BY LeftRightType
    <2>4. ls \in Seq([l : Numbers, r : {NoRow}]) /\ rs \in Seq([l : {NoRow}, r : Numbers])
      BY LeftRightType
    <2> HIDE DEF ls, rs
    <2>5. (ls = <<>> <=> Len(ls) = 0) /\ (rs = <<>> <=> Len(rs) = 0)
      BY <2>4
    <2> QED
      BY <2>2, <2>3, <2>5
  <1>5. CASE ls = <<>>
    BY <1>1, <1>2, <1>4, <1>5 DEF CrossProduct
  <1>6. CASE ls # <<>> /\ rs = <<>>
    BY <1>1, <1>2, <1>4, <1>6 DEF CrossProduct
  <1>7. CASE ls # <<>> /\ rs # <<>>
    <2> DEFINE row(i) == [j \in DOMAIN rs |-> [l |-> ls[i].l, r |-> rs[j].r]]
               all == [i \in DOMAIN ls |-> row(i)]
    <2>1. CrossProduct(ls, rs) = FlattenSeq(all)
      BY <1>7 DEF CrossProduct
    <2> HIDE DEF ls, rs
    <2>2. \A i \in 1..Len(ps) : row(i) = [j \in 1..Len(qs) |-> [l |-> ps[i], r |-> qs[j]]]
      BY <1>3
    <2>3. all = [i \in 1..Len(ps) |-> row(i)]
      BY <1>3
    <2> HIDE DEF row
    <2>4. \A i \in 1..Len(ps) : ps[i] # NoRow /\ \A j \in 1..Len(qs) : qs[j] # NoRow
      BY <1>3 DEF Range
    <2>5. ASSUME NEW i \in 1..Len(ps), NEW j \in 1..Len(qs), NEW m \in 1..Len(ps), NEW n \in 1..Len(qs),
                 i < m \/ (i = m /\ j < n)
          PROVE  <<[l |-> ps[i], r |-> qs[j]], [l |-> ps[m], r |-> qs[n]]>> \in RowOrder
      <3> DEFINE x == ps[i]  y == qs[j]  v == ps[m]  w == qs[n]
      <3>1. /\ x \in Numbers /\ y \in Numbers /\ v \in Numbers /\ w \in Numbers
            /\ x # NoRow /\ y # NoRow /\ v # NoRow /\ w # NoRow
        BY <1>3, <2>4
      <3>2. StoredBefore(x, v) \/ (x = v /\ StoredBefore(y, w))
        BY <1>3, <2>5 DEF InStoredOrder
      <3> HIDE DEF x, y, v, w
      <3>3. <<[l |-> x, r |-> y], [l |-> v, r |-> w]>> \in RowOrder
        BY <3>1, <3>2 DEF RowOrder, Precedes, Rank, Pairs
      <3> QED
        BY <3>3 DEF x, y, v, w
    <2>6. ASSUME NEW i \in 1..Len(ps) PROVE row(i) \in Seq(Pairs) /\ Ascends(RowOrder, row(i))
      <3>1. \A j \in 1..Len(qs) : [l |-> ps[i], r |-> qs[j]] \in Pairs
        BY <1>3 DEF Pairs
      <3>2. row(i) \in Seq(Pairs)
        <4>1. row(i) \in [1..Len(qs) -> Pairs]
          BY <2>2, <3>1
        <4> QED
          BY <1>3, <4>1
      <3>3. DOMAIN row(i) = 1..Len(qs) /\ \A j \in 1..Len(qs) : row(i)[j] = [l |-> ps[i], r |-> qs[j]]
        BY <2>2
      <3>4. Ascends(RowOrder, row(i))
        BY <2>5, <3>3 DEF Ascends
      <3> QED
        BY <3>2, <3>4
    <2>7. \A i \in 1..Len(ps) : \A c : c \in Range(row(i)) <=> \E j \in 1..Len(qs) : c = [l |-> ps[i], r |-> qs[j]]
      <3>1. \A i \in 1..Len(ps) : DOMAIN row(i) = 1..Len(qs)
                /\ \A j \in 1..Len(qs) : row(i)[j] = [l |-> ps[i], r |-> qs[j]]
        BY <2>2
      <3>2. SUFFICES ASSUME NEW i \in 1..Len(ps), NEW c
                      PROVE  c \in Range(row(i)) <=> \E j \in 1..Len(qs) : c = [l |-> ps[i], r |-> qs[j]]
        OBVIOUS
      <3> DEFINE t == row(i)
      <3>3. DOMAIN t = 1..Len(qs) /\ \A j \in 1..Len(qs) : t[j] = [l |-> ps[i], r |-> qs[j]]
        BY <3>1
      <3> HIDE DEF t
      <3>4. c \in Range(t) <=> \E j \in 1..Len(qs) : c = t[j]
        BY <3>3 DEF Range
      <3>5. c \in Range(t) <=> \E j \in 1..Len(qs) : c = [l |-> ps[i], r |-> qs[j]]
        BY <3>3, <3>4
      <3> QED
        BY <3>5 DEF t
    <2>8. all \in Seq(Seq(Pairs)) /\ Len(all) = Len(ps) /\ \A i \in 1..Len(ps) : all[i] = row(i)
      <3> DEFINE P == Seq(Pairs)
      <3> HIDE DEF P
      <3>1. all \in [1..Len(ps) -> P]
        BY <2>3, <2>6 DEF P
      <3>2. all \in Seq(P) /\ Len(all) = Len(ps)
        BY <1>3, <3>1
      <3> QED
        BY <2>3, <3>2 DEF P
    <2> HIDE DEF all
    <2>9. \A i \in 1..Len(all) : Ascends(RowOrder, all[i])
      BY <2>6, <2>8
    <2>10. \A i, j \in 1..Len(all) : i < j => \A x \in Range(all[i]), y \in Range(all[j]) : <<x, y>> \in RowOrder
      <3>1. SUFFICES ASSUME NEW i \in 1..Len(ps), NEW j \in 1..Len(ps), i < j,
                             NEW x \in Range(row(i)), NEW y \in Range(row(j))
                      PROVE  <<x, y>> \in RowOrder
        BY <2>8
      <3>2. PICK m \in 1..Len(qs) : x = [l |-> ps[i], r |-> qs[m]]
        BY <2>7, <3>1
      <3>3. PICK n \in 1..Len(qs) : y = [l |-> ps[j], r |-> qs[n]]
        BY <2>7, <3>1
      <3> QED
        BY <2>5, <3>1, <3>2, <3>3
    <2>11. /\ Ascends(RowOrder, FlattenSeq(all))
           /\ \A c : c \in Range(FlattenSeq(all)) <=> \E i \in 1..Len(all) : c \in Range(all[i])
      BY <2>8, <2>9, <2>10, FlattenAscends
    <2>12. \A c : c \in Range(FlattenSeq(all)) <=>
              \E i \in 1..Len(ps) : \E j \in 1..Len(qs) : c = [l |-> ps[i], r |-> qs[j]]
      <3>1. SUFFICES ASSUME NEW c
                      PROVE  c \in Range(FlattenSeq(all)) <=>
                               \E i \in 1..Len(ps) : \E j \in 1..Len(qs) : c = [l |-> ps[i], r |-> qs[j]]
        OBVIOUS
      <3>2. c \in Range(FlattenSeq(all)) <=> \E i \in 1..Len(all) : c \in Range(all[i])
        BY <2>11
      <3>3. \A i \in 1..Len(ps) : c \in Range(all[i]) <=> c \in Range(row(i))
        BY <2>8
      <3>4. \A i \in 1..Len(ps) : c \in Range(row(i)) <=> \E j \in 1..Len(qs) : c = [l |-> ps[i], r |-> qs[j]]
        BY <2>7
      <3>5. Len(all) = Len(ps)
        BY <2>8
      <3> QED
        BY <3>2, <3>3, <3>4, <3>5
    <2>13. Range(ps) = {ps[i] : i \in 1..Len(ps)} /\ Range(qs) = {qs[j] : j \in 1..Len(qs)}
      BY <1>3 DEF Range
    <2>14. \A c : c \in Range(FlattenSeq(all)) <=> \E x \in Range(ps), y \in Range(qs) : c = [l |-> x, r |-> y]
      BY <2>12, <2>13
    <2> QED
      BY <1>4, <1>7, <2>1, <2>11, <2>14 DEF ls, rs
  <1> QED
    BY <1>5, <1>6, <1>7

-----------------------------------------------------------------------------
(* Every clause keeps the rows in this order *)

RowsAscend ==
    stage \in {"join", "where", "filter", "union", "group", "order"} => Ascends(RowOrder, rows)

\* Nothing ascends.
LEMMA EmptyAscends ==
    ASSUME NEW R
    PROVE  Ascends(R, <<>>) /\ Range(<<>>) = {}
  BY DEF Ascends, Range

\* One more element, behind all others.
LEMMA AppendAscends ==
    ASSUME NEW S, NEW s \in Seq(S), NEW x \in S, NEW R, Ascends(R, s),
           \A y \in Range(s) : <<y, x>> \in R
    PROVE  Ascends(R, Append(s, x))
  <1>1. /\ Len(s) \in Nat /\ DOMAIN s = 1..Len(s) /\ DOMAIN Append(s, x) = 1..(Len(s) + 1)
        /\ \A i \in 1..Len(s) : Append(s, x)[i] = s[i]
        /\ Append(s, x)[Len(s) + 1] = x
    OBVIOUS
  <1>2. ASSUME NEW i \in 1..(Len(s) + 1), NEW j \in 1..(Len(s) + 1), i < j
        PROVE  <<Append(s, x)[i], Append(s, x)[j]>> \in R
    <2>1. i \in 1..Len(s)
      BY <1>1, <1>2
    <2>2. CASE j \in 1..Len(s)
      BY <1>1, <1>2, <2>1, <2>2 DEF Ascends
    <2>3. CASE j \notin 1..Len(s)
      <3>1. j = Len(s) + 1
        BY <1>1, <1>2, <2>3
      <3>2. s[i] \in Range(s)
        BY <1>1, <2>1 DEF Range
      <3> QED
        BY <1>1, <2>1, <3>1, <3>2
    <2> QED
      BY <2>2, <2>3
  <1> QED
    BY <1>1, <1>2 DEF Ascends

\* Without one of its elements a sequence ascends as before.
LEMMA RemoveAscends ==
    ASSUME NEW S, NEW s \in Seq(S), NEW k \in 1..Len(s), NEW R, Ascends(R, s)
    PROVE  Ascends(R, RemoveAt(s, k))
  <1> DEFINE t == RemoveAt(s, k)
  <1>1. \A a, b \in DOMAIN t : \E c, d \in DOMAIN s : /\ t[a] = s[c] /\ t[b] = s[d]
                                                      /\ a < b => c < d
    BY RemoveDiffers
  <1> HIDE DEF t
  <1>2. Ascends(R, t)
    BY <1>1 DEF Ascends
  <1> QED
    BY <1>2 DEF t

\* Rows of different ranks.
LEMMA RanksAscend ==
    ASSUME NEW c \in Pairs, NEW d \in Pairs, Rank(c) < Rank(d)
    PROVE  <<c, d>> \in RowOrder
  BY RowOrderIs DEF Precedes

\* The loaded rows of both tables, as sequences of places.
LEMMA LoadedPlaces ==
    ASSUME TypeOK, Loaded, stage # "load"
    PROVE  /\ lrows \in Seq(Numbers) /\ rrows \in Seq(Numbers)
           /\ InStoredOrder(lrows) /\ InStoredOrder(rrows)
           /\ NoRow \notin Range(lrows) /\ NoRow \notin Range(rrows)
           /\ Range(lrows) \subseteq Places(input.l) /\ Range(rrows) \subseteq Places(input.r)
           /\ rows \in Seq(Pairs)
  <1>1. lrows \in Seq(Places(input.l)) /\ rrows \in Seq(Places(input.r)) /\ input \in Inputs /\ rows \in Seq(Combined)
    BY DEF TypeOK
  <1>2. /\ Places(input.l) \subseteq Numbers /\ Places(input.r) \subseteq Numbers
        /\ NoRow \notin Places(input.l) /\ NoRow \notin Places(input.r)
        /\ Combined \subseteq Pairs
    BY <1>1, CombinedPairs
  <1>3. lrows \in Seq(Numbers) /\ rrows \in Seq(Numbers) /\ rows \in Seq(Pairs)
    BY <1>1, <1>2, SeqWidens
  <1>4. Range(lrows) \subseteq Places(input.l) /\ Range(rrows) \subseteq Places(input.r)
    BY <1>1 DEF Range
  <1>5. InStoredOrder(lrows) /\ InStoredOrder(rrows)
    BY DEF Loaded, LoadedFrom
  <1> QED
    BY <1>2, <1>3, <1>4, <1>5

\* The nested loop looks at the pairs in order.
LEMMA PairsAscend ==
    ASSUME TypeOK, Loaded, stage # "load",
           NEW i \in DOMAIN lrows, NEW j \in DOMAIN rrows,
           NEW m \in DOMAIN lrows, NEW n \in DOMAIN rrows, i < m \/ (i = m /\ j < n)
    PROVE  <<Pair(i, j), Pair(m, n)>> \in RowOrder
  <1> DEFINE x == lrows[i]
             y == rrows[j]
             v == lrows[m]
             w == rrows[n]
  <1>1. /\ lrows \in Seq(Numbers) /\ rrows \in Seq(Numbers)
        /\ InStoredOrder(lrows) /\ InStoredOrder(rrows)
        /\ NoRow \notin Range(lrows) /\ NoRow \notin Range(rrows)
    BY LoadedPlaces
  <1>2. x \in Numbers /\ y \in Numbers /\ v \in Numbers /\ w \in Numbers
    BY <1>1
  <1>3. x # NoRow /\ y # NoRow /\ v # NoRow /\ w # NoRow
    BY <1>1 DEF Range
  <1>4. StoredBefore(x, v) \/ (x = v /\ StoredBefore(y, w))
    BY <1>1 DEF InStoredOrder
  <1>5. Pair(i, j) = [l |-> x, r |-> y] /\ Pair(m, n) = [l |-> v, r |-> w]
    BY DEF Pair
  <1> HIDE DEF x, y, v, w
  <1>6. <<[l |-> x, r |-> y], [l |-> v, r |-> w]>> \in RowOrder
    BY <1>2, <1>3, <1>4 DEF RowOrder, Precedes, Rank, Pairs
  <1> QED
    BY <1>5, <1>6

\* A match is found behind those found before.
LEMMA AscendPair == TypeOK /\ Loaded /\ JoinedSoFar /\ RowsAscend /\ JoinPair => RowsAscend'
  <1> SUFFICES ASSUME TypeOK, Loaded, JoinedSoFar, RowsAscend, JoinPair PROVE RowsAscend'
    OBVIOUS
  <1> DEFINE a == at[1]
             b == at[2]
             c == Pair(a, b)
  <1>1. /\ stage = "join" /\ stage' = "join" /\ q.kind \in Joins /\ a <= Len(lrows) /\ b <= Len(rrows)
        /\ rows' = IF Matches(c) THEN Append(rows, c) ELSE rows
    BY DEF JoinPair, InLoop, Pair
  <1>2. /\ a \in Nat /\ a > 0 /\ b \in Nat /\ b > 0 /\ rows \in Seq(Combined)
        /\ lrows \in Seq(Places(input.l)) /\ rrows \in Seq(Places(input.r))
    BY DEF TypeOK
  <1>3. a \in DOMAIN lrows /\ b \in DOMAIN rrows
    BY <1>1, <1>2
  <1>4. c \in Combined
    BY <1>2, <1>3 DEF Combined, Part, Pair
  <1>5. \A d \in Range(rows) : <<d, c>> \in RowOrder
    <2>1. SUFFICES ASSUME NEW d \in Range(rows) PROVE <<d, c>> \in RowOrder
      OBVIOUS
    <2>2. PICK i \in DOMAIN lrows, j \in DOMAIN rrows : Visited(i, j) /\ d = Pair(i, j)
      BY <1>1 DEF JoinedSoFar
    <2>3. i < a \/ (i = a /\ j < b)
      BY <2>2 DEF Visited
    <2> HIDE DEF a, b
    <2> QED
      BY <1>1, <1>3, <2>2, <2>3, PairsAscend
  <1>6. Ascends(RowOrder, rows)
    BY <1>1 DEF RowsAscend
  <1> HIDE DEF c
  <1>7. Ascends(RowOrder, Append(rows, c))
    BY <1>2, <1>4, <1>5, <1>6, AppendAscends
  <1>8. Ascends(RowOrder, rows')
    BY <1>1, <1>6, <1>7
  <1> QED
    BY <1>8 DEF RowsAscend

\* The rows without a partner, in their order.
LEMMA UnmatchedAscend ==
    ASSUME NEW t, NEW ps \in Seq(Numbers), InStoredOrder(ps), NoRow \notin Range(ps)
    PROVE  Ascends(RowOrder, Left(Unmatched(t, ps))) /\ Ascends(RowOrder, Right(Unmatched(t, ps)))
  <1> DEFINE I == {n \in DOMAIN ps : \A c \in Range(rows) : c[t] # ps[n]}
             s == Unmatched(t, ps)
  <1>1. I \in SUBSET (1..Len(ps)) /\ s = Keep(ps, I)
    BY DEF Unmatched
  <1>2. IsInjective(ps)
    BY OrderedInjective
  <1>3. s \in Seq(Numbers) /\ Range(s) \subseteq Range(ps)
    BY <1>2, UnmatchedRows
  <1> HIDE DEF I, s
  <1>4. InStoredOrder(s)
    BY <1>1, KeepOrder
  <1>5. Ascends(RowOrder, Left(s)) /\ Ascends(RowOrder, Right(s))
    BY <1>3, <1>4, LeftRightAscend
  <1> QED
    BY <1>5 DEF s

\* The rows an outer join adds come behind the matches.
LEMMA AscendPad == TypeOK /\ Loaded /\ JoinedSoFar /\ RowsAscend /\ Pad => RowsAscend'
  <1> SUFFICES ASSUME TypeOK, Loaded, JoinedSoFar, RowsAscend, Pad PROVE RowsAscend'
    OBVIOUS
  <1> DEFINE ls == Left(Unmatched("l", lrows))
             rs == Right(Unmatched("r", rrows))
             a == IF q.kind \in {"left", "full"} THEN ls ELSE <<>>
             b == IF q.kind \in {"right", "full"} THEN rs ELSE <<>>
  <1>1. rows' = rows \o a \o b /\ stage = "join" /\ q.kind \in Joins
    BY DEF Pad
  <1>2. /\ ls \in Seq(Combined) /\ rs \in Seq(Combined)
        /\ \A c \in Range(rows) : c.l # NoRow /\ c.r # NoRow
        /\ \A c \in Range(ls) : c.l # NoRow /\ c.r = NoRow
        /\ \A c \in Range(rs) : c.l = NoRow /\ c.r # NoRow
    BY <1>1, PadDiffers
  <1>3. rows \in Seq(Pairs) /\ Ascends(RowOrder, rows) /\ Combined \subseteq Pairs
    BY <1>1, CombinedPairs, LoadedPlaces DEF RowsAscend, TypeOK
  <1>4. ls \in Seq(Pairs) /\ rs \in Seq(Pairs)
    BY <1>2, <1>3, SeqWidens
  <1>5. Ascends(RowOrder, ls) /\ Ascends(RowOrder, rs)
    BY <1>1, LoadedPlaces, UnmatchedAscend
  <1> HIDE DEF ls, rs
  <1>6. <<>> \in Seq(Pairs) /\ Ascends(RowOrder, <<>>) /\ Range(<<>>) = {}
    BY EmptyAscends
  <1>7. /\ a \in Seq(Pairs) /\ Ascends(RowOrder, a) /\ Range(a) \subseteq Range(ls)
        /\ b \in Seq(Pairs) /\ Ascends(RowOrder, b) /\ Range(b) \subseteq Range(rs)
    BY <1>4, <1>5, <1>6
  <1> HIDE DEF a, b
  <1>8. Range(rows) \subseteq Pairs /\ Range(a) \subseteq Pairs /\ Range(b) \subseteq Pairs
    BY <1>3, <1>7 DEF Range
  <1>9. /\ \A c \in Range(rows) : Rank(c) = 0
        /\ \A c \in Range(a) : Rank(c) = 1
        /\ \A c \in Range(b) : Rank(c) = 2
    BY <1>2, <1>7 DEF Rank
  <1>10. /\ \A c \in Range(rows), d \in Range(a) : <<c, d>> \in RowOrder
         /\ \A c \in Range(rows) \cup Range(a), d \in Range(b) : <<c, d>> \in RowOrder
    <2>1. \A c \in Range(rows), d \in Range(a) : c \in Pairs /\ d \in Pairs /\ Rank(c) < Rank(d)
      BY <1>8, <1>9
    <2>2. \A c \in Range(rows) \cup Range(a), d \in Range(b) : c \in Pairs /\ d \in Pairs /\ Rank(c) < Rank(d)
      BY <1>8, <1>9
    <2> QED
      BY <2>1, <2>2, RanksAscend
  <1> DEFINE u == rows \o a
  <1>11. u \in Seq(Pairs) /\ Ascends(RowOrder, u) /\ Range(u) = Range(rows) \cup Range(a)
    BY <1>3, <1>7, <1>10, ConcatAscends
  <1>12. rows' = u \o b
    BY <1>1
  <1> HIDE DEF u
  <1>13. Ascends(RowOrder, u \o b)
    BY <1>7, <1>10, <1>11, ConcatAscends
  <1> QED
    BY <1>12, <1>13 DEF RowsAscend

\* FROM leaves the rows in order.
LEMMA AscendFrom == TypeOK /\ Loaded /\ From => RowsAscend'
  <1> SUFFICES ASSUME TypeOK, Loaded, From PROVE RowsAscend'
    OBVIOUS
  <1>1. /\ rows' = IF q.kind = "comma" THEN CrossProduct(Left(lrows), Right(rrows)) ELSE Left(lrows)
        /\ stage = "join"
    BY DEF From
  <1>2. /\ lrows \in Seq(Numbers) /\ rrows \in Seq(Numbers)
        /\ InStoredOrder(lrows) /\ InStoredOrder(rrows)
        /\ NoRow \notin Range(lrows) /\ NoRow \notin Range(rrows)
    BY <1>1, LoadedPlaces
  <1>3. Ascends(RowOrder, CrossProduct(Left(lrows), Right(rrows)))
    BY <1>2, ProductAscends
  <1>4. Ascends(RowOrder, Left(lrows))
    BY <1>2, LeftRightAscend
  <1> QED
    BY <1>1, <1>3, <1>4 DEF RowsAscend

\* UNION has the rows of the second SELECT behind those of the first.
LEMMA BothAscend ==
    ASSUME TypeOK, Loaded, Staged, OneTableOnly, RowsDiffer, RowsAscend, stage = "union"
    PROVE  rows \o Right(rrows) \in Seq(Combined) /\ Ascends(RowOrder, rows \o Right(rrows))
  <1> DEFINE rs == Right(rrows)
  <1>1. rows \o rs \in Seq(Combined) /\ Range(rows) \subseteq LeftRows
    BY BothDiffer
  <1>2. /\ rrows \in Seq(Numbers) /\ InStoredOrder(rrows) /\ NoRow \notin Range(rrows)
        /\ Range(rrows) \subseteq Places(input.r) /\ rows \in Seq(Pairs)
    BY LoadedPlaces
  <1>3. Ascends(RowOrder, rows) /\ Ascends(RowOrder, rs)
    BY <1>2, LeftRightAscend DEF RowsAscend
  <1>4. Range(rs) = {[l |-> NoRow, r |-> p] : p \in Range(rrows)}
    BY <1>2, LeftRightDiffer
  <1>5. /\ input \in Inputs /\ Combined \subseteq Pairs
        /\ rrows \in Seq(Places(input.r)) /\ lrows \in Seq(Places(input.l))
    BY CombinedPairs DEF TypeOK
  <1>6. rs \in Seq(Pairs)
    <2>1. rs \in Seq(Combined)
      BY <1>5, LeftRightRows
    <2> HIDE DEF rs
    <2> QED
      BY <1>5, <2>1, SeqWidens
  <1>7. \A c \in Range(rows), d \in Range(rs) : <<c, d>> \in RowOrder
    <2>1. SUFFICES ASSUME NEW c \in Range(rows), NEW d \in Range(rs) PROVE <<c, d>> \in RowOrder
      OBVIOUS
    <2>2. c \in Pairs /\ d \in Pairs
      <3> HIDE DEF rs
      <3> QED
        BY <1>2, <1>6 DEF Range
    <2>3. Rank(c) = 1
      BY <1>1 DEF LeftRows, Rank
    <2>4. Rank(d) = 2
      BY <1>2, <1>4 DEF Rank
    <2> HIDE DEF rs
    <2> QED
      BY <2>2, <2>3, <2>4, RanksAscend
  <1> HIDE DEF rs
  <1>8. Ascends(RowOrder, rows \o rs)
    BY <1>2, <1>3, <1>6, <1>7, ConcatAscends
  <1> QED
    BY <1>1, <1>8 DEF rs

LEMMA AscendUnion ==
    TypeOK /\ Loaded /\ Staged /\ OneTableOnly /\ RowsDiffer /\ RowsAscend /\ Union => RowsAscend'
  <1> SUFFICES ASSUME TypeOK, Loaded, Staged, OneTableOnly, RowsDiffer, RowsAscend, Union PROVE RowsAscend'
    OBVIOUS
  <1> DEFINE both == rows \o Right(rrows)
             I == {n \in DOMAIN both : \A i \in 1..(n - 1) : RowText(both[i]) # RowText(both[n])}
  <1>1. rows' = (IF q.kind = "union" THEN Distinct(both) ELSE both) /\ stage = "union"
    BY DEF Union
  <1>2. both \in Seq(Combined) /\ Ascends(RowOrder, both)
    BY <1>1, BothAscend
  <1> HIDE DEF both
  <1>3. Distinct(both) \in Seq(Combined) /\ \E f : Picks(f, Distinct(both), both, I)
    BY <1>2, DistinctPicks
  <1>4. I \in SUBSET (1..Len(both))
    BY <1>2
  <1> HIDE DEF I
  <1>5. Ascends(RowOrder, Distinct(both))
    BY <1>2, <1>3, <1>4, PicksAscend
  <1> QED
    BY <1>1, <1>2, <1>5 DEF RowsAscend

\* Every step keeps the order.
LEMMA AscendNext ==
    TypeOK /\ Loaded /\ JoinedSoFar /\ Staged /\ OneTableOnly /\ RowsDiffer /\ RowsAscend /\ Next => RowsAscend'
  <1> SUFFICES ASSUME TypeOK, Loaded, JoinedSoFar, Staged, OneTableOnly, RowsDiffer, RowsAscend, Next
               PROVE  RowsAscend'
    OBVIOUS
  <1>1. CASE Load
    <2>1. rows' = <<>>
      BY <1>1 DEF Load
    <2> QED
      BY <2>1, EmptyAscends DEF RowsAscend
  <1>2. CASE WhereRow
    <2>1. /\ stage = "filter" /\ at[1] \in 1..Len(rows)
          /\ rows' = rows \/ rows' = RemoveAt(rows, at[1])
      BY <1>2, WhereRowStep
    <2>2. rows \in Seq(Combined) /\ Ascends(RowOrder, rows)
      BY <2>1 DEF TypeOK, RowsAscend
    <2>3. Ascends(RowOrder, RemoveAt(rows, at[1]))
      BY <2>1, <2>2, RemoveAscends
    <2> QED
      BY <2>1, <2>2, <2>3 DEF RowsAscend
  <1>3. CASE Where \/ WhereDone \/ GroupRow \/ Aggregate \/ GroupsDone \/ AggregateAll \/ NextLeft
    <2>1. rows' = rows /\ stage \in {"join", "where", "filter", "group"}
      BY <1>3 DEF Where, WhereDone, GroupRow, Aggregate, GroupsDone, AggregateAll, NextLeft
    <2> QED
      BY <2>1 DEF RowsAscend
  <1>4. CASE Order \/ Limit \/ NextPage \/ WhereFails \/ GroupFails
    BY <1>4 DEF Order, Limit, NextPage, WhereFails, GroupFails, RowsAscend
  <1> QED
    BY <1>1, <1>2, <1>3, <1>4, AscendPair, AscendPad, AscendFrom, AscendUnion DEF Next

-----------------------------------------------------------------------------
(* Which rows they are, when every page could be read *)

MatchingPairs == {c \in [l : Places(input.l), r : Places(input.r)] : Matches(c)}

\* FROM and JOIN.
Source ==
    IF q.kind = "comma"
    THEN IF Places(input.l) = {} THEN RightRows
         ELSE IF Places(input.r) = {} THEN LeftRows
         ELSE [l : Places(input.l), r : Places(input.r)]
    ELSE IF q.kind \in Joins
    THEN MatchingPairs
           \cup (IF q.kind \in {"left", "full"}
                 THEN {c \in LeftRows : \A d \in MatchingPairs : d.l # c.l} ELSE {})
           \cup (IF q.kind \in {"right", "full"}
                 THEN {c \in RightRows : \A d \in MatchingPairs : d.r # c.r} ELSE {})
    ELSE LeftRows

\* WHERE.
Chosen == {c \in Source : Wanted(c)}

\* UNION.
United ==
    {c \in AllOfUnion : q.kind = "union" =>
        \A d \in AllOfUnion : <<d, c>> \in RowOrder => RowText(d) # RowText(c)}

RowsKnown ==
    faults = 0 =>
        /\ stage = "where" => Range(rows) = Source
        /\ stage = "filter" =>
              /\ Range(rows) \subseteq Source
              /\ \A c \in Source : Wanted(c) => c \in Range(rows)
              /\ \A i \in DOMAIN rows : i < at[1] => Wanted(rows[i])
        /\ stage \in {"union", "group"} => Range(rows) = Chosen
        /\ stage = "order" => Range(rows) = IF q.kind \in Unions THEN United ELSE Chosen

\* These depend on the input only.
LEMMA SameSource ==
    ASSUME input' = input
    PROVE  /\ Source' = Source /\ Chosen' = Chosen /\ United' = United
           /\ \A c : RowText(c)' = RowText(c)
           /\ \A c : Wanted(c)' <=> Wanted(c)
  <1>1. q' = q /\ LeftRows' = LeftRows /\ RightRows' = RightRows
    BY DEF q, LeftRows, RightRows
  <1>2. \A c : Matches(c)' <=> Matches(c)
    BY SameMatches
  <1>3. \A c : Wanted(c)' <=> Wanted(c)
    BY SameWanted
  <1>4. \A c : RowText(c)' = RowText(c)
    BY DEF RowText, Value, ValueIn, Col
  <1>5. MatchingPairs' = MatchingPairs
    BY <1>2 DEF MatchingPairs
  <1>6. Source' = Source
    BY <1>1, <1>5 DEF Source
  <1>7. Chosen' = Chosen
    BY <1>3, <1>6 DEF Chosen
  <1>8. AllOfUnion' = AllOfUnion
    BY <1>1, <1>3 DEF AllOfUnion
  <1>9. United' = United
    BY <1>1, <1>4, <1>8 DEF United
  <1> QED
    BY <1>3, <1>4, <1>6, <1>7, <1>9

\* What FROM makes of all rows of both tables.
LEMMA KnownFrom == TypeOK /\ Loaded /\ From => RowsKnown'
  <1> SUFFICES ASSUME TypeOK, Loaded, From, faults' = 0 PROVE RowsKnown'
    BY DEF RowsKnown
  <1>1. /\ rows' = IF q.kind = "comma" THEN CrossProduct(Left(lrows), Right(rrows)) ELSE Left(lrows)
        /\ stage = "join" /\ stage' = "where" /\ q.kind \notin Joins /\ input' = input /\ faults = 0
    BY DEF From
  <1>2. /\ lrows \in Seq(Numbers) /\ rrows \in Seq(Numbers)
        /\ InStoredOrder(lrows) /\ InStoredOrder(rrows)
        /\ NoRow \notin Range(lrows) /\ NoRow \notin Range(rrows)
    BY <1>1, LoadedPlaces
  <1>3. Range(lrows) = Places(input.l) /\ Range(rrows) = Places(input.r)
    BY <1>1 DEF Loaded, LoadedFrom
  <1>4. Range(rows') = Source
    <2>1. CASE q.kind # "comma"
      <3>1. Range(Left(lrows)) = {[l |-> p, r |-> NoRow] : p \in Range(lrows)}
        BY <1>2, LeftRightDiffer
      <3>2. rows' = Left(lrows) /\ Source = LeftRows
        BY <1>1, <2>1 DEF Source
      <3> QED
        BY <1>3, <3>1, <3>2 DEF LeftRows
    <2>2. CASE q.kind = "comma"
      <3> DEFINE all == CrossProduct(Left(lrows), Right(rrows))
                 X == Places(input.l)
                 Y == Places(input.r)
      <3>1. \A c : c \in Range(all) <=>
                     IF Range(lrows) = {} THEN \E y \in Range(rrows) : c = [l |-> NoRow, r |-> y]
                     ELSE IF Range(rrows) = {} THEN \E x \in Range(lrows) : c = [l |-> x, r |-> NoRow]
                     ELSE \E x \in Range(lrows), y \in Range(rrows) : c = [l |-> x, r |-> y]
        BY <1>2, ProductAscends
      <3>2. rows' = all
        BY <1>1, <2>2
      <3> HIDE DEF all
      <3>3. CASE X = {}
        <4>1. \A c : c \in Range(all) <=> \E y \in Y : c = [l |-> NoRow, r |-> y]
          BY <1>3, <3>1, <3>3
        <4>2. Source = {[l |-> NoRow, r |-> y] : y \in Y}
          BY <2>2, <3>3 DEF Source, RightRows
        <4> QED
          BY <3>2, <4>1, <4>2
      <3>4. CASE X # {} /\ Y = {}
        <4>1. \A c : c \in Range(all) <=> \E x \in X : c = [l |-> x, r |-> NoRow]
          BY <1>3, <3>1, <3>4
        <4>2. Source = {[l |-> x, r |-> NoRow] : x \in X}
          BY <2>2, <3>4 DEF Source, LeftRows
        <4> QED
          BY <3>2, <4>1, <4>2
      <3>5. CASE X # {} /\ Y # {}
        <4>1. \A c : c \in Range(all) <=> \E x \in X, y \in Y : c = [l |-> x, r |-> y]
          BY <1>3, <3>1, <3>5
        <4>2. Source = [l : X, r : Y]
          BY <2>2, <3>5 DEF Source
        <4>3. \A c : c \in [l : X, r : Y] <=> \E x \in X, y \in Y : c = [l |-> x, r |-> y]
          OBVIOUS
        <4> QED
          BY <3>2, <4>1, <4>2, <4>3
      <3> QED
        BY <3>3, <3>4, <3>5
    <2> QED
      BY <2>1, <2>2
  <1>5. Source' = Source
    BY <1>1, SameSource
  <1> QED
    BY <1>1, <1>4, <1>5 DEF RowsKnown

\* When the loop is over the rows are the pairs that match.
LEMMA LoopDone ==
    ASSUME TypeOK, JoinedSoFar, stage = "join", q.kind \in Joins, ~InLoop,
           Range(lrows) = Places(input.l), Range(rrows) = Places(input.r)
    PROVE  Range(rows) = MatchingPairs
  <1> DEFINE L == DOMAIN lrows
             R == DOMAIN rrows
  <1>1. at[1] \in Nat /\ at[1] > Len(lrows) /\ Len(lrows) \in Nat /\ L = 1..Len(lrows)
    BY DEF TypeOK, InLoop
  <1>2. /\ \A c \in Range(rows) : \E i \in L, j \in R : c = Pair(i, j) /\ Matches(c)
        /\ \A i \in L, j \in R : Visited(i, j) /\ Matches(Pair(i, j)) => Pair(i, j) \in Range(rows)
    BY DEF JoinedSoFar
  <1>3. \A i \in L, j \in R : Visited(i, j)
    BY <1>1 DEF Visited
  <1>4. /\ \A i \in L : lrows[i] \in Places(input.l)
        /\ \A j \in R : rrows[j] \in Places(input.r)
        /\ \A x \in Places(input.l) : \E i \in L : x = lrows[i]
        /\ \A y \in Places(input.r) : \E j \in R : y = rrows[j]
    <2>1. Range(lrows) = {lrows[i] : i \in L} /\ Range(rrows) = {rrows[j] : j \in R}
      BY DEF Range
    <2> HIDE DEF L, R
    <2>2. /\ \A i \in L : lrows[i] \in Range(lrows)
          /\ \A j \in R : rrows[j] \in Range(rrows)
          /\ \A x \in Range(lrows) : \E i \in L : x = lrows[i]
          /\ \A y \in Range(rrows) : \E j \in R : y = rrows[j]
      BY <2>1
    <2> QED
      BY <2>2
  <1> HIDE DEF L, R
  <1>5. ASSUME NEW c \in Range(rows) PROVE c \in MatchingPairs
    <2>1. PICK i \in L, j \in R : c = Pair(i, j) /\ Matches(c)
      BY <1>2
    <2> QED
      BY <1>4, <2>1 DEF Pair, MatchingPairs
  <1>6. ASSUME NEW c \in MatchingPairs PROVE c \in Range(rows)
    <2>1. c.l \in Places(input.l) /\ c.r \in Places(input.r) /\ Matches(c) /\ c = [l |-> c.l, r |-> c.r]
      BY DEF MatchingPairs
    <2>2. PICK i \in L, j \in R : c.l = lrows[i] /\ c.r = rrows[j]
      BY <1>4, <2>1
    <2>3. c = Pair(i, j)
      BY <2>1, <2>2 DEF Pair
    <2> QED
      BY <1>2, <1>3, <2>1, <2>3
  <1> QED
    BY <1>5, <1>6

\* What a join makes of all rows of both tables.
LEMMA KnownPad == TypeOK /\ Loaded /\ JoinedSoFar /\ Pad => RowsKnown'
  <1> SUFFICES ASSUME TypeOK, Loaded, JoinedSoFar, Pad, faults' = 0 PROVE RowsKnown'
    BY DEF RowsKnown
  <1> DEFINE ls == Left(Unmatched("l", lrows))
             rs == Right(Unmatched("r", rrows))
             a == IF q.kind \in {"left", "full"} THEN ls ELSE <<>>
             b == IF q.kind \in {"right", "full"} THEN rs ELSE <<>>
             X == Places(input.l)
             Y == Places(input.r)
             M == MatchingPairs
  <1>1. /\ rows' = rows \o a \o b /\ stage = "join" /\ stage' = "where" /\ q.kind \in Joins /\ ~InLoop
        /\ input' = input /\ faults = 0
    BY DEF Pad
  <1>2. Range(lrows) = X /\ Range(rrows) = Y
    BY <1>1 DEF Loaded, LoadedFrom
  <1>3. Range(rows) = M
    BY <1>1, <1>2, LoopDone
  <1>4. /\ ls \in Seq(Combined) /\ rs \in Seq(Combined) /\ rows \in Seq(Combined)
        /\ Range(ls) = {[l |-> p, r |-> NoRow] : p \in {x \in Range(lrows) : \A c \in Range(rows) : c["l"] # x}}
        /\ Range(rs) = {[l |-> NoRow, r |-> p] : p \in {x \in Range(rrows) : \A c \in Range(rows) : c["r"] # x}}
    BY <1>1, PadDiffers DEF TypeOK
  <1> HIDE DEF ls, rs
  <1>5. Range(ls) = {c \in LeftRows : \A d \in M : d.l # c.l}
    BY <1>2, <1>3, <1>4 DEF LeftRows
  <1>6. Range(rs) = {c \in RightRows : \A d \in M : d.r # c.r}
    BY <1>2, <1>3, <1>4 DEF RightRows
  <1>7. <<>> \in Seq(Combined) /\ Range(<<>>) = {}
    BY EmptyAscends
  <1>8. a \in Seq(Combined) /\ b \in Seq(Combined)
    BY <1>4, <1>7
  <1>9. /\ Range(a) = (IF q.kind \in {"left", "full"} THEN {c \in LeftRows : \A d \in M : d.l # c.l} ELSE {})
        /\ Range(b) = (IF q.kind \in {"right", "full"} THEN {c \in RightRows : \A d \in M : d.r # c.r} ELSE {})
    BY <1>5, <1>6, <1>7
  <1> HIDE DEF a, b
  <1> DEFINE u == rows \o a
  <1>10. u \in Seq(Combined) /\ Range(u) = Range(rows) \cup Range(a)
    BY <1>4, <1>8, ConcatDiffer
  <1>11. rows' = u \o b
    BY <1>1
  <1> HIDE DEF u, M
  <1>12. Range(u \o b) = Range(u) \cup Range(b)
    BY <1>8, <1>10, ConcatDiffer
  <1>13. q.kind # "comma"
    BY <1>1 DEF Joins
  <1>14. Range(rows') = Source
    BY <1>1, <1>3, <1>9, <1>10, <1>11, <1>12, <1>13 DEF Source, M
  <1>15. Source' = Source
    BY <1>1, SameSource
  <1> QED
    BY <1>1, <1>14, <1>15 DEF RowsKnown

\* WHERE removes the rows its condition is not true of, and no others.
LEMMA KnownWhere == TypeOK /\ Staged /\ RowsKnown /\ (Where \/ WhereRow \/ WhereDone) => RowsKnown'
  <1> SUFFICES ASSUME TypeOK, Staged, RowsKnown, Where \/ WhereRow \/ WhereDone, faults' = 0
               PROVE  RowsKnown'
    BY DEF RowsKnown
  <1>1. /\ input' = input /\ stage \in {"where", "filter"} /\ stage # "load" /\ stage' # "load"
    BY DEF Where, WhereRow, WhereDone, AfterWhere
  <1>2. faults = 0
    BY <1>1, LoadedStays DEF Next
  <1>3. q' = q /\ Source' = Source /\ Chosen' = Chosen /\ \A c : Wanted(c)' <=> Wanted(c)
    BY <1>1, SameSource DEF q
  <1>4. at[1] \in Nat /\ at[1] > 0 /\ rows \in Seq(Combined) /\ DOMAIN rows = 1..Len(rows) /\ Len(rows) \in Nat
    BY DEF TypeOK
  <1>5. AfterWhere = "order" => q.kind \notin Unions
    BY DEF AfterWhere
  <1>6. CASE Where
    <2>1. rows' = rows /\ at' = <<1, 1>> /\ stage = "where" /\ stage' = IF q.where = <<>> THEN AfterWhere ELSE "filter"
      BY <1>6 DEF Where
    <2>2. Range(rows) = Source
      BY <1>2, <2>1 DEF RowsKnown
    <2>3. CASE q.where = <<>>
      <3>1. Chosen = Source
        BY <2>3 DEF Chosen, Wanted
      <3>2. stage' = AfterWhere /\ AfterWhere \in {"union", "group", "order"}
        BY <2>1, <2>3 DEF AfterWhere
      <3> QED
        BY <1>3, <1>5, <2>1, <2>2, <3>1, <3>2 DEF RowsKnown
    <2>4. CASE q.where # <<>>
      <3>1. stage' = "filter" /\ \A i \in DOMAIN rows : ~(i < at'[1])
        BY <1>4, <2>1, <2>4
      <3> QED
        BY <1>3, <2>1, <2>2, <3>1 DEF RowsKnown
    <2> QED
      BY <2>3, <2>4
  <1>7. CASE WhereDone
    <2>1. rows' = rows /\ at[1] > Len(rows) /\ stage = "filter" /\ stage' = AfterWhere
      BY <1>7 DEF WhereDone
    <2>2. AfterWhere \in {"union", "group", "order"}
      BY DEF AfterWhere
    <2>3. \A i \in DOMAIN rows : i < at[1]
      BY <1>4, <2>1
    <2>4. Range(rows) \subseteq Source /\ (\A c \in Source : Wanted(c) => c \in Range(rows))
          /\ \A i \in DOMAIN rows : Wanted(rows[i])
      BY <1>2, <2>1, <2>3 DEF RowsKnown
    <2>5. \A c \in Range(rows) : Wanted(c)
      BY <2>4 DEF Range
    <2>6. Range(rows) = Chosen
      BY <2>4, <2>5 DEF Chosen
    <2> QED
      BY <1>3, <1>5, <2>1, <2>2, <2>6 DEF RowsKnown
  <1>8. CASE WhereRow
    <2>1. /\ stage' = "filter" /\ stage = "filter" /\ at[1] \in 1..Len(rows)
          /\ \/ /\ rows' = rows /\ at' = <<at[1] + 1, 1>>
                /\ Satisfies(rows[at[1]], q.where, {})
             \/ /\ rows' = RemoveAt(rows, at[1]) /\ at' = at
                /\ ~Satisfies(rows[at[1]], q.where, {})
      BY <1>8, WhereRowStep
    <2>2. Wanted(rows[at[1]]) <=> Satisfies(rows[at[1]], q.where, {})
      BY <2>1 DEF Wanted, Staged
    <2>3. /\ Range(rows) \subseteq Source
          /\ \A c \in Source : Wanted(c) => c \in Range(rows)
          /\ \A i \in DOMAIN rows : i < at[1] => Wanted(rows[i])
      BY <1>2, <2>1 DEF RowsKnown
    <2>4. CASE rows' = rows /\ at' = <<at[1] + 1, 1>> /\ Satisfies(rows[at[1]], q.where, {})
      <3>1. \A i \in DOMAIN rows : i < at'[1] => i < at[1] \/ i = at[1]
        BY <1>4, <2>4
      <3>2. \A i \in DOMAIN rows' : i < at'[1] => Wanted(rows[i])'
        BY <1>3, <2>2, <2>3, <2>4, <3>1
      <3> QED
        BY <1>3, <2>1, <2>3, <2>4, <3>2 DEF RowsKnown
    <2>5. CASE rows' = RemoveAt(rows, at[1]) /\ at' = at /\ ~Satisfies(rows[at[1]], q.where, {})
      <3> DEFINE k == at[1]
      <3>1. /\ \A x \in Range(rows) : x # rows[k] => x \in Range(rows')
            /\ \A i \in 1..(Len(rows) - 1) : i < k => rows'[i] = rows[i]
            /\ \A i \in DOMAIN rows' : \E m \in DOMAIN rows : rows'[i] = rows[m]
        BY <1>4, <2>1, <2>5, RemoveDiffers
      <3>2. DOMAIN rows' = 1..(Len(rows) - 1)
        <4>1. rows' \in Seq(Combined) /\ Len(rows') = Len(rows) - 1
          BY <1>4, <2>1, <2>5, RemoveAtShifts
        <4> QED
          BY <4>1
      <3>3. Range(rows') \subseteq Source
        <4>1. Range(rows') \subseteq Range(rows)
          BY <3>1 DEF Range
        <4> QED
          BY <2>3, <4>1
      <3>4. \A c \in Source : Wanted(c) => c \in Range(rows')
        BY <2>2, <2>3, <2>5, <3>1
      <3>5. \A i \in DOMAIN rows' : i < at[1] => Wanted(rows'[i])
        <4>1. SUFFICES ASSUME NEW i \in DOMAIN rows', i < at[1] PROVE Wanted(rows'[i])
          OBVIOUS
        <4>2. rows'[i] = rows[i] /\ i \in DOMAIN rows
          BY <1>4, <3>1, <3>2, <4>1
        <4> QED
          BY <2>3, <4>1, <4>2
      <3>6. \A i \in DOMAIN rows' : i < at'[1] => Wanted(rows[i])'
        BY <1>3, <2>5, <3>5
      <3> QED
        BY <1>3, <2>1, <3>3, <3>4, <3>6 DEF RowsKnown
    <2> QED
      BY <2>1, <2>4, <2>5
  <1> QED
    BY <1>6, <1>7, <1>8

\* UNION keeps of the rows with one text the first.
LEMMA KnownUnion ==
    TypeOK /\ Loaded /\ Staged /\ OneTableOnly /\ RowsDiffer /\ Filtered /\ RowsAscend /\ Union => RowsKnown'
  <1> SUFFICES ASSUME TypeOK, Loaded, Staged, OneTableOnly, RowsDiffer, Filtered, RowsAscend, Union,
                      faults' = 0
               PROVE  RowsKnown'
    BY DEF RowsKnown
  <1> DEFINE both == rows \o Right(rrows)
             I == {n \in DOMAIN both : \A i \in 1..(n - 1) : RowText(both[i]) # RowText(both[n])}
  <1>1. /\ rows' = IF q.kind = "union" THEN Distinct(both) ELSE both
        /\ stage = "union" /\ stage' = "order" /\ input' = input /\ faults = 0 /\ q.kind \in Unions
    BY DEF Union, Staged
  <1>2. both \in Seq(Combined) /\ Ascends(RowOrder, both)
    BY <1>1, BothAscend
  <1>3. Range(both) = AllOfUnion
    BY <1>1, UnionAll
  <1> HIDE DEF both
  <1>4. Distinct(both) \in Seq(Combined) /\ \E f : Picks(f, Distinct(both), both, I)
    BY <1>2, DistinctPicks
  <1>5. I \in SUBSET (1..Len(both)) /\ DOMAIN both = 1..Len(both) /\ Len(both) \in Nat
    BY <1>2
  <1>6. Range(Distinct(both)) = {both[n] : n \in I}
    <2> HIDE DEF I
    <2> QED
      BY <1>2, <1>4, <1>5, PicksAscend
  <1>7. \A i, n \in DOMAIN both : <<both[i], both[n]>> \in RowOrder <=> i < n
    <2>1. SUFFICES ASSUME NEW i \in DOMAIN both, NEW n \in DOMAIN both, <<both[i], both[n]>> \in RowOrder
                   PROVE  i < n
      BY <1>2 DEF Ascends
    <2>2. <<both[n], both[i]>> \notin RowOrder
      BY <2>1, RowOrderStrict DEF Strict
    <2>3. ~(n < i)
      BY <1>2, <2>2 DEF Ascends
    <2>4. n # i
      BY <2>1, <2>2
    <2> QED
      BY <1>5, <2>3, <2>4
  <1>8. AllOfUnion = {both[n] : n \in DOMAIN both}
    BY <1>3 DEF Range
  <1>9. CASE q.kind = "union"
    <2>1. \A n \in DOMAIN both : n \in I <=> \A d \in AllOfUnion : <<d, both[n]>> \in RowOrder => RowText(d) # RowText(both[n])
      <3>1. SUFFICES ASSUME NEW n \in DOMAIN both
                     PROVE  n \in I <=> \A d \in AllOfUnion : <<d, both[n]>> \in RowOrder => RowText(d) # RowText(both[n])
        OBVIOUS
      <3>2. \A i : i \in 1..(n - 1) <=> i \in DOMAIN both /\ i < n
        BY <1>5
      <3>3. n \in I <=> \A i \in DOMAIN both : i < n => RowText(both[i]) # RowText(both[n])
        BY <3>2
      <3>4. n \in I <=> \A i \in DOMAIN both : <<both[i], both[n]>> \in RowOrder => RowText(both[i]) # RowText(both[n])
        BY <1>7, <3>3
      <3> HIDE DEF I
      <3> QED
        BY <1>8, <3>4
    <2> HIDE DEF I
    <2>2. {both[n] : n \in I} = United
      <3>1. ASSUME NEW n \in I PROVE both[n] \in United
        BY <1>5, <1>8, <2>1, <3>1 DEF United
      <3>2. ASSUME NEW c \in United PROVE \E n \in I : c = both[n]
        <4>1. PICK n \in DOMAIN both : c = both[n]
          BY <1>8 DEF United
        <4>2. n \in I
          BY <1>9, <2>1, <4>1 DEF United
        <4> QED
          BY <4>1, <4>2
      <3> QED
        BY <3>1, <3>2
    <2>3. Range(rows') = United
      BY <1>1, <1>6, <1>9, <2>2
    <2> QED
      BY <1>1, <2>3, SameSource DEF RowsKnown, q
  <1>10. CASE q.kind # "union"
    <2>1. United = AllOfUnion
      BY <1>10 DEF United
    <2>2. Range(rows') = United
      BY <1>1, <1>3, <1>10, <2>1
    <2> QED
      BY <1>1, <2>2, SameSource DEF RowsKnown, q
  <1> QED
    BY <1>9, <1>10

\* Every step keeps it.
LEMMA KnownNext ==
    /\ TypeOK /\ Loaded /\ JoinedSoFar /\ Staged /\ OneTableOnly /\ RowsDiffer /\ Filtered
    /\ RowsAscend /\ RowsKnown /\ Next
    => RowsKnown'
  <1> SUFFICES ASSUME TypeOK, Loaded, JoinedSoFar, Staged, OneTableOnly, RowsDiffer, Filtered,
                      RowsAscend, RowsKnown, Next
               PROVE  RowsKnown'
    OBVIOUS
  <1>1. CASE GroupRow \/ Aggregate \/ GroupsDone \/ AggregateAll
    <2>1. /\ rows' = rows /\ stage = "group" /\ stage' \in {"group", "order"} /\ faults' = faults
          /\ input' = input
      BY <1>1 DEF GroupRow, Aggregate, GroupsDone, AggregateAll
    <2>2. q.kind \notin Unions
      BY <2>1, InputType DEF TypeOK, Staged
    <2>3. q' = q /\ Chosen' = Chosen
      BY <2>1, SameSource DEF q
    <2> QED
      BY <2>1, <2>2, <2>3 DEF RowsKnown
  <1>2. CASE Load \/ JoinPair \/ NextLeft \/ Order \/ Limit \/ NextPage \/ WhereFails \/ GroupFails
    <2>1. stage' \in {"join", "limit", "answered", "load", "failed"}
      BY <1>2 DEF Load, JoinPair, NextLeft, Order, Limit, NextPage, WhereFails, GroupFails
    <2> QED
      BY <2>1 DEF RowsKnown
  <1> QED
    BY <1>1, <1>2, KnownFrom, KnownPad, KnownWhere, KnownUnion DEF Next

-----------------------------------------------------------------------------
(* What a result says follows from the rows it is made of *)

\* What a result says of the values vs.
Counts(x, vs) ==
    LET values == {vs[i] : i \in Some(vs, Len(vs))}
    IN  /\ x.count = IF q.distinct THEN Cardinality(values) ELSE Len(vs)
        /\ IF Some(vs, Len(vs)) = {} THEN x.sum = Null /\ x.min = Null /\ x.max = Null
           ELSE /\ x.sum = SumOf(vs, Counted(vs, Len(vs)))
                /\ x.min \in values /\ \A v \in values : x.min <= v
                /\ x.max \in values /\ \A v \in values : v <= x.max

Made(x) == \E vs : Looked(vs, x.rows) /\ Counts(x, vs)

\* What Accumulate adds up is what a result says.
LEMMA ResultMade ==
    ASSUME input \in Inputs, NEW k \in Keys, NEW cs \in Seq(Combined), NEW vs, Looked(vs, cs)
    PROVE  Made(ResultRow(k, cs, vs))
  <1> DEFINE x == ResultRow(k, cs, vs)
             acc == FoldLeft(Accumulate, NoValues, vs)
  <1>1. vs \in Seq(Known) /\ Len(vs) = Len(cs)
    BY LookedType
  <1>2. Tells(acc, vs, Len(vs))
    BY <1>1, FoldTells
  <1>3. /\ x.rows = cs
        /\ x.count = IF q.distinct THEN Cardinality(acc.seen) ELSE Len(cs)
        /\ x.sum = IF acc.count = 0 THEN Null ELSE acc.total
        /\ x.min = IF acc.count = 0 THEN Null ELSE acc.min
        /\ x.max = IF acc.count = 0 THEN Null ELSE acc.max
    BY DEF ResultRow
  <1> HIDE DEF x, acc
  <1>4. CASE Some(vs, Len(vs)) = {}
    <2>1. acc.count = 0 /\ acc.seen = {vs[i] : i \in Some(vs, Len(vs))}
      BY <1>2, <1>4 DEF Tells
    <2>2. Counts(x, vs)
      BY <1>1, <1>3, <1>4, <2>1 DEF Counts
    <2> QED
      BY <1>3, <2>2 DEF Made, x
  <1>5. CASE Some(vs, Len(vs)) # {}
    <2>1. /\ acc.count # 0 /\ acc.seen = {vs[i] : i \in Some(vs, Len(vs))}
          /\ acc.total = SumOf(vs, Counted(vs, Len(vs)))
          /\ acc.min \in acc.seen /\ \A v \in acc.seen : acc.min <= v
          /\ acc.max \in acc.seen /\ \A v \in acc.seen : v <= acc.max
      BY <1>2, <1>5 DEF Tells
    <2>2. Counts(x, vs)
      BY <1>1, <1>3, <1>5, <2>1 DEF Counts
    <2> QED
      BY <1>3, <2>2 DEF Made, x
  <1> QED
    BY <1>4, <1>5

\* A column at most one table has can be looked up in one way.
LEMMA OneArgument ==
    ASSUME Cardinality(TablesWith(q.arg)) <= 1, NEW c
    PROVE  \E v : Arguments(c) = {v}
  <1> DEFINE T == TablesWith(q.arg)
             found == {Value(c, Col(t, q.arg)) : t \in {u \in T : c[u] # NoRow}}
  <1>1. T \subseteq {"l", "r"}
    BY DEF TablesWith
  <1>2. IsFiniteSet(T)
    <2>1. IsFiniteSet({"l"}) /\ {"l"} \cup {"r"} = {"l", "r"}
      BY FS_Singleton
    <2>2. IsFiniteSet({"l", "r"})
      BY <2>1, FS_AddElement
    <2> HIDE DEF T
    <2> QED
      BY <1>1, <2>2, FS_Subset
  <1>3. T = {} \/ \E t : T = {t}
    <2>1. Cardinality(T) \in Nat /\ Cardinality(T) <= 1
      BY <1>2, FS_CardinalityType
    <2>2. Cardinality(T) = 0 \/ Cardinality(T) = 1
      <3> HIDE DEF T
      <3> QED
        BY <2>1
    <2> HIDE DEF T
    <2> QED
      BY <1>2, <2>2, FS_EmptySet, FS_Singleton
  <1>4. \A u, v \in found : u = v
    <2> HIDE DEF T
    <2> QED
      BY <1>3
  <1>5. Arguments(c) = IF found = {} THEN {Null} ELSE found
    BY DEF Arguments
  <1> HIDE DEF found
  <1>6. CASE found = {}
    BY <1>5, <1>6
  <1>7. CASE found # {}
    <2>1. PICK v : v \in found
      BY <1>7
    <2>2. found = {v}
      BY <1>4, <2>1
    <2> QED
      BY <1>5, <1>7, <2>2
  <1> QED
    BY <1>6, <1>7

\* Then the rows of a group determine its result.
LEMMA MadeOnce ==
    ASSUME input \in Inputs, Cardinality(TablesWith(q.arg)) <= 1,
           NEW x \in Results, NEW y \in Results, x.key = y.key, x.rows = y.rows, Made(x), Made(y)
    PROVE  x = y
  <1>1. x.rows \in Seq(Combined)
    BY DEF Results
  <1>2. PICK vs : Looked(vs, x.rows) /\ Counts(x, vs)
    BY DEF Made
  <1>3. PICK ws : Looked(ws, x.rows) /\ Counts(y, ws)
    BY DEF Made
  <1>4. /\ vs \in Seq(Known) /\ Len(vs) = Len(x.rows) /\ ws \in Seq(Known) /\ Len(ws) = Len(x.rows)
        /\ \A i \in 1..Len(x.rows) : vs[i] \in Arguments(x.rows[i]) /\ ws[i] \in Arguments(x.rows[i])
    BY <1>1, <1>2, <1>3, LookedType
  <1>5. vs = ws
    <2>1. \A i \in 1..Len(x.rows) : vs[i] = ws[i]
      BY <1>4, OneArgument
    <2>2. vs = [i \in 1..Len(vs) |-> vs[i]] /\ ws = [i \in 1..Len(ws) |-> ws[i]]
      BY <1>4
    <2> QED
      BY <1>4, <2>1, <2>2
  <1> DEFINE values == {vs[i] : i \in Some(vs, Len(vs))}
  <1>6. \A v \in values : v \in Int
    BY <1>4 DEF Some, Known
  <1>7. /\ x.count = IF q.distinct THEN Cardinality(values) ELSE Len(vs)
        /\ IF Some(vs, Len(vs)) = {} THEN x.sum = Null /\ x.min = Null /\ x.max = Null
           ELSE /\ x.sum = SumOf(vs, Counted(vs, Len(vs)))
                /\ x.min \in values /\ \A v \in values : x.min <= v
                /\ x.max \in values /\ \A v \in values : v <= x.max
    BY <1>2 DEF Counts
  <1>8. /\ y.count = IF q.distinct THEN Cardinality(values) ELSE Len(vs)
        /\ IF Some(vs, Len(vs)) = {} THEN y.sum = Null /\ y.min = Null /\ y.max = Null
           ELSE /\ y.sum = SumOf(vs, Counted(vs, Len(vs)))
                /\ y.min \in values /\ \A v \in values : y.min <= v
                /\ y.max \in values /\ \A v \in values : v <= y.max
    BY <1>3, <1>5 DEF Counts
  <1> HIDE DEF values
  <1>9. x.count = y.count /\ x.sum = y.sum
    BY <1>7, <1>8
  <1>10. x.min = y.min /\ x.max = y.max
    <2>1. CASE Some(vs, Len(vs)) = {}
      BY <1>7, <1>8, <2>1
    <2>2. CASE Some(vs, Len(vs)) # {}
      <3>1. x.min \in Int /\ y.min \in Int /\ x.max \in Int /\ y.max \in Int
        BY <1>6, <1>7, <1>8, <2>2
      <3>2. x.min <= y.min /\ y.min <= x.min /\ x.max <= y.max /\ y.max <= x.max
        BY <1>7, <1>8, <2>2
      <3> QED
        BY <3>1, <3>2
    <2> QED
      BY <2>1, <2>2
  <1> QED
    BY <1>9, <1>10 DEF Results

\* What a result says depends on the input only.
LEMMA SameMade ==
    ASSUME input' = input
    PROVE  \A x : Made(x)' <=> Made(x)
  <1>1. q' = q
    BY DEF q
  <1>2. \A c : Arguments(c)' = Arguments(c)
    BY <1>1 DEF Arguments, Value, ValueIn, TablesWith, Col
  <1>3. \A vs, cs : Looked(vs, cs)' <=> Looked(vs, cs)
    BY <1>2 DEF Looked
  <1>4. \A vs, n : Counted(vs, n)' = Counted(vs, n)
    BY <1>1 DEF Counted
  <1>5. \A x, vs : Counts(x, vs)' <=> Counts(x, vs)
    BY <1>1, <1>4 DEF Counts
  <1> QED
    BY <1>3, <1>5 DEF Made

-----------------------------------------------------------------------------
(* Every result is made of its rows *)

MadeSoFar ==
    /\ stage = "group" => \A k \in DOMAIN groups : groups[k] # <<>>
    /\ stage \in {"group", "order"} /\ q.aggregate => \A n \in DOMAIN results :
          Made(results[n]) /\ (q.groupBy # <<>> => results[n].rows # <<>>)
    /\ stage = "order" /\ q.aggregate /\ q.groupBy = <<>> =>
          /\ Len(rows) >= q.having => \E x : results = <<x>> /\ x.rows = rows
          /\ ~(Len(rows) >= q.having) => results = <<>>

\* One more result.
LEMMA MadeAggregate == TypeOK /\ Grouping /\ MadeSoFar /\ Aggregate => MadeSoFar'
  <1> SUFFICES ASSUME TypeOK, Grouping, MadeSoFar, Aggregate PROVE MadeSoFar'
    OBVIOUS
  <1>1. /\ stage = "group" /\ q.groupBy # <<>> /\ input' = input /\ stage' = stage /\ q' = q
    BY DEF Aggregate, q
  <1>2. PICK k \in DOMAIN groups : \E vs : Aggregated(k, vs)
    BY AggregateFacts
  <1>3. PICK vs : Aggregated(k, vs)
    BY <1>2
  <1>4. PICK x : x = ResultRow(k, groups[k], vs)
    OBVIOUS
  <1>5. x \in Results /\ results \in Seq(Results) /\ x.rows = groups[k]
    BY <1>3, <1>4 DEF Aggregated, TypeOK
  <1>6. Made(x) /\ x.rows # <<>>
    <2>1. Looked(vs, groups[k]) /\ k \in Keys /\ groups[k] \in Seq(Combined) /\ input \in Inputs
      BY <1>3 DEF Aggregated, TypeOK
    <2>2. Made(x)
      BY <1>4, <2>1, ResultMade
    <2> QED
      BY <1>1, <1>5, <2>2 DEF MadeSoFar
  <1>7. results' = results \/ results' = Append(results, x)
    BY <1>3, <1>4 DEF Aggregated
  <1>8. q.aggregate => \A n \in DOMAIN results : Made(results[n]) /\ (q.groupBy # <<>> => results[n].rows # <<>>)
    BY <1>1 DEF MadeSoFar
  <1>9. q.aggregate => \A n \in DOMAIN results' :
            Made(results'[n]) /\ (q.groupBy # <<>> => results'[n].rows # <<>>)
    <2>1. CASE results' = Append(results, x)
      <3>1. /\ DOMAIN results = 1..Len(results) /\ Len(results) \in Nat
            /\ DOMAIN results' = 1..(Len(results) + 1)
            /\ results'[Len(results) + 1] = x
            /\ \A n \in 1..Len(results) : results'[n] = results[n]
        BY <1>5, <2>1
      <3>2. \A n \in 1..(Len(results) + 1) : n \in 1..Len(results) \/ n = Len(results) + 1
        BY <3>1
      <3> QED
        BY <1>6, <1>8, <3>1, <3>2
    <2> QED
      BY <1>7, <1>8, <2>1
  <1>10. \A l \in DOMAIN groups' : groups'[l] # <<>>
    <2>1. groups' = [l \in DOMAIN groups \ {k} |-> groups[l]]
      BY <1>3 DEF Aggregated
    <2>2. \A l \in DOMAIN groups : groups[l] # <<>>
      BY <1>1 DEF MadeSoFar
    <2> QED
      BY <2>1, <2>2
  <1> QED
    BY <1>1, <1>9, <1>10, SameMade DEF MadeSoFar

\* One row more in its group.
LEMMA MadeGroupRow == TypeOK /\ MadeSoFar /\ GroupRow => MadeSoFar'
  <1> SUFFICES ASSUME TypeOK, MadeSoFar, GroupRow PROVE MadeSoFar'
    OBVIOUS
  <1> DEFINE c == rows[at[1]]
  <1>1. /\ stage = "group" /\ q.groupBy # <<>>
        /\ groups' = IF Grouped(c) THEN Enter(KeyOf(c), c) ELSE groups
        /\ input' = input /\ stage' = stage /\ rows' = rows /\ results' = results
    BY GroupRowStep
  <1>2. q' = q
    BY <1>1 DEF q
  <1>3. \A l \in DOMAIN groups : groups[l] # <<>> /\ groups[l] \in Seq(Combined)
    BY <1>1 DEF MadeSoFar, TypeOK
  <1>4. \A l \in DOMAIN groups' : groups'[l] # <<>>
    <2>1. CASE ~Grouped(c)
      BY <1>1, <1>3, <2>1
    <2>2. CASE Grouped(c)
      <3> DEFINE k == KeyOf(c)
      <3>1. /\ DOMAIN groups' = DOMAIN groups \cup {k}
            /\ \A l \in DOMAIN groups \cup {k} : groups'[l] =
                  (IF l \in DOMAIN groups THEN groups[l] ELSE <<>>) \o (IF l = k THEN <<c>> ELSE <<>>)
        BY <1>1, <2>2 DEF Enter
      <3>2. c \in Combined
        <4>1. at[1] \in Nat /\ at[1] > 0 /\ at[1] <= Len(rows) /\ rows \in Seq(Combined)
          BY DEF TypeOK, GroupRow
        <4> QED
          BY <4>1
      <3> HIDE DEF k, c
      <3>3. ASSUME NEW l \in DOMAIN groups \cup {k} PROVE groups'[l] # <<>>
        <4>1. CASE l = k
          <5>1. PICK s : s = IF l \in DOMAIN groups THEN groups[l] ELSE <<>>
            OBVIOUS
          <5>2. s \in Seq(Combined)
            BY <1>3, <5>1
          <5>3. groups'[l] = s \o <<c>>
            BY <3>1, <4>1, <5>1
          <5>4. Len(s \o <<c>>) = Len(s) + 1 /\ Len(s) \in Nat
            BY <3>2, <5>2
          <5> QED
            BY <5>3, <5>4
        <4>2. CASE l # k
          <5>1. groups[l] \in Seq(Combined) /\ groups'[l] = groups[l] \o <<>>
            BY <1>3, <3>1, <3>3, <4>2
          <5>2. groups'[l] = groups[l]
            BY <5>1
          <5> QED
            BY <1>3, <3>3, <4>2, <5>2
        <4> QED
          BY <4>1, <4>2
      <3> QED
        BY <3>1, <3>3
    <2> QED
      BY <2>1, <2>2
  <1> QED
    BY <1>1, <1>2, <1>4, SameMade DEF MadeSoFar

\* One result of all rows, or none.
LEMMA MadeAll == TypeOK /\ MadeSoFar /\ AggregateAll => MadeSoFar'
  <1> SUFFICES ASSUME TypeOK, MadeSoFar, AggregateAll PROVE MadeSoFar'
    OBVIOUS
  <1>1. /\ input' = input /\ stage' = "order" /\ rows' = rows /\ q.groupBy = <<>> /\ q' = q
    BY DEF AggregateAll, q
  <1>2. PICK vs : /\ Looked(vs, rows)
                  /\ results' = IF Having(rows) THEN <<ResultRow(<<>>, rows, vs)>> ELSE <<>>
    BY AggregateAllStep
  <1>3. PICK x : x = ResultRow(<<>>, rows, vs)
    OBVIOUS
  <1>4. <<>> \in Keys
    <2>1. Len(q.groupBy) = 0 /\ 1..0 = {}
      BY <1>1
    <2>2. <<>> \in [{} -> Known]
      OBVIOUS
    <2> QED
      BY <2>1, <2>2 DEF Keys
  <1>5. Made(x) /\ x.rows = rows
    <2>1. rows \in Seq(Combined) /\ input \in Inputs
      BY DEF TypeOK
    <2> QED
      BY <1>2, <1>3, <1>4, <2>1, ResultMade, ResultType
  <1>6. results' = IF Len(rows) >= q.having THEN <<x>> ELSE <<>>
    BY <1>2, <1>3 DEF Having
  <1>7. DOMAIN <<>> = {} /\ DOMAIN <<x>> = {1} /\ <<x>>[1] = x
    OBVIOUS
  <1>8. \A n \in DOMAIN results' : Made(results'[n])
    BY <1>5, <1>6, <1>7
  <1> QED
    BY <1>1, <1>5, <1>6, <1>8, SameMade DEF MadeSoFar

\* Every step keeps it.
LEMMA MadeNext == TypeOK /\ Staged /\ Grouping /\ MadeSoFar /\ Next => MadeSoFar'
  <1> SUFFICES ASSUME TypeOK, Staged, Grouping, MadeSoFar, Next PROVE MadeSoFar'
    OBVIOUS
  <1>1. CASE Where \/ WhereDone \/ Union
    <2>1. results' = <<>> /\ q' = q /\ input' = input /\ DOMAIN <<>> = {}
      BY <1>1 DEF Where, WhereDone, Union, Staged, Early, q
    <2>2. stage' = "order" => ~q.aggregate
      <3>1. CASE Where \/ WhereDone
        BY <3>1 DEF Where, WhereDone, AfterWhere
      <3>2. CASE Union
        BY <3>2, InputType DEF Union, Staged, TypeOK
      <3> QED
        BY <1>1, <3>1, <3>2
    <2>3. stage' = "group" => groups' = <<>>
      BY <1>1 DEF Where, WhereDone, Union, Staged
    <2> QED
      BY <2>1, <2>2, <2>3 DEF MadeSoFar
  <1>2. CASE GroupsDone
    <2>1. /\ results' = results /\ q' = q /\ input' = input /\ stage = "group" /\ stage' = "order"
          /\ q.groupBy # <<>>
      BY <1>2 DEF GroupsDone, q
    <2> QED
      BY <2>1, SameMade DEF MadeSoFar
  <1>3. CASE Load \/ From \/ JoinPair \/ NextLeft \/ Pad \/ WhereRow \/ Order \/ Limit \/ NextPage
            \/ WhereFails \/ GroupFails
    <2>1. stage' \notin {"group", "order"}
      BY <1>3 DEF WhereFails, GroupFails, Load, From, JoinPair, NextLeft, Pad, WhereRow, Order, Limit, NextPage
    <2> QED
      BY <2>1 DEF MadeSoFar
  <1> QED
    BY <1>1, <1>2, <1>3, MadeAggregate, MadeGroupRow, MadeAll DEF Next

-----------------------------------------------------------------------------
(* The whole answer follows from the tables and the query *)

\* Results have an order of their own when they are sorted by their only key.
OneOrder ==
    q.aggregate => /\ q.groupBy = <<>> \/ (Len(q.groupBy) = 1 /\ q.orderBy = "key")
                   /\ Cardinality(TablesWith(q.arg)) <= 1

\* A result of a group of rows that were chosen; without GROUP BY of all of them.
IsResult(x) ==
    /\ Made(x)
    /\ Ascends(RowOrder, x.rows)
    /\ Range(x.rows) = {c \in Chosen : Grouped(c) /\ KeyOf(c) = x.key}
    /\ Len(x.rows) >= q.having
    /\ q.groupBy # <<>> => x.rows # <<>>

Rows == IF q.aggregate THEN Results ELSE Combined

AnswerSet ==
    IF q.aggregate THEN {x \in Results : IsResult(x)}
    ELSE IF q.kind \in Unions THEN United ELSE Chosen

\* Rows that compare equal stay in their order.
Comes(c, d) ==
    \/ Less(SortKey(c), SortKey(d))
    \/ ~Less(SortKey(d), SortKey(c)) /\ <<c, d>> \in RowOrder

AnswerOrder ==
    IF q.aggregate
    THEN {z \in Results \X Results : q.groupBy # <<>> /\ Less(z[1].key[1], z[2].key[1])}
    ELSE IF q.orderBy = "none" THEN RowOrder
    ELSE {z \in Combined \X Combined : Comes(z[1], z[2])}

IsFinal(s) == s \in Seq(Rows) /\ Ascends(AnswerOrder, s) /\ Range(s) = AnswerSet

\* The first value of a key.
LEMMA FirstKey ==
    ASSUME input \in Inputs, q.groupBy # <<>>, NEW x \in Results
    PROVE  x.key[1] \in Known
  <1>1. q.groupBy \in Seq(Columns)
    BY InputType
  <1>2. 1 \in 1..Len(q.groupBy)
    BY <1>1
  <1> QED
    BY <1>2 DEF Results, Keys

LEMMA AnswerOrderStrict == TypeOK => Strict(AnswerOrder)
  <1> SUFFICES ASSUME TypeOK, NEW x, NEW y, <<x, y>> \in AnswerOrder
               PROVE  <<y, x>> \notin AnswerOrder
    BY DEF Strict
  <1>1. CASE q.aggregate
    <2>1. x \in Results /\ y \in Results /\ q.groupBy # <<>> /\ Less(x.key[1], y.key[1])
      BY <1>1 DEF AnswerOrder
    <2>2. x.key[1] \in Known /\ y.key[1] \in Known
      BY <2>1, FirstKey DEF TypeOK
    <2>3. ~Less(y.key[1], x.key[1])
      BY <2>1, <2>2, LessIsWeakOrder
    <2> QED
      BY <1>1, <2>3 DEF AnswerOrder
  <1>2. CASE ~q.aggregate /\ q.orderBy = "none"
    BY <1>2, RowOrderStrict DEF AnswerOrder, Strict
  <1>3. CASE ~q.aggregate /\ q.orderBy # "none"
    <2>1. x \in Combined /\ y \in Combined /\ Comes(x, y)
      BY <1>3 DEF AnswerOrder
    <2>2. SortKey(x) \in Known /\ SortKey(y) \in Known
      BY <1>3, <2>1, RowKeys
    <2>3. ~Comes(y, x)
      <3>1. <<x, y>> \in RowOrder => <<y, x>> \notin RowOrder
        BY RowOrderStrict DEF Strict
      <3> QED
        BY <2>1, <2>2, <3>1, LessIsWeakOrder DEF Comes
    <2> QED
      BY <1>3, <2>3 DEF AnswerOrder
  <1> QED
    BY <1>1, <1>2, <1>3

\* There is one whole answer.
LEMMA FinalOnce ==
    ASSUME TypeOK, NEW s, NEW t, IsFinal(s), IsFinal(t)
    PROVE  s = t
  <1>1. Strict(AnswerOrder)
    BY AnswerOrderStrict
  <1> QED
    BY <1>1, AscendDetermines DEF IsFinal

\* What the answer is depends on the input only.
LEMMA SameFinal ==
    ASSUME input' = input
    PROVE  /\ \A s : IsFinal(s)' <=> IsFinal(s)
           /\ OneOrder' <=> OneOrder
  <1>1. q' = q /\ Combined' = Combined /\ Results' = Results /\ Chosen' = Chosen /\ United' = United
    BY SameInput, SameSource
  <1>2. /\ \A c : KeyOf(c)' = KeyOf(c)
        /\ \A c : Grouped(c)' <=> Grouped(c)
    <2>1. \A c : KeyOf(c)' = KeyOf(c)
      BY <1>1 DEF KeyOf, Value, ValueIn
    <2> QED
      BY <2>1 DEF Grouped
  <1>3. \A x : IsResult(x)' <=> IsResult(x)
    BY <1>1, <1>2, SameMade DEF IsResult
  <1>4. AnswerSet' = AnswerSet
    BY <1>1, <1>3 DEF AnswerSet
  <1>5. /\ \A v, w : Less(v, w)' <=> Less(v, w)
        /\ \A x : SortKey(x)' = SortKey(x)
    <2>1. \A c : RowText(c)' = RowText(c)
      BY SameSource
    <2>2. \A c, col : Value(c, col)' = Value(c, col)
      BY DEF Value, ValueIn
    <2>3. \A v, w : Less(v, w)' <=> Less(v, w)
      BY <1>1 DEF Less
    <2>4. \A x : SortKey(x)' = SortKey(x)
      BY <1>1, <2>1, <2>2 DEF SortKey, Col
    <2> QED
      BY <2>3, <2>4
  <1>6. \A c, d : Comes(c, d)' <=> Comes(c, d)
    BY <1>5 DEF Comes
  <1>7. AnswerOrder' = AnswerOrder
    BY <1>1, <1>5, <1>6 DEF AnswerOrder
  <1>8. Rows' = Rows
    BY <1>1 DEF Rows
  <1>9. OneOrder' <=> OneOrder
    BY <1>1 DEF OneOrder, TablesWith
  <1> QED
    BY <1>4, <1>7, <1>8, <1>9 DEF IsFinal

\* A sorted sequence ascends.
LEMMA SortAscends ==
    ASSUME NEW S, NEW s \in Seq(S), \A i \in 1..Len(s) : SortKey(s[i]) \in Known, NEW R,
           \A a, b \in 1..Len(s) : a # b /\ SortsBefore(s, a, b) => <<s[a], s[b]>> \in R
    PROVE  StableSort(s) \in Seq(S) /\ Ascends(R, StableSort(s)) /\ Range(StableSort(s)) = Range(s)
  <1> DEFINE t == StableSort(s)
  <1>1. /\ t \in Seq(S) /\ Len(t) = Len(s) /\ Range(t) = Range(s)
        /\ \A i, j \in 1..Len(s) : i < j =>
              \E a, b \in 1..Len(s) : t[i] = s[a] /\ t[j] = s[b] /\ SortsBefore(s, a, b)
    BY StableSortSorts
  <1> HIDE DEF t
  <1>2. ASSUME NEW i \in DOMAIN t, NEW j \in DOMAIN t, i < j PROVE <<t[i], t[j]>> \in R
    <2>1. DOMAIN t = 1..Len(s)
      BY <1>1
    <2>2. PICK a \in 1..Len(s), b \in 1..Len(s) : t[i] = s[a] /\ t[j] = s[b] /\ SortsBefore(s, a, b)
      BY <1>1, <1>2, <2>1
    <2>3. a # b
      <3>1. a \in Nat /\ SortKey(s[a]) \in Known
        OBVIOUS
      <3>2. ~SortsBefore(s, a, a)
        BY <3>1, LessIsWeakOrder DEF SortsBefore
      <3> QED
        BY <2>2, <3>2
    <2> QED
      BY <2>2, <2>3
  <1>3. Ascends(R, t)
    BY <1>2 DEF Ascends
  <1> QED
    BY <1>1, <1>3 DEF t

-----------------------------------------------------------------------------
(* Each page is cut from the whole answer *)

\* Rows in their order, at some positions, are as many as the positions.
LEMMA RowsCount ==
    ASSUME TypeOK, Ascends(RowOrder, rows), NEW J \in SUBSET (1..Len(rows)), NEW t \in Seq(Combined),
           Ascends(RowOrder, t), Range(t) = {rows[i] : i \in J}
    PROVE  Cardinality(J) = Len(t)
  <1>1. rows \in Seq(Combined)
    BY DEF TypeOK
  <1>2. PICK u \in Seq(Combined) : \E f : Picks(f, u, rows, J)
    BY <1>1, KeepPicks
  <1>3. PICK f : Picks(f, u, rows, J)
    BY <1>2
  <1>4. Ascends(RowOrder, u) /\ Range(u) = {rows[i] : i \in J}
    BY <1>1, <1>3, PicksAscend
  <1>5. u = t
    BY <1>4, RowOrderStrict, AscendDetermines
  <1>6. J \in SUBSET Nat
    OBVIOUS
  <1> QED
    BY <1>3, <1>5, <1>6, PicksCount

\* Each result is one of a group of chosen rows.
LEMMA ResultOfGroup ==
    ASSUME TypeOK, ResultsOfGroups, MadeSoFar, RowsAscend, RowsKnown, stage = "order", faults = 0,
           q.aggregate, q.groupBy # <<>>, NEW n \in DOMAIN results
    PROVE  results[n] \in Results /\ IsResult(results[n])
  <1>1. rows \in Seq(Combined) /\ results \in Seq(Results) /\ Ascends(RowOrder, rows)
    BY DEF TypeOK, RowsAscend
  <1>2. Range(rows) = Chosen
    BY InputType DEF RowsKnown, TypeOK
  <1> DEFINE x == results[n]
             J == Members(x.key, Len(rows))
  <1>3. x \in Results /\ x.rows \in Seq(Combined)
    <2>1. x \in Results
      BY <1>1
    <2> HIDE DEF x
    <2> QED
      BY <2>1 DEF Results
  <1>4. Made(x) /\ x.rows # <<>> /\ Len(x.rows) >= q.having
    BY DEF MadeSoFar, ResultsOfGroups
  <1>5. PICK f : Picks(f, x.rows, rows, J)
    BY DEF ResultsOfGroups, GroupOf
  <1>6. J \in SUBSET (1..Len(rows))
    BY DEF Members
  <1>7. Ascends(RowOrder, x.rows) /\ Range(x.rows) = {rows[i] : i \in J}
    <2> HIDE DEF x, J
    <2> QED
      BY <1>1, <1>3, <1>5, <1>6, PicksAscend
  <1>8. {rows[i] : i \in J} = {c \in Chosen : Grouped(c) /\ KeyOf(c) = x.key}
    <2>1. Chosen = {rows[i] : i \in 1..Len(rows)}
      BY <1>1, <1>2 DEF Range
    <2> HIDE DEF x
    <2> QED
      BY <2>1 DEF Members
  <1> HIDE DEF x
  <1>9. IsResult(x)
    BY <1>4, <1>7, <1>8 DEF IsResult
  <1> QED
    BY <1>3, <1>9 DEF x

\* Results of one key are equal.
LEMMA ResultOnce ==
    ASSUME TypeOK, Cardinality(TablesWith(q.arg)) <= 1, NEW x \in Results, NEW y \in Results,
           x.key = y.key, Made(x), Made(y), Ascends(RowOrder, x.rows), Ascends(RowOrder, y.rows),
           Range(x.rows) = Range(y.rows)
    PROVE  x = y
  <1>1. x.rows \in Seq(Combined) /\ y.rows \in Seq(Combined)
    BY DEF Results
  <1>2. x.rows = y.rows
    BY <1>1, RowOrderStrict, AscendDetermines
  <1> QED
    BY <1>2, MadeOnce DEF TypeOK

\* With GROUP BY the results are those of the groups HAVING accepts.
LEMMA GroupsAnswer ==
    ASSUME TypeOK, ResultsOfGroups, MadeSoFar, RowsAscend, RowsKnown, stage = "order", faults = 0,
           q.aggregate, q.groupBy # <<>>, Cardinality(TablesWith(q.arg)) <= 1
    PROVE  Range(results) = AnswerSet
  <1>1. rows \in Seq(Combined) /\ results \in Seq(Results) /\ Ascends(RowOrder, rows)
    BY DEF TypeOK, RowsAscend
  <1>2. Range(rows) = Chosen
    BY InputType DEF RowsKnown, TypeOK
  <1>3. Range(results) \subseteq AnswerSet
    BY ResultOfGroup DEF Range, AnswerSet
  <1>4. ASSUME NEW x \in Results, IsResult(x) PROVE x \in Range(results)
    <2>1. /\ Made(x) /\ Ascends(RowOrder, x.rows) /\ Len(x.rows) >= q.having /\ x.rows # <<>>
          /\ Range(x.rows) = {c \in Chosen : Grouped(c) /\ KeyOf(c) = x.key}
      BY <1>4 DEF IsResult
    <2>2. x.rows \in Seq(Combined)
      BY DEF Results
    <2>3. x.rows[1] \in Range(x.rows)
      <3>1. 1 \in DOMAIN x.rows
        BY <2>1, <2>2
      <3> QED
        BY <3>1 DEF Range
    <2>4. PICK i \in 1..Len(rows) : Grouped(rows[i]) /\ KeyOf(rows[i]) = x.key
      <3>1. \A c \in Range(rows) : \E i \in 1..Len(rows) : c = rows[i]
        BY <1>1 DEF Range
      <3> QED
        BY <1>2, <2>1, <2>3, <3>1
    <2> DEFINE J == Members(x.key, Len(rows))
    <2>5. ~(Cardinality(J) < q.having)
      <3>1. J \in SUBSET (1..Len(rows))
        BY DEF Members
      <3>2. Range(x.rows) = {rows[j] : j \in J}
        <4>1. Chosen = {rows[j] : j \in 1..Len(rows)}
          BY <1>1, <1>2 DEF Range
        <4> QED
          BY <2>1, <4>1 DEF Members
      <3>3. Cardinality(J) = Len(x.rows)
        <4> HIDE DEF J
        <4> QED
          BY <1>1, <2>1, <2>2, <3>1, <3>2, RowsCount
      <3>4. Len(x.rows) \in Nat /\ q.having \in Nat
        BY <2>2, InputType DEF TypeOK
      <3> HIDE DEF J
      <3> QED
        BY <2>1, <3>3, <3>4
    <2>6. PICK n \in DOMAIN results : results[n].key = x.key
      <3>1. i \in DOMAIN rows
        BY <1>1
      <3> QED
        BY <2>4, <2>5, <3>1 DEF ResultsOfGroups
    <2>7. results[n] \in Results /\ IsResult(results[n])
      BY ResultOfGroup
    <2>8. results[n] = x
      <3> DEFINE y == results[n]
      <3>1. /\ y \in Results /\ y.key = x.key /\ Made(y) /\ Ascends(RowOrder, y.rows)
            /\ Range(y.rows) = Range(x.rows)
        BY <2>1, <2>6, <2>7 DEF IsResult
      <3> HIDE DEF y
      <3>2. y = x
        BY <2>1, <3>1, ResultOnce
      <3> QED
        BY <3>2 DEF y
    <2> QED
      BY <2>8 DEF Range
  <1>5. AnswerSet \subseteq Range(results)
    BY <1>4 DEF AnswerSet
  <1> QED
    BY <1>3, <1>5

\* Without, the one result of all rows.
LEMMA AllAnswer ==
    ASSUME TypeOK, MadeSoFar, RowsAscend, RowsKnown, stage = "order", faults = 0,
           q.aggregate, q.groupBy = <<>>, Cardinality(TablesWith(q.arg)) <= 1
    PROVE  Range(results) = AnswerSet /\ Len(results) <= 1
  <1>1. rows \in Seq(Combined) /\ results \in Seq(Results) /\ Ascends(RowOrder, rows)
    BY DEF TypeOK, RowsAscend
  <1>2. Range(rows) = Chosen
    BY InputType DEF RowsKnown, TypeOK
  <1>3. Keys = {<<>>}
    <2>1. Keys = [1..0 -> Known]
      BY DEF Keys
    <2>2. \A k \in [1..0 -> Known] : k \in Seq(Known) /\ Len(k) = 0
      OBVIOUS
    <2>3. \A k \in Seq(Known) : Len(k) = 0 => k = <<>>
      OBVIOUS
    <2>4. <<>> \in [1..0 -> Known]
      <3>1. 1..0 = {} /\ <<>> \in [{} -> Known]
        OBVIOUS
      <3> QED
        BY <3>1
    <2> QED
      BY <2>1, <2>2, <2>3, <2>4
  <1>4. \A c : KeyOf(c) = <<>> /\ Grouped(c)
    <2>1. DOMAIN q.groupBy = {} /\ Range(<<>>) = {}
      BY DEF Range
    <2>2. \A c : KeyOf(c) = <<>>
      BY <2>1 DEF KeyOf
    <2> QED
      BY <2>1, <2>2 DEF Grouped
  <1>5. \A x \in Results : x.key = <<>> /\ {c \in Chosen : Grouped(c) /\ KeyOf(c) = x.key} = Chosen
    BY <1>3, <1>4 DEF Results
  <1>6. CASE Len(rows) >= q.having
    <2>1. PICK y : results = <<y>> /\ y.rows = rows
      BY <1>6 DEF MadeSoFar
    <2>2. DOMAIN results = {1} /\ results[1] = y /\ Range(results) = {y} /\ Len(results) = 1
      BY <2>1 DEF Range
    <2>3. y \in Results /\ Made(y)
      BY <1>1, <2>2 DEF MadeSoFar
    <2>4. IsResult(y)
      BY <1>1, <1>2, <1>5, <1>6, <2>1, <2>3 DEF IsResult
    <2>5. ASSUME NEW x \in Results, IsResult(x) PROVE x = y
      <3>1. x.key = y.key /\ Made(x) /\ Ascends(RowOrder, x.rows) /\ Range(x.rows) = Range(y.rows)
        BY <1>2, <1>5, <2>1, <2>3, <2>5 DEF IsResult
      <3> QED
        BY <1>1, <2>1, <2>3, <3>1, ResultOnce
    <2> QED
      BY <2>2, <2>3, <2>4, <2>5 DEF AnswerSet
  <1>7. CASE ~(Len(rows) >= q.having)
    <2>1. results = <<>> /\ Range(<<>>) = {} /\ Len(<<>>) = 0
      BY <1>7 DEF MadeSoFar, Range
    <2>2. ASSUME NEW x \in Results, IsResult(x) PROVE FALSE
      <3>1. Ascends(RowOrder, x.rows) /\ Range(x.rows) = Range(rows) /\ Len(x.rows) >= q.having
        BY <1>2, <1>5, <2>2 DEF IsResult
      <3>2. x.rows \in Seq(Combined)
        BY DEF Results
      <3>3. x.rows = rows
        BY <1>1, <3>1, <3>2, RowOrderStrict, AscendDetermines
      <3> QED
        BY <1>7, <3>1, <3>3
    <2> QED
      BY <2>1, <2>2 DEF AnswerSet
  <1> QED
    BY <1>6, <1>7

Whole == IF q.aggregate THEN results ELSE rows

FinalKnown == stage \in {"limit", "answered"} /\ faults = 0 /\ OneOrder => IsFinal(Whole)

\* The rows of a query without aggregates, sorted.
LEMMA RowsFinal ==
    ASSUME TypeOK, RowsAscend, RowsKnown, Order, faults = 0, ~q.aggregate
    PROVE  IsFinal(rows')
  <1>1. /\ stage = "order" /\ rows \in Seq(Combined)
        /\ rows' = IF q.orderBy = "none" THEN rows ELSE StableSort(rows)
    BY DEF Order, TypeOK
  <1>2. Ascends(RowOrder, rows) /\ Range(rows) = AnswerSet
    BY <1>1 DEF RowsAscend, RowsKnown, AnswerSet
  <1>3. CASE q.orderBy = "none"
    BY <1>1, <1>2, <1>3 DEF IsFinal, AnswerOrder, Rows
  <1>4. CASE q.orderBy # "none"
    <2>1. /\ \A i \in 1..Len(rows) : rows[i] \in Combined
          /\ DOMAIN rows = 1..Len(rows) /\ Len(rows) \in Nat
      BY <1>1
    <2>2. \A i \in 1..Len(rows) : SortKey(rows[i]) \in Known
      BY <1>4, <2>1, RowKeys
    <2>3. ASSUME NEW a \in 1..Len(rows), NEW b \in 1..Len(rows), a # b, SortsBefore(rows, a, b)
          PROVE  <<rows[a], rows[b]>> \in AnswerOrder
      <3>1. Comes(rows[a], rows[b])
        <4>1. a < b => <<rows[a], rows[b]>> \in RowOrder
          BY <1>2, <2>1 DEF Ascends
        <4> QED
          BY <2>3, <4>1 DEF SortsBefore, Comes
      <3> QED
        BY <1>4, <2>1, <3>1 DEF AnswerOrder
    <2>4. /\ StableSort(rows) \in Seq(Combined) /\ Ascends(AnswerOrder, StableSort(rows))
          /\ Range(StableSort(rows)) = Range(rows)
      BY <1>1, <2>2, <2>3, SortAscends
    <2> QED
      BY <1>1, <1>2, <1>4, <2>4 DEF IsFinal, Rows
  <1> QED
    BY <1>3, <1>4

\* The results of an aggregate query, in the order of their keys.
LEMMA ResultsFinal ==
    ASSUME TypeOK, ResultsOfGroups, MadeSoFar, RowsAscend, RowsKnown, Order, faults = 0,
           q.aggregate, OneOrder
    PROVE  IsFinal(results')
  <1>1. /\ stage = "order" /\ results \in Seq(Results) /\ Cardinality(TablesWith(q.arg)) <= 1
        /\ results' = IF q.orderBy = "none" THEN results ELSE StableSort(results)
    BY DEF Order, TypeOK, OneOrder
  <1>2. /\ \A i \in 1..Len(results) : results[i] \in Results
        /\ DOMAIN results = 1..Len(results) /\ Len(results) \in Nat
    BY <1>1
  <1>3. q.orderBy # "none" => \A i \in 1..Len(results) : SortKey(results[i]) \in Known
    BY <1>2, ResultKeys
  <1>4. CASE q.groupBy = <<>>
    <2>1. Range(results) = AnswerSet /\ Len(results) <= 1
      BY <1>1, <1>4, AllAnswer
    <2>2. results' \in Seq(Results) /\ Len(results') <= 1 /\ Range(results') = Range(results)
      BY <1>1, <1>3, <2>1, StableSortSorts
    <2>3. Ascends(AnswerOrder, results')
      BY <2>2 DEF Ascends
    <2> QED
      BY <2>1, <2>2, <2>3 DEF IsFinal, Rows
  <1>5. CASE q.groupBy # <<>>
    <2>1. Len(q.groupBy) = 1 /\ q.orderBy = "key"
      BY <1>5 DEF OneOrder
    <2>2. Range(results) = AnswerSet
      BY <1>1, <1>5, GroupsAnswer
    <2>3. ASSUME NEW a \in 1..Len(results), NEW b \in 1..Len(results), a # b, SortsBefore(results, a, b)
          PROVE  <<results[a], results[b]>> \in AnswerOrder
      <3> DEFINE x == results[a]
                 y == results[b]
      <3>1. x \in Results /\ y \in Results /\ x.key \in Keys /\ y.key \in Keys
        BY <1>2 DEF Results
      <3>2. x.key # y.key
        BY <1>1, <1>2, <1>5, <2>3 DEF ResultsOfGroups
      <3>3. SortKey(x) = x.key[1] /\ SortKey(y) = y.key[1]
        BY <2>1 DEF SortKey
      <3> HIDE DEF x, y
      <3>4. x.key[1] # y.key[1]
        <4>1. Keys = [{1} -> Known]
          <5>1. 1..Len(q.groupBy) = {1}
            BY <2>1
          <5> QED
            BY <5>1 DEF Keys
        <4> QED
          BY <3>1, <3>2, <4>1
      <3>5. x.key[1] \in Known /\ y.key[1] \in Known
        BY <1>5, <3>1, FirstKey DEF TypeOK
      <3>6. Less(x.key[1], y.key[1]) \/ ~Less(y.key[1], x.key[1])
        BY <2>3, <3>3 DEF SortsBefore, x, y
      <3>7. Less(x.key[1], y.key[1])
        BY <3>4, <3>5, <3>6, LessIsBelow
      <3>8. <<x, y>> \in AnswerOrder
        BY <1>5, <3>1, <3>7 DEF AnswerOrder
      <3> QED
        BY <3>8 DEF x, y
    <2>4. q.orderBy # "none"
      BY <2>1
    <2>5. /\ StableSort(results) \in Seq(Results) /\ Ascends(AnswerOrder, StableSort(results))
          /\ Range(StableSort(results)) = Range(results)
      BY <1>1, <1>3, <2>3, <2>4, SortAscends
    <2> QED
      BY <1>1, <2>2, <2>4, <2>5 DEF IsFinal, Rows
  <1> QED
    BY <1>4, <1>5

\* What LIMIT cuts from is the whole answer.
LEMMA FinalNext ==
    TypeOK /\ ResultsOfGroups /\ MadeSoFar /\ RowsAscend /\ RowsKnown /\ FinalKnown /\ Next => FinalKnown'
  <1> SUFFICES ASSUME TypeOK, ResultsOfGroups, MadeSoFar, RowsAscend, RowsKnown, FinalKnown, Next
               PROVE  FinalKnown'
    OBVIOUS
  <1>1. CASE Order
    <2>1. input' = input /\ q' = q /\ faults' = faults
      BY <1>1 DEF Order, q
    <2>2. ASSUME faults = 0, OneOrder PROVE IsFinal(Whole')
      BY <1>1, <2>1, <2>2, RowsFinal, ResultsFinal DEF Whole
    <2> QED
      BY <2>1, <2>2, SameFinal DEF FinalKnown
  <1>2. CASE Limit
    <2>1. /\ input' = input /\ q' = q /\ faults' = faults /\ stage = "limit"
          /\ rows' = rows /\ results' = results
      BY <1>2 DEF Limit, q
    <2>2. Whole' = Whole
      BY <2>1 DEF Whole
    <2> QED
      BY <2>1, <2>2, SameFinal DEF FinalKnown
  <1>3. CASE ~Order /\ ~Limit
    <2>1. stage' \notin {"limit", "answered"}
      <3>1. CASE Load \/ From \/ JoinPair \/ NextLeft \/ Pad \/ WhereRow \/ Union
        BY <3>1 DEF Load, From, JoinPair, NextLeft, Pad, WhereRow, Union
      <3>2. CASE Where \/ WhereDone
        BY <3>2 DEF Where, WhereDone, AfterWhere
      <3>3. CASE GroupRow \/ Aggregate \/ GroupsDone \/ AggregateAll \/ NextPage \/ WhereFails \/ GroupFails
        BY <3>3 DEF GroupRow, Aggregate, GroupsDone, AggregateAll, NextPage, WhereFails, GroupFails
      <3> QED
        BY <1>3, <3>1, <3>2, <3>3 DEF Next
    <2> QED
      BY <2>1 DEF FinalKnown
  <1> QED
    BY <1>1, <1>2, <1>3

-----------------------------------------------------------------------------
(* The pages follow each other *)

\* The first n rows.
First(s, n) == IF n > Len(s) THEN s ELSE SubSeq(s, 1, n)

Asked == Len(answers) * q.limit
LastPage == stage = "answered" /\ Len(answers[Len(answers)]) < q.limit

PagesSoFar ==
    /\ stage = "answered" => answers # <<>>
    /\ faults = 0 /\ OneOrder /\ answers # <<>> =>
          \E s : /\ IsFinal(s)
                 /\ FlattenSeq(answers) = First(s, Asked)
                 /\ IF LastPage THEN Asked >= Len(s) ELSE Asked <= Len(s)

\* The elements of two sequences, one behind the other.
LEMMA ConcatAt ==
    ASSUME NEW S, NEW u \in Seq(S), NEW w \in Seq(S)
    PROVE  /\ u \o w \in Seq(S) /\ Len(u \o w) = Len(u) + Len(w)
           /\ \A i \in 1..Len(u) : (u \o w)[i] = u[i]
           /\ \A i \in 1..Len(w) : (u \o w)[Len(u) + i] = w[i]
  <1>1. u \o w \in Seq(S) /\ Len(u \o w) = Len(u) + Len(w)
    OBVIOUS
  <1>2. \A i \in 1..Len(u) : (u \o w)[i] = u[i]
    OBVIOUS
  <1>3. \A i \in 1..Len(w) : (u \o w)[Len(u) + i] = w[i]
    OBVIOUS
  <1> QED
    BY <1>1, <1>2, <1>3

\* One page more.
LEMMA PageFollows ==
    ASSUME NEW S, NEW s \in Seq(S), NEW o \in Nat, o <= Len(s), NEW c \in Nat, c # 0
    PROVE  LET page == ApplyLimitAndOffset(s, o, c)
           IN  /\ page \in Seq(S)
               /\ First(s, o) \o page = First(s, o + c)
               /\ Len(page) = IF o + c > Len(s) THEN Len(s) - o ELSE c
  <1> DEFINE page == ApplyLimitAndOffset(s, o, c)
             n == Len(s)
             m == IF o + c > n THEN n ELSE o + c
  <1>1. n \in Nat /\ s = [i \in 1..n |-> s[i]]
    OBVIOUS
  <1>2. m \in Nat /\ o <= m /\ m <= n /\ m - o \in Nat
    BY <1>1
  <1>3. \A k \in 0..n : /\ First(s, k) \in Seq(S) /\ Len(First(s, k)) = k
                        /\ \A i \in 1..k : First(s, k)[i] = s[i]
    <2>1. ASSUME NEW k \in 0..n
          PROVE  First(s, k) \in Seq(S) /\ Len(First(s, k)) = k /\ \A i \in 1..k : First(s, k)[i] = s[i]
      <3>1. First(s, k) = SubSeq(s, 1, k) /\ k \in Nat /\ k <= n
        BY <1>1 DEF First
      <3>2. \A i \in 1..k : s[i] \in S
        BY <3>1
      <3> QED
        BY <3>1, <3>2
    <2> QED
      BY <2>1
  <1>4. First(s, o + c) = First(s, m)
    <2>1. CASE o + c > n
      <3>1. First(s, o + c) = s /\ m = n
        BY <2>1 DEF First
      <3>2. First(s, n) = s
        <4>1. First(s, n) \in Seq(S) /\ Len(First(s, n)) = n /\ \A i \in 1..n : First(s, n)[i] = s[i]
          BY <1>1, <1>3
        <4> QED
          BY <1>1, <4>1
      <3> QED
        BY <3>1, <3>2
    <2>2. CASE ~(o + c > n)
      BY <2>2
    <2> QED
      BY <2>1, <2>2
  <1>5. page \in Seq(S) /\ Len(page) = m - o /\ \A i \in 1..(m - o) : page[i] = s[o + i]
    <2>1. CASE o >= n
      <3>1. page = <<>> /\ m = n /\ o = n
        BY <1>1, <1>2, <2>1 DEF ApplyLimitAndOffset
      <3> QED
        BY <1>1, <3>1
    <2>2. CASE ~(o >= n)
      <3>1. page = SubSeq(s, o + 1, m)
        BY <2>2 DEF ApplyLimitAndOffset
      <3>2. \A i \in (o + 1)..m : s[i] \in S
        BY <1>2
      <3> HIDE DEF m, n, page
      <3> QED
        BY <1>2, <3>1, <3>2
    <2> QED
      BY <2>1, <2>2
  <1> HIDE DEF page
  <1>6. First(s, o) \o page = First(s, m)
    <2> DEFINE u == First(s, o)
               w == First(s, m)
               v == u \o page
    <2>1. /\ u \in Seq(S) /\ Len(u) = o /\ \A i \in 1..o : u[i] = s[i]
          /\ w \in Seq(S) /\ Len(w) = m /\ \A i \in 1..m : w[i] = s[i]
      BY <1>2, <1>3
    <2> HIDE DEF u, w
    <2>2. /\ v \in Seq(S) /\ Len(v) = Len(u) + Len(page)
          /\ \A i \in 1..Len(u) : v[i] = u[i]
          /\ \A i \in 1..Len(page) : v[Len(u) + i] = page[i]
      <3> HIDE DEF m, n
      <3>1. u \in Seq(S) /\ page \in Seq(S)
        BY <1>5, <2>1
      <3> QED
        BY <3>1, ConcatAt
    <2> HIDE DEF v, m, n
    <2>3. Len(v) = m
      BY <1>2, <1>5, <2>1, <2>2
    <2>4. ASSUME NEW i \in 1..m PROVE v[i] = w[i]
      <3>1. CASE i <= o
        <4>1. i \in 1..Len(u)
          BY <1>2, <2>1, <3>1
        <4> QED
          BY <2>1, <2>2, <4>1
      <3>2. CASE ~(i <= o)
        <4>1. i - o \in 1..(m - o) /\ o + (i - o) = i
          BY <1>2, <3>2
        <4>2. v[Len(u) + (i - o)] = page[i - o]
          BY <1>5, <2>2, <4>1
        <4>3. page[i - o] = s[o + (i - o)]
          BY <1>5, <4>1
        <4> QED
          BY <2>1, <4>1, <4>2, <4>3
      <3> QED
        BY <3>1, <3>2
    <2>5. v = w
      BY <2>1, <2>2, <2>3, <2>4
    <2> QED
      BY <2>5 DEF u, v, w
  <1>7. Len(page) = IF o + c > n THEN n - o ELSE c
    BY <1>1, <1>5
  <1> QED
    BY <1>4, <1>5, <1>6, <1>7 DEF page

\* The first page, or the page behind those before.
LEMMA PagesLimit == TypeOK /\ FinalKnown /\ PagesSoFar /\ Limit => PagesSoFar'
  <1> SUFFICES ASSUME TypeOK, FinalKnown, PagesSoFar, Limit PROVE PagesSoFar'
    OBVIOUS
  <1>0. answers' # <<>>
    <2>1. PICK x : answers' = Append(answers, x)
      BY DEF Limit
    <2>2. Len(Append(answers, x)) = Len(answers) + 1 /\ Len(answers) \in Nat
      BY DEF TypeOK
    <2> QED
      BY <2>1, <2>2
  <1> SUFFICES ASSUME faults' = 0, OneOrder'
               PROVE  \E s : /\ IsFinal(s)'
                             /\ FlattenSeq(answers') = First(s, Asked')
                             /\ IF LastPage' THEN Asked' >= Len(s) ELSE Asked' <= Len(s)
    BY <1>0 DEF PagesSoFar
  <1>s. PICK s : s = Whole
    OBVIOUS
  <1>o. PICK o : o = Asked
    OBVIOUS
  <1>p. PICK page : page = ApplyLimitAndOffset(s, o, q.limit)
    OBVIOUS
  <1>1. /\ input' = input /\ q' = q /\ faults = 0 /\ stage = "limit" /\ stage' = "answered"
        /\ answers' = Append(answers, page)
    BY <1>s, <1>o, <1>p DEF Limit, q, Whole, Asked
  <1>2. IsFinal(s) /\ OneOrder
    BY <1>s, <1>1, SameFinal DEF FinalKnown
  <1>3. s \in Seq(Rows) /\ answers \in Seq(Seq(Rows)) /\ Len(answers) \in Nat /\ Len(s) \in Nat
    <2>1. s \in Seq(Rows)
      BY <1>2 DEF IsFinal
    <2>2. Seq(Rows) = IF q.aggregate THEN Seq(Results) ELSE Seq(Combined)
      BY DEF Rows
    <2>3. answers \in Seq(Seq(Rows))
      BY <2>2 DEF TypeOK
    <2> QED
      BY <2>1, <2>3
  <1>4. q.limit \in Nat /\ q.limit # 0
    BY InputType DEF TypeOK
  <1>5. o \in Nat /\ o <= Len(s) /\ FlattenSeq(answers) = First(s, o)
    <2>1. CASE answers = <<>>
      <3>1. o = 0
        BY <1>4, <1>o, <2>1 DEF Asked
      <3>2. First(s, 0) = <<>>
        BY <1>3 DEF First
      <3> QED
        BY <1>3, <2>1, <3>1, <3>2, FlattenEmpty
    <2>2. CASE answers # <<>>
      <3>1. PICK t : /\ IsFinal(t) /\ FlattenSeq(answers) = First(t, Asked)
                     /\ IF LastPage THEN Asked >= Len(t) ELSE Asked <= Len(t)
        BY <1>1, <1>2, <2>2 DEF PagesSoFar
      <3>2. t = s
        BY <1>2, <3>1, FinalOnce
      <3>3. ~LastPage
        BY <1>1 DEF LastPage
      <3>4. o \in Nat
        BY <1>3, <1>4, <1>o DEF Asked
      <3> QED
        BY <1>o, <3>1, <3>2, <3>3, <3>4
    <2> QED
      BY <2>1, <2>2
  <1>6. Asked' = o + q.limit
    <2>1. Len(answers') = Len(answers) + 1
      BY <1>1, <1>3
    <2>2. Asked' = (Len(answers) + 1) * q.limit
      BY <1>1, <2>1 DEF Asked
    <2>3. \A m, n \in Nat : (m + 1) * n = m * n + n
      OBVIOUS
    <2>4. Asked' = Len(answers) * q.limit + q.limit
      BY <1>3, <1>4, <2>2, <2>3
    <2> QED
      BY <1>o, <2>4 DEF Asked
  <1>7. /\ page \in Seq(Rows) /\ First(s, o) \o page = First(s, o + q.limit)
        /\ Len(page) = IF o + q.limit > Len(s) THEN Len(s) - o ELSE q.limit
    <2>1. PICK S : S = Rows
      OBVIOUS
    <2>2. PICK c \in Nat : c = q.limit /\ c # 0
      BY <1>4
    <2>3. s \in Seq(S) /\ page = ApplyLimitAndOffset(s, o, c)
      BY <1>p, <1>3, <2>1, <2>2
    <2>4. /\ page \in Seq(S)
          /\ First(s, o) \o page = First(s, o + c)
          /\ Len(page) = IF o + c > Len(s) THEN Len(s) - o ELSE c
      BY <1>5, <2>2, <2>3, PageFollows
    <2> QED
      BY <2>1, <2>2, <2>4
  <1>8. FlattenSeq(answers') = First(s, Asked')
    <2>1. FlattenSeq(answers') = FlattenSeq(answers) \o page
      BY <1>1, <1>3, <1>7, FlattenAppend
    <2> QED
      BY <1>5, <1>6, <1>7, <2>1
  <1>9. answers'[Len(answers')] = page
    BY <1>1, <1>3
  <1>10. IF LastPage' THEN Asked' >= Len(s) ELSE Asked' <= Len(s)
    <2>1. LastPage' <=> Len(page) < q.limit
      BY <1>1, <1>9 DEF LastPage
    <2> QED
      BY <1>3, <1>4, <1>5, <1>6, <1>7, <2>1
  <1>11. IsFinal(s)'
    BY <1>1, <1>2, SameFinal
  <1> QED
    BY <1>8, <1>10, <1>11

\* Every step keeps them.
LEMMA PagesNext == TypeOK /\ FinalKnown /\ PagesSoFar /\ Next => PagesSoFar'
  <1> SUFFICES ASSUME TypeOK, FinalKnown, PagesSoFar, Next PROVE PagesSoFar'
    OBVIOUS
  <1>1. CASE ~Limit
    <2>1. input' = input /\ q' = q /\ answers' = answers /\ stage' # "answered"
      <3>1. CASE Load \/ From \/ JoinPair \/ NextLeft \/ Pad \/ WhereRow \/ Union
        BY <3>1 DEF Load, From, JoinPair, NextLeft, Pad, WhereRow, Union, q
      <3>2. CASE Where \/ WhereDone
        BY <3>2 DEF Where, WhereDone, AfterWhere, q
      <3>3. CASE GroupRow \/ Aggregate \/ GroupsDone \/ AggregateAll \/ Order \/ NextPage
                   \/ WhereFails \/ GroupFails
        BY <3>3 DEF GroupRow, Aggregate, GroupsDone, AggregateAll, Order, NextPage, WhereFails, GroupFails, q
      <3> QED
        BY <1>1, <3>1, <3>2, <3>3 DEF Next
    <2>2. faults' = 0 => faults = 0
      <3>1. CASE Load
        <4>1. PICK A \in SUBSET DOMAIN input.l, B \in SUBSET DOMAIN input.r :
                  faults' = faults + Cardinality(A) + Cardinality(B)
          BY <3>1 DEF Load
        <4>2. Cardinality(A) \in Nat /\ Cardinality(B) \in Nat /\ faults \in Nat
          BY FaultsAdd DEF TypeOK
        <4> QED
          BY <4>1, <4>2
      <3>2. CASE NextPage
        BY <3>2 DEF NextPage
      <3>3. CASE ~Load /\ ~NextPage
        <4>1. stage # "load" /\ stage' # "load"
          BY <3>3 DEF Next, From, JoinPair, NextLeft, Pad, Where, WhereRow, WhereFails, WhereDone, Union, GroupRow, GroupFails,
                      Aggregate, GroupsDone, AggregateAll, Order, Limit, AfterWhere
        <4> QED
          BY <4>1, LoadedStays
      <3> QED
        BY <3>1, <3>2, <3>3
    <2>3. answers # <<>> => ~LastPage
      <3>1. SUFFICES ASSUME answers # <<>>, LastPage PROVE FALSE
        OBVIOUS
      <3>2. stage = "answered" /\ Len(answers[Len(answers)]) < q.limit
        BY <3>1 DEF LastPage
      <3>3. NextPage
        BY <3>2 DEF Next, Load, From, JoinPair, NextLeft, Pad, Where, WhereRow, WhereFails, WhereDone, Union, GroupRow, GroupFails,
                    Aggregate, GroupsDone, AggregateAll, Order, Limit
      <3>4. Len(answers[Len(answers)]) \in Nat /\ q.limit \in Nat
        <4>1. answers \in Seq(Seq(Rows))
          <5>1. Seq(Rows) = IF q.aggregate THEN Seq(Results) ELSE Seq(Combined)
            BY DEF Rows
          <5> QED
            BY <5>1 DEF TypeOK
        <4>2. answers[Len(answers)] \in Seq(Rows)
          BY <3>1, <4>1
        <4>3. Len(answers[Len(answers)]) \in Nat
          BY <4>2
        <4>4. input \in Inputs
          BY DEF TypeOK
        <4>5. q.limit \in Nat
          <5>1. q.limit \in Nat \ {0}
            BY <4>4, InputType
          <5> QED
            BY <5>1
        <4> QED
          BY <4>3, <4>5
      <3> QED
        BY <3>2, <3>3, <3>4 DEF NextPage
    <2>4. Asked' = Asked /\ ~LastPage'
      BY <2>1 DEF Asked, LastPage
    <2>5. ASSUME faults' = 0, OneOrder', answers' # <<>>
          PROVE  \E s : IsFinal(s)' /\ FlattenSeq(answers') = First(s, Asked') /\ Asked' <= Len(s)
      <3>1. PICK s : IsFinal(s) /\ FlattenSeq(answers) = First(s, Asked) /\ Asked <= Len(s)
        BY <2>1, <2>2, <2>3, <2>5, SameFinal DEF PagesSoFar
      <3> QED
        BY <2>1, <2>4, <3>1, SameFinal
    <2> QED
      BY <2>1, <2>4, <2>5 DEF PagesSoFar
  <1> QED
    BY <1>1, PagesLimit

-----------------------------------------------------------------------------
(* The pages are the whole answer *)

PInv == IInv /\ RowsAscend /\ RowsKnown /\ MadeSoFar /\ FinalKnown /\ PagesSoFar

\* The inductive invariant of the pages holds at the start.
LEMMA InitPInv == Init => PInv
  <1> SUFFICES ASSUME Init PROVE PInv
    OBVIOUS
  <1>1. stage = "load" /\ answers = <<>>
    BY DEF Init
  <1>2. RowsAscend /\ RowsKnown /\ MadeSoFar /\ FinalKnown /\ PagesSoFar
    BY <1>1 DEF RowsAscend, RowsKnown, MadeSoFar, FinalKnown, PagesSoFar
  <1> QED
    BY <1>2, InitIInv DEF PInv

\* Every step keeps it.
LEMMA NextPInv == PInv /\ [Next]_vars => PInv'
  <1> SUFFICES ASSUME PInv, [Next]_vars PROVE PInv'
    OBVIOUS
  <1>0. /\ IInv /\ RowsAscend /\ RowsKnown /\ MadeSoFar /\ FinalKnown /\ PagesSoFar
        /\ TypeOK /\ Staged /\ Loaded /\ JoinedSoFar /\ RowsDiffer /\ OneTableOnly /\ Filtered
        /\ Grouping /\ ResultsOfGroups
    BY DEF PInv, IInv
  <1>1. IInv'
    BY <1>0, NextIInv
  <1>2. CASE Next
    <2>1. RowsAscend'
      BY <1>0, <1>2, AscendNext
    <2>2. RowsKnown'
      BY <1>0, <1>2, KnownNext
    <2>3. MadeSoFar'
      BY <1>0, <1>2, MadeNext
    <2>4. FinalKnown'
      BY <1>0, <1>2, FinalNext
    <2>5. PagesSoFar'
      BY <1>0, <1>2, PagesNext
    <2> QED
      BY <1>1, <2>1, <2>2, <2>3, <2>4, <2>5 DEF PInv
  <1>3. CASE UNCHANGED vars
    <2>1. /\ input' = input /\ stage' = stage /\ at' = at /\ rows' = rows /\ groups' = groups
          /\ results' = results /\ answers' = answers /\ faults' = faults /\ q' = q
      BY <1>3 DEF vars, q
    <2>2. RowsAscend' /\ RowsKnown'
      BY <1>0, <2>1, SameSource DEF RowsAscend, RowsKnown
    <2>3. MadeSoFar'
      BY <1>0, <2>1, SameMade DEF MadeSoFar
    <2>4. FinalKnown'
      <3>1. Whole' = Whole
        BY <2>1 DEF Whole
      <3> QED
        BY <1>0, <2>1, <3>1, SameFinal DEF FinalKnown
    <2>5. PagesSoFar'
      <3>1. Asked' = Asked /\ (LastPage' <=> LastPage)
        BY <2>1 DEF Asked, LastPage
      <3> QED
        BY <1>0, <2>1, <3>1, SameFinal DEF PagesSoFar
    <2> QED
      BY <1>1, <2>2, <2>3, <2>4, <2>5 DEF PInv
  <1> QED
    BY <1>2, <1>3

\* The pages a client fetches one after the other are the whole answer, no row
\* twice and none left out: every page is cut from an answer that follows from
\* the tables and the query alone, whatever the tables and the page size and in
\* whatever order Go visits the groups.
THEOREM PagesAreWhole == Spec => []PagesPartition
  <1>1. PInv => PagesPartition
    <2> SUFFICES ASSUME PInv, stage = "answered", Len(answers[Len(answers)]) < q.limit, faults = 0, OneOrder
                 PROVE  FlattenSeq(answers) = Whole
      BY DEF PagesPartition, OneOrder, Whole
    <2>1. TypeOK /\ FinalKnown /\ PagesSoFar
      BY DEF PInv, IInv
    <2>2. IsFinal(Whole)
      BY <2>1 DEF FinalKnown
    <2>3. answers # <<>>
      BY <2>1 DEF PagesSoFar
    <2>4. PICK s : IsFinal(s) /\ FlattenSeq(answers) = First(s, Asked) /\ Asked >= Len(s)
      BY <2>1, <2>3 DEF PagesSoFar, LastPage
    <2>5. s = Whole /\ s \in Seq(Rows)
      BY <2>1, <2>2, <2>4, FinalOnce DEF IsFinal
    <2>6. First(s, Asked) = s
      <3>1. Len(s) \in Nat /\ SubSeq(s, 1, Len(s)) = s
        BY <2>5
      <3>2. Asked \in Nat
        <4>1. Len(answers) \in Nat /\ q.limit \in Nat
          BY <2>1, InputType DEF TypeOK
        <4>2. \A m, n \in Nat : m * n \in Nat
          OBVIOUS
        <4> QED
          BY <4>1, <4>2 DEF Asked
      <3>3. \A m, n \in Nat : m >= n => m > n \/ m = n
        OBVIOUS
      <3> QED
        BY <2>4, <3>1, <3>2, <3>3 DEF First
    <2> QED
      BY <2>4, <2>5, <2>6
  <1> QED
    BY <1>1, InitPInv, NextPInv, PTL DEF Spec
=============================================================================

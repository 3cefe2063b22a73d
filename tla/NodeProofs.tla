----------------------------- MODULE NodeProofs -----------------------------
(***************************************************************************)
(* Facts about the operators of ProllyNodes, for any order of the tree.    *)
(***************************************************************************)
EXTENDS ProllyNodes, DataInduction

-----------------------------------------------------------------------------
(* The functions that walk a tree call themselves on the children of a node, *)
(* whose height is one less.  What each does at height h, given what f does  *)
(* below:                                                                    *)

NodesStep(f, h) ==
    IF h = 0 THEN [height: {0}, keys: Seq(Keys), vals: Seq(Seq(Values)), kids: {<<>>}]
    ELSE {n \in [height: {h}, keys: Seq(Keys), vals: {<<>>}, kids: Seq(f[h - 1])] :
             Len(n.kids) = Len(n.keys) + 1}

GetAt(k, f, h, node) ==
    LET i == SearchStrings(node.keys, k)
        j == IF Found(node.keys, k) THEN i + 1 ELSE i
    IN  IF h > 0 THEN f[h - 1][node.kids[j]]
        ELSE IF ~Found(node.keys, k) THEN <<>>
        ELSE IF i > Len(node.vals) THEN <<Panic>>
        ELSE node.vals[i]
GetStep(k, f, h) == [node \in Nodes[h] |-> GetAt(k, f, h, node)]

PutAt(k, v, f, h, node) ==
    LET i   == SearchStrings(node.keys, k)
        new == f[h - 1][node.kids[i]]
    IN  IF h = 0 THEN Split(PutInLeaf(node, k, v))
        ELSE IF new = Panicked THEN Panicked
        ELSE Split(Spliced(node, i, new))
PutStep(k, v, f, h) == [node \in Nodes[h] |-> PutAt(k, v, f, h, node)]

DeleteAt(k, v, f, h, node) ==
    LET i     == SearchStrings(node.keys, k)
        child == f[h - 1][node.kids[i]]
        new   == [node EXCEPT !.kids[i] = child]
    IN  IF h = 0 THEN DeleteInLeaf(node, k, v)
        ELSE IF child = Panicked THEN Panicked
        ELSE IF child = node.kids[i] THEN node
        ELSE IF Len(child.keys) < MinKeys THEN HandleUnderflow(new, i)
        ELSE new
DeleteStep(k, v, f, h) == [node \in Nodes[h] |-> DeleteAt(k, v, f, h, node)]

BelowStep(f, h) ==
    [node \in Nodes[h] |->
        IF h = 0 THEN {node}
        ELSE {node} \cup UNION {f[h - 1][node.kids[i]] : i \in DOMAIN node.kids}]

\* All of them at once.
Walk(k, v, f, h) ==
    [nodes  |-> NodesStep([m \in Nat |-> f[m].nodes], h),
     get    |-> GetStep(k, [m \in Nat |-> f[m].get], h),
     put    |-> PutStep(k, v, [m \in Nat |-> f[m].put], h),
     delete |-> DeleteStep(k, v, [m \in Nat |-> f[m].delete], h),
     below  |-> BelowStep([m \in Nat |-> f[m].below], h)]

LEMMA WalksLookBelow ==
    ASSUME NEW k, NEW v, NEW f, NEW g, NEW h \in Nat, h # 0 => f[h - 1] = g[h - 1]
    PROVE  Walk(k, v, f, h) = Walk(k, v, g, h)
  <1>1. ASSUME NEW a, NEW b, h # 0 => a[h - 1] = b[h - 1]
        PROVE  /\ NodesStep(a, h) = NodesStep(b, h)
               /\ GetStep(k, a, h) = GetStep(k, b, h)
               /\ PutStep(k, v, a, h) = PutStep(k, v, b, h)
               /\ DeleteStep(k, v, a, h) = DeleteStep(k, v, b, h)
               /\ BelowStep(a, h) = BelowStep(b, h)
    <2>1. NodesStep(a, h) = NodesStep(b, h)
      BY <1>1 DEF NodesStep
    <2>2. GetStep(k, a, h) = GetStep(k, b, h)
      <3>1. \A node : GetAt(k, a, h, node) = GetAt(k, b, h, node)
        BY <1>1 DEF GetAt
      <3> QED
        BY <3>1, Zenon DEF GetStep
    <2>3. PutStep(k, v, a, h) = PutStep(k, v, b, h)
      <3>1. \A node : PutAt(k, v, a, h, node) = PutAt(k, v, b, h, node)
        BY <1>1 DEF PutAt
      <3> QED
        BY <3>1, Zenon DEF PutStep
    <2>4. DeleteStep(k, v, a, h) = DeleteStep(k, v, b, h)
      <3>1. \A node : DeleteAt(k, v, a, h, node) = DeleteAt(k, v, b, h, node)
        BY <1>1 DEF DeleteAt
      <3> QED
        BY <3>1, Zenon DEF DeleteStep
    <2>5. BelowStep(a, h) = BelowStep(b, h)
      BY <1>1 DEF BelowStep
    <2> QED
      BY <2>1, <2>2, <2>3, <2>4, <2>5
  <1> DEFINE A(r) == [m \in Nat |-> r[m].nodes]
             B(r) == [m \in Nat |-> r[m].get]
             C(r) == [m \in Nat |-> r[m].put]
             D(r) == [m \in Nat |-> r[m].delete]
             E(r) == [m \in Nat |-> r[m].below]
  <1>2. h # 0 => h - 1 \in Nat
    OBVIOUS
  <1>3. h # 0 => /\ A(f)[h - 1] = A(g)[h - 1]
                 /\ B(f)[h - 1] = B(g)[h - 1]
                 /\ C(f)[h - 1] = C(g)[h - 1]
                 /\ D(f)[h - 1] = D(g)[h - 1]
                 /\ E(f)[h - 1] = E(g)[h - 1]
    BY <1>2
  <1>4. \A r : Walk(k, v, r, h) = [nodes |-> NodesStep(A(r), h), get |-> GetStep(k, B(r), h),
                             put |-> PutStep(k, v, C(r), h), delete |-> DeleteStep(k, v, D(r), h),
                             below |-> BelowStep(E(r), h)]
    BY Zenon DEF Walk
  <1> HIDE DEF A, B, C, D, E
  <1>5. /\ NodesStep(A(f), h) = NodesStep(A(g), h)
        /\ GetStep(k, B(f), h) = GetStep(k, B(g), h)
        /\ PutStep(k, v, C(f), h) = PutStep(k, v, C(g), h)
        /\ DeleteStep(k, v, D(f), h) = DeleteStep(k, v, D(g), h)
        /\ BelowStep(E(f), h) = BelowStep(E(g), h)
    BY <1>1, <1>3
  <1> QED
    BY <1>4, <1>5

\* There are such functions.
LEMMA WalkExists ==
    ASSUME NEW k, NEW v
    PROVE  \E F : F = [n \in Nat |-> Walk(k, v, F, n)]
  <1> DEFINE Upto(f, n) == \A m \in 0..n : f[m] = Walk(k, v, f, m)
             T == {n \in Nat : \E f : Upto(f, n)}
             U == {n \in Nat : \A f, g : Upto(f, n) /\ Upto(g, n) => f[n] = g[n]}
  <1>1. \A n \in Nat : n \in U
    <2>1. 0 \in U
      BY WalksLookBelow
    <2>2. ASSUME NEW n \in Nat, n \in U PROVE n + 1 \in U
      <3>1. ASSUME NEW f, NEW g, Upto(f, n + 1), Upto(g, n + 1) PROVE f[n + 1] = g[n + 1]
        <4>1. Upto(f, n) /\ Upto(g, n)
          BY <3>1
        <4>2. f[n] = g[n]
          BY <2>2, <4>1
        <4>3. Walk(k, v, f, n + 1) = Walk(k, v, g, n + 1)
          BY <4>2, WalksLookBelow
        <4> QED
          BY <3>1, <4>3
      <3> QED
        BY <3>1
    <2> HIDE DEF U
    <2> QED
      BY <2>1, <2>2, SetInduction
  <1>2. \A n \in Nat : n \in T
    <2>1. 0 \in T
      <3> DEFINE f == [m \in 0..0 |-> Walk(k, v, <<>>, 0)]
      <3>1. f[0] = Walk(k, v, <<>>, 0)
        OBVIOUS
      <3> HIDE DEF f
      <3>2. f[0] = Walk(k, v, f, 0)
        BY <3>1, WalksLookBelow
      <3> QED
        BY <3>2
    <2>2. ASSUME NEW n \in Nat, n \in T PROVE n + 1 \in T
      <3>1. PICK f : Upto(f, n)
        BY <2>2
      <3> DEFINE g == [m \in 0..(n + 1) |-> IF m = n + 1 THEN Walk(k, v, f, n + 1) ELSE f[m]]
      <3>2. g[n + 1] = Walk(k, v, f, n + 1) /\ \A m \in 0..n : g[m] = f[m]
        OBVIOUS
      <3> HIDE DEF g
      <3>3. \A m \in 0..(n + 1) : Walk(k, v, f, m) = Walk(k, v, g, m)
        BY <3>2, WalksLookBelow
      <3>4. \A m \in 0..(n + 1) : g[m] = Walk(k, v, g, m)
        BY <3>1, <3>2, <3>3
      <3> QED
        BY <3>4
    <2> HIDE DEF T
    <2> QED
      BY <2>1, <2>2, SetInduction
  <1> DEFINE Some(n) == CHOOSE f : Upto(f, n)
             F == [n \in Nat |-> Some(n)[n]]
  <1>3. \A n \in Nat : Upto(Some(n), n)
    BY <1>2
  <1> HIDE DEF Some
  <1>4. ASSUME NEW n \in Nat PROVE F[n] = Walk(k, v, F, n)
    <2>1. F[n] = Walk(k, v, Some(n), n)
      BY <1>3
    <2>2. n # 0 => F[n - 1] = Some(n)[n - 1]
      <3>1. ASSUME n # 0 PROVE F[n - 1] = Some(n)[n - 1]
        <4>1. n - 1 \in Nat /\ n - 1 \in U
          BY <1>1, <3>1
        <4>2. Upto(Some(n - 1), n - 1) /\ Upto(Some(n), n - 1)
          BY <1>3, <4>1
        <4> QED
          BY <4>1, <4>2
      <3> QED
        BY <3>1
    <2> HIDE DEF F
    <2>3. Walk(k, v, Some(n), n) = Walk(k, v, F, n)
      BY <2>2, WalksLookBelow
    <2> QED
      BY <2>1, <2>3
  <1>5. F = [n \in Nat |-> Walk(k, v, F, n)]
    BY <1>4
  <1> QED
    BY <1>5

LEMMA NodesDef ==
    \A h \in Nat : Nodes[h] = NodesStep(Nodes, h)
  <1> DEFINE Is(f) == f = [h \in Nat |-> NodesStep(f, h)]
  <1>1. PICK F : F = [n \in Nat |-> Walk(<<>>, <<>>, F, n)]
    BY WalkExists
  <1> DEFINE g == [m \in Nat |-> F[m].nodes]
  <1>2. ASSUME NEW n \in Nat PROVE F[n].nodes = NodesStep(g, n)
    <2>1. F[n] = Walk(<<>>, <<>>, F, n)
      BY <1>1, Zenon
    <2>2. Walk(<<>>, <<>>, F, n).nodes = NodesStep(g, n)
      BY DEF Walk
    <2> QED
      BY <2>1, <2>2, Zenon
  <1>3. g = [n \in Nat |-> NodesStep(g, n)]
    BY <1>2, Zenon
  <1>4. \E f : Is(f)
    <2> HIDE DEF g
    <2> QED
      BY <1>3
  <1>5. Nodes = CHOOSE f : Is(f)
    BY Zenon DEF Nodes, NodesStep
  <1>6. Is(Nodes)
    <2> HIDE DEF Is
    <2> QED
      BY <1>4, <1>5, Zenon
  <1> QED
    BY <1>6, Zenon

LEMMA NodesOfDef ==
    \A h \in Nat : NodesOf[h] = BelowStep(NodesOf, h)
  <1> DEFINE Is(f) == f = [h \in Nat |-> BelowStep(f, h)]
  <1>1. PICK F : F = [n \in Nat |-> Walk(<<>>, <<>>, F, n)]
    BY WalkExists
  <1> DEFINE g == [m \in Nat |-> F[m].below]
  <1>2. ASSUME NEW n \in Nat PROVE F[n].below = BelowStep(g, n)
    <2>1. F[n] = Walk(<<>>, <<>>, F, n)
      BY <1>1, Zenon
    <2>2. Walk(<<>>, <<>>, F, n).below = BelowStep(g, n)
      BY DEF Walk
    <2> QED
      BY <2>1, <2>2, Zenon
  <1>3. g = [n \in Nat |-> BelowStep(g, n)]
    BY <1>2, Zenon
  <1>4. \E f : Is(f)
    <2> HIDE DEF g
    <2> QED
      BY <1>3
  <1>5. NodesOf = CHOOSE f : Is(f)
    BY Zenon DEF NodesOf, BelowStep
  <1>6. Is(NodesOf)
    <2> HIDE DEF Is
    <2> QED
      BY <1>4, <1>5, Zenon
  <1> QED
    BY <1>6, Zenon

LEMMA GetDef ==
    ASSUME NEW k
    PROVE  \A h \in Nat : RecursiveGet(k)[h] = GetStep(k, RecursiveGet(k), h)
  <1> DEFINE Is(f) == f = [h \in Nat |-> GetStep(k, f, h)]
  <1>1. PICK F : F = [n \in Nat |-> Walk(k, <<>>, F, n)]
    BY WalkExists
  <1> DEFINE g == [m \in Nat |-> F[m].get]
  <1>2. ASSUME NEW n \in Nat PROVE F[n].get = GetStep(k, g, n)
    <2>1. F[n] = Walk(k, <<>>, F, n)
      BY <1>1, Zenon
    <2>2. Walk(k, <<>>, F, n).get = GetStep(k, g, n)
      BY DEF Walk
    <2> QED
      BY <2>1, <2>2, Zenon
  <1>3. g = [n \in Nat |-> GetStep(k, g, n)]
    BY <1>2, Zenon
  <1>4. \E f : Is(f)
    <2> HIDE DEF g
    <2> QED
      BY <1>3
  <1>5. RecursiveGet(k) = CHOOSE f : Is(f)
    BY Zenon DEF RecursiveGet, GetStep, GetAt
  <1>6. Is(RecursiveGet(k))
    <2> HIDE DEF Is
    <2> QED
      BY <1>4, <1>5, Zenon
  <1> QED
    BY <1>6, Zenon

LEMMA PutDef ==
    ASSUME NEW k, NEW v
    PROVE  \A h \in Nat : RecursivePut(k, v)[h] = PutStep(k, v, RecursivePut(k, v), h)
  <1> DEFINE Is(f) == f = [h \in Nat |-> PutStep(k, v, f, h)]
  <1>1. PICK F : F = [n \in Nat |-> Walk(k, v, F, n)]
    BY WalkExists
  <1> DEFINE g == [m \in Nat |-> F[m].put]
  <1>2. ASSUME NEW n \in Nat PROVE F[n].put = PutStep(k, v, g, n)
    <2>1. F[n] = Walk(k, v, F, n)
      BY <1>1, Zenon
    <2>2. Walk(k, v, F, n).put = PutStep(k, v, g, n)
      BY DEF Walk
    <2> QED
      BY <2>1, <2>2, Zenon
  <1>3. g = [n \in Nat |-> PutStep(k, v, g, n)]
    BY <1>2, Zenon
  <1>4. \E f : Is(f)
    <2> HIDE DEF g
    <2> QED
      BY <1>3
  <1>5. RecursivePut(k, v) = CHOOSE f : Is(f)
    BY Zenon DEF RecursivePut, PutStep, PutAt
  <1>6. Is(RecursivePut(k, v))
    <2> HIDE DEF Is
    <2> QED
      BY <1>4, <1>5, Zenon
  <1> QED
    BY <1>6, Zenon

LEMMA DeleteDef ==
    ASSUME NEW k, NEW v
    PROVE  \A h \in Nat : RecursiveDelete(k, v)[h] = DeleteStep(k, v, RecursiveDelete(k, v), h)
  <1> DEFINE Is(f) == f = [h \in Nat |-> DeleteStep(k, v, f, h)]
  <1>1. PICK F : F = [n \in Nat |-> Walk(k, v, F, n)]
    BY WalkExists
  <1> DEFINE g == [m \in Nat |-> F[m].delete]
  <1>2. ASSUME NEW n \in Nat PROVE F[n].delete = DeleteStep(k, v, g, n)
    <2>1. F[n] = Walk(k, v, F, n)
      BY <1>1, Zenon
    <2>2. Walk(k, v, F, n).delete = DeleteStep(k, v, g, n)
      BY DEF Walk
    <2> QED
      BY <2>1, <2>2, Zenon
  <1>3. g = [n \in Nat |-> DeleteStep(k, v, g, n)]
    BY <1>2, Zenon
  <1>4. \E f : Is(f)
    <2> HIDE DEF g
    <2> QED
      BY <1>3
  <1>5. RecursiveDelete(k, v) = CHOOSE f : Is(f)
    BY Zenon DEF RecursiveDelete, DeleteStep, DeleteAt
  <1>6. Is(RecursiveDelete(k, v))
    <2> HIDE DEF Is
    <2> QED
      BY <1>4, <1>5, Zenon
  <1> QED
    BY <1>6, Zenon

-----------------------------------------------------------------------------
(* Nodes                                                                     *)

LEMMA OrderFacts ==
    /\ MinKeys \in Nat /\ MinKeys >= 1 /\ MaxKeys \in Nat
    /\ MaxKeys = 2 * MinKeys + 1 /\ Order = MaxKeys + 1 /\ Order \div 2 = MinKeys + 1
  BY ProllyAssumption DEF MinKeys, MaxKeys

LEMMA LeafForm ==
    ASSUME NEW n \in Nodes[0]
    PROVE  /\ n = Leaf(n.keys, n.vals) /\ n.height = 0 /\ n.kids = <<>>
           /\ n.keys \in Seq(Keys) /\ n.vals \in Seq(Seq(Values))
  <1> DEFINE V == Seq(Seq(Values))
  <1>1. n \in [height: {0}, keys: Seq(Keys), vals: V, kids: {<<>>}]
    BY NodesDef DEF NodesStep
  <1> HIDE DEF V
  <1>2. n = [height |-> n.height, keys |-> n.keys, vals |-> n.vals, kids |-> n.kids]
    BY <1>1
  <1>3. n.height = 0 /\ n.kids = <<>> /\ n.keys \in Seq(Keys) /\ n.vals \in V
    BY <1>1
  <1> QED
    BY <1>2, <1>3 DEF Leaf, V

LEMMA LeafIn ==
    ASSUME NEW keys \in Seq(Keys), NEW vals \in Seq(Seq(Values))
    PROVE  Leaf(keys, vals) \in Nodes[0]
  BY NodesDef DEF NodesStep, Leaf

LEMMA InnerForm ==
    ASSUME NEW h \in Nat \ {0}, NEW n \in Nodes[h]
    PROVE  /\ n = Inner(h, n.keys, n.kids) /\ n.height = h /\ n.vals = <<>>
           /\ n.keys \in Seq(Keys) /\ n.kids \in Seq(Nodes[h - 1])
           /\ Len(n.kids) = Len(n.keys) + 1
           /\ h - 1 \in Nat
  <1> DEFINE K == Seq(Nodes[h - 1])
  <1>1. Nodes[h] = {m \in [height: {h}, keys: Seq(Keys), vals: {<<>>}, kids: K] :
                       Len(m.kids) = Len(m.keys) + 1}
    BY NodesDef DEF NodesStep
  <1> HIDE DEF K
  <1>2. n = [height |-> n.height, keys |-> n.keys, vals |-> n.vals, kids |-> n.kids]
    BY <1>1
  <1>3. n.height = h /\ n.vals = <<>> /\ n.keys \in Seq(Keys) /\ n.kids \in K
    BY <1>1
  <1>4. Len(n.kids) = Len(n.keys) + 1
    BY <1>1
  <1> QED
    BY <1>2, <1>3, <1>4 DEF Inner, K

LEMMA InnerIn ==
    ASSUME NEW h \in Nat \ {0}, NEW keys \in Seq(Keys), NEW kids \in Seq(Nodes[h - 1]),
           Len(kids) = Len(keys) + 1
    PROVE  Inner(h, keys, kids) \in Nodes[h]
  BY NodesDef DEF NodesStep, Inner

LEMMA NodeForm ==
    ASSUME NEW h \in Nat, NEW n \in Nodes[h]
    PROVE  /\ n.height = h /\ n.keys \in Seq(Keys) /\ n.keys \in Seq(Nat)
           /\ Len(n.keys) \in Nat
           /\ \A i \in 1..Len(n.keys) : n.keys[i] \in Nat /\ n.keys[i] \in Keys
  <1>1. n.height = h /\ n.keys \in Seq(Keys)
    <2>1. CASE h = 0
      BY <2>1, LeafForm
    <2>2. CASE h \in Nat \ {0}
      BY <2>2, InnerForm
    <2> QED
      BY <2>1, <2>2
  <1>2. Keys \subseteq Nat
    BY ProllyAssumption
  <1> DEFINE s == n.keys
  <1>3. Len(s) \in Nat /\ s \in Seq(Keys) /\ s = [i \in 1..Len(s) |-> s[i]]
    BY <1>1
  <1> HIDE DEF s
  <1>4. \A i \in 1..Len(s) : s[i] \in Nat /\ s[i] \in Keys
    BY <1>2, <1>3
  <1>5. s \in Seq(Nat)
    BY <1>3, <1>4
  <1> QED
    BY <1>1, <1>3, <1>4, <1>5 DEF s

LEMMA PanickedIsNoNode ==
    ASSUME NEW h \in Nat
    PROVE  Panicked \notin Nodes[h]
  <1>1. ASSUME Panicked \in Nodes[h] PROVE FALSE
    <2>1. h = 0
      BY <1>1, NodeForm DEF Panicked, Leaf
    <2>2. Panicked.vals \in Seq(Seq(Values))
      BY <1>1, <2>1, LeafForm
    <2>3. Panicked.vals = <<<<Panic>>>>
      BY DEF Panicked, Leaf
    <2>4. <<<<Panic>>>>[1][1] \in Values
      BY <2>2, <2>3
    <2> QED
      BY <2>4, ProllyAssumption
  <1> QED
    BY <1>1

-----------------------------------------------------------------------------
(* Searching                                                                 *)

Sorted(keys) == \A i, j \in DOMAIN keys : i < j => keys[i] <= keys[j]

LEMMA SortedMeans ==
    ASSUME NEW keys \in Seq(Nat)
    PROVE  /\ Len(keys) \in Nat /\ \A i \in 1..Len(keys) : keys[i] \in Nat
           /\ Sorted(keys) <=> \A i, j \in 1..Len(keys) : i <= j => keys[i] <= keys[j]
  <1>1. DOMAIN keys = 1..Len(keys) /\ Len(keys) \in Nat /\ \A i \in 1..Len(keys) : keys[i] \in Nat
    OBVIOUS
  <1>2. ASSUME Sorted(keys), NEW i \in 1..Len(keys), NEW j \in 1..Len(keys), i <= j
        PROVE  keys[i] <= keys[j]
    <2>1. CASE i = j
      BY <1>1, <2>1
    <2>2. CASE i < j
      BY <1>1, <1>2, <2>2 DEF Sorted
    <2> QED
      BY <1>2, <2>1, <2>2
  <1>3. ASSUME \A i, j \in 1..Len(keys) : i <= j => keys[i] <= keys[j] PROVE Sorted(keys)
    BY <1>1, <1>3 DEF Sorted
  <1> QED
    BY <1>1, <1>2, <1>3

\* The position found has the smaller keys before it and no others.
LEMMA Searches ==
    ASSUME NEW keys \in Seq(Nat), Sorted(keys), NEW k \in Nat
    PROVE  /\ SearchStrings(keys, k) \in 1..(Len(keys) + 1)
           /\ \A j \in 1..Len(keys) : j < SearchStrings(keys, k) <=> keys[j] < k
  <1> DEFINE A == {j \in DOMAIN keys : keys[j] < k}
             T == {x \in Nat : x >= 1 /\ x \notin A}
  <1>1. Len(keys) \in Nat /\ DOMAIN keys = 1..Len(keys) /\ \A j \in 1..Len(keys) : keys[j] \in Nat
    OBVIOUS
  <1>2. Len(keys) + 1 \in T
    BY <1>1
  <1>3. PICK x \in T : \A y \in T : ~(y < x)
    <2>1. T \in SUBSET Nat /\ T # {}
      BY <1>2
    <2> HIDE DEF T
    <2> QED
      BY <2>1, NatLeast
  <1>4. x \in Nat /\ x >= 1 /\ x <= Len(keys) + 1 /\ x \notin A
    BY <1>1, <1>2, <1>3
  <1>5. A = 1..(x - 1)
    <2>1. ASSUME NEW j \in 1..(x - 1) PROVE j \in A
      BY <1>3, <1>4, <2>1
    <2>2. ASSUME NEW j \in A PROVE j < x
      <3>1. ASSUME j >= x PROVE FALSE
        <4>1. x \in 1..Len(keys) /\ x # j /\ x < j /\ j \in 1..Len(keys)
          BY <1>1, <1>4, <3>1
        <4>2. keys[x] <= keys[j] /\ keys[j] < k
          BY <1>1, <4>1 DEF Sorted
        <4> QED
          BY <1>1, <1>4, <4>1, <4>2
      <3> QED
        BY <1>1, <1>4, <3>1
    <2> QED
      BY <1>1, <1>4, <2>1, <2>2
  <1>6. Cardinality(1..(x - 1)) = x - 1
    <2>1. x - 1 \in Nat
      BY <1>4
    <2> QED
      BY <1>4, <2>1, FS_Interval
  <1>7. SearchStrings(keys, k) = x
    <2>1. SearchStrings(keys, k) = 1 + Cardinality(A)
      BY DEF SearchStrings
    <2> HIDE DEF A
    <2>2. SearchStrings(keys, k) = 1 + (x - 1)
      BY <1>5, <1>6, <2>1
    <2> QED
      BY <1>4, <2>2
  <1>8. \A j \in 1..Len(keys) : j < x <=> keys[j] < k
    <2>1. \A j \in 1..Len(keys) : j \in A <=> keys[j] < k
      BY <1>1
    <2>2. \A j \in 1..Len(keys) : j \in A <=> j < x
      BY <1>1, <1>4, <1>5
    <2> QED
      BY <2>1, <2>2
  <1> QED
    BY <1>4, <1>7, <1>8

\* Where the smaller keys end is where a search ends.
LEMMA SearchIs ==
    ASSUME NEW keys \in Seq(Nat), Sorted(keys), NEW k \in Nat, NEW i \in 1..(Len(keys) + 1),
           \A j \in 1..Len(keys) : j < i <=> keys[j] < k
    PROVE  SearchStrings(keys, k) = i
  <1> DEFINE x == SearchStrings(keys, k)
  <1>1. x \in 1..(Len(keys) + 1) /\ \A j \in 1..Len(keys) : j < x <=> keys[j] < k
    BY Searches
  <1> HIDE DEF x
  <1>2. Len(keys) \in Nat
    OBVIOUS
  <1>3. ASSUME x < i PROVE FALSE
    <2>1. x \in 1..Len(keys) /\ ~(x < x)
      BY <1>1, <1>2, <1>3
    <2> QED
      BY <1>1, <1>3, <2>1
  <1>4. ASSUME i < x PROVE FALSE
    <2>1. i \in 1..Len(keys) /\ ~(i < i)
      BY <1>1, <1>2, <1>4
    <2> QED
      BY <1>1, <1>4, <2>1
  <1>5. x = i
    BY <1>1, <1>2, <1>3, <1>4
  <1> QED
    BY <1>5 DEF x

-----------------------------------------------------------------------------
(* What is below a node                                                      *)

\* The keys of one node are in order, and each child has those around it.
Ranked(n) ==
    /\ Sorted(n.keys)
    /\ \A i \in DOMAIN n.kids : \A k \in KeysIn(n.kids[i]) :
          /\ i > 1 => n.keys[i - 1] <= k
          /\ i <= Len(n.keys) => k <= n.keys[i]

Filled(n) == Len(n.keys) \in MinKeys..MaxKeys

\* Nodes of height h that are in order, with nodes below them that are filled.
Sound(h) ==
    {n \in Nodes[h] : /\ \A m \in NodesIn(n) : Ranked(m)
                      /\ \A m \in NodesIn(n) : m # n => Filled(m)}

LEMMA NodesInLeaf ==
    ASSUME NEW n \in Nodes[0]
    PROVE  NodesIn(n) = {n}
  <1>1. n.height = 0
    BY NodeForm
  <1>2. NodesOf[0] = BelowStep(NodesOf, 0)
    BY NodesOfDef
  <1>3. NodesOf[0][n] = {n}
    BY <1>2 DEF BelowStep
  <1> QED
    BY <1>1, <1>3 DEF NodesIn

LEMMA KidIsNode ==
    ASSUME NEW h \in Nat \ {0}, NEW n \in Nodes[h], NEW i \in 1..Len(n.kids)
    PROVE  n.kids[i] \in Nodes[h - 1] /\ n.kids[i].height = h - 1 /\ h - 1 \in Nat
  <1>1. n.kids[i] \in Nodes[h - 1] /\ h - 1 \in Nat
    BY InnerForm
  <1> QED
    BY <1>1, NodeForm

LEMMA NodesInInner ==
    ASSUME NEW h \in Nat \ {0}, NEW n \in Nodes[h]
    PROVE  NodesIn(n) = {n} \cup UNION {NodesIn(n.kids[i]) : i \in 1..Len(n.kids)}
  <1>1. n.height = h /\ DOMAIN n.kids = 1..Len(n.kids) /\ h \in Nat /\ h # 0
    <2>1. n.height = h /\ n.kids \in Seq(Nodes[h - 1])
      BY InnerForm
    <2> QED
      BY <2>1
  <1>2. NodesOf[h][n] = {n} \cup UNION {NodesOf[h - 1][n.kids[i]] : i \in 1..Len(n.kids)}
    <2>1. NodesOf[h] = BelowStep(NodesOf, h)
      BY <1>1, NodesOfDef
    <2>2. NodesOf[h][n] = {n} \cup UNION {NodesOf[h - 1][n.kids[i]] : i \in DOMAIN n.kids}
      BY <1>1, <2>1 DEF BelowStep
    <2> QED
      BY <1>1, <2>2
  <1>3. \A i \in 1..Len(n.kids) : NodesIn(n.kids[i]) = NodesOf[h - 1][n.kids[i]]
    BY KidIsNode DEF NodesIn
  <1>4. NodesIn(n) = NodesOf[h][n]
    BY <1>1 DEF NodesIn
  <1> HIDE DEF NodesIn
  <1> QED
    BY <1>2, <1>3, <1>4

LEMMA HeightsBelow ==
    \A h \in Nat : \A n \in Nodes[h] : \A m \in NodesIn(n) :
        m.height \in Nat /\ m.height <= h /\ m \in Nodes[m.height] /\ (m.height = h => m = n)
  <1> DEFINE Fine(h) == \A n \in Nodes[h] : \A m \in NodesIn(n) :
                  m.height \in Nat /\ m.height <= h /\ m \in Nodes[m.height] /\ (m.height = h => m = n)
             T == {h \in Nat : Fine(h)}
  <1>1. 0 \in T
    BY NodesInLeaf, NodeForm
  <1>2. ASSUME NEW g \in Nat, g \in T PROVE g + 1 \in T
    <2> DEFINE h == g + 1
    <2>1. h \in Nat \ {0} /\ h - 1 = g
      OBVIOUS
    <2>2. ASSUME NEW n \in Nodes[h], NEW m \in NodesIn(n)
          PROVE  m.height \in Nat /\ m.height <= h /\ m \in Nodes[m.height] /\ (m.height = h => m = n)
      <3> HIDE DEF h
      <3>1. CASE m = n
        BY <2>1, <3>1, NodeForm
      <3>2. CASE m # n
        <4>1. PICK i \in 1..Len(n.kids) : m \in NodesIn(n.kids[i])
          BY <2>1, <3>2, NodesInInner
        <4>2. n.kids[i] \in Nodes[g]
          BY <2>1, KidIsNode
        <4>3. m.height \in Nat /\ m.height <= g /\ m \in Nodes[m.height]
          BY <1>2, <4>1, <4>2
        <4> QED
          BY <2>1, <4>3
      <3> QED
        BY <3>1, <3>2
    <2> QED
      BY <2>2
  <1>3. \A h \in Nat : h \in T
    <2> HIDE DEF T
    <2> QED
      BY <1>1, <1>2, SetInduction
  <1> QED
    BY <1>3

LEMMA KeysInLeaf ==
    ASSUME NEW n \in Nodes[0]
    PROVE  \A x : x \in KeysIn(n) <=> \E j \in 1..Len(n.keys) : x = n.keys[j]
  <1>1. n.keys \in Seq(Keys)
    BY LeafForm
  <1>2. DOMAIN n.keys = 1..Len(n.keys)
    BY <1>1
  <1>3. KeysIn(n) = Range(n.keys)
    BY NodesInLeaf DEF KeysIn
  <1>4. \A x : x \in Range(n.keys) <=> \E j \in 1..Len(n.keys) : x = n.keys[j]
    BY <1>2 DEF Range
  <1> QED
    BY <1>3, <1>4

LEMMA KeysInInner ==
    ASSUME NEW h \in Nat \ {0}, NEW n \in Nodes[h]
    PROVE  \A x : x \in KeysIn(n) <=> \/ \E j \in 1..Len(n.keys) : x = n.keys[j]
                                      \/ \E j \in 1..Len(n.kids) : x \in KeysIn(n.kids[j])
  <1>1. NodesIn(n) = {n} \cup UNION {NodesIn(n.kids[i]) : i \in 1..Len(n.kids)}
    BY NodesInInner
  <1>2. DOMAIN n.keys = 1..Len(n.keys)
    BY InnerForm
  <1> HIDE DEF NodesIn
  <1>3. \A x : x \in KeysIn(n) <=> \E m \in NodesIn(n) : x \in Range(m.keys)
    BY DEF KeysIn
  <1>4. \A i \in 1..Len(n.kids) : \A x :
            x \in KeysIn(n.kids[i]) <=> \E m \in NodesIn(n.kids[i]) : x \in Range(m.keys)
    BY DEF KeysIn
  <1>5. \A x : x \in Range(n.keys) <=> \E j \in 1..Len(n.keys) : x = n.keys[j]
    BY <1>2 DEF Range
  <1>6. \A m : m \in NodesIn(n) <=> m = n \/ \E i \in 1..Len(n.kids) : m \in NodesIn(n.kids[i])
    BY <1>1
  <1> TAKE x
  <1> HIDE DEF KeysIn
  <1>7. x \in KeysIn(n) <=> x \in Range(n.keys) \/ \E i \in 1..Len(n.kids) :
                               \E m \in NodesIn(n.kids[i]) : x \in Range(m.keys)
    BY <1>3, <1>6
  <1> QED
    BY <1>4, <1>5, <1>7

LEMMA KeysInType ==
    ASSUME NEW h \in Nat, NEW n \in Nodes[h]
    PROVE  KeysIn(n) \subseteq Keys /\ KeysIn(n) \subseteq Nat
  <1>1. ASSUME NEW x \in KeysIn(n) PROVE x \in Keys
    <2>1. PICK m \in NodesIn(n) : x \in Range(m.keys)
      BY DEF KeysIn
    <2>2. m.height \in Nat /\ m \in Nodes[m.height]
      BY HeightsBelow
    <2>3. m.keys \in Seq(Keys)
      BY <2>2, NodeForm
    <2> QED
      BY <2>1, <2>3 DEF Range
  <1> QED
    BY <1>1, ProllyAssumption

LEMMA SoundLeaf ==
    ASSUME NEW n \in Nodes[0]
    PROVE  n \in Sound(0) <=> Sorted(n.keys)
  <1>1. NodesIn(n) = {n}
    BY NodesInLeaf
  <1>2. DOMAIN n.kids = {}
    BY LeafForm
  <1>3. Ranked(n) <=> Sorted(n.keys)
    BY <1>2 DEF Ranked
  <1> QED
    BY <1>1, <1>3 DEF Sound

\* A node is sound if its keys are sorted and its children sound, filled and around its keys.
LEMMA SoundInner ==
    ASSUME NEW h \in Nat \ {0}, NEW n \in Nodes[h]
    PROVE  n \in Sound(h) <=>
               /\ Ranked(n)
               /\ \A i \in 1..Len(n.kids) : n.kids[i] \in Sound(h - 1) /\ Filled(n.kids[i])
  <1>1. NodesIn(n) = {n} \cup UNION {NodesIn(n.kids[i]) : i \in 1..Len(n.kids)}
    BY NodesInInner
  <1>2. \A i \in 1..Len(n.kids) : n.kids[i] \in Nodes[h - 1] /\ h - 1 \in Nat
    BY KidIsNode
  <1>3. \A i \in 1..Len(n.kids) : \A m \in NodesIn(n.kids[i]) : m # n
    <2>1. \A i \in 1..Len(n.kids) : \A m \in NodesIn(n.kids[i]) : m.height <= h - 1 /\ m.height \in Nat
      BY <1>2, HeightsBelow
    <2>2. n.height = h
      BY NodeForm
    <2> QED
      BY <2>1, <2>2
  <1>4. \A i \in 1..Len(n.kids) : n.kids[i] \in NodesIn(n.kids[i])
    <2>1. ASSUME NEW i \in 1..Len(n.kids) PROVE n.kids[i] \in NodesIn(n.kids[i])
      <3>1. CASE h - 1 = 0
        BY <1>2, <3>1, NodesInLeaf
      <3>2. CASE h - 1 # 0
        <4>1. h - 1 \in Nat \ {0}
          BY <3>2
        <4> QED
          BY <1>2, <4>1, NodesInInner
      <3> QED
        BY <3>1, <3>2
    <2> QED
      BY <2>1
  <1> HIDE DEF NodesIn, Ranked, Filled
  <1>5. ASSUME n \in Sound(h), NEW i \in 1..Len(n.kids)
        PROVE  Ranked(n) /\ n.kids[i] \in Sound(h - 1) /\ Filled(n.kids[i])
    <2>1. \A m \in NodesIn(n) : Ranked(m) /\ (m # n => Filled(m))
      BY <1>5 DEF Sound
    <2>2. \A m \in NodesIn(n.kids[i]) : m \in NodesIn(n) /\ m # n
      BY <1>1, <1>3
    <2> QED
      BY <1>1, <1>2, <1>4, <2>1, <2>2 DEF Sound
  <1>6. ASSUME Ranked(n), \A i \in 1..Len(n.kids) : n.kids[i] \in Sound(h - 1) /\ Filled(n.kids[i])
        PROVE  n \in Sound(h)
    <2>1. ASSUME NEW m \in NodesIn(n), m # n PROVE Ranked(m) /\ Filled(m)
      <3>1. PICK i \in 1..Len(n.kids) : m \in NodesIn(n.kids[i])
        BY <1>1, <2>1
      <3> QED
        BY <1>6, <3>1 DEF Sound
    <2> QED
      BY <1>6, <2>1 DEF Sound
  <1>7. n \in Sound(h) => Ranked(n)
    BY <1>1 DEF Sound
  <1> QED
    BY <1>5, <1>6, <1>7

LEMMA SoundIsNode ==
    ASSUME NEW h \in Nat, NEW n \in Sound(h)
    PROVE  n \in Nodes[h] /\ Ranked(n) /\ Sorted(n.keys)
  <1>1. n \in Nodes[h]
    BY DEF Sound
  <1>2. CASE h = 0
    BY <1>1, <1>2, SoundLeaf, LeafForm DEF Ranked
  <1>3. CASE h \in Nat \ {0}
    BY <1>1, <1>3, SoundInner DEF Ranked
  <1> QED
    BY <1>1, <1>2, <1>3

-----------------------------------------------------------------------------
(* Sequences with an element more or less                                    *)

LEMMA CutSeq ==
    ASSUME NEW S, NEW s \in Seq(S), NEW a \in 1..(Len(s) + 1), NEW b \in (a - 1)..Len(s)
    PROVE  /\ SubSeq(s, a, b) \in Seq(S) /\ Len(SubSeq(s, a, b)) = b - a + 1
           /\ \A j \in 1..(b - a + 1) : SubSeq(s, a, b)[j] = s[a + j - 1]
  OBVIOUS

LEMMA JoinSeq ==
    ASSUME NEW S, NEW s \in Seq(S), NEW t \in Seq(S)
    PROVE  /\ s \o t \in Seq(S) /\ Len(s \o t) = Len(s) + Len(t)
           /\ \A j \in 1..(Len(s) + Len(t)) :
                 (s \o t)[j] = IF j <= Len(s) THEN s[j] ELSE t[j - Len(s)]
  OBVIOUS

LEMMA InsertSeq ==
    ASSUME NEW S, NEW s \in Seq(S), NEW i \in 1..(Len(s) + 1), NEW e \in S
    PROVE  /\ InsertAt(s, i, e) \in Seq(S) /\ Len(InsertAt(s, i, e)) = Len(s) + 1
           /\ \A j \in 1..(Len(s) + 1) :
                 InsertAt(s, i, e)[j] = IF j < i THEN s[j] ELSE IF j = i THEN e ELSE s[j - 1]
  <1> DEFINE a == SubSeq(s, 1, i - 1)
             b == SubSeq(s, i, Len(s))
             c == <<e>> \o b
  <1>1. Len(s) \in Nat
    OBVIOUS
  <1>2. a \in Seq(S) /\ Len(a) = i - 1 /\ \A j \in 1..(i - 1) : a[j] = s[j]
    BY CutSeq
  <1>3. b \in Seq(S) /\ Len(b) = Len(s) - i + 1 /\ \A j \in 1..(Len(s) - i + 1) : b[j] = s[i + j - 1]
    BY CutSeq
  <1> HIDE DEF a, b
  <1>4. /\ c \in Seq(S) /\ Len(c) = Len(s) - i + 2 /\ c[1] = e
        /\ \A j \in 2..(Len(s) - i + 2) : c[j] = b[j - 1]
    BY <1>1, <1>3
  <1> HIDE DEF c
  <1>5. /\ a \o c \in Seq(S) /\ Len(a \o c) = Len(s) + 1
        /\ \A j \in 1..(Len(s) + 1) : (a \o c)[j] = IF j <= i - 1 THEN a[j] ELSE c[j - (i - 1)]
    <2>1. Len(a) + Len(c) = Len(s) + 1 /\ Len(a) = i - 1
      BY <1>1, <1>2, <1>4
    <2>2. /\ a \o c \in Seq(S) /\ Len(a \o c) = Len(a) + Len(c)
          /\ \A j \in 1..(Len(a) + Len(c)) : (a \o c)[j] = IF j <= Len(a) THEN a[j] ELSE c[j - Len(a)]
      BY <1>2, <1>4, JoinSeq
    <2> QED
      BY <2>1, <2>2
  <1>6. InsertAt(s, i, e) = a \o c
    <2>1. InsertAt(s, i, e) = a \o <<e>> \o b
      BY DEF InsertAt, a, b
    <2>2. a \o <<e>> \o b = a \o c
      BY <1>2, <1>3 DEF c
    <2> QED
      BY <2>1, <2>2
  <1>7. \A j \in 1..(Len(s) + 1) : (a \o c)[j] = IF j < i THEN s[j] ELSE IF j = i THEN e ELSE s[j - 1]
    <2>1. ASSUME NEW j \in 1..(Len(s) + 1), j < i PROVE (a \o c)[j] = s[j]
      BY <1>1, <1>2, <1>5, <2>1
    <2>2. (a \o c)[i] = e
      <3>1. i - (i - 1) = 1 /\ i \in 1..(Len(s) + 1) /\ ~(i <= i - 1)
        BY <1>1
      <3> QED
        BY <1>4, <1>5, <3>1
    <2>3. ASSUME NEW j \in 1..(Len(s) + 1), j > i PROVE (a \o c)[j] = s[j - 1]
      <3> DEFINE m == j - (i - 1)
      <3>1. m \in 2..(Len(s) - i + 2) /\ m - 1 \in 1..(Len(s) - i + 1) /\ i + (m - 1) - 1 = j - 1
        BY <1>1, <2>3
      <3>2. (a \o c)[j] = c[m]
        BY <1>1, <1>5, <2>3, SMTT(60)
      <3> HIDE DEF m
      <3>3. c[m] = b[m - 1] /\ b[m - 1] = s[i + (m - 1) - 1]
        BY <1>3, <1>4, <3>1
      <3> QED
        BY <3>1, <3>2, <3>3
    <2> TAKE j \in 1..(Len(s) + 1)
    <2>4. j < i \/ j = i \/ j > i
      BY <1>1
    <2>5. ~(j > i /\ j < i) /\ ~(j > i /\ j = i)
      BY <1>1
    <2> HIDE DEF a, b, c
    <2> QED
      BY <2>1, <2>2, <2>3, <2>4, <2>5
  <1> QED
    BY <1>5, <1>6, <1>7

LEMMA RemoveSeq ==
    ASSUME NEW S, NEW s \in Seq(S), NEW i \in 1..Len(s)
    PROVE  /\ RemoveAt(s, i) \in Seq(S) /\ Len(RemoveAt(s, i)) = Len(s) - 1
           /\ \A j \in 1..(Len(s) - 1) : RemoveAt(s, i)[j] = IF j < i THEN s[j] ELSE s[j + 1]
  <1> DEFINE a == SubSeq(s, 1, i - 1)
             b == SubSeq(s, i + 1, Len(s))
  <1>1. Len(s) \in Nat
    OBVIOUS
  <1>2. a \in Seq(S) /\ Len(a) = i - 1 /\ \A j \in 1..(i - 1) : a[j] = s[j]
    BY CutSeq
  <1>3. b \in Seq(S) /\ Len(b) = Len(s) - i /\ \A j \in 1..(Len(s) - i) : b[j] = s[i + j]
    BY CutSeq
  <1>4. RemoveAt(s, i) = a \o b
    BY DEF RemoveAt
  <1> HIDE DEF a, b
  <1>5. /\ a \o b \in Seq(S) /\ Len(a \o b) = Len(s) - 1
        /\ \A j \in 1..(Len(s) - 1) : (a \o b)[j] = IF j <= i - 1 THEN a[j] ELSE b[j - (i - 1)]
    <2>1. Len(a) + Len(b) = Len(s) - 1 /\ Len(a) = i - 1
      BY <1>1, <1>2, <1>3
    <2>2. /\ a \o b \in Seq(S) /\ Len(a \o b) = Len(a) + Len(b)
          /\ \A j \in 1..(Len(a) + Len(b)) : (a \o b)[j] = IF j <= Len(a) THEN a[j] ELSE b[j - Len(a)]
      BY <1>2, <1>3, JoinSeq
    <2> QED
      BY <2>1, <2>2
  <1>6. \A j \in 1..(Len(s) - 1) : (a \o b)[j] = IF j < i THEN s[j] ELSE s[j + 1]
    <2>1. ASSUME NEW j \in 1..(Len(s) - 1), j < i PROVE (a \o b)[j] = s[j]
      BY <1>1, <1>2, <1>5, <2>1
    <2>2. ASSUME NEW j \in 1..(Len(s) - 1), ~(j < i) PROVE (a \o b)[j] = s[j + 1]
      <3> DEFINE m == j - (i - 1)
      <3>1. m \in 1..(Len(s) - i) /\ i + m = j + 1
        BY <1>1, <2>2
      <3>2. (a \o b)[j] = b[m]
        BY <1>1, <1>5, <2>2
      <3> HIDE DEF m
      <3>3. b[m] = s[i + m]
        BY <1>3, <3>1
      <3> QED
        BY <3>1, <3>2, <3>3
    <2> QED
      BY <2>1, <2>2
  <1> QED
    BY <1>4, <1>5, <1>6

LEMMA ChangeSeq ==
    ASSUME NEW S, NEW s \in Seq(S), NEW i \in 1..Len(s), NEW e \in S
    PROVE  /\ [s EXCEPT ![i] = e] \in Seq(S) /\ Len([s EXCEPT ![i] = e]) = Len(s)
           /\ \A j \in 1..Len(s) : [s EXCEPT ![i] = e][j] = IF j = i THEN e ELSE s[j]
  OBVIOUS

-----------------------------------------------------------------------------
(* Nodes made of sound nodes                                                 *)

AllUpTo(n, s) == \A x \in KeysIn(n) : x <= s
AllFrom(n, s) == \A x \in KeysIn(n) : s <= x

LEMMA InnerSound ==
    ASSUME NEW h \in Nat \ {0}, NEW keys \in Seq(Keys), NEW kids \in Seq(Nodes[h - 1]),
           Len(kids) = Len(keys) + 1, Sorted(keys),
           \A i \in 1..Len(kids) : kids[i] \in Sound(h - 1) /\ Filled(kids[i]),
           \A i \in 1..Len(kids) : /\ i > 1 => AllFrom(kids[i], keys[i - 1])
                                   /\ i <= Len(keys) => AllUpTo(kids[i], keys[i])
    PROVE  Inner(h, keys, kids) \in Sound(h)
  <1> DEFINE n == Inner(h, keys, kids)
  <1>1. n \in Nodes[h] /\ n.keys = keys /\ n.kids = kids
    BY InnerIn DEF Inner
  <1> HIDE DEF n
  <1>2. DOMAIN kids = 1..Len(kids)
    OBVIOUS
  <1>3. Ranked(n)
    BY <1>1, <1>2 DEF Ranked, AllFrom, AllUpTo
  <1>4. \A i \in 1..Len(n.kids) : n.kids[i] \in Sound(h - 1) /\ Filled(n.kids[i])
    BY <1>1
  <1>5. n \in Sound(h)
    BY <1>1, <1>3, <1>4, SoundInner
  <1> QED
    BY <1>5 DEF n

LEMMA KidsAround ==
    ASSUME NEW h \in Nat \ {0}, NEW n \in Sound(h), NEW i \in 1..Len(n.kids)
    PROVE  /\ n.kids[i] \in Sound(h - 1) /\ n.kids[i] \in Nodes[h - 1] /\ Filled(n.kids[i])
           /\ i > 1 => AllFrom(n.kids[i], n.keys[i - 1])
           /\ i <= Len(n.keys) => AllUpTo(n.kids[i], n.keys[i])
           /\ KeysIn(n.kids[i]) \subseteq KeysIn(n)
  <1>1. n \in Nodes[h] /\ Ranked(n)
    BY SoundIsNode
  <1>2. n.kids \in Seq(Nodes[h - 1])
    BY <1>1, InnerForm
  <1>3. i \in DOMAIN n.kids
    BY <1>2
  <1>4. n.kids[i] \in Sound(h - 1) /\ Filled(n.kids[i])
    BY <1>1, SoundInner
  <1>5. n.kids[i] \in Nodes[h - 1]
    BY <1>1, KidIsNode
  <1>6. KeysIn(n.kids[i]) \subseteq KeysIn(n)
    BY <1>1, KeysInInner
  <1> QED
    BY <1>1, <1>3, <1>4, <1>5, <1>6 DEF Ranked, AllFrom, AllUpTo

\* All keys from one separator on lie above it, and all up to one below.
LEMMA KeysAround ==
    ASSUME NEW h \in Nat \ {0}, NEW n \in Sound(h), NEW i \in 1..Len(n.keys)
    PROVE  /\ \A j \in 1..i : AllUpTo(n.kids[j], n.keys[i])
           /\ \A j \in (i + 1)..Len(n.kids) : AllFrom(n.kids[j], n.keys[i])
  <1>1. n \in Nodes[h] /\ Sorted(n.keys) /\ Len(n.kids) = Len(n.keys) + 1 /\ Len(n.keys) \in Nat
    BY SoundIsNode, InnerForm
  <1> DEFINE s == n.keys
  <1>2. /\ \A j \in 1..Len(s) : s[j] \in Nat
        /\ \A j, m \in 1..Len(s) : j <= m => s[j] <= s[m]
    <2>1. n.keys \in Seq(Nat)
      BY <1>1, NodeForm
    <2> QED
      BY <1>1, <2>1, SortedMeans
  <1>3. \A j \in 1..Len(n.kids) : KeysIn(n.kids[j]) \subseteq Nat
    <2>1. ASSUME NEW j \in 1..Len(n.kids) PROVE KeysIn(n.kids[j]) \subseteq Nat
      BY <1>1, KidIsNode, KeysInType
    <2> QED
      BY <2>1
  <1>4. ASSUME NEW j \in 1..i PROVE AllUpTo(n.kids[j], s[i])
    <2>1. j \in 1..Len(n.kids) /\ j \in 1..Len(s) /\ j <= Len(s) /\ j <= i /\ i \in 1..Len(s)
      BY <1>1
    <2>2. AllUpTo(n.kids[j], s[j])
      BY <2>1, KidsAround
    <2> HIDE DEF s
    <2>3. s[j] <= s[i] /\ s[j] \in Nat /\ s[i] \in Nat
      BY <1>2, <2>1
    <2>4. \A x \in KeysIn(n.kids[j]) : x \in Nat
      BY <1>3, <2>1
    <2> QED
      BY <2>2, <2>3, <2>4 DEF AllUpTo
  <1>5. ASSUME NEW j \in (i + 1)..Len(n.kids) PROVE AllFrom(n.kids[j], s[i])
    <2>1. j \in 1..Len(n.kids) /\ j > 1 /\ j - 1 \in 1..Len(s) /\ i <= j - 1 /\ i \in 1..Len(s)
      BY <1>1
    <2>2. AllFrom(n.kids[j], s[j - 1])
      BY <2>1, KidsAround
    <2> HIDE DEF s
    <2>3. s[i] <= s[j - 1] /\ s[i] \in Nat /\ s[j - 1] \in Nat
      BY <1>2, <2>1
    <2>4. \A x \in KeysIn(n.kids[j]) : x \in Nat
      BY <1>3, <2>1
    <2> QED
      BY <2>2, <2>3, <2>4 DEF AllFrom
  <1> QED
    BY <1>4, <1>5

\* A piece of a leaf.
LEMMA LeafPiece ==
    ASSUME NEW n \in Sound(0), NEW a \in 1..(Len(n.keys) + 1), NEW b \in (a - 1)..Len(n.keys),
           NEW vals \in Seq(Seq(Values))
    PROVE  LET p == Leaf(SubSeq(n.keys, a, b), vals)
           IN  /\ p \in Sound(0) /\ Len(p.keys) = b - a + 1 /\ KeysIn(p) \subseteq KeysIn(n)
               /\ a > 1 => AllFrom(p, n.keys[a - 1])
               /\ b < Len(n.keys) => AllUpTo(p, n.keys[b + 1])
  <1> DEFINE t == n.keys
             s == SubSeq(t, a, b)
             p == Leaf(s, vals)
  <1>1. n \in Nodes[0] /\ Sorted(t) /\ t \in Seq(Keys) /\ t \in Seq(Nat)
    BY SoundIsNode, NodeForm
  <1>2. \A x : x \in KeysIn(n) <=> \E j \in 1..Len(t) : x = t[j]
    BY <1>1, KeysInLeaf
  <1> HIDE DEF t
  <1>3. /\ Len(t) \in Nat /\ \A j \in 1..Len(t) : t[j] \in Nat
        /\ \A j, m \in 1..Len(t) : j <= m => t[j] <= t[m]
    BY <1>1, SortedMeans
  <1>4. a \in 1..(Len(t) + 1) /\ b \in (a - 1)..Len(t)
    BY DEF t
  <1>5. s \in Seq(Keys) /\ Len(s) = b - a + 1 /\ \A j \in 1..(b - a + 1) : s[j] = t[a + j - 1]
    BY <1>1, <1>4, CutSeq
  <1> HIDE DEF s
  <1>6. p \in Nodes[0] /\ p.keys = s
    BY <1>5, LeafIn DEF Leaf
  <1>7. \A x : x \in KeysIn(p) <=> \E j \in 1..Len(s) : x = s[j]
    BY <1>6, KeysInLeaf
  <1> HIDE DEF p
  <1>8. \A j \in 1..Len(s) : a + j - 1 \in 1..Len(t) /\ s[j] = t[a + j - 1] /\ s[j] \in Nat
    BY <1>3, <1>4, <1>5
  <1>9. Sorted(s)
    <2>1. s \in Seq(Nat)
      BY <1>6, NodeForm
    <2>2. \A i, j \in 1..Len(s) : i <= j => s[i] <= s[j]
      <3>1. ASSUME NEW i \in 1..Len(s), NEW j \in 1..Len(s), i <= j PROVE s[i] <= s[j]
        <4>1. a + i - 1 <= a + j - 1
          BY <1>4, <1>5, <3>1
        <4> QED
          BY <1>3, <1>8, <4>1
      <3> QED
        BY <3>1
    <2> QED
      BY <2>1, <2>2, SortedMeans
  <1>10. KeysIn(p) \subseteq KeysIn(n)
    BY <1>2, <1>7, <1>8
  <1>11. ASSUME a > 1 PROVE AllFrom(p, t[a - 1])
    <2>1. a - 1 \in 1..Len(t)
      BY <1>3, <1>4, <1>11
    <2>2. ASSUME NEW j \in 1..Len(s) PROVE t[a - 1] <= s[j]
      <3>1. a - 1 <= a + j - 1
        BY <1>4
      <3> QED
        BY <1>3, <1>8, <2>1, <3>1
    <2> QED
      BY <1>7, <2>2 DEF AllFrom
  <1>12. ASSUME b < Len(t) PROVE AllUpTo(p, t[b + 1])
    <2>1. b + 1 \in 1..Len(t)
      BY <1>3, <1>4, <1>12
    <2>2. ASSUME NEW j \in 1..Len(s) PROVE s[j] <= t[b + 1]
      <3>1. a + j - 1 <= b + 1
        BY <1>4, <1>5
      <3> QED
        BY <1>3, <1>8, <2>1, <3>1
    <2> QED
      BY <1>7, <2>2 DEF AllUpTo
  <1>13. p \in Sound(0)
    BY <1>6, <1>9, SoundLeaf
  <1>14. Len(p.keys) = b - a + 1
    BY <1>5, <1>6
  <1> QED
    BY <1>10, <1>11, <1>12, <1>13, <1>14 DEF p, s, t

\* A piece of an internal node.
LEMMA InnerPiece ==
    ASSUME NEW h \in Nat \ {0}, NEW n \in Sound(h),
           NEW a \in 1..(Len(n.keys) + 1), NEW b \in (a - 1)..Len(n.keys)
    PROVE  LET p == Inner(h, SubSeq(n.keys, a, b), SubSeq(n.kids, a, b + 1))
           IN  /\ p \in Sound(h) /\ Len(p.keys) = b - a + 1 /\ KeysIn(p) \subseteq KeysIn(n)
               /\ a > 1 => AllFrom(p, n.keys[a - 1])
               /\ b < Len(n.keys) => AllUpTo(p, n.keys[b + 1])
  <1> DEFINE q == n.keys
             c == n.kids
             s == SubSeq(q, a, b)
             t == SubSeq(c, a, b + 1)
             p == Inner(h, s, t)
             S == Nodes[h - 1]
  <1>1. n \in Nodes[h] /\ Sorted(q) /\ q \in Seq(Keys) /\ q \in Seq(Nat) /\ c \in Seq(S) /\ Len(c) = Len(q) + 1
    <2>1. n \in Nodes[h] /\ Sorted(n.keys)
      BY SoundIsNode
    <2> QED
      BY <2>1, NodeForm, InnerForm
  <1>2. \A j \in 1..Len(q) : q[j] \in KeysIn(n)
    BY <1>1, KeysInInner
  <1>3. \A i \in 1..Len(c) :
          /\ c[i] \in Sound(h - 1) /\ Filled(c[i]) /\ KeysIn(c[i]) \subseteq KeysIn(n)
          /\ i > 1 => AllFrom(c[i], q[i - 1])
          /\ i <= Len(q) => AllUpTo(c[i], q[i])
    BY KidsAround
  <1>4. \A i \in 1..Len(q) : /\ \A j \in 1..i : AllUpTo(c[j], q[i])
                             /\ \A j \in (i + 1)..Len(c) : AllFrom(c[j], q[i])
    BY KeysAround
  <1>5. a \in 1..(Len(q) + 1) /\ b \in (a - 1)..Len(q)
    OBVIOUS
  <1> HIDE DEF S, q, c
  <1>6. /\ Len(q) \in Nat /\ \A j \in 1..Len(q) : q[j] \in Nat
        /\ \A j, m \in 1..Len(q) : j <= m => q[j] <= q[m]
    BY <1>1, SortedMeans
  <1>7. s \in Seq(Keys) /\ Len(s) = b - a + 1 /\ \A j \in 1..(b - a + 1) : s[j] = q[a + j - 1]
    BY <1>1, <1>5, CutSeq
  <1>8. t \in Seq(S) /\ Len(t) = b - a + 2 /\ \A j \in 1..(b - a + 2) : t[j] = c[a + j - 1]
    <2>1. a \in 1..(Len(c) + 1) /\ b + 1 \in (a - 1)..Len(c) /\ (b + 1) - a + 1 = b - a + 2
      BY <1>1, <1>5, <1>6
    <2> QED
      BY <1>1, <2>1, CutSeq
  <1> HIDE DEF s, t
  <1>9. Len(t) = Len(s) + 1
    BY <1>5, <1>6, <1>7, <1>8
  <1>10. p \in Nodes[h] /\ p.keys = s /\ p.kids = t
    BY <1>7, <1>8, <1>9, InnerIn DEF Inner, S
  <1>11. \A j \in 1..Len(s) : a + j - 1 \in 1..Len(q) /\ s[j] = q[a + j - 1] /\ s[j] \in Nat
    BY <1>5, <1>6, <1>7
  <1>12. \A j \in 1..Len(t) : a + j - 1 \in 1..Len(c) /\ t[j] = c[a + j - 1]
    BY <1>1, <1>5, <1>6, <1>8
  <1>13. Sorted(s)
    <2>1. s \in Seq(Nat)
      BY <1>10, NodeForm
    <2>2. ASSUME NEW i \in 1..Len(s), NEW j \in 1..Len(s), i <= j PROVE s[i] <= s[j]
      <3>1. a + i - 1 <= a + j - 1
        BY <1>5, <1>7, <2>2
      <3> QED
        BY <1>6, <1>11, <3>1
    <2> QED
      BY <2>1, <2>2, SortedMeans
  <1>14. ASSUME NEW j \in 1..Len(t)
         PROVE  /\ t[j] \in Sound(h - 1) /\ Filled(t[j]) /\ KeysIn(t[j]) \subseteq KeysIn(n)
                /\ j > 1 => AllFrom(t[j], s[j - 1])
                /\ j <= Len(s) => AllUpTo(t[j], s[j])
    <2> DEFINE i == a + j - 1
    <2>1. i \in 1..Len(c) /\ t[j] = c[i]
      BY <1>12
    <2>2. j > 1 => s[j - 1] = q[i - 1] /\ i > 1
      <3>1. ASSUME j > 1 PROVE j - 1 \in 1..Len(s) /\ a + (j - 1) - 1 = i - 1 /\ i > 1
        BY <1>5, <1>6, <1>7, <1>9, <3>1
      <3> QED
        BY <1>11, <3>1
    <2>3. j <= Len(s) => s[j] = q[i] /\ i <= Len(q)
      <3>1. ASSUME j <= Len(s) PROVE j \in 1..Len(s)
        BY <1>5, <1>6, <1>7, <3>1
      <3> QED
        BY <1>6, <1>11, <3>1
    <2> HIDE DEF i
    <2> QED
      BY <1>3, <2>1, <2>2, <2>3
  <1>15. p \in Sound(h)
    <2>1. t \in Seq(Nodes[h - 1])
      BY <1>8 DEF S
    <2> QED
      BY <1>7, <1>9, <1>13, <1>14, <2>1, InnerSound
  <1>16. \A x : x \in KeysIn(p) <=> \/ \E j \in 1..Len(s) : x = s[j]
                                    \/ \E j \in 1..Len(t) : x \in KeysIn(t[j])
    BY <1>10, KeysInInner
  <1> HIDE DEF p
  <1>17. KeysIn(p) \subseteq KeysIn(n)
    <2>1. \A j \in 1..Len(s) : s[j] \in KeysIn(n)
      BY <1>2, <1>11
    <2> QED
      BY <1>14, <1>16, <2>1
  <1>18. ASSUME a > 1 PROVE AllFrom(p, q[a - 1])
    <2>1. a - 1 \in 1..Len(q)
      BY <1>5, <1>6, <1>18
    <2>2. ASSUME NEW j \in 1..Len(s) PROVE q[a - 1] <= s[j]
      <3>1. a - 1 <= a + j - 1
        BY <1>5
      <3> QED
        BY <1>6, <1>11, <2>1, <3>1
    <2>3. ASSUME NEW j \in 1..Len(t) PROVE AllFrom(t[j], q[a - 1])
      <3>1. a + j - 1 \in ((a - 1) + 1)..Len(c)
        BY <1>5, <1>12
      <3> QED
        BY <1>4, <1>12, <2>1, <3>1
    <2> QED
      BY <1>16, <2>2, <2>3 DEF AllFrom
  <1>19. ASSUME b < Len(q) PROVE AllUpTo(p, q[b + 1])
    <2>1. b + 1 \in 1..Len(q)
      BY <1>5, <1>6, <1>19
    <2>2. ASSUME NEW j \in 1..Len(s) PROVE s[j] <= q[b + 1]
      <3>1. a + j - 1 <= b + 1
        BY <1>5, <1>7
      <3> QED
        BY <1>6, <1>11, <2>1, <3>1
    <2>3. ASSUME NEW j \in 1..Len(t) PROVE AllUpTo(t[j], q[b + 1])
      <3>1. a + j - 1 \in 1..(b + 1)
        BY <1>5, <1>8
      <3> QED
        BY <1>4, <1>12, <2>1, <3>1
    <2> QED
      BY <1>16, <2>2, <2>3 DEF AllUpTo
  <1>20. Len(p.keys) = b - a + 1
    BY <1>7, <1>10
  <1> QED
    BY <1>15, <1>17, <1>18, <1>19, <1>20 DEF p, s, t, q, c

-----------------------------------------------------------------------------
(* Put                                                                       *)

LEMMA SpliceSeq ==
    ASSUME NEW S, NEW s \in Seq(S), NEW t \in Seq(S), NEW i \in 1..Len(s)
    PROVE  LET z == SubSeq(s, 1, i - 1) \o t \o SubSeq(s, i + 1, Len(s))
           IN  /\ z \in Seq(S) /\ Len(z) = Len(s) + Len(t) - 1
               /\ \A j \in 1..(i - 1) : z[j] = s[j]
               /\ \A j \in 1..Len(t) : z[i - 1 + j] = t[j]
               /\ \A j \in (i + 1)..Len(s) : z[j + Len(t) - 1] = s[j]
  <1> DEFINE a == SubSeq(s, 1, i - 1)
             m == i + 1
             b == SubSeq(s, m, Len(s))
             c == a \o t
             r == c \o b
  <1>1. Len(s) \in Nat /\ Len(t) \in Nat
    OBVIOUS
  <1>2. a \in Seq(S) /\ Len(a) = i - 1 /\ \A j \in 1..(i - 1) : a[j] = s[j]
    BY CutSeq
  <1>3. b \in Seq(S) /\ Len(b) = Len(s) - m + 1 /\ \A j \in 1..(Len(s) - m + 1) : b[j] = s[m + j - 1]
    <2>1. m \in 1..(Len(s) + 1) /\ Len(s) \in (m - 1)..Len(s)
      BY <1>1
    <2> QED
      BY <2>1, CutSeq
  <1>0. m = i + 1 /\ m - i = 1
    OBVIOUS
  <1> HIDE DEF a, b, m
  <1>4. /\ c \in Seq(S) /\ Len(c) = Len(a) + Len(t)
        /\ \A j \in 1..(Len(a) + Len(t)) : c[j] = IF j <= Len(a) THEN a[j] ELSE t[j - Len(a)]
    BY <1>2, JoinSeq
  <1> HIDE DEF c
  <1>5. /\ r \in Seq(S) /\ Len(r) = Len(c) + Len(b)
        /\ \A j \in 1..(Len(c) + Len(b)) : r[j] = IF j <= Len(c) THEN c[j] ELSE b[j - Len(c)]
    <2>1. c \in Seq(S) /\ b \in Seq(S)
      BY <1>3, <1>4
    <2> HIDE DEF c
    <2> QED
      BY <2>1, JoinSeq
  <1> HIDE DEF r
  <1>6. Len(a) = i - 1 /\ Len(c) = i - 1 + Len(t) /\ Len(b) = Len(s) - m + 1
    BY <1>2, <1>3, <1>4
  <1>7. Len(r) = Len(s) + Len(t) - 1
    BY <1>0, <1>1, <1>5, <1>6
  <1>8. ASSUME NEW j \in 1..(i - 1) PROVE r[j] = s[j]
    <2>1. j \in 1..(Len(c) + Len(b)) /\ j <= Len(c) /\ j \in 1..(Len(a) + Len(t)) /\ j <= Len(a)
      BY <1>0, <1>1, <1>6
    <2> QED
      BY <1>2, <1>4, <1>5, <2>1
  <1>9. ASSUME NEW j \in 1..Len(t) PROVE r[i - 1 + j] = t[j]
    <2> DEFINE l == i - 1 + j
    <2>1. l \in 1..(Len(c) + Len(b)) /\ l <= Len(c) /\ l \in 1..(Len(a) + Len(t)) /\ ~(l <= Len(a)) /\ l - Len(a) = j
      BY <1>0, <1>1, <1>6
    <2> HIDE DEF l
    <2>2. r[l] = c[l] /\ c[l] = t[l - Len(a)]
      BY <1>4, <1>5, <2>1
    <2> QED
      BY <2>1, <2>2 DEF l
  <1>10. ASSUME NEW j \in m..Len(s) PROVE r[j + Len(t) - 1] = s[j]
    <2> DEFINE l == j + Len(t) - 1
               o == l - Len(c)
    <2>1. l \in 1..(Len(c) + Len(b)) /\ ~(l <= Len(c)) /\ o \in 1..(Len(s) - m + 1) /\ m + o - 1 = j
      BY <1>0, <1>1, <1>6
    <2> HIDE DEF l
    <2>2. r[l] = b[o]
      BY <1>5, <2>1
    <2> HIDE DEF o
    <2>3. b[o] = s[m + o - 1]
      BY <1>3, <2>1
    <2> QED
      BY <2>1, <2>2, <2>3 DEF l
  <1> QED
    BY <1>0, <1>5, <1>7, <1>8, <1>9, <1>10 DEF r, c, a, b, m

LEMMA SameSeq ==
    ASSUME NEW S, NEW s \in Seq(S), NEW t \in Seq(S), Len(s) = Len(t), \A j \in 1..Len(s) : s[j] = t[j]
    PROVE  s = t
  OBVIOUS

LEMMA RejoinSeq ==
    ASSUME NEW S, NEW s \in Seq(S), NEW i \in 1..(Len(s) + 1)
    PROVE  SubSeq(s, 1, i - 1) \o <<>> \o SubSeq(s, i, Len(s)) = s
  <1> DEFINE a == SubSeq(s, 1, i - 1)
             b == SubSeq(s, i, Len(s))
  <1>1. Len(s) \in Nat /\ a \in Seq(S) /\ Len(a) = i - 1 /\ \A j \in 1..(i - 1) : a[j] = s[j]
    BY CutSeq
  <1>2. b \in Seq(S) /\ Len(b) = Len(s) - i + 1 /\ \A j \in 1..(Len(s) - i + 1) : b[j] = s[i + j - 1]
    BY CutSeq
  <1> HIDE DEF a, b
  <1>3. a \o <<>> = a
    BY <1>1
  <1>4. /\ a \o b \in Seq(S) /\ Len(a \o b) = Len(a) + Len(b)
        /\ \A j \in 1..(Len(a) + Len(b)) : (a \o b)[j] = IF j <= Len(a) THEN a[j] ELSE b[j - Len(a)]
    BY <1>1, <1>2, JoinSeq
  <1>5. Len(a) + Len(b) = Len(s)
    BY <1>1, <1>2
  <1>6. ASSUME NEW j \in 1..Len(s) PROVE (a \o b)[j] = s[j]
    <2>1. CASE j <= i - 1
      <3>1. j \in 1..(i - 1) /\ j \in 1..(Len(a) + Len(b)) /\ j <= Len(a)
        BY <1>1, <1>5, <2>1
      <3> QED
        BY <1>1, <1>4, <3>1
    <2>2. CASE ~(j <= i - 1)
      <3> DEFINE m == j - (i - 1)
      <3>1. m \in 1..(Len(s) - i + 1) /\ i + m - 1 = j
        BY <1>1, <2>2
      <3>2. (a \o b)[j] = b[m]
        BY <1>1, <1>4, <1>5, <2>2
      <3> HIDE DEF m
      <3>3. b[m] = s[i + m - 1]
        BY <1>2, <3>1
      <3> QED
        BY <3>1, <3>2, <3>3
    <2> QED
      BY <2>1, <2>2
  <1>7. Len(a \o b) = Len(s)
    BY <1>4, <1>5
  <1> DEFINE c == a \o b
  <1>8. c \in Seq(S) /\ Len(c) = Len(s) /\ \A j \in 1..Len(c) : c[j] = s[j]
    BY <1>4, <1>6, <1>7
  <1> HIDE DEF c
  <1>9. c = s
    BY <1>8, SameSeq
  <1> QED
    BY <1>3, <1>9 DEF a, b, c

\* What a node of height h with keys of K becomes in its parent: one node of at
\* least so many keys, or two with a separator between them.
Whole(R, h, K, least) ==
    \E n \in Sound(h) : /\ R = Inner(h + 1, <<>>, <<n>>)
                        /\ Len(n.keys) \in least..MaxKeys /\ KeysIn(n) \subseteq K
Halved(R, h, K) ==
    \E a, b \in Sound(h), s \in K :
        /\ R = Inner(h + 1, <<s>>, <<a, b>>)
        /\ Filled(a) /\ Filled(b) /\ KeysIn(a) \subseteq K /\ KeysIn(b) \subseteq K
        /\ AllUpTo(a, s) /\ AllFrom(b, s)

LEMMA SplitBecomes ==
    ASSUME NEW h \in Nat, NEW n \in Sound(h), Len(n.keys) <= Order
    PROVE  LET R == Split(n)
           IN  R = Panicked \/ Whole(R, h, KeysIn(n), Len(n.keys)) \/ Halved(R, h, KeysIn(n))
  <1> DEFINE R == Split(n)
             mid == Len(n.keys) \div 2
             len == Len(n.keys)
             low  == SubSeq(n.keys, 1, mid)
             high == SubSeq(n.keys, mid + 2, len)
             s == n.keys[mid + 1]
  <1>1. n \in Nodes[h] /\ n.height = h /\ n # Panicked /\ len \in Nat /\ n.keys \in Seq(Keys)
    BY SoundIsNode, NodeForm, PanickedIsNoNode
  <1>2. CASE len <= MaxKeys
    <2>1. R = Inner(h + 1, <<>>, <<n>>)
      BY <1>1, <1>2 DEF Split
    <2>2. Len(n.keys) \in Len(n.keys)..MaxKeys
      BY <1>1, <1>2, OrderFacts
    <2>3. Whole(R, h, KeysIn(n), Len(n.keys))
      <3> HIDE DEF R
      <3> QED
        BY <2>1, <2>2 DEF Whole
    <2> QED
      BY <2>3
  <1>3. CASE len > MaxKeys
    <2>1. len = Order /\ mid = MinKeys + 1 /\ len = 2 * MinKeys + 2 /\ MinKeys \in Nat /\ MaxKeys = 2 * MinKeys + 1
      <3>1. len = Order
        BY <1>1, <1>3, OrderFacts
      <3> HIDE DEF len
      <3>2. Len(n.keys) = Order
        BY <3>1 DEF len
      <3> QED
        BY <3>1, <3>2, OrderFacts
    <2>2. ~(len <= MaxKeys)
      BY <1>1, <1>3, OrderFacts
    <2>3. 1 \in 1..(len + 1) /\ mid \in (1 - 1)..len /\ mid + 2 \in 1..(len + 1) /\ len \in ((mid + 2) - 1)..len
      BY <2>1
    <2>4. mid - 1 + 1 = MinKeys + 1 /\ len - (mid + 2) + 1 = MinKeys /\ mid < len /\ mid + 2 > 1 /\ (mid + 2) - 1 = mid + 1
      BY <2>1
    <2>5. s \in KeysIn(n)
      <3>1. mid + 1 \in 1..Len(n.keys)
        BY <2>1
      <3>2. CASE h = 0
        BY <1>1, <3>1, <3>2, KeysInLeaf
      <3>3. CASE h \in Nat \ {0}
        BY <1>1, <3>1, <3>3, KeysInInner
      <3> QED
        BY <3>2, <3>3
    <2>6. MinKeys + 1 \in MinKeys..MaxKeys /\ MinKeys \in MinKeys..MaxKeys
      BY <2>1, OrderFacts
    <2>7. CASE h = 0 /\ Len(n.vals) <= mid
      BY <1>1, <2>2, <2>7 DEF Split
    <2>8. CASE h = 0 /\ ~(Len(n.vals) <= mid)
      <3> DEFINE lv == SubSeq(n.vals, 1, mid)
                 hv == SubSeq(n.vals, mid + 2, Len(n.vals))
                 a == Leaf(low, lv)
                 b == Leaf(high, hv)
      <3>1. n.vals \in Seq(Seq(Values))
        BY <1>1, <2>8, LeafForm
      <3>2. lv \in Seq(Seq(Values)) /\ hv \in Seq(Seq(Values))
        <4>1. Len(n.vals) \in Nat /\ mid \in Nat /\ mid + 2 \in 1..(Len(n.vals) + 1) /\ Len(n.vals) \in ((mid + 2) - 1)..Len(n.vals)
              /\ 1 \in 1..(Len(n.vals) + 1) /\ mid \in (1 - 1)..Len(n.vals)
          BY <2>1, <2>8, <3>1
        <4> DEFINE V == Seq(Values)
        <4> HIDE DEF V, mid
        <4> QED
          BY <3>1, <4>1, CutSeq DEF V
      <3> HIDE DEF lv, hv
      <3>3. R = Inner(1, <<s>>, <<a, b>>)
        BY <1>1, <2>2, <2>8 DEF Split, lv, hv
      <3>4. /\ a \in Sound(0) /\ Len(a.keys) = mid - 1 + 1 /\ KeysIn(a) \subseteq KeysIn(n)
            /\ mid < Len(n.keys) => AllUpTo(a, n.keys[mid + 1])
        <4> HIDE DEF mid
        <4> QED
          BY <2>3, <2>8, <3>2, LeafPiece
      <3>5. /\ b \in Sound(0) /\ Len(b.keys) = len - (mid + 2) + 1 /\ KeysIn(b) \subseteq KeysIn(n)
            /\ mid + 2 > 1 => AllFrom(b, n.keys[(mid + 2) - 1])
        <4> HIDE DEF mid
        <4> QED
          BY <2>3, <2>8, <3>2, LeafPiece
      <3>6. Filled(a) /\ Filled(b) /\ AllUpTo(a, s) /\ AllFrom(b, s)
        BY <2>4, <2>6, <3>4, <3>5 DEF Filled
      <3>7. Halved(R, 0, KeysIn(n))
        <4>1. 0 + 1 = 1
          OBVIOUS
        <4> HIDE DEF R, a, b, s
        <4> QED
          BY <2>5, <3>3, <3>4, <3>5, <3>6, <4>1 DEF Halved
      <3> QED
        BY <2>8, <3>7
    <2>9. CASE h # 0
      <3> DEFINE a == Inner(h, low, SubSeq(n.kids, 1, mid + 1))
                 b == Inner(h, high, SubSeq(n.kids, mid + 2, len + 1))
      <3>1. R = Inner(h + 1, <<s>>, <<a, b>>)
        BY <1>1, <2>2, <2>9 DEF Split
      <3>2. h \in Nat \ {0}
        BY <2>9
      <3>3. /\ a \in Sound(h) /\ Len(a.keys) = mid - 1 + 1 /\ KeysIn(a) \subseteq KeysIn(n)
            /\ mid < Len(n.keys) => AllUpTo(a, n.keys[mid + 1])
        <4> HIDE DEF mid
        <4> QED
          BY <2>3, <3>2, InnerPiece
      <3>4. /\ b \in Sound(h) /\ Len(b.keys) = len - (mid + 2) + 1 /\ KeysIn(b) \subseteq KeysIn(n)
            /\ mid + 2 > 1 => AllFrom(b, n.keys[(mid + 2) - 1])
        <4> HIDE DEF mid
        <4> QED
          BY <2>3, <3>2, InnerPiece, ZenonT(60)
      <3>5. Filled(a) /\ Filled(b) /\ AllUpTo(a, s) /\ AllFrom(b, s)
        BY <2>4, <2>6, <3>3, <3>4 DEF Filled
      <3>6. Halved(R, h, KeysIn(n))
        <4> HIDE DEF R, a, b, s
        <4> QED
          BY <2>5, <3>1, <3>3, <3>4, <3>5 DEF Halved
      <3> QED
        BY <3>6
    <2> QED
      BY <2>7, <2>8, <2>9
  <1> QED
    BY <1>1, <1>2, <1>3, OrderFacts

LEMMA InsertSorted ==
    ASSUME NEW s \in Seq(Nat), Sorted(s), NEW i \in 1..(Len(s) + 1), NEW e \in Nat,
           i > 1 => s[i - 1] <= e, i <= Len(s) => e <= s[i]
    PROVE  Sorted(InsertAt(s, i, e))
  <1> DEFINE t == InsertAt(s, i, e)
  <1>1. /\ t \in Seq(Nat) /\ Len(t) = Len(s) + 1
        /\ \A j \in 1..(Len(s) + 1) : t[j] = IF j < i THEN s[j] ELSE IF j = i THEN e ELSE s[j - 1]
    BY InsertSeq
  <1>2. /\ Len(s) \in Nat /\ \A j \in 1..Len(s) : s[j] \in Nat
        /\ \A j, m \in 1..Len(s) : j <= m => s[j] <= s[m]
    BY SortedMeans
  <1> HIDE DEF t
  <1>3. ASSUME NEW j \in 1..Len(t), NEW m \in 1..Len(t), j <= m PROVE t[j] <= t[m]
    <2>0. /\ Len(t) = Len(s) + 1 /\ Len(s) \in Nat /\ i \in Nat /\ 1 <= i /\ i <= Len(s) + 1
          /\ j \in Nat /\ 1 <= j /\ j <= Len(s) + 1 /\ m \in Nat /\ 1 <= m /\ m <= Len(s) + 1
      <3>1. Len(t) = Len(s) + 1 /\ Len(s) \in Nat
        BY <1>1, <1>2
      <3>2. j \in 1..(Len(s) + 1) /\ m \in 1..(Len(s) + 1)
        BY <3>1
      <3> QED
        BY <3>1, <3>2
    <2>1. CASE j < i /\ m < i
      <3>1. j \in 1..Len(s) /\ m \in 1..Len(s) /\ j \in 1..(Len(s) + 1) /\ m \in 1..(Len(s) + 1)
        BY <2>0, <2>1
      <3>2. t[j] = s[j]
        BY <1>1, <2>1, <3>1
      <3>3. t[m] = s[m]
        BY <1>1, <2>1, <3>1
      <3> QED
        BY <1>2, <1>3, <3>1, <3>2, <3>3
    <2>2. CASE j < i /\ m = i
      <3>1. j <= i - 1 /\ i - 1 \in 1..Len(s) /\ j \in 1..Len(s) /\ i > 1
        BY <1>1, <1>2, <2>2
      <3>2. s[j] <= s[i - 1] /\ s[i - 1] <= e /\ t[j] = s[j] /\ t[m] = e
        BY <1>1, <1>2, <2>2, <3>1
      <3> QED
        BY <1>2, <3>1, <3>2, SMTT(60)
    <2>3. CASE j < i /\ m > i
      <3>1. j <= m - 1 /\ m - 1 \in 1..Len(s) /\ j \in 1..Len(s) /\ t[j] = s[j] /\ t[m] = s[m - 1]
        BY <1>1, <1>2, <2>3
      <3> QED
        BY <1>2, <3>1
    <2>4. CASE j = i /\ m = i
      BY <1>1, <1>2, <2>4
    <2>5. CASE j = i /\ m > i
      <3>1. i <= m - 1 /\ m - 1 \in 1..Len(s) /\ i \in 1..Len(s) /\ t[j] = e /\ t[m] = s[m - 1] /\ i <= Len(s)
        BY <1>1, <1>2, <2>5
      <3>2. e <= s[i] /\ s[i] <= s[m - 1]
        BY <1>2, <3>1
      <3> QED
        BY <1>2, <3>1, <3>2
    <2>6. CASE j > i
      <3>1. j - 1 <= m - 1 /\ m - 1 \in 1..Len(s) /\ j - 1 \in 1..Len(s) /\ t[j] = s[j - 1] /\ t[m] = s[m - 1]
        BY <1>1, <1>2, <1>3, <2>6
      <3> QED
        BY <1>2, <3>1
    <2>7. \/ j < i /\ m < i
          \/ j < i /\ m = i
          \/ j < i /\ m > i
          \/ j = i /\ m = i
          \/ j = i /\ m > i
          \/ j > i
      BY <1>1, <1>2, <1>3
    <2> QED
      BY <2>1, <2>2, <2>3, <2>4, <2>5, <2>6, <2>7
  <1>4. Sorted(t)
    BY <1>1, <1>3, SortedMeans
  <1> QED
    BY <1>4 DEF t

\* A search in a node ends between the keys around the one searched for.
LEMMA SearchInNode ==
    ASSUME NEW h \in Nat, NEW n \in Sound(h), NEW k \in Keys
    PROVE  LET i == SearchStrings(n.keys, k)
           IN  /\ i \in 1..(Len(n.keys) + 1) /\ k \in Nat
               /\ i > 1 => n.keys[i - 1] < k
               /\ i <= Len(n.keys) => k <= n.keys[i]
               /\ Found(n.keys, k) <=> i <= Len(n.keys) /\ n.keys[i] = k
               /\ \A j \in 1..Len(n.keys) : j < i <=> n.keys[j] < k
  <1> DEFINE s == n.keys
             i == SearchStrings(s, k)
  <1>1. s \in Seq(Nat) /\ Sorted(s) /\ k \in Nat
    BY SoundIsNode, NodeForm, ProllyAssumption
  <1>2. Found(s, k) <=> i <= Len(s) /\ s[i] = k
    BY DEF Found
  <1> HIDE DEF s
  <1>3. Len(s) \in Nat /\ \A j \in 1..Len(s) : s[j] \in Nat
    BY <1>1
  <1>4. i \in 1..(Len(s) + 1) /\ \A j \in 1..Len(s) : j < i <=> s[j] < k
    BY <1>1, Searches
  <1> HIDE DEF i
  <1>5. ASSUME i > 1 PROVE s[i - 1] < k
    <2>1. i - 1 \in 1..Len(s) /\ i - 1 < i
      BY <1>3, <1>4, <1>5
    <2> QED
      BY <1>4, <2>1
  <1>6. ASSUME i <= Len(s) PROVE k <= s[i]
    <2>1. i \in 1..Len(s) /\ ~(i < i)
      BY <1>3, <1>4, <1>6
    <2>2. ~(s[i] < k)
      BY <1>4, <2>1
    <2> QED
      BY <1>1, <1>3, <2>1, <2>2
  <1> QED
    BY <1>1, <1>2, <1>4, <1>5, <1>6 DEF i, s

LEMMA PutInLeafSound ==
    ASSUME NEW n \in Sound(0), NEW k \in Keys, NEW v \in Values
    PROVE  LET p == PutInLeaf(n, k, v)
           IN  p = Panicked \/ /\ p \in Sound(0) /\ Len(p.keys) \in Len(n.keys)..(Len(n.keys) + 1)
                               /\ KeysIn(p) \subseteq KeysIn(n) \cup {k}
  <1> DEFINE s == n.keys
             i == SearchStrings(s, k)
             V == Seq(Values)
  <1>1. /\ n \in Nodes[0] /\ n = Leaf(s, n.vals) /\ s \in Seq(Keys) /\ s \in Seq(Nat)
        /\ n.vals \in Seq(V) /\ Sorted(s) /\ Len(s) \in Nat
    BY SoundIsNode, LeafForm, NodeForm
  <1>2. /\ i \in 1..(Len(s) + 1) /\ k \in Nat
        /\ i > 1 => s[i - 1] < k
        /\ i <= Len(s) => k <= s[i]
        /\ Found(s, k) <=> i <= Len(s) /\ s[i] = k
    BY SearchInNode
  <1>3. CASE (Found(s, k) /\ i > Len(n.vals)) \/ (~Found(s, k) /\ i - 1 > Len(n.vals))
    BY <1>3 DEF PutInLeaf
  <1>4. CASE Found(s, k) /\ ~(i > Len(n.vals))
    <2> DEFINE w == [n.vals EXCEPT ![i] = Append(@, v)]
               p == Leaf(s, w)
    <2>1. PutInLeaf(n, k, v) = [n EXCEPT !.vals[i] = Append(@, v)]
      BY <1>4 DEF PutInLeaf
    <2>2. [n EXCEPT !.vals[i] = Append(@, v)] = p
      <3> DEFINE vs == n.vals
      <3>1. n = Leaf(s, vs)
        BY <1>1
      <3>2. p = Leaf(s, [vs EXCEPT ![i] = Append(@, v)])
        OBVIOUS
      <3> HIDE DEF p, w, i, s, vs
      <3>3. [Leaf(s, vs) EXCEPT !.vals[i] = Append(@, v)] = Leaf(s, [vs EXCEPT ![i] = Append(@, v)])
        BY DEF Leaf
      <3> QED
        BY <3>1, <3>2, <3>3
    <2>3. w \in Seq(V)
      <3>1. i \in 1..Len(n.vals)
        BY <1>1, <1>2, <1>4
      <3>2. Append(n.vals[i], v) \in V
        BY <1>1, <3>1
      <3> HIDE DEF V, i
      <3>3. [n.vals EXCEPT ![i] = Append(n.vals[i], v)] \in Seq(V)
        BY <1>1, <3>1, <3>2, ChangeSeq
      <3> QED
        BY <3>3
    <2> HIDE DEF w
    <2>4. p \in Nodes[0] /\ p.keys = s
      BY <1>1, <2>3, LeafIn DEF Leaf
    <2>5. KeysIn(p) = KeysIn(n)
      <3>1. \A x : x \in KeysIn(p) <=> x \in KeysIn(n)
        BY <1>1, <2>4, KeysInLeaf
      <3>2. KeysIn(p) \subseteq KeysIn(n) /\ KeysIn(n) \subseteq KeysIn(p)
        BY <3>1
      <3> QED
        BY <3>2
    <2>6. p \in Sound(0)
      BY <1>1, <2>4, SoundLeaf
    <2>7. Len(s) \in Len(s)..(Len(s) + 1)
      BY <1>1
    <2> QED
      BY <2>1, <2>2, <2>4, <2>5, <2>6, <2>7
  <1>5. CASE ~Found(s, k) /\ ~(i - 1 > Len(n.vals))
    <2> DEFINE t == InsertAt(s, i, k)
               w == InsertAt(n.vals, i, <<v>>)
               p == Leaf(t, w)
    <2>1. PutInLeaf(n, k, v) = p
      BY <1>5 DEF PutInLeaf
    <2>2. /\ t \in Seq(Keys) /\ Len(t) = Len(s) + 1
          /\ \A j \in 1..(Len(s) + 1) : t[j] = IF j < i THEN s[j] ELSE IF j = i THEN k ELSE s[j - 1]
      <3> HIDE DEF i, s
      <3> QED
        BY <1>1, <1>2, InsertSeq
    <2>3. w \in Seq(V)
      <3>1. i \in 1..(Len(n.vals) + 1) /\ <<v>> \in V
        BY <1>1, <1>2, <1>5
      <3> HIDE DEF V, i
      <3> QED
        BY <1>1, <3>1, InsertSeq
    <2>4. Sorted(t)
      <3>1. i > 1 => s[i - 1] <= k
        <4>1. ASSUME i > 1 PROVE i - 1 \in 1..Len(s)
          BY <1>1, <1>2, <4>1
        <4>2. \A j \in 1..Len(s) : s[j] \in Nat
          BY <1>1
        <4> QED
          BY <1>2, <4>1, <4>2
      <3> HIDE DEF i, s
      <3> QED
        BY <1>1, <1>2, <3>1, InsertSorted
    <2> HIDE DEF t, w
    <2>5. p \in Nodes[0] /\ p.keys = t
      BY <2>2, <2>3, LeafIn DEF Leaf
    <2>6. p \in Sound(0)
      BY <2>4, <2>5, SoundLeaf
    <2>7. \A x : x \in KeysIn(p) <=> \E j \in 1..Len(t) : x = t[j]
      BY <2>5, KeysInLeaf
    <2>8. \A x : x \in KeysIn(n) <=> \E j \in 1..Len(s) : x = s[j]
      BY <1>1, KeysInLeaf
    <2> HIDE DEF p
    <2>9. KeysIn(p) \subseteq KeysIn(n) \cup {k}
      <3>1. ASSUME NEW j \in 1..Len(t) PROVE t[j] \in KeysIn(n) \cup {k}
        <4> HIDE DEF i, s
        <4>1. CASE j < i
          <5>1. j \in 1..Len(s) /\ t[j] = s[j]
            BY <1>1, <1>2, <2>2, <4>1, SMTT(60)
          <5> QED
            BY <2>8, <5>1
        <4>2. CASE j = i
          BY <1>2, <2>2, <4>2
        <4>3. CASE j > i
          <5>1. j \in 1..(Len(s) + 1) /\ j - 1 \in 1..Len(s) /\ ~(j < i) /\ j # i
            BY <1>1, <1>2, <2>2, <4>3
          <5>2. t[j] = s[j - 1]
            BY <2>2, <5>1
          <5> QED
            BY <2>8, <5>1, <5>2
        <4>4. j < i \/ j = i \/ j > i
          BY <1>1, <1>2, <2>2
        <4> QED
          BY <4>1, <4>2, <4>3, <4>4
      <3> QED
        BY <2>7, <3>1
    <2>10. Len(p.keys) \in Len(s)..(Len(s) + 1)
      BY <1>1, <2>2, <2>5
    <2> QED
      BY <2>1, <2>6, <2>9, <2>10
  <1> QED
    BY <1>3, <1>4, <1>5

\* The node whose child i became new is sound, and has no other new key than k.
LEMMA SplicedSound ==
    ASSUME NEW h \in Nat \ {0}, NEW n \in Sound(h), NEW k \in Keys, NEW i \in 1..Len(n.kids),
           i > 1 => n.keys[i - 1] <= k, i <= Len(n.keys) => k <= n.keys[i], NEW new,
           LET K == KeysIn(n.kids[i]) \cup {k}
           IN  Whole(new, h - 1, K, MinKeys) \/ Halved(new, h - 1, K)
    PROVE  LET p == Spliced(n, i, new)
           IN  /\ p \in Sound(h) /\ Len(p.keys) \in Len(n.keys)..(Len(n.keys) + 1)
               /\ KeysIn(p) \subseteq KeysIn(n) \cup {k}
  <1> DEFINE q == n.keys
             c == n.kids
             S == Nodes[h - 1]
             K == KeysIn(c[i]) \cup {k}
             p == Spliced(n, i, new)
  <1>1. /\ n \in Nodes[h] /\ n.height = h /\ Sorted(q) /\ q \in Seq(Keys) /\ q \in Seq(Nat)
        /\ c \in Seq(S) /\ Len(c) = Len(q) + 1 /\ k \in Nat /\ h - 1 \in Nat
    <2>1. n \in Nodes[h] /\ Sorted(n.keys)
      BY SoundIsNode
    <2> QED
      BY <2>1, NodeForm, InnerForm, ProllyAssumption
  <1>2. \A j \in 1..Len(c) :
          /\ c[j] \in Sound(h - 1) /\ Filled(c[j]) /\ KeysIn(c[j]) \subseteq KeysIn(n)
          /\ KeysIn(c[j]) \subseteq Nat
          /\ j > 1 => AllFrom(c[j], q[j - 1])
          /\ j <= Len(q) => AllUpTo(c[j], q[j])
    <2>1. ASSUME NEW j \in 1..Len(c) PROVE KeysIn(c[j]) \subseteq Nat
      BY <1>1, KidIsNode, KeysInType
    <2> QED
      BY <2>1, KidsAround
  <1>3. \A x : x \in KeysIn(n) <=> \/ \E j \in 1..Len(q) : x = q[j]
                                   \/ \E j \in 1..Len(c) : x \in KeysIn(c[j])
    BY <1>1, KeysInInner
  <1>4. Whole(new, h - 1, K, MinKeys) \/ Halved(new, h - 1, K)
    OBVIOUS
  <1>5. (i > 1 => q[i - 1] <= k) /\ (i <= Len(q) => k <= q[i]) /\ i \in 1..Len(c)
    OBVIOUS
  <1>6. p = Inner(h, SubSeq(q, 1, i - 1) \o new.keys \o SubSeq(q, i, Len(q)),
                  SubSeq(c, 1, i - 1) \o new.kids \o SubSeq(c, i + 1, Len(c)))
    BY <1>1 DEF Spliced
  <1> HIDE DEF S, q, c, K, p
  <1>7. /\ Len(q) \in Nat /\ \A j \in 1..Len(q) : q[j] \in Nat
        /\ \A j, m \in 1..Len(q) : j <= m => q[j] <= q[m]
    BY <1>1, SortedMeans
  <1>8. /\ \A x \in K : x \in Nat
        /\ i > 1 => \A x \in K : q[i - 1] <= x
        /\ i <= Len(q) => \A x \in K : x <= q[i]
        /\ K \subseteq KeysIn(n) \cup {k}
    BY <1>1, <1>2, <1>5 DEF K, AllFrom, AllUpTo
  <1>9. i \in 1..(Len(q) + 1) /\ i \in 1..(Len(c) + 1) /\ i + 1 \in i..(Len(c) + 1) /\ i \in i..(Len(q) + 1)
    BY <1>1, <1>5, <1>7
  <1>10. Sound(h - 1) \subseteq S
    BY DEF Sound, S
  \* One child in the place of another.
  <1>11. CASE Whole(new, h - 1, K, MinKeys)
    <2>1. PICK m \in Sound(h - 1) : /\ new = Inner(h - 1 + 1, <<>>, <<m>>)
                                    /\ Len(m.keys) \in MinKeys..MaxKeys /\ KeysIn(m) \subseteq K
      BY <1>11 DEF Whole
    <2> DEFINE d == SubSeq(c, 1, i - 1) \o <<m>> \o SubSeq(c, i + 1, Len(c))
               e == SubSeq(q, 1, i - 1) \o <<>> \o SubSeq(q, i, Len(q))
    <2>2. new.keys = <<>> /\ new.kids = <<m>>
      BY <2>1 DEF Inner
    <2>3. p = Inner(h, e, d)
      BY <1>6, <2>2
    <2>4. e = q
      BY <1>1, <1>9, RejoinSeq
    <2>5. /\ d \in Seq(S) /\ Len(d) = Len(c)
          /\ \A j \in 1..(i - 1) : d[j] = c[j]
          /\ d[i] = m
          /\ \A j \in (i + 1)..Len(c) : d[j] = c[j]
      <3> DEFINE t == <<m>>
      <3>1. t \in Seq(S) /\ Len(t) = 1 /\ t[1] = m
        BY <1>10
      <3>2. d = SubSeq(c, 1, i - 1) \o t \o SubSeq(c, i + 1, Len(c))
        OBVIOUS
      <3> HIDE DEF d, t
      <3>3. /\ d \in Seq(S) /\ Len(d) = Len(c) + Len(t) - 1
            /\ \A j \in 1..(i - 1) : d[j] = c[j]
            /\ \A j \in 1..Len(t) : d[i - 1 + j] = t[j]
            /\ \A j \in (i + 1)..Len(c) : d[j + Len(t) - 1] = c[j]
        <4>1. c \in Seq(S) /\ i \in 1..Len(c) /\ t \in Seq(S)
          BY <1>1, <1>5, <3>1
        <4> DEFINE z == SubSeq(c, 1, i - 1) \o t \o SubSeq(c, i + 1, Len(c))
        <4>2. /\ z \in Seq(S) /\ Len(z) = Len(c) + Len(t) - 1
              /\ \A j \in 1..(i - 1) : z[j] = c[j]
              /\ \A j \in 1..Len(t) : z[i - 1 + j] = t[j]
              /\ \A j \in (i + 1)..Len(c) : z[j + Len(t) - 1] = c[j]
          BY <4>1, SpliceSeq, ZenonT(60)
        <4> QED
          BY <3>2, <4>2
      <3>4. 1 \in 1..Len(t) /\ i - 1 + 1 = i /\ Len(c) + Len(t) - 1 = Len(c)
            /\ \A j \in (i + 1)..Len(c) : j + Len(t) - 1 = j
        BY <1>1, <1>7, <1>9, <3>1
      <3> QED
        BY <3>1, <3>3, <3>4
    <2> HIDE DEF d, e
    <2>6. ASSUME NEW j \in 1..Len(d)
          PROVE  /\ d[j] \in Sound(h - 1) /\ Filled(d[j]) /\ KeysIn(d[j]) \subseteq KeysIn(n) \cup {k}
                 /\ j > 1 => AllFrom(d[j], q[j - 1])
                 /\ j <= Len(q) => AllUpTo(d[j], q[j])
      <3>1. CASE j = i
        <4>1. d[j] = m /\ Filled(m)
          BY <2>1, <2>5, <3>1 DEF Filled
        <4> QED
          BY <1>8, <2>1, <3>1, <4>1 DEF AllFrom, AllUpTo
      <3>2. CASE j # i
        <4>1. d[j] = c[j] /\ j \in 1..Len(c)
          BY <1>1, <1>7, <1>9, <2>5, <3>2
        <4> QED
          BY <1>2, <4>1
      <3> QED
        BY <3>1, <3>2
    <2>7. Inner(h, q, d) \in Sound(h)
      <3>1. d \in Seq(Nodes[h - 1]) /\ Len(d) = Len(q) + 1
        BY <1>1, <2>5 DEF S
      <3> QED
        BY <1>1, <2>6, <3>1, InnerSound
    <2>8. p \in Sound(h) /\ p.keys = q /\ p.kids = d
      BY <2>3, <2>4, <2>7 DEF Inner
    <2>9. \A x : x \in KeysIn(p) <=> \/ \E j \in 1..Len(q) : x = q[j]
                                     \/ \E j \in 1..Len(d) : x \in KeysIn(d[j])
      BY <2>8, SoundIsNode, KeysInInner
    <2>10. KeysIn(p) \subseteq KeysIn(n) \cup {k}
      BY <1>3, <2>6, <2>9
    <2>11. Len(p.keys) \in Len(q)..(Len(q) + 1)
      BY <1>7, <2>8
    <2> QED
      BY <2>8, <2>10, <2>11 DEF p, q
  \* Two children in the place of one.
  <1>12. CASE Halved(new, h - 1, K)
    <2>1. PICK a \in Sound(h - 1), b \in Sound(h - 1), s \in K :
            /\ new = Inner(h - 1 + 1, <<s>>, <<a, b>>)
            /\ Filled(a) /\ Filled(b) /\ KeysIn(a) \subseteq K /\ KeysIn(b) \subseteq K
            /\ AllUpTo(a, s) /\ AllFrom(b, s)
      BY <1>12 DEF Halved
    <2> DEFINE d == SubSeq(c, 1, i - 1) \o <<a, b>> \o SubSeq(c, i + 1, Len(c))
               e == InsertAt(q, i, s)
    <2>2. new.keys = <<s>> /\ new.kids = <<a, b>>
      BY <2>1 DEF Inner
    <2>3. p = Inner(h, e, d)
      BY <1>6, <2>2 DEF InsertAt
    <2>4. s \in Keys /\ s \in Nat
      <3>1. KeysIn(n) \subseteq Keys
        BY <1>1, KeysInType
      <3> QED
        BY <1>8, <3>1
    <2>5. /\ e \in Seq(Keys) /\ Len(e) = Len(q) + 1
          /\ \A j \in 1..(Len(q) + 1) : e[j] = IF j < i THEN q[j] ELSE IF j = i THEN s ELSE q[j - 1]
      BY <1>1, <1>9, <2>4, InsertSeq
    <2>6. Sorted(e)
      BY <1>1, <1>8, <1>9, <2>4, InsertSorted
    <2>7. /\ d \in Seq(S) /\ Len(d) = Len(c) + 1
          /\ \A j \in 1..(i - 1) : d[j] = c[j]
          /\ d[i] = a /\ d[i + 1] = b
          /\ \A j \in (i + 2)..(Len(c) + 1) : d[j] = c[j - 1]
      <3> DEFINE t == <<a, b>>
      <3>1. t \in Seq(S) /\ Len(t) = 2 /\ t[1] = a /\ t[2] = b
        BY <1>10
      <3>2. d = SubSeq(c, 1, i - 1) \o t \o SubSeq(c, i + 1, Len(c))
        OBVIOUS
      <3> HIDE DEF d, t
      <3>3. /\ d \in Seq(S) /\ Len(d) = Len(c) + Len(t) - 1
            /\ \A j \in 1..(i - 1) : d[j] = c[j]
            /\ \A j \in 1..Len(t) : d[i - 1 + j] = t[j]
            /\ \A j \in (i + 1)..Len(c) : d[j + Len(t) - 1] = c[j]
        <4>1. c \in Seq(S) /\ i \in 1..Len(c) /\ t \in Seq(S)
          BY <1>1, <1>5, <3>1
        <4> DEFINE z == SubSeq(c, 1, i - 1) \o t \o SubSeq(c, i + 1, Len(c))
        <4>2. /\ z \in Seq(S) /\ Len(z) = Len(c) + Len(t) - 1
              /\ \A j \in 1..(i - 1) : z[j] = c[j]
              /\ \A j \in 1..Len(t) : z[i - 1 + j] = t[j]
              /\ \A j \in (i + 1)..Len(c) : z[j + Len(t) - 1] = c[j]
          BY <4>1, SpliceSeq, ZenonT(60)
        <4> QED
          BY <3>2, <4>2
      <3>4. /\ 1 \in 1..Len(t) /\ 2 \in 1..Len(t) /\ i - 1 + 1 = i /\ i - 1 + 2 = i + 1
            /\ Len(c) + Len(t) - 1 = Len(c) + 1
        BY <1>1, <1>7, <1>9, <3>1
      <3>5. ASSUME NEW j \in (i + 2)..(Len(c) + 1) PROVE d[j] = c[j - 1]
        <4>1. Len(c) \in Nat
          BY <1>1, <1>7
        <4>2. (j - 1) + Len(t) - 1 = j /\ j - 1 \in (i + 1)..Len(c)
          BY <1>9, <3>1, <4>1
        <4>3. d[(j - 1) + Len(t) - 1] = c[j - 1]
          BY <3>3, <4>2
        <4> QED
          BY <4>2, <4>3
      <3> QED
        BY <3>1, <3>3, <3>4, <3>5
    <2> HIDE DEF d, e
    <2>8. Len(d) = Len(q) + 2 /\ Len(c) = Len(q) + 1 /\ Len(d) = Len(e) + 1
      BY <1>1, <1>7, <2>5, <2>7
    <2>9. ASSUME NEW j \in 1..Len(d)
          PROVE  /\ d[j] \in Sound(h - 1) /\ Filled(d[j]) /\ KeysIn(d[j]) \subseteq KeysIn(n) \cup {k}
                 /\ j > 1 => AllFrom(d[j], e[j - 1])
                 /\ j <= Len(e) => AllUpTo(d[j], e[j])
      <3>1. CASE j < i
        <4>1. d[j] = c[j] /\ j \in 1..Len(c)
          BY <1>7, <1>9, <2>7, <2>8, <3>1, SMTT(60)
        <4>2. j > 1 => e[j - 1] = q[j - 1]
          <5>1. ASSUME j > 1 PROVE j - 1 \in 1..(Len(q) + 1) /\ j - 1 < i
            BY <1>7, <1>9, <2>8, <3>1, <5>1
          <5> QED
            BY <2>5, <5>1
        <4>3. e[j] = q[j] /\ j <= Len(q)
          BY <1>7, <1>9, <2>5, <2>8, <3>1
        <4> QED
          BY <1>2, <4>1, <4>2, <4>3
      <3>2. CASE j = i
        <4>1. d[j] = a
          BY <2>7, <3>2
        <4>2. j > 1 => e[j - 1] = q[j - 1]
          <5>1. ASSUME j > 1 PROVE j - 1 \in 1..(Len(q) + 1) /\ j - 1 < i
            BY <1>7, <1>9, <2>8, <3>2, <5>1
          <5> QED
            BY <2>5, <5>1
        <4>3. e[j] = s
          BY <1>9, <2>5, <3>2
        <4> QED
          BY <1>8, <2>1, <3>2, <4>1, <4>2, <4>3 DEF AllFrom
      <3>3. CASE j = i + 1
        <4>1. d[j] = b
          BY <2>7, <3>3
        <4>2. e[j - 1] = s
          <5>1. j - 1 = i
            BY <1>9, <3>3
          <5> QED
            BY <1>9, <2>5, <5>1
        <4>3. j <= Len(e) => e[j] = q[i] /\ i <= Len(q)
          <5>1. ASSUME j <= Len(e)
                PROVE  j \in 1..(Len(q) + 1) /\ ~(j < i) /\ j # i /\ j - 1 = i /\ i <= Len(q)
            BY <1>7, <1>9, <2>5, <3>3, <5>1
          <5> QED
            BY <2>5, <5>1
        <4> QED
          BY <1>8, <2>1, <4>1, <4>2, <4>3 DEF AllUpTo
      <3>4. CASE j > i + 1
        <4>1. j \in (i + 2)..(Len(c) + 1) /\ j - 1 \in 1..Len(c) /\ j - 1 > 1
          BY <1>7, <1>9, <2>7, <2>8, <3>4
        <4>2. d[j] = c[j - 1]
          BY <2>7, <4>1
        <4>3. e[j - 1] = q[(j - 1) - 1]
          <5>1. j - 1 \in 1..(Len(q) + 1) /\ ~(j - 1 < i) /\ j - 1 # i
            BY <1>7, <1>9, <2>8, <3>4
          <5> QED
            BY <2>5, <5>1
        <4>4. j <= Len(e) => e[j] = q[j - 1] /\ j - 1 <= Len(q)
          <5>1. ASSUME j <= Len(e)
                PROVE  j \in 1..(Len(q) + 1) /\ ~(j < i) /\ j # i /\ j - 1 <= Len(q)
            BY <1>7, <1>9, <2>5, <3>4, <5>1
          <5> QED
            BY <2>5, <5>1
        <4> QED
          BY <1>2, <4>1, <4>2, <4>3, <4>4
      <3>5. j < i \/ j = i \/ j = i + 1 \/ j > i + 1
        BY <1>7, <1>9, <2>8
      <3> QED
        BY <3>1, <3>2, <3>3, <3>4, <3>5
    <2>10. Inner(h, e, d) \in Sound(h)
      <3>1. d \in Seq(Nodes[h - 1])
        BY <2>7 DEF S
      <3> QED
        BY <2>5, <2>6, <2>8, <2>9, <3>1, InnerSound
    <2>11. p \in Sound(h) /\ p.keys = e /\ p.kids = d
      BY <2>3, <2>10 DEF Inner
    <2>12. \A x : x \in KeysIn(p) <=> \/ \E j \in 1..Len(e) : x = e[j]
                                      \/ \E j \in 1..Len(d) : x \in KeysIn(d[j])
      BY <2>11, SoundIsNode, KeysInInner
    <2>13. \A j \in 1..Len(e) : e[j] \in KeysIn(n) \cup {k}
      <3>1. ASSUME NEW j \in 1..Len(e) PROVE e[j] \in KeysIn(n) \cup {k}
        <4>1. j \in 1..(Len(q) + 1)
          BY <2>5
        <4>2. CASE j < i
          <5>1. j \in 1..Len(q) /\ e[j] = q[j]
            BY <1>7, <1>9, <2>5, <4>1, <4>2
          <5> QED
            BY <1>3, <5>1
        <4>3. CASE j = i
          BY <1>8, <2>1, <2>5, <4>1, <4>3
        <4>4. CASE j > i
          <5>1. j - 1 \in 1..Len(q) /\ ~(j < i) /\ j # i
            BY <1>7, <1>9, <4>1, <4>4
          <5>2. e[j] = q[j - 1]
            BY <2>5, <4>1, <5>1
          <5> QED
            BY <1>3, <5>1, <5>2
        <4>5. j < i \/ j = i \/ j > i
          BY <1>9, <4>1
        <4> QED
          BY <4>2, <4>3, <4>4, <4>5
      <3> QED
        BY <3>1
    <2>14. KeysIn(p) \subseteq KeysIn(n) \cup {k}
      BY <2>9, <2>12, <2>13
    <2>15. Len(p.keys) \in Len(q)..(Len(q) + 1)
      BY <1>7, <2>5, <2>11
    <2> QED
      BY <2>11, <2>14, <2>15 DEF p, q
  <1> QED
    BY <1>4, <1>11, <1>12

\* What putting k in a node n of height h gives.
Becomes(R, h, n, k) ==
    \/ R = Panicked
    \/ Whole(R, h, KeysIn(n) \cup {k}, Len(n.keys))
    \/ Halved(R, h, KeysIn(n) \cup {k})

LEMMA BecomesMore ==
    ASSUME NEW R, NEW h \in Nat, NEW K, NEW L, K \subseteq L, NEW a \in Nat, NEW b \in Nat, b <= a
    PROVE  /\ Whole(R, h, K, a) => Whole(R, h, L, b)
           /\ Halved(R, h, K) => Halved(R, h, L)
  <1>1. ASSUME Whole(R, h, K, a) PROVE Whole(R, h, L, b)
    <2>1. PICK n \in Sound(h) : /\ R = Inner(h + 1, <<>>, <<n>>)
                                /\ Len(n.keys) \in a..MaxKeys /\ KeysIn(n) \subseteq K
      BY <1>1 DEF Whole
    <2>2. Len(n.keys) \in b..MaxKeys
      BY <2>1, OrderFacts
    <2>3. KeysIn(n) \subseteq L
      BY <2>1
    <2> QED
      BY <2>1, <2>2, <2>3 DEF Whole
  <1>2. ASSUME Halved(R, h, K) PROVE Halved(R, h, L)
    <2>1. PICK a1 \in Sound(h), b1 \in Sound(h), s \in K :
            /\ R = Inner(h + 1, <<s>>, <<a1, b1>>)
            /\ Filled(a1) /\ Filled(b1) /\ KeysIn(a1) \subseteq K /\ KeysIn(b1) \subseteq K
            /\ AllUpTo(a1, s) /\ AllFrom(b1, s)
      BY <1>2 DEF Halved
    <2>2. KeysIn(a1) \subseteq L /\ KeysIn(b1) \subseteq L /\ s \in L
      BY <2>1
    <2> QED
      BY <2>1, <2>2 DEF Halved
  <1> QED
    BY <1>1, <1>2

\* A node with at most one key more, after it was split.
LEMMA SplitOfPut ==
    ASSUME NEW h \in Nat, NEW n \in Sound(h), Len(n.keys) <= MaxKeys, NEW k \in Keys,
           NEW p \in Sound(h), Len(p.keys) \in Len(n.keys)..(Len(n.keys) + 1),
           KeysIn(p) \subseteq KeysIn(n) \cup {k}
    PROVE  Becomes(Split(p), h, n, k)
  <1>1. Len(n.keys) \in Nat /\ Len(p.keys) \in Nat
    BY SoundIsNode, NodeForm
  <1>2. Len(p.keys) <= Order /\ Len(n.keys) <= Len(p.keys)
    BY <1>1, OrderFacts
  <1> DEFINE R == Split(p)
  <1>3. R = Panicked \/ Whole(R, h, KeysIn(p), Len(p.keys)) \/ Halved(R, h, KeysIn(p))
    BY <1>2, SplitBecomes
  <1> HIDE DEF R
  <1>4. Becomes(R, h, n, k)
    BY <1>1, <1>2, <1>3, BecomesMore DEF Becomes
  <1> QED
    BY <1>4 DEF R

LEMMA PutAtSound ==
    ASSUME NEW h \in Nat, NEW n \in Sound(h), Len(n.keys) <= MaxKeys, NEW k \in Keys, NEW v \in Values,
           NEW f,
           h # 0 => \A c \in Sound(h - 1) : Filled(c) => Becomes(f[h - 1][c], h - 1, c, k)
    PROVE  Becomes(PutAt(k, v, f, h, n), h, n, k)
  <1> DEFINE i == SearchStrings(n.keys, k)
             new == f[h - 1][n.kids[i]]
             p == PutInLeaf(n, k, v)
  <1>1. CASE h = 0
    <2>1. PutAt(k, v, f, h, n) = Split(p)
      BY <1>1 DEF PutAt
    <2>2. p = Panicked \/ /\ p \in Sound(0) /\ Len(p.keys) \in Len(n.keys)..(Len(n.keys) + 1)
                          /\ KeysIn(p) \subseteq KeysIn(n) \cup {k}
      BY <1>1, PutInLeafSound
    <2> HIDE DEF p
    <2>3. CASE p = Panicked
      BY <2>1, <2>3 DEF Split, Becomes
    <2>4. CASE p # Panicked
      BY <1>1, <2>1, <2>2, <2>4, SplitOfPut
    <2> QED
      BY <2>3, <2>4
  <1>2. CASE h # 0 /\ new = Panicked
    BY <1>2 DEF PutAt, Becomes
  <1>3. CASE h # 0 /\ new # Panicked
    <2> DEFINE q == Spliced(n, i, new)
               K == KeysIn(n.kids[i]) \cup {k}
    <2>1. PutAt(k, v, f, h, n) = Split(q)
      BY <1>3 DEF PutAt
    <2>2. h \in Nat \ {0} /\ h - 1 \in Nat
      BY <1>3
    <2>3. /\ i \in 1..Len(n.kids)
          /\ i > 1 => n.keys[i - 1] <= k
          /\ i <= Len(n.keys) => k <= n.keys[i]
      <3>1. /\ i \in 1..(Len(n.keys) + 1) /\ k \in Nat
            /\ i > 1 => n.keys[i - 1] < k
            /\ i <= Len(n.keys) => k <= n.keys[i]
        BY SearchInNode
      <3>2. n \in Nodes[h] /\ Len(n.kids) = Len(n.keys) + 1
        BY <2>2, SoundIsNode, InnerForm
      <3> HIDE DEF i
      <3>3. Len(n.keys) \in Nat /\ \A j \in 1..Len(n.keys) : n.keys[j] \in Nat
        BY <3>2, NodeForm
      <3>4. i > 1 => n.keys[i - 1] <= k
        <4>1. ASSUME i > 1 PROVE i - 1 \in 1..Len(n.keys)
          BY <3>1, <3>3, <4>1
        <4> QED
          BY <3>1, <3>3, <4>1, SMTT(60)
      <3> QED
        BY <3>1, <3>2, <3>4
    <2> HIDE DEF i
    <2>4. n.kids[i] \in Sound(h - 1) /\ Filled(n.kids[i])
      BY <2>2, <2>3, KidsAround
    <2>5. Becomes(new, h - 1, n.kids[i], k)
      BY <1>3, <2>4
    <2> HIDE DEF new
    <2>6. Whole(new, h - 1, K, Len(n.kids[i].keys)) \/ Halved(new, h - 1, K)
      BY <1>3, <2>5 DEF Becomes
    <2>7. Len(n.kids[i].keys) \in Nat /\ MinKeys \in Nat /\ MinKeys <= Len(n.kids[i].keys)
      BY <2>4, OrderFacts, SMTT(60) DEF Filled
    <2> DEFINE len == Len(n.kids[i].keys)
    <2>8. Whole(new, h - 1, K, MinKeys) \/ Halved(new, h - 1, K)
      <3>1. K \subseteq K
        OBVIOUS
      <3> HIDE DEF K, len
      <3>2. len \in Nat /\ MinKeys \in Nat /\ MinKeys <= len
        BY <2>7 DEF len
      <3>3. Whole(new, h - 1, K, len) \/ Halved(new, h - 1, K)
        BY <2>6 DEF len
      <3> QED
        BY <2>2, <3>1, <3>2, <3>3, BecomesMore
    <2>9. /\ q \in Sound(h) /\ Len(q.keys) \in Len(n.keys)..(Len(n.keys) + 1)
          /\ KeysIn(q) \subseteq KeysIn(n) \cup {k}
      BY <2>2, <2>3, <2>8, SplicedSound
    <2> HIDE DEF q
    <2> QED
      BY <2>1, <2>9, SplitOfPut
  <1> QED
    BY <1>1, <1>2, <1>3

LEMMA PutSound ==
    ASSUME NEW k \in Keys, NEW v \in Values
    PROVE  \A h \in Nat : \A n \in Sound(h) :
               Len(n.keys) <= MaxKeys => Becomes(RecursivePut(k, v)[h][n], h, n, k)
  <1> DEFINE f == RecursivePut(k, v)
             Right(h) == \A n \in Sound(h) : Len(n.keys) <= MaxKeys => Becomes(f[h][n], h, n, k)
             T == {h \in Nat : Right(h)}
  <1>1. \A h \in Nat : f[h] = PutStep(k, v, f, h)
    BY PutDef
  <1>2. \A h \in Nat : \A n \in Sound(h) : f[h][n] = PutAt(k, v, f, h, n)
    <2> HIDE DEF f
    <2>1. \A h \in Nat : \A n \in Sound(h) : n \in Nodes[h]
      BY SoundIsNode
    <2> QED
      BY <1>1, <2>1, Zenon DEF PutStep
  <1> HIDE DEF f
  <1>3. 0 \in T
    <2>1. ASSUME NEW n \in Sound(0), Len(n.keys) <= MaxKeys PROVE Becomes(f[0][n], 0, n, k)
      <3>1. Becomes(PutAt(k, v, f, 0, n), 0, n, k)
        BY <2>1, PutAtSound
      <3> QED
        BY <1>2, <3>1
    <2> QED
      BY <2>1
  <1>4. ASSUME NEW g \in Nat, g \in T PROVE g + 1 \in T
    <2> DEFINE h == g + 1
    <2>1. h \in Nat /\ h - 1 = g
      OBVIOUS
    <2> HIDE DEF h
    <2>2. \A c \in Sound(h - 1) : Filled(c) => Becomes(f[h - 1][c], h - 1, c, k)
      <3>1. ASSUME NEW c \in Sound(g), Filled(c) PROVE Len(c.keys) <= MaxKeys
        BY <3>1, OrderFacts DEF Filled
      <3> QED
        BY <1>4, <2>1, <3>1
    <2>3. ASSUME NEW n \in Sound(h), Len(n.keys) <= MaxKeys PROVE Becomes(f[h][n], h, n, k)
      <3>1. Becomes(PutAt(k, v, f, h, n), h, n, k)
        BY <2>1, <2>2, <2>3, PutAtSound
      <3> QED
        BY <1>2, <2>1, <3>1
    <2>4. h \in T
      BY <2>1, <2>3
    <2> QED
      BY <2>4 DEF h
  <1>5. \A h \in Nat : h \in T
    <2> HIDE DEF T
    <2> QED
      BY <1>3, <1>4, SetInduction
  <1> QED
    BY <1>5 DEF f

-----------------------------------------------------------------------------
(* The root                                                                  *)

\* A sound tree: the root may have few keys, but one if it has children.
Rooted(t) ==
    /\ t.height \in Nat /\ t \in Sound(t.height) /\ Len(t.keys) <= MaxKeys
    /\ t.height > 0 => Len(t.keys) >= 1

LEMMA HalvedRoot ==
    ASSUME NEW R, NEW h \in Nat, NEW K \in SUBSET Keys, Halved(R, h, K)
    PROVE  Rooted(R) /\ R.keys # <<>>
  <1>1. PICK a \in Sound(h), b \in Sound(h), s \in K :
            /\ R = Inner(h + 1, <<s>>, <<a, b>>)
            /\ Filled(a) /\ Filled(b) /\ KeysIn(a) \subseteq K /\ KeysIn(b) \subseteq K
            /\ AllUpTo(a, s) /\ AllFrom(b, s)
    BY DEF Halved
  <1> DEFINE q == <<s>>
             c == <<a, b>>
             g == h + 1
  <1>2. g \in Nat \ {0} /\ g - 1 = h
    OBVIOUS
  <1>3. q \in Seq(Keys) /\ Len(q) = 1 /\ q[1] = s
    OBVIOUS
  <1>4. c \in Seq(Nodes[h]) /\ Len(c) = 2 /\ c[1] = a /\ c[2] = b
    <2>1. a \in Nodes[h] /\ b \in Nodes[h]
      BY SoundIsNode
    <2> QED
      BY <2>1
  <1>5. Sorted(q)
    BY <1>3 DEF Sorted
  <1>6. \A i \in 1..Len(c) : c[i] \in Sound(h) /\ Filled(c[i])
    <2>1. \A i \in 1..2 : i = 1 \/ i = 2
      OBVIOUS
    <2> HIDE DEF c
    <2> QED
      BY <1>1, <1>4, <2>1
  <1>7. \A i \in 1..Len(c) : /\ i > 1 => AllFrom(c[i], q[i - 1])
                             /\ i <= Len(q) => AllUpTo(c[i], q[i])
    <2>1. \A i \in 1..2 : i = 1 \/ i = 2
      OBVIOUS
    <2>2. 2 - 1 = 1 /\ ~(1 > 1) /\ ~(2 <= 1)
      OBVIOUS
    <2> HIDE DEF c, q
    <2> QED
      BY <1>1, <1>3, <1>4, <2>1, <2>2
  <1>8. R = Inner(g, q, c)
    BY <1>1
  <1> HIDE DEF g, q, c
  <1>9. Inner(g, q, c) \in Sound(g)
    <2>1. Len(c) = Len(q) + 1
      BY <1>3, <1>4
    <2> QED
      BY <1>2, <1>3, <1>4, <1>5, <1>6, <1>7, <2>1, InnerSound
  <1>10. R.height = g /\ R.keys = q
    BY <1>8 DEF Inner
  <1>11. q # <<>>
    <2>1. Len(q) # Len(<<>>)
      BY <1>3
    <2> QED
      BY <2>1, Zenon
  <1>12. Len(R.keys) <= MaxKeys /\ Len(R.keys) >= 1
    <2>1. Len(R.keys) = 1
      BY <1>3, <1>10, Zenon
    <2> QED
      BY <2>1, OrderFacts
  <1>13. R \in Sound(R.height) /\ R.height \in Nat
    BY <1>2, <1>8, <1>9, <1>10
  <1> QED
    BY <1>10, <1>11, <1>12, <1>13 DEF Rooted

\* Put keeps a tree sound, or panics.
LEMMA PutRooted ==
    ASSUME NEW t, Rooted(t), NEW k \in Keys, NEW v \in Values
    PROVE  Put(t, k, v) = Panicked \/ Rooted(Put(t, k, v))
  <1> DEFINE h == t.height
             new == RecursivePut(k, v)[h][t]
             K == KeysIn(t) \cup {k}
  <1>1. h \in Nat /\ t \in Sound(h) /\ Len(t.keys) <= MaxKeys /\ (h > 0 => Len(t.keys) >= 1)
    BY DEF Rooted
  <1>2. Put(t, k, v) = IF new # Panicked /\ new.keys = <<>> THEN new.kids[1] ELSE new
    BY DEF Put
  <1>3. Becomes(new, h, t, k)
    BY <1>1, PutSound
  <1>4. K \in SUBSET Keys /\ Len(t.keys) \in Nat
    <2>1. t \in Nodes[h]
      BY <1>1, SoundIsNode
    <2> QED
      BY <1>1, <2>1, KeysInType, NodeForm
  <1> HIDE DEF h, new, K
  <1>5. CASE new = Panicked
    BY <1>2, <1>5
  <1>6. CASE Whole(new, h, K, Len(t.keys))
    <2>1. PICK n \in Sound(h) : /\ new = Inner(h + 1, <<>>, <<n>>)
                                /\ Len(n.keys) \in Len(t.keys)..MaxKeys /\ KeysIn(n) \subseteq K
      BY <1>6 DEF Whole
    <2>2. new.keys = <<>> /\ new.kids = <<n>> /\ new.kids[1] = n
      BY <2>1 DEF Inner
    <2>3. n.height = h
      BY <1>1, SoundIsNode, NodeForm
    <2>4. Rooted(n)
      BY <1>1, <1>4, <2>1, <2>3, OrderFacts DEF Rooted
    <2> QED
      BY <1>2, <2>2, <2>4
  <1>7. CASE Halved(new, h, K)
    BY <1>1, <1>2, <1>4, <1>7, HalvedRoot
  <1> QED
    BY <1>3, <1>5, <1>6, <1>7 DEF Becomes, K

-----------------------------------------------------------------------------
(* Delete                                                                    *)

LEMMA WithoutIn ==
    ASSUME NEW S, NEW s \in Seq(S), NEW v
    PROVE  Without(s, v) \in Seq(S)
  <1> DEFINE D == 0..Len(s)
             V == Seq(S)
             Of(f, i) == IF i = 0 THEN <<>> ELSE IF s[i] = v THEN f[i - 1] ELSE Append(f[i - 1], s[i])
             H == [p \in [D -> V] \X D |-> Of(p[1], p[2])]
             rank == [i \in D |-> i]
             Is(f) == f = [i \in D |-> Of(f, i)]
             r == CHOOSE f : Is(f)
  <1>1. Len(s) \in Nat /\ D \subseteq Nat /\ \A i \in D : i # 0 => i - 1 \in D /\ s[i] \in S
    OBVIOUS
  <1>2. <<>> \in V /\ \A t \in V : \A e \in S : Append(t, e) \in V
    OBVIOUS
  <1> HIDE DEF V
  <1>3. \A f \in [D -> V] : \A i \in D : H[<<f, i>>] = Of(f, i)
    OBVIOUS
  <1>4. rank \in [D -> Nat] /\ \A i \in D : rank[i] = i
    BY <1>1
  <1>5. \A f \in [D -> V] : \A i \in D : Of(f, i) \in V
    BY <1>1, <1>2
  <1>6. ASSUME NEW i \in D, NEW f \in [D -> V], NEW g \in [D -> V],
               \A j \in D : j < i => f[j] = g[j]
        PROVE  Of(f, i) = Of(g, i)
    <2>1. i # 0 => f[i - 1] = g[i - 1]
      BY <1>1, <1>6
    <2> QED
      BY <2>1
  <1> HIDE DEF D, H, rank, Of
  <1>7. LooksBelow(H, D, V, rank)
    <2>1. ASSUME NEW i \in D, NEW f \in [D -> V], NEW g \in [D -> V],
                 \A j \in D : rank[j] < rank[i] => f[j] = g[j]
          PROVE  H[<<f, i>>] = H[<<g, i>>]
      <3>1. \A j \in D : j < i => f[j] = g[j]
        BY <1>4, <2>1
      <3>2. Of(f, i) = Of(g, i)
        BY <1>6, <3>1
      <3> QED
        BY <1>3, <3>2
    <2> QED
      BY <2>1 DEF LooksBelow
  <1>8. StaysIn(H, D, V)
    BY <1>3, <1>5 DEF StaysIn
  <1>9. PICK f \in [D -> V] : Solves(f, H, D)
    BY <1>2, <1>4, <1>7, <1>8, RecursionExists
  <1>10. Is(f)
    <2>1. \A i \in D : f[i] = Of(f, i)
      BY <1>3, <1>9 DEF Solves
    <2> QED
      BY <2>1
  <1>11. Is(r)
    <2> HIDE DEF Is
    <2> QED
      BY <1>10
  <1>12. Without(s, v) = r[Len(s)]
    BY DEF Without, D, Of
  <1> HIDE DEF r
  <1> DEFINE T == {i \in Nat : i \in D => r[i] \in V}
  <1>13. 0 \in T
    BY <1>2, <1>11 DEF Of
  <1>14. ASSUME NEW i \in Nat, i \in T PROVE i + 1 \in T
    <2>1. ASSUME i + 1 \in D PROVE r[i + 1] \in V
      <3>1. (i + 1) - 1 = i /\ i + 1 # 0
        OBVIOUS
      <3>2. i \in D /\ s[i + 1] \in S
        BY <1>1, <2>1, <3>1
      <3>3. r[i] \in V
        BY <1>14, <3>2
      <3>4. r[i + 1] = Of(r, i + 1)
        BY <1>11, <2>1
      <3> QED
        BY <1>2, <3>1, <3>2, <3>3, <3>4 DEF Of
    <2> QED
      BY <2>1
  <1>15. \A i \in Nat : i \in T
    <2> HIDE DEF T
    <2> QED
      BY <1>13, <1>14, SetInduction
  <1> QED
    BY <1>1, <1>12, <1>15 DEF D, V

LEMMA RemoveSorted ==
    ASSUME NEW s \in Seq(Nat), Sorted(s), NEW i \in 1..Len(s)
    PROVE  Sorted(RemoveAt(s, i))
  <1> DEFINE t == RemoveAt(s, i)
  <1>1. /\ t \in Seq(Nat) /\ Len(t) = Len(s) - 1
        /\ \A j \in 1..(Len(s) - 1) : t[j] = IF j < i THEN s[j] ELSE s[j + 1]
    BY RemoveSeq
  <1>2. /\ Len(s) \in Nat /\ \A j \in 1..Len(s) : s[j] \in Nat
        /\ \A j, m \in 1..Len(s) : j <= m => s[j] <= s[m]
    BY SortedMeans
  <1> HIDE DEF t
  <1> DEFINE at(j) == IF j < i THEN j ELSE j + 1
  <1>3. \A j \in 1..Len(t) : at(j) \in 1..Len(s) /\ t[j] = s[at(j)]
    BY <1>1, <1>2, SMTT(60)
  <1>4. \A j, m \in 1..Len(t) : j <= m => at(j) <= at(m)
    BY <1>1, <1>2, SMTT(60)
  <1> HIDE DEF at
  <1>5. \A j, m \in 1..Len(t) : j <= m => t[j] <= t[m]
    BY <1>2, <1>3, <1>4
  <1>6. Sorted(t)
    BY <1>1, <1>5, SortedMeans
  <1> QED
    BY <1>6 DEF t

LEMMA DeleteInLeafSound ==
    ASSUME NEW n \in Sound(0), NEW k \in Keys, NEW v \in Values
    PROVE  LET p == DeleteInLeaf(n, k, v)
           IN  p = Panicked \/ /\ p \in Sound(0) /\ Len(p.keys) \in (Len(n.keys) - 1)..Len(n.keys)
                               /\ KeysIn(p) \subseteq KeysIn(n)
  <1> DEFINE s == n.keys
             vs == n.vals
             i == SearchStrings(s, k)
             rest == Without(vs[i], v)
             V == Seq(Values)
  <1>1. /\ n \in Nodes[0] /\ n = Leaf(s, vs) /\ s \in Seq(Keys) /\ s \in Seq(Nat)
        /\ vs \in Seq(V) /\ Sorted(s) /\ Len(s) \in Nat
    BY SoundIsNode, LeafForm, NodeForm
  <1>2. /\ i \in 1..(Len(s) + 1)
        /\ Found(s, k) <=> i <= Len(s) /\ s[i] = k
    BY SearchInNode
  <1>3. \A x : x \in KeysIn(n) <=> \E j \in 1..Len(s) : x = s[j]
    BY <1>1, KeysInLeaf
  <1>4. CASE ~Found(s, k)
    <2>1. DeleteInLeaf(n, k, v) = n
      BY <1>4 DEF DeleteInLeaf
    <2>2. Len(s) \in (Len(s) - 1)..Len(s)
      BY <1>1
    <2> QED
      BY <2>1, <2>2
  <1>5. CASE Found(s, k) /\ i > Len(vs)
    BY <1>5 DEF DeleteInLeaf
  <1>6. CASE Found(s, k) /\ ~(i > Len(vs)) /\ rest = <<>>
    <2> DEFINE t == RemoveAt(s, i)
               w == RemoveAt(vs, i)
               p == Leaf(t, w)
    <2>1. DeleteInLeaf(n, k, v) = p
      BY <1>6 DEF DeleteInLeaf
    <2>2. i \in 1..Len(s) /\ i \in 1..Len(vs)
      BY <1>1, <1>2, <1>6
    <2> HIDE DEF i, s, vs
    <2>3. /\ t \in Seq(Keys) /\ Len(t) = Len(s) - 1
          /\ \A j \in 1..(Len(s) - 1) : t[j] = IF j < i THEN s[j] ELSE s[j + 1]
      BY <1>1, <2>2, RemoveSeq
    <2>4. w \in Seq(V)
      <3> HIDE DEF V
      <3> QED
        BY <1>1, <2>2, RemoveSeq
    <2>5. Sorted(t)
      BY <1>1, <2>2, RemoveSorted
    <2> HIDE DEF t, w
    <2>6. p \in Nodes[0] /\ p.keys = t
      BY <2>3, <2>4, LeafIn DEF Leaf
    <2>7. p \in Sound(0)
      BY <2>5, <2>6, SoundLeaf
    <2>8. \A x : x \in KeysIn(p) <=> \E j \in 1..Len(t) : x = t[j]
      BY <2>6, KeysInLeaf
    <2>9. \A j \in 1..Len(t) : t[j] \in KeysIn(n)
      <3>1. ASSUME NEW j \in 1..Len(t) PROVE t[j] \in KeysIn(n)
        <4>1. j \in 1..(Len(s) - 1) /\ j \in 1..Len(s) /\ j + 1 \in 1..Len(s)
          BY <1>1, <2>3
        <4>2. t[j] = s[j] \/ t[j] = s[j + 1]
          BY <2>3, <4>1
        <4> QED
          BY <1>3, <4>1, <4>2
      <3> QED
        BY <3>1
    <2> HIDE DEF p
    <2>10. KeysIn(p) \subseteq KeysIn(n)
      BY <2>8, <2>9
    <2>11. Len(p.keys) \in (Len(s) - 1)..Len(s)
      BY <1>1, <2>3, <2>6
    <2> QED
      BY <2>1, <2>7, <2>10, <2>11 DEF s
  <1>7. CASE Found(s, k) /\ ~(i > Len(vs)) /\ rest # <<>>
    <2> DEFINE w == [vs EXCEPT ![i] = rest]
               p == Leaf(s, w)
    <2>1. DeleteInLeaf(n, k, v) = [n EXCEPT !.vals[i] = rest]
      BY <1>7 DEF DeleteInLeaf
    <2>2. [n EXCEPT !.vals[i] = rest] = p
      <3> HIDE DEF rest, i, s, vs
      <3>1. [Leaf(s, vs) EXCEPT !.vals[i] = rest] = Leaf(s, [vs EXCEPT ![i] = rest])
        BY DEF Leaf
      <3> QED
        BY <1>1, <3>1
    <2>3. w \in Seq(V)
      <3>1. i \in 1..Len(vs)
        BY <1>1, <1>2, <1>7
      <3>2. vs[i] \in V
        BY <1>1, <3>1
      <3>3. rest \in V
        BY <3>2, WithoutIn
      <3> HIDE DEF V, i, rest
      <3> QED
        BY <1>1, <3>1, <3>3, ChangeSeq
    <2> HIDE DEF w
    <2>4. p \in Nodes[0] /\ p.keys = s
      BY <1>1, <2>3, LeafIn DEF Leaf
    <2>5. \A x : x \in KeysIn(p) <=> x \in KeysIn(n)
      BY <1>3, <2>4, KeysInLeaf
    <2>6. p \in Sound(0)
      BY <1>1, <2>4, SoundLeaf
    <2>7. Len(s) \in (Len(s) - 1)..Len(s)
      BY <1>1
    <2>8. KeysIn(p) \subseteq KeysIn(n)
      BY <2>5
    <2> QED
      BY <2>1, <2>2, <2>4, <2>6, <2>7, <2>8
  <1> QED
    BY <1>4, <1>5, <1>6, <1>7

\* Two sequences with an element between them.
LEMMA BridgeSeq ==
    ASSUME NEW S, NEW a \in Seq(S), NEW s \in S, NEW b \in Seq(S)
    PROVE  LET q == Append(a, s) \o b
           IN  /\ q \in Seq(S) /\ Len(q) = Len(a) + Len(b) + 1
               /\ \A j \in 1..Len(a) : q[j] = a[j]
               /\ q[Len(a) + 1] = s
               /\ \A j \in 1..Len(b) : q[Len(a) + 1 + j] = b[j]
               /\ \A j \in 1..(Len(a) + Len(b) + 1) :
                     q[j] = IF j <= Len(a) THEN a[j] ELSE IF j = Len(a) + 1 THEN s ELSE b[j - Len(a) - 1]
  <1> DEFINE c == Append(a, s)
             q == c \o b
  <1>1. Len(a) \in Nat /\ Len(b) \in Nat
    OBVIOUS
  <1>2. /\ c \in Seq(S) /\ Len(c) = Len(a) + 1 /\ c[Len(a) + 1] = s
        /\ \A j \in 1..Len(a) : c[j] = a[j]
    OBVIOUS
  <1> HIDE DEF c
  <1>3. /\ q \in Seq(S) /\ Len(q) = Len(c) + Len(b)
        /\ \A j \in 1..(Len(c) + Len(b)) : q[j] = IF j <= Len(c) THEN c[j] ELSE b[j - Len(c)]
    BY <1>2, JoinSeq
  <1> HIDE DEF q
  <1>4. Len(q) = Len(a) + Len(b) + 1
    BY <1>1, <1>2, <1>3
  <1>5. ASSUME NEW j \in 1..Len(a) PROVE q[j] = a[j]
    <2>1. j \in 1..(Len(c) + Len(b)) /\ j <= Len(c)
      BY <1>1, <1>2
    <2> QED
      BY <1>2, <1>3, <2>1
  <1>6. q[Len(a) + 1] = s
    <2>1. Len(a) + 1 \in 1..(Len(c) + Len(b)) /\ Len(a) + 1 <= Len(c)
      BY <1>1, <1>2
    <2> QED
      BY <1>2, <1>3, <2>1
  <1>7. ASSUME NEW j \in 1..Len(b) PROVE q[Len(a) + 1 + j] = b[j]
    <2>1. Len(a) + 1 + j \in 1..(Len(c) + Len(b)) /\ ~(Len(a) + 1 + j <= Len(c)) /\ (Len(a) + 1 + j) - Len(c) = j
      BY <1>1, <1>2
    <2> QED
      BY <1>3, <2>1
  <1>8. ASSUME NEW j \in 1..(Len(a) + Len(b) + 1)
        PROVE  q[j] = IF j <= Len(a) THEN a[j] ELSE IF j = Len(a) + 1 THEN s ELSE b[j - Len(a) - 1]
    <2>1. CASE j <= Len(a)
      BY <1>1, <1>5, <2>1
    <2>2. CASE j = Len(a) + 1
      <3>1. ~(j <= Len(a))
        BY <1>1, <2>2
      <3> QED
        BY <1>6, <2>2, <3>1
    <2>3. CASE j > Len(a) + 1
      <3>1. j - Len(a) - 1 \in 1..Len(b) /\ Len(a) + 1 + (j - Len(a) - 1) = j /\ ~(j <= Len(a)) /\ j # Len(a) + 1
        BY <1>1, <2>3
      <3>2. q[j] = b[j - Len(a) - 1]
        BY <1>7, <3>1
      <3> QED
        BY <3>1, <3>2
    <2> QED
      BY <1>1, <2>1, <2>2, <2>3
  <1> QED
    BY <1>3, <1>4, <1>5, <1>6, <1>7, <1>8 DEF q, c

LEMMA BridgeSorted ==
    ASSUME NEW a \in Seq(Nat), NEW s \in Nat, NEW b \in Seq(Nat), Sorted(a), Sorted(b),
           \A j \in 1..Len(a) : a[j] <= s, \A j \in 1..Len(b) : s <= b[j]
    PROVE  Sorted(Append(a, s) \o b)
  <1> DEFINE q == Append(a, s) \o b
             m == Len(a)
  <1>1. /\ q \in Seq(Nat) /\ Len(q) = m + Len(b) + 1
        /\ \A j \in 1..(m + Len(b) + 1) :
              q[j] = IF j <= m THEN a[j] ELSE IF j = m + 1 THEN s ELSE b[j - m - 1]
    BY BridgeSeq
  <1>2. /\ m \in Nat /\ \A j \in 1..m : a[j] \in Nat
        /\ \A i, j \in 1..m : i <= j => a[i] <= a[j]
    BY SortedMeans
  <1>3. /\ Len(b) \in Nat /\ \A j \in 1..Len(b) : b[j] \in Nat
        /\ \A i, j \in 1..Len(b) : i <= j => b[i] <= b[j]
    BY SortedMeans
  <1> HIDE DEF q
  <1>4. \A j \in 1..m : a[j] <= s
    OBVIOUS
  <1> HIDE DEF m
  <1>5. ASSUME NEW i \in 1..Len(q), NEW j \in 1..Len(q), i <= j PROVE q[i] <= q[j]
    <2>0. i \in 1..(m + Len(b) + 1) /\ j \in 1..(m + Len(b) + 1)
      BY <1>1
    <2>1. \A l \in 1..(m + Len(b) + 1) :
             /\ l <= m => l \in 1..m /\ q[l] = a[l]
             /\ l = m + 1 => q[l] = s
             /\ l > m + 1 => l - m - 1 \in 1..Len(b) /\ q[l] = b[l - m - 1]
      <3>1. ASSUME NEW l \in 1..(m + Len(b) + 1), l <= m PROVE l \in 1..m /\ q[l] = a[l]
        BY <1>1, <1>2, <3>1
      <3>2. ASSUME NEW l \in 1..(m + Len(b) + 1), l = m + 1 PROVE q[l] = s
        <4>1. ~(l <= m)
          BY <1>2, <3>2
        <4> QED
          BY <1>1, <3>2, <4>1
      <3>3. ASSUME NEW l \in 1..(m + Len(b) + 1), l > m + 1
            PROVE  l - m - 1 \in 1..Len(b) /\ q[l] = b[l - m - 1]
        <4>1. ~(l <= m) /\ l # m + 1 /\ l - m - 1 \in 1..Len(b)
          BY <1>2, <1>3, <3>3
        <4> QED
          BY <1>1, <4>1
      <3> QED
        BY <3>1, <3>2, <3>3
    <2>2. CASE i <= m /\ j <= m
      BY <1>2, <1>5, <2>0, <2>1, <2>2
    <2>3. CASE i <= m /\ j = m + 1
      BY <1>4, <2>0, <2>1, <2>3
    <2>4. CASE i <= m /\ j > m + 1
      <3>1. i \in 1..m /\ q[i] = a[i] /\ a[i] <= s
        BY <1>4, <2>0, <2>1, <2>4
      <3>2. q[j] = b[j - m - 1] /\ s <= b[j - m - 1] /\ j - m - 1 \in 1..Len(b)
        BY <2>0, <2>1, <2>4
      <3> QED
        BY <1>2, <1>3, <3>1, <3>2, SMTT(60)
    <2>5. CASE i = m + 1 /\ j = m + 1
      BY <2>0, <2>1, <2>5
    <2>6. CASE i = m + 1 /\ j > m + 1
      BY <2>0, <2>1, <2>6
    <2>7. CASE i > m + 1
      <3>1. j > m + 1 /\ i - m - 1 <= j - m - 1
        BY <1>2, <1>5, <2>0, <2>7
      <3>2. i - m - 1 \in 1..Len(b) /\ j - m - 1 \in 1..Len(b) /\ q[i] = b[i - m - 1] /\ q[j] = b[j - m - 1]
        BY <2>0, <2>1, <2>7, <3>1
      <3> QED
        BY <1>3, <3>1, <3>2
    <2>8. \/ i <= m /\ j <= m
          \/ i <= m /\ j = m + 1
          \/ i <= m /\ j > m + 1
          \/ i = m + 1 /\ j = m + 1
          \/ i = m + 1 /\ j > m + 1
          \/ i > m + 1
      BY <1>2, <1>5, <2>0
    <2> QED
      BY <2>2, <2>3, <2>4, <2>5, <2>6, <2>7, <2>8
  <1>6. Sorted(q)
    BY <1>1, <1>5, SortedMeans
  <1> QED
    BY <1>6 DEF q

\* Two nodes as one, with the separator between them.
LEMMA JoinSound ==
    ASSUME NEW g \in Nat, NEW l \in Sound(g), NEW r \in Sound(g), NEW s \in Keys,
           AllUpTo(l, s), AllFrom(r, s)
    PROVE  LET p == Joined(l, s, r)
           IN  /\ p \in Sound(g) /\ Len(p.keys) = Len(l.keys) + Len(r.keys) + 1
               /\ KeysIn(p) \subseteq KeysIn(l) \cup {s} \cup KeysIn(r)
  <1> DEFINE a == l.keys
             b == r.keys
             c == l.kids
             d == r.kids
             q == Append(a, s) \o b
             e == c \o d
             p == Joined(l, s, r)
             X == KeysIn(l) \cup {s} \cup KeysIn(r)
  <1>1. /\ l \in Nodes[g] /\ r \in Nodes[g] /\ Sorted(a) /\ Sorted(b)
        /\ a \in Seq(Keys) /\ a \in Seq(Nat) /\ b \in Seq(Keys) /\ b \in Seq(Nat) /\ s \in Nat
        /\ Len(a) \in Nat /\ Len(b) \in Nat
    BY SoundIsNode, NodeForm, ProllyAssumption
  <1>2. (\A j \in 1..Len(a) : a[j] \in KeysIn(l)) /\ (\A j \in 1..Len(b) : b[j] \in KeysIn(r))
    <2>1. CASE g = 0
      BY <1>1, <2>1, KeysInLeaf
    <2>2. CASE g \in Nat \ {0}
      BY <1>1, <2>2, KeysInInner
    <2> QED
      BY <2>1, <2>2
  <1>3. (\A x \in KeysIn(l) : x <= s) /\ (\A x \in KeysIn(r) : s <= x)
    BY DEF AllUpTo, AllFrom
  <1> HIDE DEF a, b
  <1>4. Sorted(q)
    <2>1. (\A j \in 1..Len(a) : a[j] <= s) /\ (\A j \in 1..Len(b) : s <= b[j])
      BY <1>2, <1>3
    <2> QED
      BY <1>1, <2>1, BridgeSorted
  <1>5. /\ q \in Seq(Keys) /\ Len(q) = Len(a) + Len(b) + 1
        /\ \A j \in 1..Len(a) : q[j] = a[j]
        /\ q[Len(a) + 1] = s
        /\ \A j \in 1..Len(b) : q[Len(a) + 1 + j] = b[j]
        /\ \A j \in 1..(Len(a) + Len(b) + 1) :
              q[j] = IF j <= Len(a) THEN a[j] ELSE IF j = Len(a) + 1 THEN s ELSE b[j - Len(a) - 1]
    BY <1>1, BridgeSeq
  <1>6. \A j \in 1..Len(q) : q[j] \in X
    <2>1. ASSUME NEW j \in 1..Len(q) PROVE q[j] \in X
      <3> HIDE DEF q
      <3>0. j \in 1..(Len(a) + Len(b) + 1)
        BY <1>5
      <3>1. CASE j <= Len(a)
        <4>1. j \in 1..Len(a) /\ q[j] = a[j]
          BY <1>1, <1>5, <3>0, <3>1
        <4> QED
          BY <1>2, <4>1
      <3>2. CASE j = Len(a) + 1
        BY <1>5, <3>2
      <3>3. CASE j > Len(a) + 1
        <4>1. j - Len(a) - 1 \in 1..Len(b) /\ ~(j <= Len(a)) /\ j # Len(a) + 1
          BY <1>1, <3>0, <3>3
        <4>2. q[j] = b[j - Len(a) - 1]
          BY <1>5, <3>0, <4>1
        <4> QED
          BY <1>2, <4>1, <4>2
      <3>4. j <= Len(a) \/ j = Len(a) + 1 \/ j > Len(a) + 1
        BY <1>1, <3>0
      <3> QED
        BY <3>1, <3>2, <3>3, <3>4
    <2> QED
      BY <2>1
  <1>7. CASE g = 0
    <2> DEFINE w == l.vals \o r.vals
    <2>1. p = Leaf(q, w)
      BY <1>1, <1>7, NodeForm DEF Joined, a, b
    <2>2. w \in Seq(Seq(Values))
      <3> DEFINE V == Seq(Values)
      <3>1. l.vals \in Seq(V) /\ r.vals \in Seq(V)
        BY <1>1, <1>7, LeafForm
      <3> HIDE DEF V
      <3>2. w \in Seq(V)
        BY <3>1, JoinSeq
      <3> QED
        BY <3>2 DEF V
    <2> HIDE DEF w, q, p
    <2>3. p \in Nodes[0] /\ p.keys = q
      BY <1>5, <2>1, <2>2, LeafIn DEF Leaf
    <2>4. p \in Sound(0)
      BY <1>4, <2>3, SoundLeaf
    <2>5. \A x \in KeysIn(p) : x \in X
      BY <1>6, <2>3, KeysInLeaf
    <2> HIDE DEF X
    <2>6. KeysIn(p) \subseteq X
      BY <2>5
    <2>7. Len(p.keys) = Len(a) + Len(b) + 1
      BY <1>5, <2>3
    <2> QED
      BY <1>7, <2>4, <2>6, <2>7 DEF p, X, a, b
  <1>8. CASE g \in Nat \ {0}
    <2> DEFINE S == Nodes[g - 1]
    <2>1. p = Inner(g, q, e)
      BY <1>1, <1>8, NodeForm DEF Joined, a, b
    <2>2. c \in Seq(S) /\ d \in Seq(S) /\ Len(c) = Len(a) + 1 /\ Len(d) = Len(b) + 1
      BY <1>1, <1>8, InnerForm DEF a, b
    <2>3. \A j \in 1..Len(c) :
            /\ c[j] \in Sound(g - 1) /\ Filled(c[j]) /\ KeysIn(c[j]) \subseteq KeysIn(l)
            /\ j > 1 => AllFrom(c[j], a[j - 1])
            /\ j <= Len(a) => AllUpTo(c[j], a[j])
      BY <1>8, KidsAround DEF a
    <2>4. \A j \in 1..Len(d) :
            /\ d[j] \in Sound(g - 1) /\ Filled(d[j]) /\ KeysIn(d[j]) \subseteq KeysIn(r)
            /\ j > 1 => AllFrom(d[j], b[j - 1])
            /\ j <= Len(b) => AllUpTo(d[j], b[j])
      BY <1>8, KidsAround DEF b
    <2> HIDE DEF S, c, d
    <2>5. /\ e \in Seq(S) /\ Len(e) = Len(c) + Len(d)
          /\ \A j \in 1..(Len(c) + Len(d)) : e[j] = IF j <= Len(c) THEN c[j] ELSE d[j - Len(c)]
      BY <2>2, JoinSeq
    <2> HIDE DEF e, q
    <2>6. Len(e) = Len(q) + 1
      BY <1>1, <1>5, <2>2, <2>5
    <2>7. ASSUME NEW j \in 1..Len(e)
          PROVE  /\ e[j] \in Sound(g - 1) /\ Filled(e[j]) /\ KeysIn(e[j]) \subseteq X
                 /\ j > 1 => AllFrom(e[j], q[j - 1])
                 /\ j <= Len(q) => AllUpTo(e[j], q[j])
      <3>0. j \in Nat /\ 1 <= j /\ j <= Len(a) + Len(b) + 2 /\ j \in 1..(Len(c) + Len(d))
            /\ Len(c) = Len(a) + 1 /\ Len(d) = Len(b) + 1
        BY <1>1, <2>2, <2>5
      <3>1. CASE j <= Len(a) + 1
        <4>1. j \in 1..Len(c) /\ e[j] = c[j]
          BY <1>1, <2>5, <3>0, <3>1
        <4>2. ASSUME j > 1 PROVE AllFrom(e[j], q[j - 1])
          <5>1. j - 1 \in 1..Len(a)
            BY <1>1, <3>0, <3>1, <4>2
          <5>2. q[j - 1] = a[j - 1]
            BY <1>5, <5>1
          <5> QED
            BY <2>3, <4>1, <4>2, <5>2
        <4>3. AllUpTo(e[j], q[j])
          <5>1. CASE j <= Len(a)
            <6>1. j \in 1..Len(a)
              BY <3>0, <5>1
            <6>2. q[j] = a[j]
              BY <1>5, <6>1
            <6> QED
              BY <2>3, <4>1, <5>1, <6>2
          <5>2. CASE j = Len(a) + 1
            <6>1. q[j] = s
              BY <1>5, <5>2
            <6> QED
              BY <1>3, <2>3, <4>1, <6>1 DEF AllUpTo
          <5> QED
            BY <1>1, <3>0, <3>1, <5>1, <5>2
        <4> QED
          BY <2>3, <4>1, <4>2, <4>3
      <3>2. CASE j > Len(a) + 1
        <4> DEFINE m == j - Len(c)
        <4>1. m \in 1..Len(d) /\ ~(j <= Len(c)) /\ j = Len(a) + 1 + m /\ m \in Nat
          BY <1>1, <3>0, <3>2
        <4>2. e[j] = d[m]
          BY <2>5, <3>0, <4>1
        <4> HIDE DEF m
        <4>3. AllFrom(e[j], q[j - 1])
          <5>1. CASE m = 1
            <6>1. j - 1 = Len(a) + 1
              BY <1>1, <4>1, <5>1
            <6>2. q[j - 1] = s
              BY <1>5, <6>1
            <6> QED
              BY <1>3, <2>4, <4>1, <4>2, <6>2 DEF AllFrom
          <5>2. CASE m > 1
            <6>1. m - 1 \in 1..Len(b) /\ j - 1 = Len(a) + 1 + (m - 1)
              BY <1>1, <3>0, <4>1, <5>2
            <6>2. q[j - 1] = b[m - 1]
              BY <1>5, <6>1
            <6> QED
              BY <2>4, <4>1, <4>2, <5>2, <6>2
          <5> QED
            BY <4>1, <5>1, <5>2
        <4>4. ASSUME j <= Len(q) PROVE AllUpTo(e[j], q[j])
          <5>1. m \in 1..Len(b) /\ m <= Len(b)
            BY <1>1, <1>5, <4>1, <4>4
          <5>2. q[j] = b[m]
            BY <1>5, <4>1, <5>1
          <5> QED
            BY <2>4, <4>1, <4>2, <5>1, <5>2
        <4> QED
          BY <2>4, <4>1, <4>2, <4>3, <4>4
      <3> QED
        BY <1>1, <3>0, <3>1, <3>2
    <2>8. Inner(g, q, e) \in Sound(g)
      <3>1. e \in Seq(Nodes[g - 1])
        BY <2>5 DEF S
      <3>2. q \in Seq(Keys)
        BY <1>5
      <3> HIDE DEF X, p
      <3> QED
        BY <1>4, <1>8, <2>6, <2>7, <3>1, <3>2, InnerSound
    <2> HIDE DEF p
    <2>9. p \in Sound(g) /\ p.keys = q /\ p.kids = e
      BY <2>1, <2>8 DEF Inner
    <2>10. \A x : x \in KeysIn(p) <=> \/ \E j \in 1..Len(q) : x = q[j]
                                      \/ \E j \in 1..Len(e) : x \in KeysIn(e[j])
      BY <1>8, <2>9, SoundIsNode, KeysInInner
    <2> HIDE DEF X
    <2>11. KeysIn(p) \subseteq X
      BY <1>6, <2>7, <2>10
    <2>12. Len(p.keys) = Len(a) + Len(b) + 1
      BY <1>5, <2>9
    <2> QED
      BY <2>9, <2>11, <2>12 DEF p, X, a, b
  <1> QED
    BY <1>7, <1>8

-----------------------------------------------------------------------------
(* Two neighbours and the separator between them                             *)

\* Sound children around sorted keys; they need not be filled.
Around(h, q, c) ==
    /\ q \in Seq(Keys) /\ Sorted(q) /\ c \in Seq(Nodes[h - 1]) /\ Len(c) = Len(q) + 1
    /\ \A j \in 1..Len(c) : /\ c[j] \in Sound(h - 1)
                            /\ j > 1 => AllFrom(c[j], q[j - 1])
                            /\ j <= Len(q) => AllUpTo(c[j], q[j])

Within(q, c, X) ==
    /\ \A j \in 1..Len(q) : q[j] \in X
    /\ \A j \in 1..Len(c) : KeysIn(c[j]) \subseteq X

\* The keys of children j and j + 1, and the separator.
Between(q, c, j) == KeysIn(c[j]) \cup {q[j]} \cup KeysIn(c[j + 1])

LEMMA BetweenBounds ==
    ASSUME NEW h \in Nat \ {0}, NEW q, NEW c, Around(h, q, c), NEW j \in 1..Len(q)
    PROVE  /\ q \in Seq(Nat) /\ Len(q) \in Nat /\ \A m \in 1..Len(q) : q[m] \in Nat /\ q[m] \in Keys
           /\ j \in 1..Len(c) /\ j + 1 \in 1..Len(c)
           /\ \A x \in Between(q, c, j) : /\ x \in Nat /\ x \in Keys
                                          /\ j > 1 => q[j - 1] <= x
                                          /\ j < Len(q) => x <= q[j + 1]
           /\ \A X : Within(q, c, X) => Between(q, c, j) \subseteq X
  <1>1. /\ q \in Seq(Keys) /\ Sorted(q) /\ c \in Seq(Nodes[h - 1]) /\ Len(c) = Len(q) + 1
        /\ \A m \in 1..Len(c) : /\ c[m] \in Sound(h - 1)
                                /\ m > 1 => AllFrom(c[m], q[m - 1])
                                /\ m <= Len(q) => AllUpTo(c[m], q[m])
    BY DEF Around
  <1>2. q \in Seq(Nat) /\ Len(q) \in Nat /\ \A m \in 1..Len(q) : q[m] \in Nat /\ q[m] \in Keys
    <2>1. Len(q) \in Nat /\ \A m \in 1..Len(q) : q[m] \in Keys
      BY <1>1
    <2>2. \A m \in 1..Len(q) : q[m] \in Nat
      BY <2>1, ProllyAssumption
    <2>3. q = [m \in 1..Len(q) |-> q[m]]
      BY <1>1
    <2>4. q \in Seq(Nat)
      BY <2>1, <2>2, <2>3
    <2> QED
      BY <2>1, <2>2, <2>4
  <1>3. \A i, m \in 1..Len(q) : i <= m => q[i] <= q[m]
    BY <1>1, <1>2, SortedMeans
  <1>4. j \in 1..Len(c) /\ j + 1 \in 1..Len(c) /\ j + 1 > 1 /\ (j + 1) - 1 = j /\ j <= Len(q)
    BY <1>1, <1>2
  <1>5. \A m \in 1..Len(c) : KeysIn(c[m]) \subseteq Nat /\ KeysIn(c[m]) \subseteq Keys
    <2>1. ASSUME NEW m \in 1..Len(c) PROVE KeysIn(c[m]) \subseteq Nat /\ KeysIn(c[m]) \subseteq Keys
      <3>1. h - 1 \in Nat /\ c[m] \in Nodes[h - 1]
        BY <1>1, SoundIsNode
      <3> QED
        BY <3>1, KeysInType
    <2> QED
      BY <2>1
  <1>6. ASSUME NEW x \in Between(q, c, j)
        PROVE  /\ x \in Nat /\ x \in Keys
               /\ j > 1 => q[j - 1] <= x
               /\ j < Len(q) => x <= q[j + 1]
    <2>1. x \in KeysIn(c[j]) \/ x = q[j] \/ x \in KeysIn(c[j + 1])
      BY DEF Between
    <2>2. x \in Nat /\ x \in Keys
      BY <1>2, <1>4, <1>5, <2>1
    <2>3. ASSUME j > 1 PROVE q[j - 1] <= x
      <3>1. j - 1 \in 1..Len(q) /\ j \in 1..Len(q) /\ q[j - 1] <= q[j]
        BY <1>2, <1>3, <2>3
      <3>2. x \in KeysIn(c[j]) => q[j - 1] <= x
        BY <1>1, <1>4, <2>3 DEF AllFrom
      <3>3. x \in KeysIn(c[j + 1]) => q[j] <= x
        BY <1>1, <1>4 DEF AllFrom
      <3> QED
        BY <1>2, <2>1, <2>2, <3>1, <3>2, <3>3
    <2>4. ASSUME j < Len(q) PROVE x <= q[j + 1]
      <3>1. j + 1 \in 1..Len(q) /\ j \in 1..Len(q) /\ j + 1 <= Len(q) /\ q[j] <= q[j + 1]
        BY <1>2, <1>3, <2>4
      <3>2. x \in KeysIn(c[j]) => x <= q[j]
        BY <1>1, <1>4 DEF AllUpTo
      <3>3. x \in KeysIn(c[j + 1]) => x <= q[j + 1]
        BY <1>1, <1>4, <3>1 DEF AllUpTo
      <3> QED
        BY <1>2, <2>1, <2>2, <3>1, <3>2, <3>3
    <2> QED
      BY <2>2, <2>3, <2>4
  <1>7. ASSUME NEW X, Within(q, c, X) PROVE Between(q, c, j) \subseteq X
    BY <1>4, <1>7 DEF Within, Between
  <1> QED
    BY <1>2, <1>4, <1>6, <1>7

LEMMA ChangeSorted ==
    ASSUME NEW s \in Seq(Nat), Sorted(s), NEW i \in 1..Len(s), NEW e \in Nat,
           i > 1 => s[i - 1] <= e, i < Len(s) => e <= s[i + 1]
    PROVE  Sorted([s EXCEPT ![i] = e])
  <1> DEFINE t == [s EXCEPT ![i] = e]
  <1>1. t \in Seq(Nat) /\ Len(t) = Len(s) /\ \A j \in 1..Len(s) : t[j] = IF j = i THEN e ELSE s[j]
    BY ChangeSeq
  <1>2. /\ Len(s) \in Nat /\ \A j \in 1..Len(s) : s[j] \in Nat
        /\ \A j, m \in 1..Len(s) : j <= m => s[j] <= s[m]
    BY SortedMeans
  <1> HIDE DEF t
  <1>3. ASSUME NEW j \in 1..Len(t), NEW m \in 1..Len(t), j <= m PROVE t[j] <= t[m]
    <2>0. j \in 1..Len(s) /\ m \in 1..Len(s)
      BY <1>1
    <2>1. CASE j # i /\ m # i
      BY <1>1, <1>2, <1>3, <2>0, <2>1
    <2>2. CASE j = i /\ m = i
      BY <1>1, <1>2, <2>0, <2>2
    <2>3. CASE j # i /\ m = i
      <3>1. j <= i - 1 /\ i - 1 \in 1..Len(s) /\ i > 1
        BY <1>2, <1>3, <2>0, <2>3
      <3>2. t[j] = s[j] /\ t[m] = e /\ s[j] <= s[i - 1] /\ s[i - 1] <= e
        BY <1>1, <1>2, <2>0, <2>3, <3>1
      <3> QED
        BY <1>2, <2>0, <3>1, <3>2, SMTT(60)
    <2>4. CASE j = i /\ m # i
      <3>1. i + 1 <= m /\ i + 1 \in 1..Len(s) /\ i < Len(s)
        BY <1>2, <1>3, <2>0, <2>4
      <3>2. t[j] = e /\ t[m] = s[m] /\ s[i + 1] <= s[m] /\ e <= s[i + 1]
        BY <1>1, <1>2, <2>0, <2>4, <3>1
      <3> QED
        BY <1>2, <2>0, <3>1, <3>2, SMTT(60)
    <2> QED
      BY <2>1, <2>2, <2>3, <2>4
  <1>4. Sorted(t)
    BY <1>1, <1>3, SortedMeans
  <1> QED
    BY <1>4 DEF t

\* Both neighbours and the separator change.
LEMMA ReplaceTwo ==
    ASSUME NEW h \in Nat \ {0}, NEW q, NEW c, Around(h, q, c), NEW X, Within(q, c, X), NEW j \in 1..Len(q),
           \A m \in 1..Len(c) : m # j /\ m # j + 1 => Filled(c[m]),
           NEW a \in Sound(h - 1), NEW b \in Sound(h - 1), NEW s \in Between(q, c, j),
           Filled(a), Filled(b), AllUpTo(a, s), AllFrom(b, s),
           KeysIn(a) \subseteq Between(q, c, j), KeysIn(b) \subseteq Between(q, c, j)
    PROVE  LET p == Inner(h, [q EXCEPT ![j] = s], [c EXCEPT ![j] = a, ![j + 1] = b])
           IN  p \in Sound(h) /\ Len(p.keys) = Len(q) /\ KeysIn(p) \subseteq X
  <1> DEFINE e == [q EXCEPT ![j] = s]
             d == [c EXCEPT ![j] = a, ![j + 1] = b]
             S == Nodes[h - 1]
             p == Inner(h, e, d)
             K == Between(q, c, j)
  <1>1. /\ q \in Seq(Keys) /\ Sorted(q) /\ c \in Seq(S) /\ Len(c) = Len(q) + 1
        /\ \A m \in 1..Len(c) : /\ c[m] \in Sound(h - 1)
                                /\ m > 1 => AllFrom(c[m], q[m - 1])
                                /\ m <= Len(q) => AllUpTo(c[m], q[m])
    BY DEF Around
  <1>2. /\ Len(q) \in Nat /\ \A m \in 1..Len(q) : q[m] \in Nat /\ q[m] \in Keys
        /\ j \in 1..Len(c) /\ j + 1 \in 1..Len(c)
        /\ \A x \in K : /\ x \in Nat /\ x \in Keys
                        /\ j > 1 => q[j - 1] <= x
                        /\ j < Len(q) => x <= q[j + 1]
        /\ K \subseteq X
    BY BetweenBounds
  <1>3. /\ a \in S /\ b \in S /\ s \in K
        /\ \A x \in KeysIn(a) : x \in K /\ x <= s
        /\ \A x \in KeysIn(b) : x \in K /\ s <= x
    <2>1. h - 1 \in Nat
      OBVIOUS
    <2>2. a \in S /\ b \in S
      BY <2>1, SoundIsNode
    <2> QED
      BY <2>2 DEF AllUpTo, AllFrom
  <1>4. (\A m \in 1..Len(q) : q[m] \in X) /\ (\A m \in 1..Len(c) : KeysIn(c[m]) \subseteq X)
    BY DEF Within
  <1>5. e \in Seq(Keys) /\ Len(e) = Len(q) /\ \A m \in 1..Len(q) : e[m] = IF m = j THEN s ELSE q[m]
    BY <1>1, <1>2, <1>3, ChangeSeq
  <1> HIDE DEF S, K
  <1>6. d \in Seq(S) /\ Len(d) = Len(c)
        /\ \A m \in 1..Len(c) : d[m] = IF m = j THEN a ELSE IF m = j + 1 THEN b ELSE c[m]
    <2>1. j # j + 1
      BY <1>2
    <2> QED
      BY <1>1, <1>2, <1>3, <2>1
  <1>7. Sorted(e)
    <2>1. q \in Seq(Nat)
      BY BetweenBounds
    <2> QED
      BY <1>1, <1>2, <1>3, <2>1, ChangeSorted
  <1> HIDE DEF e, d
  <1>8. ASSUME NEW m \in 1..Len(d)
        PROVE  /\ d[m] \in Sound(h - 1) /\ Filled(d[m]) /\ KeysIn(d[m]) \subseteq X
               /\ m > 1 => AllFrom(d[m], e[m - 1])
               /\ m <= Len(e) => AllUpTo(d[m], e[m])
    <2>0. /\ m \in 1..Len(c) /\ m \in Nat /\ 1 <= m /\ m <= Len(q) + 1 /\ Len(e) = Len(q)
          /\ j \in Nat /\ 1 <= j /\ j <= Len(q)
      BY <1>1, <1>2, <1>5, <1>6
    <2>1. CASE m = j
      <3>1. d[m] = a /\ e[m] = s
        BY <1>5, <1>6, <2>0, <2>1
      <3>2. ASSUME m > 1 PROVE AllFrom(d[m], e[m - 1])
        <4>1. m - 1 \in 1..Len(q) /\ m - 1 # j
          BY <2>0, <2>1, <3>2
        <4>2. e[m - 1] = q[m - 1]
          BY <1>5, <4>1
        <4> QED
          BY <1>2, <1>3, <2>1, <3>1, <3>2, <4>2 DEF AllFrom
      <3> QED
        BY <1>2, <1>3, <3>1, <3>2 DEF AllUpTo
    <2>2. CASE m = j + 1
      <3>1. d[m] = b /\ m - 1 = j /\ m # j
        BY <1>6, <2>0, <2>2
      <3>2. e[m - 1] = s
        BY <1>5, <2>0, <3>1
      <3>3. ASSUME m <= Len(e) PROVE AllUpTo(d[m], e[m])
        <4>1. m \in 1..Len(q) /\ j < Len(q)
          BY <2>0, <2>2, <3>3
        <4>2. e[m] = q[m]
          BY <1>5, <3>1, <4>1
        <4> QED
          BY <1>2, <1>3, <2>2, <3>1, <4>1, <4>2 DEF AllUpTo
      <3> QED
        BY <1>2, <1>3, <3>1, <3>2, <3>3 DEF AllFrom
    <2>3. CASE m # j /\ m # j + 1
      <3>1. d[m] = c[m] /\ Filled(c[m])
        BY <1>6, <2>0, <2>3
      <3>2. m > 1 => e[m - 1] = q[m - 1]
        <4>1. ASSUME m > 1 PROVE m - 1 \in 1..Len(q) /\ m - 1 # j
          BY <2>0, <2>3, <4>1
        <4> QED
          BY <1>5, <4>1
      <3>3. m <= Len(e) => e[m] = q[m] /\ m <= Len(q)
        <4>1. ASSUME m <= Len(e) PROVE m \in 1..Len(q) /\ m <= Len(q)
          BY <2>0, <4>1
        <4> QED
          BY <1>5, <2>3, <4>1
      <3> QED
        BY <1>1, <1>4, <2>0, <3>1, <3>2, <3>3
    <2> QED
      BY <2>1, <2>2, <2>3
  <1>9. p \in Sound(h)
    <2>1. d \in Seq(Nodes[h - 1]) /\ Len(d) = Len(e) + 1
      BY <1>1, <1>5, <1>6 DEF S
    <2> QED
      BY <1>5, <1>7, <1>8, <2>1, InnerSound
  <1>10. p.keys = e /\ p.kids = d
    BY DEF Inner
  <1> HIDE DEF p
  <1>11. \A x : x \in KeysIn(p) <=> \/ \E m \in 1..Len(e) : x = e[m]
                                    \/ \E m \in 1..Len(d) : x \in KeysIn(d[m])
    BY <1>9, <1>10, SoundIsNode, KeysInInner
  <1>12. \A m \in 1..Len(e) : e[m] \in X
    BY <1>2, <1>3, <1>4, <1>5
  <1>13. KeysIn(p) \subseteq X
    BY <1>8, <1>11, <1>12
  <1> QED
    BY <1>5, <1>9, <1>10, <1>13 DEF p, e, d

\* One node takes the place of both.
LEMMA MergeTwo ==
    ASSUME NEW h \in Nat \ {0}, NEW q, NEW c, Around(h, q, c), NEW X, Within(q, c, X), NEW j \in 1..Len(q),
           \A m \in 1..Len(c) : m # j /\ m # j + 1 => Filled(c[m]),
           NEW a \in Sound(h - 1), Filled(a), KeysIn(a) \subseteq Between(q, c, j)
    PROVE  LET p == Inner(h, RemoveAt(q, j), [RemoveAt(c, j + 1) EXCEPT ![j] = a])
           IN  p \in Sound(h) /\ Len(p.keys) = Len(q) - 1 /\ KeysIn(p) \subseteq X
  <1> DEFINE e == RemoveAt(q, j)
             g == RemoveAt(c, j + 1)
             d == [g EXCEPT ![j] = a]
             S == Nodes[h - 1]
             p == Inner(h, e, d)
             K == Between(q, c, j)
  <1>1. /\ q \in Seq(Keys) /\ Sorted(q) /\ c \in Seq(S) /\ Len(c) = Len(q) + 1
        /\ \A m \in 1..Len(c) : /\ c[m] \in Sound(h - 1)
                                /\ m > 1 => AllFrom(c[m], q[m - 1])
                                /\ m <= Len(q) => AllUpTo(c[m], q[m])
    BY DEF Around
  <1>2. /\ Len(q) \in Nat /\ \A m \in 1..Len(q) : q[m] \in Nat /\ q[m] \in Keys
        /\ j \in 1..Len(c) /\ j + 1 \in 1..Len(c)
        /\ \A x \in K : /\ x \in Nat /\ x \in Keys
                        /\ j > 1 => q[j - 1] <= x
                        /\ j < Len(q) => x <= q[j + 1]
        /\ K \subseteq X
    BY BetweenBounds
  <1>3. a \in S /\ \A x \in KeysIn(a) : x \in K
    <2>1. h - 1 \in Nat
      OBVIOUS
    <2> QED
      BY <2>1, SoundIsNode
  <1>4. (\A m \in 1..Len(q) : q[m] \in X) /\ (\A m \in 1..Len(c) : KeysIn(c[m]) \subseteq X)
    BY DEF Within
  <1> HIDE DEF S, K
  <1>5. /\ e \in Seq(Keys) /\ Len(e) = Len(q) - 1
        /\ \A m \in 1..(Len(q) - 1) : e[m] = IF m < j THEN q[m] ELSE q[m + 1]
    BY <1>1, RemoveSeq
  <1>6. Sorted(e)
    <2>1. q \in Seq(Nat)
      BY BetweenBounds
    <2> QED
      BY <1>1, <2>1, RemoveSorted
  <1>7. /\ g \in Seq(S) /\ Len(g) = Len(c) - 1
        /\ \A m \in 1..(Len(c) - 1) : g[m] = IF m < j + 1 THEN c[m] ELSE c[m + 1]
    BY <1>1, <1>2, RemoveSeq
  <1> HIDE DEF e, g
  <1>8. d \in Seq(S) /\ Len(d) = Len(g) /\ \A m \in 1..Len(g) : d[m] = IF m = j THEN a ELSE g[m]
    <2>1. j \in 1..Len(g)
      BY <1>1, <1>2, <1>7
    <2> QED
      BY <1>3, <1>7, <2>1, ChangeSeq
  <1> HIDE DEF d
  <1>9. ASSUME NEW m \in 1..Len(d)
        PROVE  /\ d[m] \in Sound(h - 1) /\ Filled(d[m]) /\ KeysIn(d[m]) \subseteq X
               /\ m > 1 => AllFrom(d[m], e[m - 1])
               /\ m <= Len(e) => AllUpTo(d[m], e[m])
    <2>0. /\ m \in 1..Len(g) /\ m \in 1..(Len(c) - 1) /\ m \in Nat /\ 1 <= m /\ m <= Len(q)
          /\ Len(e) = Len(q) - 1 /\ j \in Nat /\ 1 <= j /\ j <= Len(q) /\ Len(c) = Len(q) + 1
      BY <1>1, <1>2, <1>5, <1>7, <1>8
    <2>1. CASE m < j
      <3>1. d[m] = c[m] /\ m \in 1..Len(c) /\ Filled(c[m])
        <4>1. m # j /\ m < j + 1 /\ m \in 1..Len(c) /\ m # j + 1
          BY <1>2, <2>0, <2>1
        <4> QED
          BY <1>7, <1>8, <2>0, <4>1
      <3>2. m > 1 => e[m - 1] = q[m - 1]
        <4>1. ASSUME m > 1 PROVE m - 1 \in 1..(Len(q) - 1) /\ m - 1 < j
          BY <1>2, <2>0, <2>1, <4>1
        <4> QED
          BY <1>5, <4>1
      <3>3. e[m] = q[m] /\ m <= Len(q)
        <4>1. m \in 1..(Len(q) - 1)
          BY <1>2, <2>0, <2>1
        <4> QED
          BY <1>5, <2>0, <2>1, <4>1
      <3> QED
        BY <1>1, <1>4, <3>1, <3>2, <3>3
    <2>2. CASE m = j
      <3>1. d[m] = a
        BY <1>8, <2>0, <2>2
      <3>2. ASSUME m > 1 PROVE AllFrom(d[m], e[m - 1])
        <4>1. m - 1 \in 1..(Len(q) - 1) /\ m - 1 < j
          BY <1>2, <2>0, <2>2, <3>2
        <4>2. e[m - 1] = q[m - 1]
          BY <1>5, <4>1
        <4> QED
          BY <1>2, <1>3, <2>2, <3>1, <3>2, <4>2 DEF AllFrom
      <3>3. ASSUME m <= Len(e) PROVE AllUpTo(d[m], e[m])
        <4>1. m \in 1..(Len(q) - 1) /\ ~(m < j) /\ j < Len(q)
          BY <1>2, <2>0, <2>2, <3>3
        <4>2. e[m] = q[m + 1]
          BY <1>5, <4>1
        <4> QED
          BY <1>2, <1>3, <2>2, <3>1, <4>1, <4>2 DEF AllUpTo
      <3> QED
        BY <1>2, <1>3, <3>1, <3>2, <3>3
    <2>3. CASE m > j
      <3>1. d[m] = c[m + 1] /\ m + 1 \in 1..Len(c) /\ Filled(c[m + 1]) /\ m + 1 > 1 /\ (m + 1) - 1 = m
        <4>1. m # j /\ ~(m < j + 1) /\ m + 1 \in 1..Len(c) /\ m + 1 # j /\ m + 1 # j + 1 /\ m + 1 > 1 /\ (m + 1) - 1 = m
          BY <1>2, <2>0, <2>3
        <4> QED
          BY <1>7, <1>8, <2>0, <4>1
      <3>2. e[m - 1] = q[m]
        <4>1. m - 1 \in 1..(Len(q) - 1) /\ ~(m - 1 < j) /\ (m - 1) + 1 = m
          BY <1>2, <2>0, <2>3
        <4>2. e[m - 1] = q[(m - 1) + 1]
          BY <1>5, <4>1
        <4> QED
          BY <4>1, <4>2
      <3>3. m <= Len(e) => e[m] = q[m + 1] /\ m + 1 <= Len(q)
        <4>1. ASSUME m <= Len(e) PROVE m \in 1..(Len(q) - 1) /\ ~(m < j) /\ m + 1 <= Len(q)
          BY <1>2, <2>0, <2>3, <4>1
        <4> QED
          BY <1>5, <4>1
      <3> QED
        BY <1>1, <1>4, <3>1, <3>2, <3>3
    <2> QED
      BY <1>2, <2>0, <2>1, <2>2, <2>3
  <1>10. p \in Sound(h)
    <2>1. d \in Seq(Nodes[h - 1]) /\ Len(d) = Len(e) + 1
      BY <1>1, <1>2, <1>5, <1>7, <1>8 DEF S
    <2> QED
      BY <1>5, <1>6, <1>9, <2>1, InnerSound
  <1>11. p.keys = e /\ p.kids = d
    BY DEF Inner
  <1> HIDE DEF p
  <1>12. \A x : x \in KeysIn(p) <=> \/ \E m \in 1..Len(e) : x = e[m]
                                    \/ \E m \in 1..Len(d) : x \in KeysIn(d[m])
    BY <1>10, <1>11, SoundIsNode, KeysInInner
  <1>13. \A m \in 1..Len(e) : e[m] \in X
    <2>1. ASSUME NEW m \in 1..Len(e) PROVE e[m] \in X
      <3>1. m \in 1..(Len(q) - 1) /\ m \in 1..Len(q) /\ m + 1 \in 1..Len(q)
        BY <1>2, <1>5
      <3>2. e[m] = q[m] \/ e[m] = q[m + 1]
        BY <1>5, <3>1
      <3> QED
        BY <1>4, <3>1, <3>2
    <2> QED
      BY <2>1
  <1>14. KeysIn(p) \subseteq X
    BY <1>9, <1>12, <1>13
  <1> QED
    BY <1>5, <1>10, <1>11, <1>14 DEF p, d, e, g

LEMMA SeqEnds ==
    ASSUME NEW S, NEW s \in Seq(S), s # <<>>
    PROVE  /\ Len(s) \in Nat /\ Len(s) >= 1
           /\ Front(s) = SubSeq(s, 1, Len(s) - 1) /\ Front(s) \in Seq(S)
           /\ Tail(s) = SubSeq(s, 2, Len(s)) /\ Tail(s) \in Seq(S)
           /\ Last(s) = s[Len(s)] /\ Last(s) \in S /\ Head(s) = s[1] /\ Head(s) \in S
           /\ SubSeq(s, Len(s), Len(s)) = <<Last(s)>> /\ SubSeq(s, 1, 1) = <<Head(s)>>
  <1>1. Len(s) \in Nat /\ Len(s) >= 1
    OBVIOUS
  <1>2. Front(s) = SubSeq(s, 1, Len(s) - 1) /\ Last(s) = s[Len(s)] /\ Head(s) = s[1]
    BY DEF Front, Last
  <1>3. Front(s) \in Seq(S)
    <2>1. 1 \in 1..(Len(s) + 1) /\ Len(s) - 1 \in (1 - 1)..Len(s)
      BY <1>1
    <2> QED
      BY <1>2, <2>1, CutSeq
  <1>4. Last(s) \in S /\ Head(s) \in S
    BY <1>1, <1>2
  <1>5. Tail(s) \in Seq(S) /\ Len(Tail(s)) = Len(s) - 1 /\ \A j \in 1..(Len(s) - 1) : Tail(s)[j] = s[j + 1]
    OBVIOUS
  <1>6. Tail(s) = SubSeq(s, 2, Len(s))
    <2> DEFINE t == SubSeq(s, 2, Len(s))
               u == Tail(s)
    <2>1. t \in Seq(S) /\ Len(t) = Len(s) - 2 + 1 /\ \A j \in 1..(Len(s) - 2 + 1) : t[j] = s[2 + j - 1]
      <3>1. 2 \in 1..(Len(s) + 1) /\ Len(s) \in (2 - 1)..Len(s)
        BY <1>1
      <3> QED
        BY <3>1, CutSeq
    <2>2. u \in Seq(S) /\ Len(u) = Len(s) - 1 /\ \A j \in 1..(Len(s) - 1) : u[j] = s[j + 1]
      BY <1>5
    <2> HIDE DEF t, u
    <2>3. \A j \in 1..Len(u) : u[j] = t[j]
      <3>1. ASSUME NEW j \in 1..Len(u) PROVE u[j] = t[j]
        <4>1. j \in 1..(Len(s) - 1) /\ j \in 1..(Len(s) - 2 + 1) /\ 2 + j - 1 = j + 1
          BY <1>1, <2>2
        <4> QED
          BY <2>1, <2>2, <4>1
      <3> QED
        BY <3>1
    <2>4. Len(u) = Len(t)
      BY <1>1, <2>1, <2>2
    <2>5. u = t
      BY <2>1, <2>2, <2>3, <2>4, SameSeq
    <2> QED
      BY <2>5 DEF t, u
  <1>7. ASSUME NEW i \in 1..Len(s) PROVE SubSeq(s, i, i) = <<s[i]>>
    <2> DEFINE t == SubSeq(s, i, i)
               u == <<s[i]>>
    <2>1. t \in Seq(S) /\ Len(t) = i - i + 1 /\ \A j \in 1..(i - i + 1) : t[j] = s[i + j - 1]
      <3>1. i \in 1..(Len(s) + 1) /\ i \in (i - 1)..Len(s)
        BY <1>1
      <3> QED
        BY <3>1, CutSeq
    <2>2. u \in Seq(S) /\ Len(u) = 1 /\ u[1] = s[i]
      OBVIOUS
    <2>3. Len(t) = 1 /\ t[1] = s[i]
      <3>1. i - i + 1 = 1 /\ i + 1 - 1 = i /\ 1 \in 1..1
        BY <1>1
      <3> HIDE DEF t
      <3> QED
        BY <2>1, <3>1
    <2> HIDE DEF t, u
    <2>4. Len(t) = Len(u) /\ \A j \in 1..Len(t) : t[j] = u[j]
      BY <2>2, <2>3
    <2>5. t = u
      BY <2>1, <2>2, <2>4, SameSeq
    <2> QED
      BY <2>5 DEF t, u
  <1>8. 1 \in 1..Len(s) /\ Len(s) \in 1..Len(s)
    BY <1>1
  <1> QED
    BY <1>1, <1>2, <1>3, <1>4, <1>5, <1>6, <1>7, <1>8

LEMMA EmptySeqs ==
    ASSUME NEW S, NEW s \in Seq(S), NEW e
    PROVE  /\ SubSeq(s, Len(s) + 1, Len(s)) = <<>> /\ SubSeq(s, 1, 0) = <<>>
           /\ Append(<<>>, e) = <<e>> /\ s \o <<e>> = Append(s, e) /\ Append(s, e) \o <<>> = Append(s, e)
  <1>1. Len(s) \in Nat
    OBVIOUS
  <1>2. SubSeq(s, Len(s) + 1, Len(s)) = <<>> /\ SubSeq(s, 1, 0) = <<>>
    <2>1. SubSeq(s, Len(s) + 1, Len(s)) \in Seq(S) /\ Len(SubSeq(s, Len(s) + 1, Len(s))) = 0
      BY <1>1
    <2>2. SubSeq(s, 1, 0) \in Seq(S) /\ Len(SubSeq(s, 1, 0)) = 0
      BY <1>1
    <2> QED
      BY <2>1, <2>2
  <1>3. Append(<<>>, e) = <<e>>
    OBVIOUS
  <1>4. s \o <<e>> = Append(s, e)
    OBVIOUS
  <1>5. Append(s, e) \o <<>> = Append(s, e)
    <2> DEFINE T == S \cup {e}
    <2>1. s \in Seq(T) /\ e \in T
      OBVIOUS
    <2>2. Append(s, e) \in Seq(T)
      BY <2>1
    <2> QED
      BY <2>2
  <1> QED
    BY <1>2, <1>3, <1>4, <1>5

\* The part of a node after its last key, and the part before its first.
LEMMA EndsOfNode ==
    ASSUME NEW g \in Nat, NEW n \in Sound(g), n.keys # <<>>, g = 0 => n.vals # <<>>
    PROVE  LET low   == IF g = 0 THEN Leaf(Front(n.keys), Front(n.vals)) ELSE Inner(g, Front(n.keys), Front(n.kids))
               high  == IF g = 0 THEN Leaf(Tail(n.keys), Tail(n.vals)) ELSE Inner(g, Tail(n.keys), Tail(n.kids))
               last  == IF g = 0 THEN Leaf(<<>>, <<Last(n.vals)>>) ELSE Inner(g, <<>>, <<Last(n.kids)>>)
               first == IF g = 0 THEN Leaf(<<>>, <<Head(n.vals)>>) ELSE Inner(g, <<>>, <<Head(n.kids)>>)
           IN  /\ low \in Sound(g) /\ Len(low.keys) = Len(n.keys) - 1 /\ KeysIn(low) \subseteq KeysIn(n)
               /\ high \in Sound(g) /\ Len(high.keys) = Len(n.keys) - 1 /\ KeysIn(high) \subseteq KeysIn(n)
               /\ last \in Sound(g) /\ KeysIn(last) \subseteq KeysIn(n)
               /\ first \in Sound(g) /\ KeysIn(first) \subseteq KeysIn(n)
               /\ AllUpTo(low, Last(n.keys)) /\ AllFrom(last, Last(n.keys))
               /\ AllUpTo(first, Head(n.keys)) /\ AllFrom(high, Head(n.keys))
               /\ Last(n.keys) \in KeysIn(n) /\ Head(n.keys) \in KeysIn(n)
  <1> DEFINE s == n.keys
             m == Len(s)
  <1>1. n \in Nodes[g] /\ s \in Seq(Keys) /\ s # <<>>
    BY SoundIsNode, NodeForm
  <1>2. /\ m \in Nat /\ m >= 1
        /\ Front(s) = SubSeq(s, 1, m - 1) /\ Tail(s) = SubSeq(s, 2, m)
        /\ Last(s) = s[m] /\ Head(s) = s[1]
        /\ SubSeq(s, m + 1, m) = <<>> /\ SubSeq(s, 1, 0) = <<>>
    BY <1>1, SeqEnds, EmptySeqs
  <1>3. /\ 1 \in 1..(m + 1) /\ 2 \in 1..(m + 1) /\ m + 1 \in 1..(m + 1)
        /\ m - 1 \in (1 - 1)..m /\ m \in (2 - 1)..m /\ m \in ((m + 1) - 1)..m /\ 0 \in (1 - 1)..m
        /\ (m - 1) - 1 + 1 = m - 1 /\ m - 2 + 1 = m - 1 /\ m - 1 < m /\ 2 > 1 /\ m + 1 > 1 /\ 0 < m
        /\ (m - 1) + 1 = m /\ 2 - 1 = 1 /\ (m + 1) - 1 = m /\ 0 + 1 = 1
    BY <1>2
  <1>4. s[m] \in KeysIn(n) /\ s[1] \in KeysIn(n)
    <2>1. 1 \in 1..Len(n.keys) /\ Len(n.keys) \in 1..Len(n.keys)
      BY <1>2
    <2>2. CASE g = 0
      BY <1>1, <2>1, <2>2, KeysInLeaf
    <2>3. CASE g \in Nat \ {0}
      BY <1>1, <2>1, <2>3, KeysInInner
    <2> QED
      BY <2>2, <2>3
  <1> HIDE DEF m
  <1>5. CASE g = 0
    <2> DEFINE V == Seq(Values)
               vs == n.vals
    <2>1. vs \in Seq(V) /\ vs # <<>>
      BY <1>1, <1>5, LeafForm
    <2>2. Front(vs) \in Seq(V) /\ Tail(vs) \in Seq(V) /\ <<Last(vs)>> \in Seq(V) /\ <<Head(vs)>> \in Seq(V)
      <3> HIDE DEF vs, V
      <3>1. Front(vs) \in Seq(V) /\ Tail(vs) \in Seq(V) /\ Last(vs) \in V /\ Head(vs) \in V
        BY <2>1, SeqEnds
      <3> QED
        BY <3>1
    <2>3. \A w \in Seq(V), a \in 1..(Len(n.keys) + 1) : \A b \in (a - 1)..Len(n.keys) :
             /\ Leaf(SubSeq(n.keys, a, b), w) \in Sound(0)
             /\ Len(Leaf(SubSeq(n.keys, a, b), w).keys) = b - a + 1
             /\ KeysIn(Leaf(SubSeq(n.keys, a, b), w)) \subseteq KeysIn(n)
             /\ a > 1 => AllFrom(Leaf(SubSeq(n.keys, a, b), w), n.keys[a - 1])
             /\ b < Len(n.keys) => AllUpTo(Leaf(SubSeq(n.keys, a, b), w), n.keys[b + 1])
      BY <1>5, LeafPiece
    <2> DEFINE P(a, b, w) == Leaf(SubSeq(s, a, b), w)
    <2>4. \A w \in Seq(V), a \in 1..(m + 1) : \A b \in (a - 1)..m :
             /\ P(a, b, w) \in Sound(0) /\ Len(P(a, b, w).keys) = b - a + 1 /\ KeysIn(P(a, b, w)) \subseteq KeysIn(n)
             /\ a > 1 => AllFrom(P(a, b, w), s[a - 1])
             /\ b < m => AllUpTo(P(a, b, w), s[b + 1])
      BY <2>3 DEF m
    <2>5. /\ P(1, m - 1, Front(vs)) = Leaf(Front(s), Front(vs)) /\ P(2, m, Tail(vs)) = Leaf(Tail(s), Tail(vs))
          /\ P(m + 1, m, <<Last(vs)>>) = Leaf(<<>>, <<Last(vs)>>) /\ P(1, 0, <<Head(vs)>>) = Leaf(<<>>, <<Head(vs)>>)
      <3> HIDE DEF s, vs
      <3> QED
        BY <1>2, Zenon
    <2> HIDE DEF V, P, vs, s
    <2>6. LET p == P(1, m - 1, Front(vs))
          IN  p \in Sound(0) /\ Len(p.keys) = m - 1 /\ KeysIn(p) \subseteq KeysIn(n) /\ AllUpTo(p, s[m])
      BY <1>3, <2>2, <2>4
    <2>7. LET p == P(2, m, Tail(vs))
          IN  p \in Sound(0) /\ Len(p.keys) = m - 1 /\ KeysIn(p) \subseteq KeysIn(n) /\ AllFrom(p, s[1])
      BY <1>3, <2>2, <2>4
    <2>8. LET p == P(m + 1, m, <<Last(vs)>>)
          IN  p \in Sound(0) /\ KeysIn(p) \subseteq KeysIn(n) /\ AllFrom(p, s[m])
      BY <1>3, <2>2, <2>4
    <2>9. LET p == P(1, 0, <<Head(vs)>>)
          IN  p \in Sound(0) /\ KeysIn(p) \subseteq KeysIn(n) /\ AllUpTo(p, s[1])
      BY <1>3, <2>2, <2>4
    <2> QED
      BY <1>2, <1>4, <1>5, <2>5, <2>6, <2>7, <2>8, <2>9 DEF s, m, vs
  <1>6. CASE g \in Nat \ {0}
    <2> DEFINE S == Nodes[g - 1]
               c == n.kids
    <2>1. c \in Seq(S) /\ Len(c) = m + 1 /\ c # <<>>
      <3>1. n.kids \in Seq(S) /\ Len(n.kids) = m + 1
        BY <1>1, <1>6, InnerForm DEF m
      <3> HIDE DEF S
      <3> QED
        BY <1>2, <3>1
    <2>2. /\ Front(c) = SubSeq(c, 1, (m - 1) + 1) /\ Tail(c) = SubSeq(c, 2, m + 1)
          /\ <<Last(c)>> = SubSeq(c, m + 1, m + 1) /\ <<Head(c)>> = SubSeq(c, 1, 0 + 1)
      <3> HIDE DEF S, c
      <3>1. (m + 1) - 1 = (m - 1) + 1 /\ 0 + 1 = 1
        BY <1>2
      <3>2. /\ Front(c) = SubSeq(c, 1, Len(c) - 1) /\ Tail(c) = SubSeq(c, 2, Len(c))
            /\ <<Last(c)>> = SubSeq(c, Len(c), Len(c)) /\ <<Head(c)>> = SubSeq(c, 1, 1)
        BY <2>1, SeqEnds
      <3> QED
        BY <2>1, <3>1, <3>2
    <2>3. \A a \in 1..(Len(n.keys) + 1) : \A b \in (a - 1)..Len(n.keys) :
             LET p == Inner(g, SubSeq(n.keys, a, b), SubSeq(n.kids, a, b + 1))
             IN  /\ p \in Sound(g) /\ Len(p.keys) = b - a + 1 /\ KeysIn(p) \subseteq KeysIn(n)
                 /\ a > 1 => AllFrom(p, n.keys[a - 1])
                 /\ b < Len(n.keys) => AllUpTo(p, n.keys[b + 1])
      BY <1>6, InnerPiece
    <2> DEFINE P(a, b) == Inner(g, SubSeq(s, a, b), SubSeq(c, a, b + 1))
    <2>4. \A a \in 1..(m + 1) : \A b \in (a - 1)..m :
             /\ P(a, b) \in Sound(g) /\ Len(P(a, b).keys) = b - a + 1 /\ KeysIn(P(a, b)) \subseteq KeysIn(n)
             /\ a > 1 => AllFrom(P(a, b), s[a - 1])
             /\ b < m => AllUpTo(P(a, b), s[b + 1])
      BY <2>3 DEF m
    <2>5. /\ P(1, m - 1) = Inner(g, Front(s), Front(c)) /\ P(2, m) = Inner(g, Tail(s), Tail(c))
          /\ P(m + 1, m) = Inner(g, <<>>, <<Last(c)>>) /\ P(1, 0) = Inner(g, <<>>, <<Head(c)>>)
      <3> HIDE DEF s, c
      <3> QED
        BY <1>2, <2>2, Zenon
    <2> HIDE DEF P, c, s
    <2>6. LET p == P(1, m - 1)
          IN  p \in Sound(g) /\ Len(p.keys) = m - 1 /\ KeysIn(p) \subseteq KeysIn(n) /\ AllUpTo(p, s[m])
      BY <1>3, <2>4
    <2>7. LET p == P(2, m)
          IN  p \in Sound(g) /\ Len(p.keys) = m - 1 /\ KeysIn(p) \subseteq KeysIn(n) /\ AllFrom(p, s[1])
      BY <1>3, <2>4
    <2>8. LET p == P(m + 1, m)
          IN  p \in Sound(g) /\ KeysIn(p) \subseteq KeysIn(n) /\ AllFrom(p, s[m])
      BY <1>3, <2>4
    <2>9. LET p == P(1, 0)
          IN  p \in Sound(g) /\ KeysIn(p) \subseteq KeysIn(n) /\ AllUpTo(p, s[1])
      BY <1>3, <2>4
    <2>10. g # 0
      BY <1>6
    <2> QED
      BY <1>2, <1>4, <2>5, <2>6, <2>7, <2>8, <2>9, <2>10 DEF s, m, c
  <1> QED
    BY <1>5, <1>6

\* What taking a key from a node n of height h gives.
Dwindles(R, h, n) ==
    R = Panicked \/ /\ R \in Sound(h) /\ Len(R.keys) \in (Len(n.keys) - 1)..Len(n.keys)
                    /\ KeysIn(R) \subseteq KeysIn(n)

\* A node that borrows from its left neighbour.
LEMMA BorrowLeftSound ==
    ASSUME NEW h \in Nat \ {0}, NEW q, NEW c, Around(h, q, c), NEW X, Within(q, c, X), NEW i \in 2..Len(c),
           \A m \in 1..Len(c) : m # i => Filled(c[m]),
           Len(c[i].keys) = MinKeys - 1, Len(c[i - 1].keys) > MinKeys
    PROVE  LET R == BorrowFromLeft(Inner(h, q, c), i, c[i - 1])
           IN  R = Panicked \/ (R \in Sound(h) /\ Len(R.keys) = Len(q) /\ KeysIn(R) \subseteq X)
  <1> DEFINE j == i - 1
             g == h - 1
             l == c[j]
             r == c[i]
             s == q[j]
             k == Last(l.keys)
             R == BorrowFromLeft(Inner(h, q, c), i, l)
             low  == IF g = 0 THEN Leaf(Front(l.keys), Front(l.vals)) ELSE Inner(g, Front(l.keys), Front(l.kids))
             last == IF g = 0 THEN Leaf(<<>>, <<Last(l.vals)>>) ELSE Inner(g, <<>>, <<Last(l.kids)>>)
             b == IF g = 0 THEN Leaf(<<s>> \o r.keys, <<Last(l.vals)>> \o r.vals)
                  ELSE Inner(g, <<s>> \o r.keys, <<Last(l.kids)>> \o r.kids)
  <1>1. /\ Len(c) = Len(q) + 1 /\ Len(q) \in Nat /\ g \in Nat
        /\ j \in 1..Len(q) /\ j \in 1..Len(c) /\ j + 1 = i /\ i \in 1..Len(c) /\ j # i /\ i > 1 /\ j <= Len(q)
    <2>1. Len(c) = Len(q) + 1 /\ Len(q) \in Nat
      BY DEF Around
    <2> QED
      BY <2>1
  <1>2. /\ l \in Sound(g) /\ r \in Sound(g) /\ AllUpTo(l, s) /\ AllFrom(r, s) /\ s \in Keys
    BY <1>1 DEF Around
  <1>3. Filled(l) /\ Len(l.keys) > MinKeys /\ Len(r.keys) = MinKeys - 1
    BY <1>1
  <1>4. l.height = g /\ Len(l.keys) \in Nat /\ Len(r.keys) \in Nat /\ l.keys # <<>>
    <2>1. l.height = g /\ Len(l.keys) \in Nat /\ Len(r.keys) \in Nat
      BY <1>1, <1>2, SoundIsNode, NodeForm
    <2>2. Len(l.keys) # 0
      BY <1>3, <2>1, OrderFacts
    <2> QED
      BY <2>1, <2>2
  <1>5. CASE g = 0 /\ l.vals = <<>>
    <2>1. R = Panicked
      <3> HIDE DEF l, g
      <3> QED
        BY <1>4, <1>5 DEF BorrowFromLeft
    <2> HIDE DEF R
    <2>2. R = Panicked \/ (R \in Sound(h) /\ Len(R.keys) = Len(q) /\ KeysIn(R) \subseteq X)
      BY <2>1
    <2> QED
      BY <2>2 DEF R
  <1>6. CASE ~(g = 0 /\ l.vals = <<>>)
    <2>1. R = Inner(h, [q EXCEPT ![j] = k], [c EXCEPT ![j] = low, ![i] = b])
      <3>1. Inner(h, q, c).height = h /\ Inner(h, q, c).keys = q /\ Inner(h, q, c).kids = c
        BY DEF Inner
      <3> HIDE DEF l, r
      <3> QED
        BY <1>4, <1>6, <3>1 DEF BorrowFromLeft, r
    <2>2. /\ low \in Sound(g) /\ Len(low.keys) = Len(l.keys) - 1 /\ KeysIn(low) \subseteq KeysIn(l)
          /\ last \in Sound(g) /\ KeysIn(last) \subseteq KeysIn(l)
          /\ AllUpTo(low, k) /\ AllFrom(last, k) /\ k \in KeysIn(l)
      <3> HIDE DEF l, g
      <3> QED
        BY <1>1, <1>2, <1>4, <1>6, EndsOfNode
    <2>3. Joined(last, s, r) = b
      <3>1. last.height = g /\ last.keys = <<>>
        BY DEF Leaf, Inner
      <3>2. g = 0 => last.vals = <<Last(l.vals)>>
        BY DEF Leaf
      <3>3. g # 0 => last.kids = <<Last(l.kids)>>
        BY DEF Inner
      <3>4. Append(<<>>, s) = <<s>>
        OBVIOUS
      <3> HIDE DEF last, g, l, r, s
      <3> QED
        BY <3>1, <3>2, <3>3, <3>4 DEF Joined
    <2>4. last.keys = <<>>
      BY DEF Leaf, Inner
    <2> HIDE DEF low, last, b, l, r, s, k, g, j, R
    <2>5. AllUpTo(last, s)
      BY <1>2, <2>2 DEF AllUpTo
    <2>6. b \in Sound(g) /\ Len(b.keys) = Len(last.keys) + Len(r.keys) + 1
          /\ KeysIn(b) \subseteq KeysIn(last) \cup {s} \cup KeysIn(r)
      <3> DEFINE p == Joined(last, s, r)
      <3>1. p \in Sound(g) /\ Len(p.keys) = Len(last.keys) + Len(r.keys) + 1
            /\ KeysIn(p) \subseteq KeysIn(last) \cup {s} \cup KeysIn(r)
        BY <1>1, <1>2, <2>2, <2>5, JoinSound
      <3>2. p = b
        BY <2>3
      <3> HIDE DEF p
      <3> QED
        BY <3>1, <3>2
    <2>7. Filled(b) /\ Filled(low)
      <3>1. Len(last.keys) = 0
        BY <2>4
      <3>2. Len(b.keys) = MinKeys
        BY <1>3, <1>4, <2>6, <3>1, OrderFacts
      <3>3. Len(l.keys) \in MinKeys..MaxKeys
        BY <1>3 DEF Filled
      <3>4. Len(low.keys) \in MinKeys..MaxKeys
        BY <1>3, <1>4, <2>2, <3>3, OrderFacts
      <3>5. MinKeys \in MinKeys..MaxKeys
        BY OrderFacts
      <3> QED
        BY <3>2, <3>4, <3>5 DEF Filled
    <2>8. KeysIn(l) \subseteq Nat /\ KeysIn(r) \subseteq Nat /\ s \in Nat
      BY <1>1, <1>2, SoundIsNode, KeysInType, ProllyAssumption
    <2>9. AllFrom(b, k)
      <3>1. k <= s
        BY <1>2, <2>2 DEF AllUpTo
      <3>2. \A x \in KeysIn(r) : k <= x
        BY <1>2, <2>2, <2>8, <3>1 DEF AllFrom
      <3> QED
        BY <2>2, <2>6, <3>1, <3>2 DEF AllFrom
    <2>10. KeysIn(l) \subseteq Between(q, c, j) /\ KeysIn(r) \subseteq Between(q, c, j) /\ s \in Between(q, c, j)
      BY <1>1 DEF Between, l, r, s
    <2>11. /\ k \in Between(q, c, j) /\ KeysIn(low) \subseteq Between(q, c, j)
           /\ KeysIn(b) \subseteq Between(q, c, j)
      BY <2>2, <2>6, <2>10
    <2>12. \A m \in 1..Len(c) : m # j /\ m # j + 1 => Filled(c[m])
      BY <1>1
    <2>13. low \in Sound(h - 1) /\ b \in Sound(h - 1)
      BY <2>2, <2>6 DEF g
    <2>14. LET p == Inner(h, [q EXCEPT ![j] = k], [c EXCEPT ![j] = low, ![j + 1] = b])
           IN  p \in Sound(h) /\ Len(p.keys) = Len(q) /\ KeysIn(p) \subseteq X
      BY <1>1, <2>2, <2>7, <2>9, <2>11, <2>12, <2>13, ReplaceTwo
    <2> QED
      BY <1>1, <2>1, <2>14 DEF R, l, j
  <1> QED
    BY <1>5, <1>6

LEMMA BorrowRightSound ==
    ASSUME NEW h \in Nat \ {0}, NEW q, NEW c, Around(h, q, c), NEW X, Within(q, c, X), NEW i \in 1..Len(q),
           \A m \in 1..Len(c) : m # i => Filled(c[m]),
           Len(c[i].keys) = MinKeys - 1, Len(c[i + 1].keys) > MinKeys
    PROVE  LET R == BorrowFromRight(Inner(h, q, c), i, c[i + 1])
           IN  R = Panicked \/ (R \in Sound(h) /\ Len(R.keys) = Len(q) /\ KeysIn(R) \subseteq X)
  <1> DEFINE g == h - 1
             l == c[i]
             r == c[i + 1]
             s == q[i]
             k == Head(r.keys)
             R == BorrowFromRight(Inner(h, q, c), i, r)
             high  == IF g = 0 THEN Leaf(Tail(r.keys), Tail(r.vals)) ELSE Inner(g, Tail(r.keys), Tail(r.kids))
             first == IF g = 0 THEN Leaf(<<>>, <<Head(r.vals)>>) ELSE Inner(g, <<>>, <<Head(r.kids)>>)
             a == IF g = 0 THEN Leaf(Append(l.keys, s), Append(l.vals, Head(r.vals)))
                  ELSE Inner(g, Append(l.keys, s), Append(l.kids, Head(r.kids)))
  <1>1. /\ Len(c) = Len(q) + 1 /\ Len(q) \in Nat /\ g \in Nat
        /\ i \in 1..Len(c) /\ i + 1 \in 1..Len(c) /\ i + 1 # i /\ i + 1 > 1 /\ (i + 1) - 1 = i /\ i <= Len(q)
    <2>1. Len(c) = Len(q) + 1 /\ Len(q) \in Nat
      BY DEF Around
    <2> QED
      BY <2>1
  <1>2. /\ l \in Sound(g) /\ r \in Sound(g) /\ AllUpTo(l, s) /\ AllFrom(r, s) /\ s \in Keys
    BY <1>1 DEF Around
  <1>3. Filled(r) /\ Len(r.keys) > MinKeys /\ Len(l.keys) = MinKeys - 1
    BY <1>1
  <1>4. r.height = g /\ Len(l.keys) \in Nat /\ Len(r.keys) \in Nat /\ r.keys # <<>>
    <2>1. r.height = g /\ Len(l.keys) \in Nat /\ Len(r.keys) \in Nat
      BY <1>1, <1>2, SoundIsNode, NodeForm
    <2>2. Len(r.keys) # 0
      BY <1>3, <2>1, OrderFacts
    <2> QED
      BY <2>1, <2>2
  <1>5. CASE g = 0 /\ r.vals = <<>>
    <2>1. R = Panicked
      <3> HIDE DEF r, g
      <3> QED
        BY <1>4, <1>5 DEF BorrowFromRight
    <2> HIDE DEF R
    <2>2. R = Panicked \/ (R \in Sound(h) /\ Len(R.keys) = Len(q) /\ KeysIn(R) \subseteq X)
      BY <2>1
    <2> QED
      BY <2>2 DEF R
  <1>6. CASE ~(g = 0 /\ r.vals = <<>>)
    <2>1. R = Inner(h, [q EXCEPT ![i] = k], [c EXCEPT ![i] = a, ![i + 1] = high])
      <3>1. Inner(h, q, c).height = h /\ Inner(h, q, c).keys = q /\ Inner(h, q, c).kids = c
        BY DEF Inner
      <3> HIDE DEF l, r
      <3> QED
        BY <1>4, <1>6, <3>1 DEF BorrowFromRight, l
    <2>2. /\ high \in Sound(g) /\ Len(high.keys) = Len(r.keys) - 1 /\ KeysIn(high) \subseteq KeysIn(r)
          /\ first \in Sound(g) /\ KeysIn(first) \subseteq KeysIn(r)
          /\ AllUpTo(first, k) /\ AllFrom(high, k) /\ k \in KeysIn(r)
      <3> HIDE DEF r, g
      <3> QED
        BY <1>1, <1>2, <1>4, <1>6, EndsOfNode
    <2>3. Joined(l, s, first) = a
      <3>1. l.height = g /\ first.keys = <<>>
        BY <1>1, <1>2, SoundIsNode, NodeForm DEF Leaf, Inner
      <3>2. Append(l.keys, s) \o <<>> = Append(l.keys, s)
        <4>1. l.keys \in Seq(Keys)
          BY <1>1, <1>2, SoundIsNode, NodeForm
        <4> QED
          BY <4>1, EmptySeqs
      <3>3. CASE g = 0
        <4>1. first.vals = <<Head(r.vals)>>
          BY <3>3 DEF Leaf
        <4>2. l.vals \o <<Head(r.vals)>> = Append(l.vals, Head(r.vals))
          <5>1. l.vals \in Seq(Seq(Values))
            BY <1>2, <3>3, SoundIsNode, LeafForm
          <5> DEFINE V == Seq(Values)
          <5> HIDE DEF V
          <5>2. l.vals \in Seq(V)
            BY <5>1 DEF V
          <5> QED
            BY <5>2, EmptySeqs
        <4> HIDE DEF first, g, l, r, s
        <4> QED
          BY <3>1, <3>2, <3>3, <4>1, <4>2 DEF Joined
      <3>4. CASE g # 0
        <4>1. first.kids = <<Head(r.kids)>>
          BY <3>4 DEF Inner
        <4>2. l.kids \o <<Head(r.kids)>> = Append(l.kids, Head(r.kids))
          <5>1. g \in Nat \ {0}
            BY <1>1, <3>4
          <5>2. l.kids \in Seq(Nodes[g - 1])
            <6> HIDE DEF g, l
            <6> QED
              BY <1>2, <5>1, SoundIsNode, InnerForm
          <5> QED
            BY <5>2, EmptySeqs
        <4> HIDE DEF first, g, l, r, s
        <4> QED
          BY <3>1, <3>2, <3>4, <4>1, <4>2 DEF Joined
      <3> QED
        BY <3>3, <3>4
    <2>4. first.keys = <<>>
      BY DEF Leaf, Inner
    <2> HIDE DEF high, first, a, l, r, s, k, g, R
    <2>5. AllFrom(first, s)
      BY <1>2, <2>2 DEF AllFrom
    <2>6. a \in Sound(g) /\ Len(a.keys) = Len(l.keys) + Len(first.keys) + 1
          /\ KeysIn(a) \subseteq KeysIn(l) \cup {s} \cup KeysIn(first)
      <3> DEFINE p == Joined(l, s, first)
      <3>1. p \in Sound(g) /\ Len(p.keys) = Len(l.keys) + Len(first.keys) + 1
            /\ KeysIn(p) \subseteq KeysIn(l) \cup {s} \cup KeysIn(first)
        BY <1>1, <1>2, <2>2, <2>5, JoinSound
      <3>2. p = a
        BY <2>3
      <3> HIDE DEF p
      <3> QED
        BY <3>1, <3>2
    <2>7. Filled(a) /\ Filled(high)
      <3>1. Len(first.keys) = 0
        BY <2>4
      <3>2. Len(a.keys) = MinKeys
        BY <1>3, <1>4, <2>6, <3>1, OrderFacts
      <3>3. Len(r.keys) \in MinKeys..MaxKeys
        BY <1>3 DEF Filled
      <3>4. Len(high.keys) \in MinKeys..MaxKeys
        BY <1>3, <1>4, <2>2, <3>3, OrderFacts
      <3>5. MinKeys \in MinKeys..MaxKeys
        BY OrderFacts
      <3> QED
        BY <3>2, <3>4, <3>5 DEF Filled
    <2>8. KeysIn(l) \subseteq Nat /\ KeysIn(r) \subseteq Nat /\ s \in Nat
      BY <1>1, <1>2, SoundIsNode, KeysInType, ProllyAssumption
    <2>9. AllUpTo(a, k)
      <3>1. s <= k
        BY <1>2, <2>2 DEF AllFrom
      <3>2. \A x \in KeysIn(l) : x <= k
        BY <1>2, <2>2, <2>8, <3>1 DEF AllUpTo
      <3> QED
        BY <2>2, <2>6, <3>1, <3>2 DEF AllUpTo
    <2>10. KeysIn(l) \subseteq Between(q, c, i) /\ KeysIn(r) \subseteq Between(q, c, i) /\ s \in Between(q, c, i)
      BY <1>1 DEF Between, l, r, s
    <2>11. /\ k \in Between(q, c, i) /\ KeysIn(high) \subseteq Between(q, c, i)
           /\ KeysIn(a) \subseteq Between(q, c, i)
      BY <2>2, <2>6, <2>10
    <2>12. \A m \in 1..Len(c) : m # i /\ m # i + 1 => Filled(c[m])
      BY <1>1
    <2>13. high \in Sound(h - 1) /\ a \in Sound(h - 1)
      BY <2>2, <2>6 DEF g
    <2>14. LET p == Inner(h, [q EXCEPT ![i] = k], [c EXCEPT ![i] = a, ![i + 1] = high])
           IN  p \in Sound(h) /\ Len(p.keys) = Len(q) /\ KeysIn(p) \subseteq X
      BY <1>1, <2>2, <2>7, <2>9, <2>11, <2>12, <2>13, ReplaceTwo
    <2> QED
      BY <1>1, <2>1, <2>14 DEF R, r
  <1> QED
    BY <1>5, <1>6

LEMMA MergeSound ==
    ASSUME NEW h \in Nat \ {0}, NEW q, NEW c, Around(h, q, c), NEW X, Within(q, c, X), NEW j \in 1..Len(q),
           \A m \in 1..Len(c) : m # j /\ m # j + 1 => Filled(c[m]),
           Len(c[j].keys) + Len(c[j + 1].keys) = 2 * MinKeys - 1
    PROVE  LET R == Merge(Inner(h, q, c), j)
           IN  R \in Sound(h) /\ Len(R.keys) = Len(q) - 1 /\ KeysIn(R) \subseteq X
  <1> DEFINE g == h - 1
             l == c[j]
             r == c[j + 1]
             s == q[j]
             a == Joined(l, s, r)
             R == Merge(Inner(h, q, c), j)
  <1>1. /\ Len(c) = Len(q) + 1 /\ Len(q) \in Nat /\ g \in Nat
        /\ j \in 1..Len(c) /\ j + 1 \in 1..Len(c) /\ j + 1 > 1 /\ (j + 1) - 1 = j /\ j <= Len(q)
    <2>1. Len(c) = Len(q) + 1 /\ Len(q) \in Nat
      BY DEF Around
    <2> QED
      BY <2>1
  <1>2. /\ l \in Sound(g) /\ r \in Sound(g) /\ AllUpTo(l, s) /\ AllFrom(r, s) /\ s \in Keys
    BY <1>1 DEF Around
  <1>3. R = Inner(h, RemoveAt(q, j), [RemoveAt(c, j + 1) EXCEPT ![j] = a])
    BY DEF Merge, Inner
  <1>4. Len(l.keys) + Len(r.keys) + 1 = 2 * MinKeys
    <2> DEFINE x == Len(l.keys)
               y == Len(r.keys)
    <2>1. x \in Nat /\ y \in Nat
      BY <1>1, <1>2, SoundIsNode, NodeForm
    <2>2. x + y = 2 * MinKeys - 1
      OBVIOUS
    <2> HIDE DEF x, y
    <2>3. x + y + 1 = 2 * MinKeys
      BY <2>1, <2>2, OrderFacts
    <2> QED
      BY <2>3 DEF x, y
  <1>5. /\ KeysIn(l) \subseteq Between(q, c, j) /\ KeysIn(r) \subseteq Between(q, c, j)
        /\ s \in Between(q, c, j)
    BY DEF Between
  <1> HIDE DEF l, r, s
  <1>6. /\ a \in Sound(g) /\ Len(a.keys) = Len(l.keys) + Len(r.keys) + 1
        /\ KeysIn(a) \subseteq KeysIn(l) \cup {s} \cup KeysIn(r)
    BY <1>1, <1>2, JoinSound
  <1> HIDE DEF a, R
  <1>7. Filled(a) /\ KeysIn(a) \subseteq Between(q, c, j)
    <2>1. Len(a.keys) = 2 * MinKeys
      BY <1>4, <1>6
    <2>2. 2 * MinKeys \in MinKeys..MaxKeys
      BY OrderFacts
    <2>3. KeysIn(a) \subseteq Between(q, c, j)
      BY <1>5, <1>6
    <2> QED
      BY <2>1, <2>2, <2>3 DEF Filled
  <1>8. LET p == Inner(h, RemoveAt(q, j), [RemoveAt(c, j + 1) EXCEPT ![j] = a])
        IN  p \in Sound(h) /\ Len(p.keys) = Len(q) - 1 /\ KeysIn(p) \subseteq X
    BY <1>6, <1>7, MergeTwo
  <1> QED
    BY <1>3, <1>8 DEF R

\* A child that lost a key too many is helped by a neighbour.
LEMMA HandleUnderflowSound ==
    ASSUME NEW h \in Nat \ {0}, NEW q, NEW c, Around(h, q, c), NEW X, Within(q, c, X), Len(q) >= 1,
           NEW i \in 1..Len(c), \A m \in 1..Len(c) : m # i => Filled(c[m]), Len(c[i].keys) = MinKeys - 1
    PROVE  LET R == HandleUnderflow(Inner(h, q, c), i)
           IN  \/ R = Panicked
               \/ R \in Sound(h) /\ Len(R.keys) \in (Len(q) - 1)..Len(q) /\ KeysIn(R) \subseteq X
  <1> DEFINE n == Inner(h, q, c)
             R == HandleUnderflow(n, i)
             Right(p) == \/ p = Panicked
                         \/ p \in Sound(h) /\ Len(p.keys) \in (Len(q) - 1)..Len(q) /\ KeysIn(p) \subseteq X
  <1>1. n.keys = q /\ n.kids = c
    BY DEF Inner
  <1>2. Len(c) = Len(q) + 1 /\ Len(q) \in Nat /\ i \in Nat
    BY DEF Around
  <1>3. Len(q) \in (Len(q) - 1)..Len(q) /\ Len(q) - 1 \in (Len(q) - 1)..Len(q)
    BY <1>2
  <1>4. CASE i > 1 /\ Len(c[i - 1].keys) > MinKeys
    <2> DEFINE p == BorrowFromLeft(n, i, c[i - 1])
    <2>1. R = p
      BY <1>1, <1>4, Zenon DEF HandleUnderflow
    <2>2. i \in 2..Len(c)
      BY <1>2, <1>4
    <2>3. p = Panicked \/ (p \in Sound(h) /\ Len(p.keys) = Len(q) /\ KeysIn(p) \subseteq X)
      BY <1>4, <2>2, BorrowLeftSound
    <2> HIDE DEF p, R
    <2>4. Right(R)
      BY <1>3, <2>1, <2>3
    <2> QED
      BY <2>4 DEF R
  <1>5. CASE ~(i > 1 /\ Len(c[i - 1].keys) > MinKeys) /\ i <= Len(q) /\ Len(c[i + 1].keys) > MinKeys
    <2> DEFINE p == BorrowFromRight(n, i, c[i + 1])
    <2>1. R = p
      BY <1>1, <1>5, Zenon DEF HandleUnderflow
    <2>2. i \in 1..Len(q)
      BY <1>2, <1>5
    <2>3. p = Panicked \/ (p \in Sound(h) /\ Len(p.keys) = Len(q) /\ KeysIn(p) \subseteq X)
      BY <1>5, <2>2, BorrowRightSound
    <2> HIDE DEF p, R
    <2>4. Right(R)
      BY <1>3, <2>1, <2>3
    <2> QED
      BY <2>4 DEF R
  <1>6. CASE /\ ~(i > 1 /\ Len(c[i - 1].keys) > MinKeys)
             /\ ~(i <= Len(q) /\ Len(c[i + 1].keys) > MinKeys)
    <2> DEFINE j == IF i > 1 THEN i - 1 ELSE i
               p == Merge(n, j)
    <2>1. R = p
      BY <1>1, <1>6, Zenon DEF HandleUnderflow
    <2>2. /\ j \in 1..Len(q)
          /\ j = i - 1 \/ j = i
          /\ j = i - 1 => i > 1 /\ j + 1 = i
          /\ j = i => i <= Len(q)
      BY <1>2
    <2> HIDE DEF j
    <2>3. Len(c[j].keys) + Len(c[j + 1].keys) = 2 * MinKeys - 1
      <3>1. \A m \in 1..Len(c) : m # i /\ ~(Len(c[m].keys) > MinKeys) => Len(c[m].keys) = MinKeys
        <4>1. ASSUME NEW m \in 1..Len(c), m # i, ~(Len(c[m].keys) > MinKeys) PROVE Len(c[m].keys) = MinKeys
          <5>1. Len(c[m].keys) \in MinKeys..MaxKeys
            BY <4>1 DEF Filled
          <5> DEFINE x == Len(c[m].keys)
          <5>2. x \in MinKeys..MaxKeys /\ ~(x > MinKeys)
            BY <4>1, <5>1
          <5> HIDE DEF x
          <5>3. x = MinKeys
            BY <5>2, OrderFacts
          <5> QED
            BY <5>3 DEF x
        <4> QED
          BY <4>1
      <3>2. MinKeys + (MinKeys - 1) = 2 * MinKeys - 1 /\ (MinKeys - 1) + MinKeys = 2 * MinKeys - 1
        BY OrderFacts
      <3>3. CASE j = i - 1
        <4>1. i - 1 \in 1..Len(c) /\ i - 1 # i /\ i > 1 /\ j + 1 = i
          BY <1>2, <2>2, <3>3
        <4>2. Len(c[j].keys) = MinKeys /\ Len(c[j + 1].keys) = MinKeys - 1
          BY <1>6, <3>1, <3>3, <4>1
        <4> QED
          BY <3>2, <4>2
      <3>4. CASE j = i
        <4>1. i + 1 \in 1..Len(c) /\ i + 1 # i /\ i <= Len(q)
          BY <1>2, <2>2, <3>4
        <4>2. Len(c[j + 1].keys) = MinKeys /\ Len(c[j].keys) = MinKeys - 1
          BY <1>6, <3>1, <3>4, <4>1
        <4> QED
          BY <3>2, <4>2
      <3> QED
        BY <2>2, <3>3, <3>4
    <2>4. \A m \in 1..Len(c) : m # j /\ m # j + 1 => Filled(c[m])
      BY <2>2
    <2>5. p \in Sound(h) /\ Len(p.keys) = Len(q) - 1 /\ KeysIn(p) \subseteq X
      BY <2>2, <2>3, <2>4, MergeSound
    <2> HIDE DEF p, R
    <2>6. Right(R)
      BY <1>3, <2>1, <2>5
    <2> QED
      BY <2>6 DEF R
  <1> QED
    BY <1>4, <1>5, <1>6

LEMMA DeleteAtSound ==
    ASSUME NEW h \in Nat, NEW n \in Sound(h), Len(n.keys) <= MaxKeys, h > 0 => Len(n.keys) >= 1,
           NEW k \in Keys, NEW v \in Values, NEW f,
           h # 0 => \A c \in Sound(h - 1) : Filled(c) => Dwindles(f[h - 1][c], h - 1, c)
    PROVE  Dwindles(DeleteAt(k, v, f, h, n), h, n)
  <1> DEFINE i == SearchStrings(n.keys, k)
             q == n.keys
             c == n.kids
             child == f[h - 1][c[i]]
             R == DeleteAt(k, v, f, h, n)
  <1>1. n \in Nodes[h] /\ Len(q) \in Nat /\ Len(q) \in (Len(q) - 1)..Len(q)
    BY SoundIsNode, NodeForm
  <1>2. CASE h = 0
    <2>1. R = DeleteInLeaf(n, k, v)
      BY <1>2 DEF DeleteAt
    <2> HIDE DEF R
    <2>2. Dwindles(R, h, n)
      BY <1>2, <2>1, DeleteInLeafSound DEF Dwindles
    <2> QED
      BY <2>2 DEF R
  <1>3. CASE h # 0 /\ child = Panicked
    BY <1>3 DEF DeleteAt, Dwindles
  <1>4. CASE h # 0 /\ child # Panicked /\ child = c[i]
    <2>1. R = n
      BY <1>4 DEF DeleteAt
    <2> HIDE DEF R
    <2>2. Dwindles(R, h, n)
      BY <1>1, <2>1 DEF Dwindles
    <2> QED
      BY <2>2 DEF R
  <1>5. CASE h # 0 /\ child # Panicked /\ child # c[i]
    <2> DEFINE d == [c EXCEPT ![i] = child]
               p == Inner(h, q, d)
               X == KeysIn(n)
    <2>1. h \in Nat \ {0} /\ h - 1 \in Nat /\ Len(q) >= 1
      BY <1>5
    <2>2. R = IF Len(child.keys) < MinKeys THEN HandleUnderflow(p, i) ELSE p
      <3>1. n = Inner(h, q, c)
        BY <1>1, <2>1, InnerForm
      <3>2. [n EXCEPT !.kids[i] = child] = p
        BY <3>1 DEF Inner
      <3> DEFINE w == [n EXCEPT !.kids[i] = child]
      <3>3. R = IF Len(child.keys) < MinKeys THEN HandleUnderflow(w, i) ELSE w
        BY <1>5 DEF DeleteAt
      <3> QED
        BY <3>2, <3>3
    <2>3. i \in 1..Len(c)
      <3>1. i \in 1..(Len(q) + 1)
        BY SearchInNode
      <3>2. Len(c) = Len(q) + 1
        BY <1>1, <2>1, InnerForm
      <3> HIDE DEF i
      <3> QED
        BY <3>1, <3>2
    <2> HIDE DEF i, R
    <2>4. c[i] \in Sound(h - 1) /\ Filled(c[i]) /\ c[i] \in Nodes[h - 1]
      BY <2>1, <2>3, KidsAround
    <2>5. Dwindles(child, h - 1, c[i])
      BY <1>5, <2>4
    <2> HIDE DEF child
    <2>6. /\ child \in Sound(h - 1) /\ Len(child.keys) \in (Len(c[i].keys) - 1)..Len(c[i].keys)
          /\ KeysIn(child) \subseteq KeysIn(c[i]) /\ child \in Nodes[h - 1]
      BY <1>5, <2>1, <2>5, SoundIsNode DEF Dwindles
    <2>7. q \in Seq(Keys) /\ Sorted(q) /\ c \in Seq(Nodes[h - 1]) /\ Len(c) = Len(q) + 1
      BY <1>1, <2>1, SoundIsNode, InnerForm
    <2>8. d \in Seq(Nodes[h - 1]) /\ Len(d) = Len(c) /\ \A m \in 1..Len(c) : d[m] = IF m = i THEN child ELSE c[m]
      <3> DEFINE S == Nodes[h - 1]
      <3> HIDE DEF S
      <3>1. child \in S /\ c \in Seq(S)
        BY <2>6, <2>7 DEF S
      <3>2. d \in Seq(S) /\ Len(d) = Len(c) /\ \A m \in 1..Len(c) : d[m] = IF m = i THEN child ELSE c[m]
        <4> HIDE DEF c
        <4> QED
          BY <2>3, <3>1, ChangeSeq
      <3> QED
        BY <3>2 DEF S
    <2>9. \A m \in 1..Len(c) : /\ c[m] \in Sound(h - 1) /\ Filled(c[m])
                               /\ m > 1 => AllFrom(c[m], q[m - 1])
                               /\ m <= Len(q) => AllUpTo(c[m], q[m])
                               /\ KeysIn(c[m]) \subseteq X
      BY <2>1, KidsAround
    <2>10. \A m \in 1..Len(q) : q[m] \in X
      BY <1>1, <2>1, KeysInInner
    <2> HIDE DEF q, c, d, X
    <2>11. \A m \in 1..Len(d) : /\ d[m] \in Sound(h - 1)
                                /\ m > 1 => AllFrom(d[m], q[m - 1])
                                /\ m <= Len(q) => AllUpTo(d[m], q[m])
                                /\ KeysIn(d[m]) \subseteq X
                                /\ m # i => Filled(d[m])
      <3>1. ASSUME NEW m \in 1..Len(d)
            PROVE  /\ d[m] \in Sound(h - 1)
                   /\ m > 1 => AllFrom(d[m], q[m - 1])
                   /\ m <= Len(q) => AllUpTo(d[m], q[m])
                   /\ KeysIn(d[m]) \subseteq X
                   /\ m # i => Filled(d[m])
        <4>1. m \in 1..Len(c)
          BY <2>8
        <4>2. CASE m # i
          BY <2>8, <2>9, <4>1, <4>2
        <4>3. CASE m = i
          <5>1. d[m] = child
            BY <2>8, <4>1, <4>3
          <5> QED
            BY <2>6, <2>9, <4>1, <4>3, <5>1 DEF AllFrom, AllUpTo
        <4> QED
          BY <4>2, <4>3
      <3> QED
        BY <3>1
    <2>12. d[i] = child
      BY <2>3, <2>8
    <2>13. Len(child.keys) \in Nat /\ Len(child.keys) <= MaxKeys /\ Len(child.keys) >= MinKeys - 1
      <3> DEFINE x == Len(c[i].keys)
                 y == Len(child.keys)
      <3>1. x \in MinKeys..MaxKeys
        BY <2>4 DEF Filled
      <3>2. y \in (x - 1)..x
        BY <2>6
      <3> HIDE DEF x, y
      <3>3. y \in Nat /\ y <= MaxKeys /\ y >= MinKeys - 1
        BY <3>1, <3>2, OrderFacts
      <3> QED
        BY <3>3 DEF y
    <2>14. Around(h, q, d) /\ Within(q, d, X)
      BY <2>7, <2>8, <2>10, <2>11 DEF Around, Within
    <2>15. CASE Len(child.keys) < MinKeys
      <3>1. Len(d[i].keys) = MinKeys - 1
        BY <2>12, <2>13, <2>15, OrderFacts
      <3>2. i \in 1..Len(d) /\ \A m \in 1..Len(d) : m # i => Filled(d[m])
        BY <2>3, <2>8, <2>11
      <3> DEFINE w == HandleUnderflow(p, i)
      <3>3. \/ w = Panicked
            \/ w \in Sound(h) /\ Len(w.keys) \in (Len(q) - 1)..Len(q) /\ KeysIn(w) \subseteq X
        BY <2>1, <2>14, <3>1, <3>2, HandleUnderflowSound
      <3>4. R = w
        BY <2>2, <2>15
      <3> HIDE DEF w
      <3>5. Dwindles(R, h, n)
        BY <3>3, <3>4 DEF Dwindles, q, X
      <3> QED
        BY <3>5 DEF R
    <2>16. CASE ~(Len(child.keys) < MinKeys)
      <3>1. Filled(child)
        <4> DEFINE y == Len(child.keys)
        <4>1. y \in Nat /\ y <= MaxKeys /\ ~(y < MinKeys)
          BY <2>13, <2>16
        <4> HIDE DEF y
        <4>2. y \in MinKeys..MaxKeys
          BY <4>1, OrderFacts
        <4> QED
          BY <4>2 DEF Filled, y
      <3>2. \A m \in 1..Len(d) : d[m] \in Sound(h - 1) /\ Filled(d[m])
        BY <2>11, <2>12, <3>1
      <3>3. Len(d) = Len(q) + 1
        BY <2>7, <2>8
      <3>4. p \in Sound(h)
        BY <2>1, <2>7, <2>8, <2>11, <3>2, <3>3, InnerSound
      <3>5. p.keys = q /\ p.kids = d
        BY DEF Inner
      <3> HIDE DEF p
      <3>6. \A x : x \in KeysIn(p) <=> \/ \E m \in 1..Len(q) : x = q[m]
                                       \/ \E m \in 1..Len(d) : x \in KeysIn(d[m])
        BY <2>1, <3>4, <3>5, SoundIsNode, KeysInInner
      <3>7. KeysIn(p) \subseteq X
        BY <2>10, <2>11, <3>6
      <3>8. Dwindles(p, h, n)
        BY <1>1, <3>4, <3>5, <3>7 DEF Dwindles, q, X
      <3>9. R = p
        BY <2>2, <2>16
      <3> QED
        BY <3>8, <3>9 DEF R
    <2> QED
      BY <2>15, <2>16
  <1> QED
    BY <1>2, <1>3, <1>4, <1>5

LEMMA DeleteSound ==
    ASSUME NEW k \in Keys, NEW v \in Values
    PROVE  \A h \in Nat : \A n \in Sound(h) :
               Len(n.keys) <= MaxKeys /\ (h > 0 => Len(n.keys) >= 1) => Dwindles(RecursiveDelete(k, v)[h][n], h, n)
  <1> DEFINE f == RecursiveDelete(k, v)
             Right(h) == \A n \in Sound(h) : Len(n.keys) <= MaxKeys /\ (h > 0 => Len(n.keys) >= 1) =>
                                                Dwindles(f[h][n], h, n)
             T == {h \in Nat : Right(h)}
  <1>1. \A h \in Nat : f[h] = DeleteStep(k, v, f, h)
    BY DeleteDef
  <1>2. \A h \in Nat : \A n \in Sound(h) : f[h][n] = DeleteAt(k, v, f, h, n)
    <2> HIDE DEF f
    <2>1. \A h \in Nat : \A n \in Sound(h) : n \in Nodes[h]
      BY SoundIsNode
    <2> QED
      BY <1>1, <2>1, Zenon DEF DeleteStep
  <1> HIDE DEF f
  <1>3. 0 \in T
    <2>1. ASSUME NEW n \in Sound(0), Len(n.keys) <= MaxKeys PROVE Dwindles(f[0][n], 0, n)
      <3>1. Dwindles(DeleteAt(k, v, f, 0, n), 0, n)
        BY <2>1, DeleteAtSound
      <3> QED
        BY <1>2, <3>1
    <2> QED
      BY <2>1
  <1>4. ASSUME NEW g \in Nat, g \in T PROVE g + 1 \in T
    <2> DEFINE h == g + 1
    <2>1. h \in Nat /\ h - 1 = g
      OBVIOUS
    <2> HIDE DEF h
    <2>2. \A c \in Sound(h - 1) : Filled(c) => Dwindles(f[h - 1][c], h - 1, c)
      <3>1. ASSUME NEW c \in Sound(g), Filled(c) PROVE Len(c.keys) <= MaxKeys /\ Len(c.keys) >= 1
        <4>1. Len(c.keys) \in MinKeys..MaxKeys
          BY <3>1 DEF Filled
        <4> QED
          BY <4>1, OrderFacts
      <3> QED
        BY <1>4, <2>1, <3>1
    <2>3. ASSUME NEW n \in Sound(h), Len(n.keys) <= MaxKeys, h > 0 => Len(n.keys) >= 1
          PROVE  Dwindles(f[h][n], h, n)
      <3>1. Dwindles(DeleteAt(k, v, f, h, n), h, n)
        BY <2>1, <2>2, <2>3, DeleteAtSound
      <3> QED
        BY <1>2, <2>1, <3>1
    <2>4. h \in T
      BY <2>1, <2>3
    <2> QED
      BY <2>4 DEF h
  <1>5. \A h \in Nat : h \in T
    <2> HIDE DEF T
    <2> QED
      BY <1>3, <1>4, SetInduction
  <1> QED
    BY <1>5 DEF f

\* Delete keeps a tree sound, or panics.
LEMMA DeleteRooted ==
    ASSUME NEW t, Rooted(t), NEW k \in Keys, NEW v \in Values
    PROVE  Delete(t, k, v) = Panicked \/ Rooted(Delete(t, k, v))
  <1> DEFINE h == t.height
             new == RecursiveDelete(k, v)[h][t]
  <1>1. h \in Nat /\ t \in Sound(h) /\ Len(t.keys) <= MaxKeys /\ (h > 0 => Len(t.keys) >= 1)
    BY DEF Rooted
  <1>2. Delete(t, k, v) = IF new.height > 0 /\ new.keys = <<>> THEN new.kids[1] ELSE new
    BY DEF Delete
  <1>3. Dwindles(new, h, t)
    BY <1>1, DeleteSound
  <1>4. Len(t.keys) \in Nat
    BY <1>1, SoundIsNode, NodeForm
  <1> HIDE DEF h, new
  <1>5. CASE new = Panicked
    <2>1. new.height = 0
      BY <1>5 DEF Panicked, Leaf
    <2> QED
      BY <1>2, <1>5, <2>1
  <1>6. CASE /\ new \in Sound(h) /\ Len(new.keys) \in (Len(t.keys) - 1)..Len(t.keys)
             /\ KeysIn(new) \subseteq KeysIn(t)
    <2>1. new.height = h /\ Len(new.keys) \in Nat /\ new.keys \in Seq(Keys)
      BY <1>1, <1>6, SoundIsNode, NodeForm
    <2>2. CASE h > 0 /\ new.keys = <<>>
      <3>1. h \in Nat \ {0} /\ h - 1 \in Nat
        BY <1>1, <2>2
      <3>2. 1 \in 1..Len(new.kids)
        <4>1. Len(new.kids) = Len(new.keys) + 1
          BY <1>6, <3>1, SoundIsNode, InnerForm
        <4> QED
          BY <2>1, <4>1
      <3> DEFINE m == new.kids[1]
      <3>3. m \in Sound(h - 1) /\ Filled(m) /\ m \in Nodes[h - 1]
        BY <1>6, <3>1, <3>2, KidsAround
      <3>4. Delete(t, k, v) = m
        BY <1>2, <2>1, <2>2
      <3> HIDE DEF m
      <3>5. m.height = h - 1
        BY <3>1, <3>3, NodeForm
      <3>6. Len(m.keys) <= MaxKeys /\ Len(m.keys) >= 1
        <4>1. Len(m.keys) \in MinKeys..MaxKeys
          BY <3>3 DEF Filled
        <4> QED
          BY <4>1, OrderFacts
      <3> QED
        BY <3>1, <3>3, <3>4, <3>5, <3>6 DEF Rooted
    <2>3. CASE ~(h > 0 /\ new.keys = <<>>)
      <3>1. Delete(t, k, v) = new
        BY <1>2, <2>1, <2>3
      <3>2. h > 0 => Len(new.keys) >= 1
        <4>1. ASSUME h > 0 PROVE Len(new.keys) # 0
          BY <2>1, <2>3, <4>1
        <4> QED
          BY <2>1, <4>1
      <3>3. Len(new.keys) <= MaxKeys
        BY <1>1, <1>4, <1>6, <2>1, OrderFacts
      <3> QED
        BY <1>1, <1>6, <2>1, <3>1, <3>2, <3>3 DEF Rooted
    <2> QED
      BY <2>2, <2>3
  <1> QED
    BY <1>3, <1>5, <1>6 DEF Dwindles

LEMMA SeparatorsType ==
    ASSUME NEW t, Rooted(t)
    PROVE  SeparatorsOf(t) \subseteq Keys
  <1>1. t.height \in Nat /\ t \in Nodes[t.height]
    BY SoundIsNode DEF Rooted
  <1>2. KeysIn(t) \subseteq Keys
    BY <1>1, KeysInType
  <1>3. SeparatorsOf(t) \subseteq KeysIn(t)
    BY DEF SeparatorsOf, KeysIn
  <1> QED
    BY <1>2, <1>3

-----------------------------------------------------------------------------
(* What a tree holds                                                         *)

\* What Get finds from a node of height h on.
Read(h, n, x) == RecursiveGet(x)[h][n]

\* Each key of a leaf is there once and has its values.
Strict(keys) == \A i, j \in DOMAIN keys : i < j => keys[i] < keys[j]
Aligned(n) == Len(n.vals) = Len(n.keys) /\ Strict(n.keys)
Exact(n) == \A m \in NodesIn(n) : m.height = 0 => Aligned(m)

\* The place of a key that is not among the keys of a node.
Place(keys, x, j) ==
    /\ j \in 1..(Len(keys) + 1)
    /\ j > 1 => keys[j - 1] < x
    /\ j <= Len(keys) => x < keys[j]

LEMMA ReadLeaf ==
    ASSUME NEW n \in Nodes[0], NEW x
    PROVE  LET i == SearchStrings(n.keys, x)
           IN  Read(0, n, x) = IF ~Found(n.keys, x) THEN <<>>
                               ELSE IF i > Len(n.vals) THEN <<Panic>> ELSE n.vals[i]
  <1> DEFINE f == RecursiveGet(x)
  <1>1. f[0] = GetStep(x, f, 0)
    BY GetDef
  <1> HIDE DEF f
  <1>2. f[0][n] = GetAt(x, f, 0, n)
    BY <1>1, Zenon DEF GetStep
  <1>3. ~(0 > 0)
    OBVIOUS
  <1> QED
    BY <1>2, <1>3, Zenon DEF Read, GetAt, f

LEMMA ReadBelow ==
    ASSUME NEW h \in Nat \ {0}, NEW n \in Nodes[h], NEW x
    PROVE  Read(h, n, x) =
               Read(h - 1, n.kids[IF Found(n.keys, x) THEN SearchStrings(n.keys, x) + 1
                                  ELSE SearchStrings(n.keys, x)], x)
  <1> DEFINE f == RecursiveGet(x)
  <1>1. f[h] = GetStep(x, f, h)
    BY GetDef
  <1> HIDE DEF f
  <1>2. f[h][n] = GetAt(x, f, h, n)
    BY <1>1, Zenon DEF GetStep
  <1>3. h > 0
    OBVIOUS
  <1> QED
    BY <1>2, <1>3, Zenon DEF Read, GetAt, f

LEMMA PlaceIs ==
    ASSUME NEW keys \in Seq(Nat), Sorted(keys), NEW x \in Nat, NEW j, Place(keys, x, j)
    PROVE  /\ SearchStrings(keys, x) = j /\ ~Found(keys, x)
           /\ \A m \in 1..Len(keys) : keys[m] # x /\ (m < j <=> keys[m] < x)
  <1>1. /\ Len(keys) \in Nat /\ \A m \in 1..Len(keys) : keys[m] \in Nat
        /\ \A m, p \in 1..Len(keys) : m <= p => keys[m] <= keys[p]
    BY SortedMeans
  <1>2. j \in 1..(Len(keys) + 1) /\ (j > 1 => keys[j - 1] < x) /\ (j <= Len(keys) => x < keys[j])
    BY DEF Place
  <1>3. ASSUME NEW m \in 1..Len(keys) PROVE keys[m] # x /\ (m < j <=> keys[m] < x)
    <2>1. CASE m < j
      <3>1. j > 1 /\ j - 1 \in 1..Len(keys) /\ m <= j - 1
        BY <1>1, <1>2, <2>1
      <3>2. keys[m] <= keys[j - 1] /\ keys[j - 1] < x /\ keys[m] \in Nat /\ keys[j - 1] \in Nat
        BY <1>1, <1>2, <3>1
      <3> QED
        BY <2>1, <3>2
    <2>2. CASE ~(m < j)
      <3>1. j \in 1..Len(keys) /\ j <= m /\ j <= Len(keys)
        BY <1>1, <1>2, <2>2
      <3>2. keys[j] <= keys[m] /\ x < keys[j] /\ keys[m] \in Nat /\ keys[j] \in Nat
        BY <1>1, <1>2, <3>1
      <3> QED
        BY <2>2, <3>2
    <2> QED
      BY <2>1, <2>2
  <1>4. SearchStrings(keys, x) = j
    BY <1>2, <1>3, SearchIs
  <1>5. ~Found(keys, x)
    <2>1. ASSUME j <= Len(keys) PROVE keys[j] # x
      BY <1>1, <1>2, <1>3, <2>1
    <2> QED
      BY <1>4, <2>1 DEF Found
  <1> QED
    BY <1>3, <1>4, <1>5

LEMMA PlaceExists ==
    ASSUME NEW keys \in Seq(Nat), Sorted(keys), NEW x \in Nat, \A m \in 1..Len(keys) : keys[m] # x
    PROVE  Place(keys, x, SearchStrings(keys, x))
  <1> DEFINE i == SearchStrings(keys, x)
  <1>1. Len(keys) \in Nat /\ \A m \in 1..Len(keys) : keys[m] \in Nat
    OBVIOUS
  <1>2. i \in 1..(Len(keys) + 1) /\ \A m \in 1..Len(keys) : m < i <=> keys[m] < x
    BY Searches
  <1> HIDE DEF i
  <1>3. ASSUME i > 1 PROVE keys[i - 1] < x
    <2>1. i - 1 \in 1..Len(keys) /\ i - 1 < i
      BY <1>1, <1>2, <1>3
    <2> QED
      BY <1>2, <2>1
  <1>4. ASSUME i <= Len(keys) PROVE x < keys[i]
    <2>1. i \in 1..Len(keys) /\ ~(i < i)
      BY <1>1, <1>2, <1>4
    <2>2. ~(keys[i] < x) /\ keys[i] # x /\ keys[i] \in Nat
      BY <1>1, <1>2, <2>1
    <2> QED
      BY <2>2
  <1>5. Place(keys, x, i)
    BY <1>2, <1>3, <1>4 DEF Place
  <1> QED
    BY <1>5 DEF i

LEMMA ReadInner ==
    ASSUME NEW h \in Nat \ {0}, NEW n \in Nodes[h], Sorted(n.keys), NEW x \in Nat, NEW j, Place(n.keys, x, j)
    PROVE  Read(h, n, x) = Read(h - 1, n.kids[j], x)
  <1>1. n.keys \in Seq(Nat)
    BY NodeForm
  <1>2. SearchStrings(n.keys, x) = j /\ ~Found(n.keys, x)
    BY <1>1, PlaceIs
  <1> QED
    BY <1>2, ReadBelow

LEMMA SepsLeaf ==
    ASSUME NEW n \in Nodes[0]
    PROVE  SeparatorsOf(n) = {}
  <1>1. NodesIn(n) = {n} /\ n.height = 0
    BY NodesInLeaf, NodeForm
  <1>2. {m \in NodesIn(n) : m.height > 0} = {}
    BY <1>1
  <1> QED
    BY <1>2 DEF SeparatorsOf

LEMMA SepsInner ==
    ASSUME NEW h \in Nat \ {0}, NEW n \in Nodes[h]
    PROVE  \A x : x \in SeparatorsOf(n) <=> \/ \E j \in 1..Len(n.keys) : x = n.keys[j]
                                            \/ \E j \in 1..Len(n.kids) : x \in SeparatorsOf(n.kids[j])
  <1>1. NodesIn(n) = {n} \cup UNION {NodesIn(n.kids[i]) : i \in 1..Len(n.kids)}
    BY NodesInInner
  <1>2. DOMAIN n.keys = 1..Len(n.keys)
    BY InnerForm
  <1>3. n.height > 0
    BY InnerForm
  <1> HIDE DEF NodesIn
  <1>4. \A x : x \in SeparatorsOf(n) <=> \E m \in NodesIn(n) : m.height > 0 /\ x \in Range(m.keys)
    BY DEF SeparatorsOf
  <1>5. \A i \in 1..Len(n.kids) : \A x :
            x \in SeparatorsOf(n.kids[i]) <=> \E m \in NodesIn(n.kids[i]) : m.height > 0 /\ x \in Range(m.keys)
    BY DEF SeparatorsOf
  <1>6. \A x : x \in Range(n.keys) <=> \E j \in 1..Len(n.keys) : x = n.keys[j]
    BY <1>2 DEF Range
  <1>7. \A m : m \in NodesIn(n) <=> m = n \/ \E i \in 1..Len(n.kids) : m \in NodesIn(n.kids[i])
    BY <1>1
  <1> TAKE x
  <1> HIDE DEF SeparatorsOf
  <1>8. x \in SeparatorsOf(n) <=> x \in Range(n.keys) \/ \E i \in 1..Len(n.kids) :
                               \E m \in NodesIn(n.kids[i]) : m.height > 0 /\ x \in Range(m.keys)
    BY <1>3, <1>4, <1>7
  <1> QED
    BY <1>5, <1>6, <1>8

LEMMA ExactLeaf ==
    ASSUME NEW n \in Nodes[0]
    PROVE  Exact(n) <=> Aligned(n)
  <1>1. NodesIn(n) = {n} /\ n.height = 0
    BY NodesInLeaf, NodeForm
  <1> QED
    BY <1>1 DEF Exact

LEMMA ExactInner ==
    ASSUME NEW h \in Nat \ {0}, NEW n \in Nodes[h]
    PROVE  Exact(n) <=> \A j \in 1..Len(n.kids) : Exact(n.kids[j])
  <1>1. NodesIn(n) = {n} \cup UNION {NodesIn(n.kids[i]) : i \in 1..Len(n.kids)}
    BY NodesInInner
  <1>2. n.height # 0
    BY InnerForm
  <1> HIDE DEF NodesIn
  <1>3. \A m : m \in NodesIn(n) <=> m = n \/ \E i \in 1..Len(n.kids) : m \in NodesIn(n.kids[i])
    BY <1>1
  <1> QED
    BY <1>2, <1>3 DEF Exact

\* One node, and two with a key between, as Put hands them to the parent.
LEMMA OneChild ==
    ASSUME NEW h \in Nat, NEW a \in Nodes[h]
    PROVE  LET R == Inner(h + 1, <<>>, <<a>>)
           IN  /\ R \in Nodes[h + 1] /\ SeparatorsOf(R) = SeparatorsOf(a) /\ (Exact(R) <=> Exact(a))
               /\ \A x \in Nat : Read(h + 1, R, x) = Read(h, a, x)
  <1> DEFINE R == Inner(h + 1, <<>>, <<a>>)
             g == h + 1
             q == <<>>
             c == <<a>>
             S == Nodes[h]
  <1>1. g \in Nat \ {0} /\ g - 1 = h
    OBVIOUS
  <1>2. q \in Seq(Keys) /\ Len(q) = 0 /\ q \in Seq(Nat)
    OBVIOUS
  <1>3. c \in Seq(S) /\ Len(c) = 1 /\ c[1] = a
    <2>1. a \in S
      OBVIOUS
    <2> HIDE DEF S
    <2> QED
      BY <2>1
  <1>4. R.keys = q /\ R.kids = c
    BY DEF Inner
  <1>5. R = Inner(g, q, c)
    OBVIOUS
  <1> HIDE DEF R, q, c, g
  <1>6. R \in Nodes[g]
    <2>1. c \in Seq(Nodes[g - 1]) /\ Len(c) = Len(q) + 1
      BY <1>1, <1>2, <1>3 DEF S
    <2> QED
      BY <1>1, <1>2, <1>5, <2>1, InnerIn
  <1>7. \A j : j \in 1..Len(c) <=> j = 1
    BY <1>3
  <1>8. \A j : ~(j \in 1..Len(q))
    BY <1>2
  <1>9. SeparatorsOf(R) = SeparatorsOf(a)
    <2>1. \A x : x \in SeparatorsOf(R) <=> \/ \E j \in 1..Len(q) : x = q[j]
                                           \/ \E j \in 1..Len(c) : x \in SeparatorsOf(c[j])
      BY <1>1, <1>4, <1>6, SepsInner
    <2>2. \A x : x \in SeparatorsOf(R) <=> x \in SeparatorsOf(a)
      BY <1>3, <1>7, <1>8, <2>1
    <2> HIDE DEF SeparatorsOf
    <2> QED
      BY <2>2
  <1>10. Exact(R) <=> Exact(a)
    <2>1. Exact(R) <=> \A j \in 1..Len(c) : Exact(c[j])
      BY <1>1, <1>4, <1>6, ExactInner
    <2> QED
      BY <1>3, <1>7, <2>1
  <1>11. ASSUME NEW x \in Nat PROVE Read(g, R, x) = Read(h, a, x)
    <2>1. Sorted(q)
      BY <1>2 DEF Sorted
    <2>2. Place(q, x, 1)
      BY <1>2 DEF Place
    <2> QED
      BY <1>1, <1>3, <1>4, <1>6, <2>1, <2>2, ReadInner
  <1> QED
    BY <1>6, <1>9, <1>10, <1>11 DEF R, g

LEMMA TwoChildren ==
    ASSUME NEW h \in Nat, NEW a \in Nodes[h], NEW b \in Nodes[h], NEW s \in Keys
    PROVE  LET R == Inner(h + 1, <<s>>, <<a, b>>)
           IN  /\ R \in Nodes[h + 1] /\ SeparatorsOf(R) = SeparatorsOf(a) \cup {s} \cup SeparatorsOf(b)
               /\ Exact(R) <=> Exact(a) /\ Exact(b)
               /\ \A x \in Nat : /\ x < s => Read(h + 1, R, x) = Read(h, a, x)
                                 /\ s < x => Read(h + 1, R, x) = Read(h, b, x)
  <1> DEFINE R == Inner(h + 1, <<s>>, <<a, b>>)
             g == h + 1
             q == <<s>>
             c == <<a, b>>
             S == Nodes[h]
  <1>1. g \in Nat \ {0} /\ g - 1 = h
    OBVIOUS
  <1>2. q \in Seq(Keys) /\ Len(q) = 1 /\ q \in Seq(Nat) /\ q[1] = s /\ s \in Nat
    BY ProllyAssumption
  <1>3. c \in Seq(S) /\ Len(c) = 2 /\ c[1] = a /\ c[2] = b
    <2>1. a \in S /\ b \in S
      OBVIOUS
    <2> HIDE DEF S
    <2> QED
      BY <2>1
  <1>4. R.keys = q /\ R.kids = c
    BY DEF Inner
  <1>5. R = Inner(g, q, c)
    OBVIOUS
  <1> HIDE DEF R, q, c, g
  <1>6. R \in Nodes[g]
    <2>1. c \in Seq(Nodes[g - 1]) /\ Len(c) = Len(q) + 1
      BY <1>1, <1>2, <1>3 DEF S
    <2> QED
      BY <1>1, <1>2, <1>5, <2>1, InnerIn
  <1>7. \A j : j \in 1..Len(c) <=> j = 1 \/ j = 2
    BY <1>3
  <1>8. \A j : j \in 1..Len(q) <=> j = 1
    BY <1>2
  <1>9. SeparatorsOf(R) = SeparatorsOf(a) \cup {s} \cup SeparatorsOf(b)
    <2>1. \A x : x \in SeparatorsOf(R) <=> \/ \E j \in 1..Len(q) : x = q[j]
                                           \/ \E j \in 1..Len(c) : x \in SeparatorsOf(c[j])
      BY <1>1, <1>4, <1>6, SepsInner
    <2>2. \A x : x \in SeparatorsOf(R) <=> x = s \/ x \in SeparatorsOf(a) \/ x \in SeparatorsOf(b)
      BY <1>2, <1>3, <1>7, <1>8, <2>1
    <2> HIDE DEF SeparatorsOf
    <2> QED
      BY <2>2
  <1>10. Exact(R) <=> Exact(a) /\ Exact(b)
    <2>1. Exact(R) <=> \A j \in 1..Len(c) : Exact(c[j])
      BY <1>1, <1>4, <1>6, ExactInner
    <2> QED
      BY <1>3, <1>7, <2>1
  <1>11. Sorted(q)
    <2>1. DOMAIN q = 1..1
      BY <1>2
    <2> QED
      BY <2>1 DEF Sorted
  <1>12. ASSUME NEW x \in Nat, x < s PROVE Read(g, R, x) = Read(h, a, x)
    <2>1. Place(q, x, 1)
      BY <1>2, <1>12 DEF Place
    <2> QED
      BY <1>1, <1>3, <1>4, <1>6, <1>11, <2>1, ReadInner
  <1>13. ASSUME NEW x \in Nat, s < x PROVE Read(g, R, x) = Read(h, b, x)
    <2>1. Place(q, x, 2)
      <3>1. 2 \in 1..(Len(q) + 1) /\ 2 - 1 = 1 /\ ~(2 <= Len(q))
        BY <1>2
      <3> QED
        BY <1>2, <1>13, <3>1 DEF Place
    <2> QED
      BY <1>1, <1>3, <1>4, <1>6, <1>11, <2>1, ReadInner
  <1> QED
    BY <1>6, <1>9, <1>10, <1>12, <1>13 DEF R, g

\* A piece of a leaf has what the leaf has for the keys in its range.
LEMMA LeafCut ==
    ASSUME NEW n \in Sound(0), Aligned(n), NEW a \in 1..(Len(n.keys) + 1), NEW b \in (a - 1)..Len(n.keys)
    PROVE  LET p == Leaf(SubSeq(n.keys, a, b), SubSeq(n.vals, a, b))
           IN  /\ p \in Sound(0) /\ Aligned(p)
               /\ \A x \in Keys : (a > 1 => n.keys[a - 1] < x) /\ (b < Len(n.keys) => x < n.keys[b + 1])
                                     => Read(0, p, x) = Read(0, n, x)
  <1> DEFINE s == n.keys
             vs == n.vals
             V == Seq(Values)
             t == SubSeq(s, a, b)
             ws == SubSeq(vs, a, b)
             p == Leaf(t, ws)
  <1>1. /\ n \in Nodes[0] /\ s \in Seq(Keys) /\ s \in Seq(Nat) /\ Sorted(s)
        /\ vs \in Seq(V) /\ Len(vs) = Len(s) /\ Len(s) \in Nat /\ Strict(s)
    BY SoundIsNode, LeafForm, NodeForm DEF Aligned
  <1>0. \A m \in 1..(b - a + 1) : a + m - 1 \in 1..Len(s)
    BY <1>1
  <1>2. t \in Seq(Nat) /\ Len(t) = b - a + 1 /\ \A j \in 1..(b - a + 1) : t[j] = s[a + j - 1]
    BY <1>1, CutSeq
  <1>3. ws \in Seq(V) /\ Len(ws) = b - a + 1 /\ \A j \in 1..(b - a + 1) : ws[j] = vs[a + j - 1]
    <2> HIDE DEF V, vs, s
    <2>1. a \in 1..(Len(vs) + 1) /\ b \in (a - 1)..Len(vs)
      BY <1>1 DEF s
    <2> QED
      BY <1>1, <2>1, CutSeq
  <1>4. p \in Sound(0)
    <2>1. ws \in Seq(Seq(Values))
      BY <1>3 DEF V
    <2> HIDE DEF ws
    <2> QED
      BY <2>1, LeafPiece
  <1>5. p.keys = t /\ p.vals = ws
    BY DEF Leaf
  <1> HIDE DEF p, t, ws, V
  <1>6. p \in Nodes[0] /\ Sorted(t)
    BY <1>4, <1>5, SoundIsNode
  <1>7. Aligned(p)
    <2>1. DOMAIN t = 1..(b - a + 1) /\ DOMAIN s = 1..Len(s)
      BY <1>1, <1>2
    <2>2. ASSUME NEW i \in DOMAIN t, NEW j \in DOMAIN t, i < j PROVE t[i] < t[j]
      <3>0. i \in 1..(b - a + 1) /\ j \in 1..(b - a + 1)
        BY <2>1
      <3> HIDE DEF s, t
      <3>1. a + i - 1 \in DOMAIN s /\ a + j - 1 \in DOMAIN s /\ a + i - 1 < a + j - 1
        <4>1. a + i - 1 \in 1..Len(s) /\ a + j - 1 \in 1..Len(s)
          BY <1>0, <3>0
        <4>2. a + i - 1 < a + j - 1
          BY <2>2, <3>0
        <4> QED
          BY <2>1, <4>1, <4>2
      <3>2. t[i] = s[a + i - 1] /\ t[j] = s[a + j - 1]
        BY <1>2, <2>1
      <3> QED
        BY <1>1, <3>1, <3>2 DEF Strict
    <2>3. Strict(t)
      BY <2>2 DEF Strict
    <2> QED
      BY <1>2, <1>3, <1>5, <2>3 DEF Aligned
  <1>8. ASSUME NEW x \in Keys, a > 1 => s[a - 1] < x, b < Len(s) => x < s[b + 1]
        PROVE  Read(0, p, x) = Read(0, n, x)
    <2> DEFINE i == SearchStrings(s, x)
    <2>1. /\ i \in 1..(Len(s) + 1) /\ x \in Nat
          /\ Found(s, x) <=> i <= Len(s) /\ s[i] = x
          /\ \A j \in 1..Len(s) : j < i <=> s[j] < x
      BY SearchInNode
    <2> HIDE DEF i, s
    <2>2. a <= i
      <3>1. ASSUME a > 1 PROVE a - 1 < i
        <4>1. a - 1 \in 1..Len(s)
          BY <1>1, <3>1 DEF s
        <4> QED
          BY <1>8, <2>1, <3>1, <4>1
      <3> QED
        BY <1>1, <2>1, <3>1
    <2>3. i <= b + 1
      <3>1. ASSUME b < Len(s) PROVE ~(b + 1 < i)
        <4>1. b + 1 \in 1..Len(s)
          BY <1>1, <3>1
        <4>2. s[b + 1] \in Nat /\ x < s[b + 1]
          BY <1>1, <1>8, <3>1, <4>1
        <4>3. ~(s[b + 1] < x)
          BY <2>1, <4>2
        <4> QED
          BY <2>1, <4>1, <4>3
      <3> QED
        BY <1>1, <2>1, <3>1 DEF s
    <2> DEFINE m == i - a + 1
    <2>4. m \in 1..((b - a + 1) + 1) /\ a + m - 1 = i /\ (m <= b - a + 1 <=> i <= b)
      BY <2>1, <2>2, <2>3
    <2>5. SearchStrings(t, x) = m
      <3>1. ASSUME NEW j \in 1..Len(t) PROVE j < m <=> t[j] < x
        <4>1. j \in 1..(b - a + 1) /\ a + j - 1 \in 1..Len(s) /\ (j < m <=> a + j - 1 < i)
          BY <1>1, <1>2, <2>1 DEF s
        <4> QED
          BY <1>2, <2>1, <4>1
      <3>2. m \in 1..(Len(t) + 1)
        BY <1>2, <2>4
      <3> HIDE DEF m
      <3> QED
        BY <1>2, <1>6, <2>1, <3>1, <3>2, SearchIs
    <2> HIDE DEF m
    <2>6. m <= Len(t) => m \in 1..(b - a + 1) /\ t[m] = s[i] /\ ws[m] = vs[i]
      <3>1. ASSUME m <= Len(t) PROVE m \in 1..(b - a + 1)
        BY <1>2, <2>4, <3>1
      <3> QED
        BY <1>2, <1>3, <2>4, <3>1
    <2>7. Found(t, x) <=> Found(s, x)
      <3>1. Found(t, x) <=> m <= Len(t) /\ t[m] = x
        BY <2>5 DEF Found
      <3>2. ASSUME i <= Len(s), s[i] = x PROVE i <= b
        <4>1. ASSUME i = b + 1 PROVE FALSE
          <5>1. b < Len(s)
            BY <1>1, <3>2, <4>1
          <5>2. x < x
            BY <1>8, <3>2, <4>1, <5>1
          <5> QED
            BY <2>1, <5>2
        <4> QED
          BY <1>1, <2>1, <2>3, <4>1
      <3>3. i <= b => i <= Len(s)
        BY <1>1, <2>1 DEF s
      <3> QED
        BY <1>2, <2>1, <2>4, <2>6, <3>1, <3>2, <3>3
    <2>8. Read(0, p, x) = IF ~Found(t, x) THEN <<>> ELSE IF m > Len(ws) THEN <<Panic>> ELSE ws[m]
      BY <1>5, <1>6, <2>5, ReadLeaf
    <2>9. Read(0, n, x) = IF ~Found(s, x) THEN <<>> ELSE IF i > Len(vs) THEN <<Panic>> ELSE vs[i]
      BY <1>1, ReadLeaf DEF i, s
    <2>10. CASE ~Found(t, x)
      BY <2>7, <2>8, <2>9, <2>10
    <2>11. CASE Found(t, x)
      <3>1. m <= Len(t) /\ i <= Len(s)
        BY <2>1, <2>5, <2>7, <2>11 DEF Found
      <3>2. ~(m > Len(ws)) /\ ~(i > Len(vs))
        <4>1. Len(ws) = Len(t) /\ Len(t) \in Int /\ m \in Int
          BY <1>2, <1>3, <2>4
        <4>2. Len(vs) = Len(s) /\ Len(s) \in Int /\ i \in Int
          BY <1>1, <2>1 DEF s
        <4> HIDE DEF vs
        <4> QED
          BY <3>1, <4>1, <4>2
      <3> QED
        BY <2>6, <2>7, <2>8, <2>9, <2>11, <3>1, <3>2
    <2> QED
      BY <2>10, <2>11
  <1> QED
    BY <1>4, <1>7, <1>8 DEF p, t, ws

\* And a piece of an internal node.
LEMMA InnerCut ==
    ASSUME NEW h \in Nat \ {0}, NEW n \in Sound(h), Exact(n),
           NEW a \in 1..(Len(n.keys) + 1), NEW b \in (a - 1)..Len(n.keys)
    PROVE  LET p == Inner(h, SubSeq(n.keys, a, b), SubSeq(n.kids, a, b + 1))
           IN  /\ p \in Sound(h) /\ Exact(p)
               /\ \A x : x \in SeparatorsOf(p) <=> \/ \E m \in a..b : x = n.keys[m]
                                                   \/ \E m \in a..(b + 1) : x \in SeparatorsOf(n.kids[m])
               /\ \A x \in Keys : /\ \A m \in 1..Len(n.keys) : n.keys[m] # x
                                  /\ a > 1 => n.keys[a - 1] < x
                                  /\ b < Len(n.keys) => x < n.keys[b + 1]
                                  => Read(h, p, x) = Read(h, n, x)
  <1> DEFINE s == n.keys
             c == n.kids
             S == Nodes[h - 1]
             t == SubSeq(s, a, b)
             d == SubSeq(c, a, b + 1)
             p == Inner(h, t, d)
  <1>1. /\ n \in Nodes[h] /\ s \in Seq(Keys) /\ s \in Seq(Nat) /\ Sorted(s)
        /\ c \in Seq(S) /\ Len(c) = Len(s) + 1 /\ Len(s) \in Nat
    BY SoundIsNode, InnerForm, NodeForm
  <1>2. /\ \A m \in 1..(b - a + 1) : a + m - 1 \in 1..Len(s) /\ a + m - 1 \in a..b
        /\ \A m \in 1..(b - a + 2) : a + m - 1 \in 1..Len(c) /\ a + m - 1 \in a..(b + 1)
        /\ \A m \in a..b : m - a + 1 \in 1..(b - a + 1) /\ a + (m - a + 1) - 1 = m
        /\ \A m \in a..(b + 1) : m - a + 1 \in 1..(b - a + 2) /\ a + (m - a + 1) - 1 = m
        /\ (b + 1) - a + 1 = b - a + 2
    BY <1>1
  <1>3. t \in Seq(Nat) /\ Len(t) = b - a + 1 /\ \A j \in 1..(b - a + 1) : t[j] = s[a + j - 1]
    <2>1. a \in 1..(Len(s) + 1) /\ b \in (a - 1)..Len(s)
      BY <1>1
    <2>2. s \in Seq(Nat)
      BY <1>1
    <2> HIDE DEF S, c, s
    <2> QED
      BY <2>1, <2>2, CutSeq
  <1>4. d \in Seq(S) /\ Len(d) = b - a + 2 /\ \A j \in 1..(b - a + 2) : d[j] = c[a + j - 1]
    <2>1. a \in 1..(Len(c) + 1) /\ b + 1 \in (a - 1)..Len(c)
      BY <1>1
    <2> HIDE DEF S, c, s
    <2>2. d \in Seq(S) /\ Len(d) = (b + 1) - a + 1 /\ \A j \in 1..((b + 1) - a + 1) : d[j] = c[a + j - 1]
      BY <1>1, <2>1, CutSeq, SMTT(60)
    <2> HIDE DEF d
    <2> QED
      BY <1>2, <2>2
  <1>5. p \in Sound(h)
    BY InnerPiece
  <1>6. p.keys = t /\ p.kids = d
    BY DEF Inner
  <1> HIDE DEF p, t, d, S
  <1>7. p \in Nodes[h] /\ Sorted(t)
    BY <1>5, <1>6, SoundIsNode
  <1>8. Exact(p)
    <2>1. \A j \in 1..Len(c) : Exact(c[j])
      BY <1>1, ExactInner
    <2>2. \A j \in 1..Len(d) : Exact(d[j])
      BY <1>2, <1>4, <2>1
    <2> QED
      BY <1>6, <1>7, <2>2, ExactInner
  <1>9. \A x : x \in SeparatorsOf(p) <=> \/ \E m \in a..b : x = s[m]
                                         \/ \E m \in a..(b + 1) : x \in SeparatorsOf(c[m])
    <2>1. ASSUME NEW x
          PROVE  x \in SeparatorsOf(p) <=> \/ \E m \in a..b : x = s[m]
                                           \/ \E m \in a..(b + 1) : x \in SeparatorsOf(c[m])
      <3> HIDE DEF SeparatorsOf, s, c
      <3>1. x \in SeparatorsOf(p) <=> \/ \E j \in 1..Len(t) : x = t[j]
                                      \/ \E j \in 1..Len(d) : x \in SeparatorsOf(d[j])
        BY <1>6, <1>7, SepsInner
      <3>2. (\E j \in 1..Len(t) : x = t[j]) <=> \E m \in a..b : x = s[m]
        <4>1. ASSUME NEW j \in 1..Len(t), x = t[j] PROVE \E m \in a..b : x = s[m]
          BY <1>2, <1>3, <4>1
        <4>2. ASSUME NEW m \in a..b, x = s[m] PROVE \E j \in 1..Len(t) : x = t[j]
          BY <1>2, <1>3, <4>2, ZenonT(60)
        <4> QED
          BY <4>1, <4>2
      <3>3. (\E j \in 1..Len(d) : x \in SeparatorsOf(d[j])) <=> \E m \in a..(b + 1) : x \in SeparatorsOf(c[m])
        <4>1. ASSUME NEW j \in 1..Len(d), x \in SeparatorsOf(d[j])
              PROVE  \E m \in a..(b + 1) : x \in SeparatorsOf(c[m])
          BY <1>2, <1>4, <4>1
        <4>2. ASSUME NEW m \in a..(b + 1), x \in SeparatorsOf(c[m])
              PROVE  \E j \in 1..Len(d) : x \in SeparatorsOf(d[j])
          BY <1>2, <1>4, <4>2, ZenonT(60)
        <4> QED
          BY <4>1, <4>2
      <3> QED
        BY <3>1, <3>2, <3>3
    <2> QED
      BY <2>1
  <1>10. ASSUME NEW x \in Keys, \A m \in 1..Len(s) : s[m] # x, a > 1 => s[a - 1] < x,
                b < Len(s) => x < s[b + 1]
         PROVE  Read(h, p, x) = Read(h, n, x)
    <2> DEFINE i == SearchStrings(s, x)
               m == i - a + 1
    <2>0. x \in Nat
      BY ProllyAssumption
    <2>1. Place(s, x, i)
      BY <1>1, <1>10, <2>0, PlaceExists
    <2> HIDE DEF i, s, c
    <2>2. /\ i \in 1..(Len(s) + 1)
          /\ i > 1 => s[i - 1] < x
          /\ i <= Len(s) => x < s[i]
          /\ \A j \in 1..Len(s) : j < i <=> s[j] < x
      BY <1>1, <2>0, <2>1, PlaceIs DEF Place
    <2>3. a <= i
      <3>1. ASSUME a > 1 PROVE a - 1 < i
        <4>1. a - 1 \in 1..Len(s)
          BY <1>1, <3>1 DEF s
        <4> QED
          BY <1>10, <2>2, <3>1, <4>1
      <3> QED
        BY <1>1, <2>2, <3>1
    <2>4. i <= b + 1
      <3>1. ASSUME b < Len(s) PROVE ~(b + 1 < i)
        <4>1. b + 1 \in 1..Len(s)
          BY <1>1, <3>1
        <4>2. s[b + 1] \in Nat /\ x < s[b + 1]
          BY <1>1, <1>10, <3>1, <4>1
        <4>3. ~(s[b + 1] < x)
          BY <2>0, <4>2
        <4> QED
          BY <2>2, <4>1, <4>3
      <3> QED
        BY <1>1, <2>2, <3>1 DEF s
    <2>5. /\ m \in 1..((b - a + 1) + 1) /\ m \in 1..(b - a + 2) /\ a + m - 1 = i
          /\ m > 1 => m - 1 \in 1..(b - a + 1) /\ a + (m - 1) - 1 = i - 1 /\ i > 1
          /\ m <= b - a + 1 => m \in 1..(b - a + 1) /\ i <= b
      BY <2>2, <2>3, <2>4
    <2> HIDE DEF m
    <2>6. Place(t, x, m)
      <3>1. m > 1 => t[m - 1] < x
        BY <1>3, <2>2, <2>5
      <3>2. ASSUME m <= Len(t) PROVE x < t[m]
        <4>1. m \in 1..(b - a + 1) /\ i <= b
          BY <1>3, <2>5, <3>2
        <4>2. i <= Len(s)
          BY <1>1, <2>2, <4>1 DEF s
        <4> QED
          BY <1>3, <2>2, <2>5, <4>1, <4>2
      <3> QED
        BY <1>3, <2>5, <3>1, <3>2 DEF Place
    <2>7. Read(h, p, x) = Read(h - 1, d[m], x)
      BY <1>6, <1>7, <2>0, <2>6, ReadInner
    <2>8. Read(h, n, x) = Read(h - 1, c[i], x)
      BY <1>1, <2>0, <2>1, ReadInner DEF s, c
    <2>9. d[m] = c[i]
      BY <1>4, <2>5
    <2> QED
      BY <2>7, <2>8, <2>9
  <1> QED
    BY <1>5, <1>8, <1>9, <1>10 DEF p, t, d

\* A node R above n finds what n does, except separators.
Same(R, h, n) ==
    /\ R \in Nodes[h + 1] /\ Exact(R) /\ SeparatorsOf(n) \subseteq SeparatorsOf(R)
    /\ \A x \in Keys : x \notin SeparatorsOf(R) => Read(h + 1, R, x) = Read(h, n, x)

LEMMA SplitSame ==
    ASSUME NEW h \in Nat, NEW n \in Sound(h), Exact(n), Split(n) # Panicked
    PROVE  Same(Split(n), h, n)
  <1> DEFINE s == n.keys
             len == Len(s)
             mid == len \div 2
             k == s[mid + 1]
             R == Split(n)
  <1>1. n \in Nodes[h] /\ n.height = h /\ n # Panicked /\ len \in Nat /\ s \in Seq(Keys) /\ Sorted(s)
    BY SoundIsNode, NodeForm, PanickedIsNoNode
  <1>2. CASE len <= MaxKeys
    <2>1. R = Inner(h + 1, <<>>, <<n>>)
      BY <1>1, <1>2 DEF Split
    <2> DEFINE p == Inner(h + 1, <<>>, <<n>>)
    <2>2. /\ p \in Nodes[h + 1] /\ SeparatorsOf(p) = SeparatorsOf(n) /\ (Exact(p) <=> Exact(n))
          /\ \A x \in Nat : Read(h + 1, p, x) = Read(h, n, x)
      BY <1>1, OneChild
    <2> HIDE DEF p
    <2>3. Same(p, h, n)
      BY <2>2, ProllyAssumption DEF Same
    <2> QED
      BY <2>1, <2>3 DEF p
  <1>3. CASE ~(len <= MaxKeys)
    <2>1. /\ mid \in 1..len /\ mid + 1 \in 1..len /\ mid + 2 \in 1..(len + 1) /\ 1 \in 1..(len + 1)
          /\ mid \in (1 - 1)..len /\ len \in ((mid + 2) - 1)..len /\ mid < len /\ (mid + 2) - 1 = mid + 1
          /\ mid + 2 > 1 /\ mid \in Nat /\ ~(1 > 1) /\ ~(len < len)
      <3>1. len > MaxKeys /\ MaxKeys >= 3
        BY <1>1, <1>3, OrderFacts
      <3> HIDE DEF len
      <3> QED
        BY <1>1, <3>1, OrderFacts
    <2>2. k \in Keys /\ k \in Nat /\ Keys \subseteq Nat
      <3> HIDE DEF mid, s
      <3>1. mid + 1 \in 1..Len(s)
        BY <2>1
      <3>2. s \in Seq(Keys)
        BY <1>1
      <3>3. s[mid + 1] \in Keys
        BY <3>1, <3>2
      <3> QED
        BY <3>3, ProllyAssumption
    <2>3. CASE h = 0
      <3> DEFINE vs == n.vals
                 a == Leaf(SubSeq(s, 1, mid), SubSeq(vs, 1, mid))
                 b == Leaf(SubSeq(s, mid + 2, len), SubSeq(vs, mid + 2, len))
                 p == Inner(h + 1, <<k>>, <<a, b>>)
      <3>1. Aligned(n) /\ Len(vs) = len
        BY <1>1, <2>3, ExactLeaf DEF Aligned
      <3>2. R = p
        <4>1. R = Inner(h + 1, <<k>>, <<a, Leaf(SubSeq(s, mid + 2, len), SubSeq(vs, mid + 2, Len(vs)))>>)
          BY <1>1, <1>3, <2>3, Zenon DEF Split
        <4> QED
          BY <3>1, <4>1
      <3>3. /\ a \in Sound(0) /\ Aligned(a)
            /\ \A x \in Keys : x < k => Read(0, a, x) = Read(0, n, x)
        BY <2>1, <2>3, <3>1, LeafCut
      <3>4. /\ b \in Sound(0) /\ Aligned(b)
            /\ \A x \in Keys : k < x => Read(0, b, x) = Read(0, n, x)
        BY <2>1, <2>3, <3>1, LeafCut
      <3> HIDE DEF a, b, k
      <3>5. a \in Nodes[0] /\ b \in Nodes[0] /\ Exact(a) /\ Exact(b)
        BY <3>3, <3>4, SoundIsNode, ExactLeaf
      <3>6. /\ p \in Nodes[h + 1] /\ SeparatorsOf(p) = SeparatorsOf(a) \cup {k} \cup SeparatorsOf(b)
            /\ Exact(p) <=> Exact(a) /\ Exact(b)
            /\ \A x \in Nat : /\ x < k => Read(h + 1, p, x) = Read(h, a, x)
                              /\ k < x => Read(h + 1, p, x) = Read(h, b, x)
        BY <2>2, <2>3, <3>5, TwoChildren
      <3> HIDE DEF p
      <3>7. SeparatorsOf(n) = {}
        BY <1>1, <2>3, SepsLeaf
      <3>8. ASSUME NEW x \in Keys, x \notin SeparatorsOf(p) PROVE Read(h + 1, p, x) = Read(h, n, x)
        <4>1. x # k /\ x \in Nat
          BY <2>2, <3>6, <3>8
        <4>2. x < k \/ k < x
          BY <2>2, <4>1
        <4> QED
          BY <2>3, <3>3, <3>4, <3>6, <4>1, <4>2
      <3>9. Same(p, h, n)
        BY <3>5, <3>6, <3>7, <3>8 DEF Same
      <3> QED
        BY <3>2, <3>9
    <2>4. CASE h # 0
      <3> DEFINE c == n.kids
                 a == Inner(h, SubSeq(s, 1, mid), SubSeq(c, 1, mid + 1))
                 b == Inner(h, SubSeq(s, mid + 2, len), SubSeq(c, mid + 2, len + 1))
                 p == Inner(h + 1, <<k>>, <<a, b>>)
      <3>1. h \in Nat \ {0}
        BY <2>4
      <3>2. R = p
        BY <1>1, <1>3, <2>4, Zenon DEF Split
      <3>3. /\ a \in Sound(h) /\ Exact(a)
            /\ \A x : x \in SeparatorsOf(a) <=> \/ \E m \in 1..mid : x = s[m]
                                                \/ \E m \in 1..(mid + 1) : x \in SeparatorsOf(c[m])
            /\ \A x \in Keys : (\A m \in 1..len : s[m] # x) /\ x < k => Read(h, a, x) = Read(h, n, x)
        BY <2>1, <3>1, InnerCut, ZenonT(60)
      <3>4. /\ b \in Sound(h) /\ Exact(b)
            /\ \A x : x \in SeparatorsOf(b) <=> \/ \E m \in (mid + 2)..len : x = s[m]
                                                \/ \E m \in (mid + 2)..(len + 1) : x \in SeparatorsOf(c[m])
            /\ \A x \in Keys : (\A m \in 1..len : s[m] # x) /\ k < x => Read(h, b, x) = Read(h, n, x)
        BY <2>1, <3>1, InnerCut, ZenonT(60)
      <3> HIDE DEF a, b
      <3>5. a \in Nodes[h] /\ b \in Nodes[h]
        BY <3>3, <3>4, SoundIsNode
      <3>6. /\ p \in Nodes[h + 1] /\ SeparatorsOf(p) = SeparatorsOf(a) \cup {k} \cup SeparatorsOf(b)
            /\ Exact(p) <=> Exact(a) /\ Exact(b)
            /\ \A x \in Nat : /\ x < k => Read(h + 1, p, x) = Read(h, a, x)
                              /\ k < x => Read(h + 1, p, x) = Read(h, b, x)
        BY <2>2, <3>5, TwoChildren
      <3> HIDE DEF p
      <3>7. \A m \in 1..len : s[m] \in SeparatorsOf(p)
        <4>1. ASSUME NEW m \in 1..len PROVE s[m] \in SeparatorsOf(p)
          <5>1. m \in 1..mid \/ m = mid + 1 \/ m \in (mid + 2)..len
            <6>1. m \in 1..len /\ mid \in Nat /\ len \in Nat
              BY <1>1, <2>1
            <6> HIDE DEF mid, len
            <6> QED
              BY <6>1
          <5> HIDE DEF SeparatorsOf
          <5> QED
            BY <3>3, <3>4, <3>6, <5>1
        <4> QED
          BY <4>1
      <3>8. SeparatorsOf(n) \subseteq SeparatorsOf(p)
        <4>1. ASSUME NEW x \in SeparatorsOf(n) PROVE x \in SeparatorsOf(p)
          <5> HIDE DEF SeparatorsOf
          <5>1. \/ \E m \in 1..len : x = s[m]
                \/ \E m \in 1..Len(c) : x \in SeparatorsOf(c[m])
            BY <1>1, <3>1, <4>1, SepsInner
          <5>2. CASE \E m \in 1..len : x = s[m]
            BY <3>7, <5>2
          <5>3. CASE \E m \in 1..Len(c) : x \in SeparatorsOf(c[m])
            <6>1. PICK m \in 1..Len(c) : x \in SeparatorsOf(c[m])
              BY <5>3
            <6>2. m \in 1..(mid + 1) \/ m \in (mid + 2)..(len + 1)
              <7>1. Len(c) = len + 1 /\ mid \in Nat /\ len \in Nat
                BY <1>1, <2>1, <3>1, InnerForm
              <7> HIDE DEF c, mid, len
              <7> QED
                BY <6>1, <7>1
            <6> QED
              BY <3>3, <3>4, <3>6, <6>1, <6>2
          <5> QED
            BY <5>1, <5>2, <5>3
        <4> QED
          BY <4>1
      <3>9. ASSUME NEW x \in Keys, x \notin SeparatorsOf(p) PROVE Read(h + 1, p, x) = Read(h, n, x)
        <4>1. (\A m \in 1..len : s[m] # x) /\ x \in Nat
          BY <2>2, <3>7, <3>9
        <4>2. x # k
          BY <2>1, <4>1
        <4>3. x < k \/ k < x
          BY <2>2, <4>1, <4>2
        <4> QED
          BY <3>3, <3>4, <3>6, <4>1, <4>3
      <3>10. Same(p, h, n)
        BY <3>3, <3>4, <3>6, <3>8, <3>9 DEF Same
      <3> QED
        BY <3>2, <3>10
    <2> QED
      BY <2>3, <2>4
  <1> QED
    BY <1>2, <1>3

\* What an aligned leaf has for a key it holds, and for one it does not.
LEMMA AlignedLeaf ==
    ASSUME NEW n \in Nodes[0], Aligned(n)
    PROVE  /\ n = Leaf(n.keys, n.vals) /\ n.keys \in Seq(Keys) /\ n.keys \in Seq(Nat)
           /\ n.vals \in Seq(Seq(Values)) /\ Len(n.keys) \in Nat /\ Len(n.vals) = Len(n.keys)
           /\ Sorted(n.keys) /\ n \in Sound(0)
           /\ \A i, j \in 1..Len(n.keys) : i < j => n.keys[i] < n.keys[j]
           /\ \A j \in 1..Len(n.keys) : n.keys[j] \in Nat /\ n.vals[j] \in Seq(Values)
  <1> DEFINE s == n.keys
             V == Seq(Values)
  <1>1. /\ n = Leaf(s, n.vals) /\ s \in Seq(Keys) /\ s \in Seq(Nat) /\ n.vals \in Seq(V)
        /\ Len(s) \in Nat /\ Len(n.vals) = Len(s) /\ Strict(s)
    BY LeafForm, NodeForm DEF Aligned
  <1> HIDE DEF V
  <1>2. DOMAIN s = 1..Len(s) /\ \A j \in 1..Len(s) : s[j] \in Nat /\ n.vals[j] \in V
    BY <1>1
  <1>3. \A i, j \in 1..Len(s) : i < j => s[i] < s[j]
    BY <1>1, <1>2 DEF Strict
  <1>4. Sorted(s)
    <2>1. ASSUME NEW i \in 1..Len(s), NEW j \in 1..Len(s), i < j PROVE s[i] <= s[j]
      BY <1>2, <1>3, <2>1
    <2> QED
      BY <1>2, <2>1 DEF Sorted
  <1>5. n \in Sound(0)
    BY <1>4, SoundLeaf
  <1> QED
    BY <1>1, <1>2, <1>3, <1>4, <1>5 DEF V

LEMMA ReadHit ==
    ASSUME NEW n \in Nodes[0], Aligned(n), NEW j \in 1..Len(n.keys), NEW x, x = n.keys[j]
    PROVE  Read(0, n, x) = n.vals[j] /\ SearchStrings(n.keys, x) = j /\ Found(n.keys, x)
  <1> DEFINE s == n.keys
  <1>1. /\ s \in Seq(Nat) /\ Sorted(s) /\ Len(s) \in Nat /\ Len(n.vals) = Len(s)
        /\ \A i, m \in 1..Len(s) : i < m => s[i] < s[m]
        /\ \A m \in 1..Len(s) : s[m] \in Nat
    BY AlignedLeaf
  <1> HIDE DEF s
  <1>2. j \in 1..Len(s) /\ x = s[j]
    BY DEF s
  <1>3. \A m \in 1..Len(s) : m < j <=> s[m] < x
    <2>1. ASSUME NEW m \in 1..Len(s) PROVE m < j <=> s[m] < x
      <3>1. CASE m < j
        BY <1>1, <1>2, <3>1
      <3>2. CASE m = j
        BY <1>1, <1>2, <3>2
      <3>3. CASE j < m
        <4>1. s[j] < s[m] /\ s[j] \in Nat /\ s[m] \in Nat
          BY <1>1, <1>2, <3>3
        <4> QED
          BY <1>2, <3>3, <4>1
      <3> QED
        BY <1>1, <1>2, <3>1, <3>2, <3>3
    <2> QED
      BY <2>1
  <1>4. SearchStrings(s, x) = j
    <2>1. x \in Nat /\ j \in 1..(Len(s) + 1)
      BY <1>1, <1>2
    <2> QED
      BY <1>1, <1>3, <2>1, SearchIs
  <1>5. Found(s, x)
    BY <1>1, <1>2, <1>4 DEF Found
  <1>6. ~(j > Len(n.vals))
    BY <1>1, <1>2
  <1>7. Read(0, n, x) = n.vals[j]
    BY <1>4, <1>5, <1>6, ReadLeaf DEF s
  <1> QED
    BY <1>4, <1>5, <1>7 DEF s

LEMMA ReadMiss ==
    ASSUME NEW n \in Nodes[0], Aligned(n), NEW x \in Nat, \A j \in 1..Len(n.keys) : n.keys[j] # x
    PROVE  Read(0, n, x) = <<>> /\ ~Found(n.keys, x)
  <1> DEFINE s == n.keys
             i == SearchStrings(s, x)
  <1>1. s \in Seq(Nat) /\ Sorted(s) /\ Len(s) \in Nat
    BY AlignedLeaf
  <1>2. i \in 1..(Len(s) + 1)
    BY <1>1, Searches
  <1>3. ~Found(s, x)
    <2>1. i <= Len(s) => i \in 1..Len(s)
      BY <1>1, <1>2
    <2> QED
      BY <2>1 DEF Found
  <1> QED
    BY <1>3, ReadLeaf

\* Two keys and no order between them but the one of their places.
LEMMA StrictMeans ==
    ASSUME NEW s \in Seq(Nat)
    PROVE  Strict(s) <=> \A i, j \in 1..Len(s) : i < j => s[i] < s[j]
  <1>1. DOMAIN s = 1..Len(s)
    OBVIOUS
  <1> QED
    BY <1>1, Zenon DEF Strict

\* Where a key that is not there belongs.
Gap(s, i, e) == \A j \in 1..Len(s) : s[j] # e /\ (j < i <=> s[j] < e)

LEMMA InsertStrict ==
    ASSUME NEW s \in Seq(Nat), Strict(s), NEW i \in 1..(Len(s) + 1), NEW e \in Nat, Gap(s, i, e)
    PROVE  Strict(InsertAt(s, i, e))
  <1> DEFINE t == InsertAt(s, i, e)
  <1>1. /\ Len(s) \in Nat /\ \A j \in 1..Len(s) : s[j] \in Nat
        /\ \A j, m \in 1..Len(s) : j < m => s[j] < s[m]
    BY StrictMeans
  <1>2. /\ t \in Seq(Nat) /\ Len(t) = Len(s) + 1
        /\ \A j \in 1..(Len(s) + 1) : t[j] = IF j < i THEN s[j] ELSE IF j = i THEN e ELSE s[j - 1]
    <2> DEFINE S == Nat
    <2>1. s \in Seq(S) /\ e \in S /\ i \in 1..(Len(s) + 1)
      OBVIOUS
    <2> HIDE DEF S
    <2>2. /\ t \in Seq(S) /\ Len(t) = Len(s) + 1
          /\ \A j \in 1..(Len(s) + 1) : t[j] = IF j < i THEN s[j] ELSE IF j = i THEN e ELSE s[j - 1]
      BY <2>1, InsertSeq
    <2> QED
      BY <2>2 DEF S
  <1> HIDE DEF t
  <1>3. \A j \in 1..Len(s) : (j < i => s[j] < e) /\ (~(j < i) => e < s[j])
    BY <1>1 DEF Gap
  <1>4. ASSUME NEW a \in 1..Len(t), NEW b \in 1..Len(t), a < b PROVE t[a] < t[b]
    <2>1. a \in 1..(Len(s) + 1) /\ b \in 1..(Len(s) + 1) /\ i \in 1..(Len(s) + 1)
      BY <1>2
    <2>2. CASE b < i
      <3>1. a \in 1..Len(s) /\ b \in 1..Len(s) /\ a < i
        BY <1>1, <1>4, <2>1, <2>2
      <3> QED
        BY <1>1, <1>2, <1>4, <2>1, <2>2, <3>1
    <2>3. CASE b = i
      <3>1. a \in 1..Len(s) /\ a < i /\ ~(b < i)
        BY <1>1, <1>4, <2>1, <2>3
      <3>2. t[a] = s[a] /\ t[b] = e
        BY <1>2, <2>1, <2>3, <3>1
      <3> QED
        BY <1>3, <3>1, <3>2
    <2>4. CASE b > i /\ a < i
      <3>1. a \in 1..Len(s) /\ b - 1 \in 1..Len(s) /\ ~(b - 1 < i) /\ ~(b < i) /\ b # i
        BY <1>1, <2>1, <2>4
      <3>2. t[a] = s[a] /\ t[b] = s[b - 1]
        BY <1>2, <2>1, <2>4, <3>1
      <3>3. s[a] < e /\ e < s[b - 1] /\ s[a] \in Nat /\ s[b - 1] \in Nat
        BY <1>1, <1>3, <2>4, <3>1
      <3> QED
        BY <3>2, <3>3
    <2>5. CASE b > i /\ a = i
      <3>1. b - 1 \in 1..Len(s) /\ ~(b - 1 < i) /\ ~(b < i) /\ b # i /\ ~(a < i)
        BY <1>1, <2>1, <2>5
      <3>2. t[a] = e /\ t[b] = s[b - 1]
        BY <1>2, <2>1, <2>5, <3>1
      <3> QED
        BY <1>3, <3>1, <3>2
    <2>6. CASE b > i /\ a > i
      <3>1. /\ a - 1 \in 1..Len(s) /\ b - 1 \in 1..Len(s) /\ a - 1 < b - 1
            /\ ~(a < i) /\ a # i /\ ~(b < i) /\ b # i
        BY <1>1, <1>4, <2>1, <2>6
      <3>2. t[a] = s[a - 1] /\ t[b] = s[b - 1]
        BY <1>2, <2>1, <3>1
      <3> QED
        BY <1>1, <3>1, <3>2
    <2> QED
      BY <2>1, <2>2, <2>3, <2>4, <2>5, <2>6
  <1>5. Strict(t)
    BY <1>2, <1>4, StrictMeans
  <1> QED
    BY <1>5 DEF t

\* Put in a leaf appends to what the leaf has for the key, and changes no other.
LEMMA PutInLeafRead ==
    ASSUME NEW n \in Nodes[0], Aligned(n), NEW k \in Keys, NEW v \in Values
    PROVE  LET p == PutInLeaf(n, k, v)
           IN  /\ p \in Nodes[0] /\ Aligned(p)
               /\ \A x \in Keys : Read(0, p, x) = IF x = k THEN Append(Read(0, n, x), v) ELSE Read(0, n, x)
  <1> DEFINE s == n.keys
             vs == n.vals
             i == SearchStrings(s, k)
             V == Seq(Values)
             After(p) == /\ p \in Nodes[0] /\ Aligned(p)
                         /\ \A x \in Keys : Read(0, p, x) = IF x = k THEN Append(Read(0, n, x), v)
                                                            ELSE Read(0, n, x)
  <1>1. /\ n = Leaf(s, vs) /\ s \in Seq(Keys) /\ s \in Seq(Nat)
        /\ vs \in Seq(V) /\ Sorted(s) /\ Len(s) \in Nat /\ Len(vs) = Len(s) /\ Strict(s)
        /\ \A j, m \in 1..Len(s) : j < m => s[j] < s[m]
        /\ \A j \in 1..Len(s) : s[j] \in Nat /\ vs[j] \in V
        /\ n \in Sound(0) /\ Keys \subseteq Nat /\ k \in Nat
    BY AlignedLeaf, ProllyAssumption DEF Aligned
  <1>2. CASE \E j \in 1..Len(s) : s[j] = k
    <2>1. PICK j \in 1..Len(s) : s[j] = k
      BY <1>2
    <2>2. i = j /\ Found(s, k)
      BY <2>1, ReadHit
    <2> DEFINE e == Append(vs[j], v)
               w == [vs EXCEPT ![j] = e]
               p == Leaf(s, w)
    <2>3. PutInLeaf(n, k, v) = p
      <3>1. ~(j > Len(vs))
        BY <1>1
      <3>2. PutInLeaf(n, k, v) = [n EXCEPT !.vals[j] = Append(@, v)]
        BY <2>2, <3>1 DEF PutInLeaf
      <3>3. [n EXCEPT !.vals[j] = Append(@, v)] = [n EXCEPT !.vals[j] = e]
        OBVIOUS
      <3>4. n = Leaf(s, vs) /\ w = [vs EXCEPT ![j] = e]
        BY <1>1
      <3> HIDE DEF s, vs, w, e, p, V
      <3>5. [n EXCEPT !.vals[j] = e] = Leaf(s, w)
        <4>1. n.vals = vs
          BY <3>4 DEF Leaf
        <4>2. [n EXCEPT !.vals = w] = Leaf(s, w)
          BY <3>4 DEF Leaf
        <4>3. [n EXCEPT !.vals[j] = e] = [n EXCEPT !.vals = [n.vals EXCEPT ![j] = e]]
          OBVIOUS
        <4>4. [n EXCEPT !.vals[j] = e] = [n EXCEPT !.vals = w]
          BY <3>4, <4>1, <4>3, Zenon
        <4> QED
          BY <4>2, <4>4, Zenon
      <3>6. p = Leaf(s, w)
        BY DEF p
      <3> QED
        BY <3>2, <3>3, <3>5, <3>6
    <2>4. e \in V
      BY <1>1
    <2>5. w \in Seq(V) /\ Len(w) = Len(s) /\ \A m \in 1..Len(s) : w[m] = IF m = j THEN e ELSE vs[m]
      <3>1. j \in 1..Len(vs)
        BY <1>1
      <3>2. w = [vs EXCEPT ![j] = e]
        OBVIOUS
      <3> DEFINE z == [vs EXCEPT ![j] = e]
      <3> HIDE DEF V, e, vs, s, w
      <3>3. z \in Seq(V) /\ Len(z) = Len(vs) /\ \A m \in 1..Len(vs) : z[m] = IF m = j THEN e ELSE vs[m]
        BY <1>1, <2>4, <3>1, ChangeSeq
      <3> QED
        BY <1>1, <3>2, <3>3
    <2> HIDE DEF w
    <2>6. p \in Nodes[0] /\ p.keys = s /\ p.vals = w
      <3>1. w \in Seq(Seq(Values))
        BY <2>5
      <3> QED
        BY <1>1, <3>1, LeafIn DEF Leaf
    <2> HIDE DEF p
    <2>7. Aligned(p)
      BY <1>1, <2>5, <2>6 DEF Aligned
    <2>8. ASSUME NEW x \in Keys
          PROVE  Read(0, p, x) = IF x = k THEN Append(Read(0, n, x), v) ELSE Read(0, n, x)
      <3>1. CASE \E m \in 1..Len(s) : s[m] = x
        <4>1. PICK m \in 1..Len(s) : s[m] = x
          BY <3>1
        <4>2. Read(0, p, x) = w[m] /\ Read(0, n, x) = vs[m]
          BY <2>6, <2>7, <4>1, ReadHit
        <4>3. x = k <=> m = j
          <5>1. m < j \/ m = j \/ j < m
            BY <1>1
          <5> QED
            BY <1>1, <2>1, <4>1, <5>1
        <4> QED
          BY <2>5, <4>2, <4>3
      <3>2. CASE \A m \in 1..Len(s) : s[m] # x
        <4>1. x \in Nat /\ x # k
          BY <1>1, <2>1, <3>2
        <4>2. Read(0, p, x) = <<>> /\ Read(0, n, x) = <<>>
          BY <2>6, <2>7, <3>2, <4>1, ReadMiss
        <4> QED
          BY <4>1, <4>2
      <3> QED
        BY <3>1, <3>2
    <2>9. After(p)
      BY <2>6, <2>7, <2>8
    <2> QED
      BY <2>3, <2>9
  <1>3. CASE \A j \in 1..Len(s) : s[j] # k
    <2>1. ~Found(s, k) /\ Read(0, n, k) = <<>>
      BY <1>1, <1>3, ReadMiss
    <2>2. i \in 1..(Len(s) + 1) /\ \A j \in 1..Len(s) : j < i <=> s[j] < k
      BY <1>1, Searches
    <2> DEFINE t == InsertAt(s, i, k)
               w == InsertAt(vs, i, <<v>>)
               p == Leaf(t, w)
    <2>3. PutInLeaf(n, k, v) = p
      <3>1. ~(i - 1 > Len(vs))
        BY <1>1, <2>2
      <3> QED
        BY <2>1, <3>1 DEF PutInLeaf
    <2> HIDE DEF i
    <2>4. /\ t \in Seq(Keys) /\ Len(t) = Len(s) + 1
          /\ \A j \in 1..(Len(s) + 1) : t[j] = IF j < i THEN s[j] ELSE IF j = i THEN k ELSE s[j - 1]
      <3> HIDE DEF s
      <3> QED
        BY <1>1, <2>2, InsertSeq
    <2>5. /\ w \in Seq(V) /\ Len(w) = Len(s) + 1
          /\ \A j \in 1..(Len(s) + 1) : w[j] = IF j < i THEN vs[j] ELSE IF j = i THEN <<v>> ELSE vs[j - 1]
      <3>1. i \in 1..(Len(vs) + 1) /\ <<v>> \in V
        BY <1>1, <2>2
      <3> DEFINE y == <<v>>
                 z == InsertAt(vs, i, y)
      <3> HIDE DEF V, s, vs, y
      <3>2. y \in V
        BY <3>1 DEF y
      <3>3. /\ z \in Seq(V) /\ Len(z) = Len(vs) + 1
            /\ \A j \in 1..(Len(vs) + 1) : z[j] = IF j < i THEN vs[j] ELSE IF j = i THEN y ELSE vs[j - 1]
        BY <1>1, <3>1, <3>2, InsertSeq
      <3> QED
        BY <1>1, <3>3 DEF y
    <2>6. Strict(t)
      <3>1. Gap(s, i, k)
        BY <1>3, <2>2 DEF Gap
      <3> HIDE DEF s
      <3> QED
        BY <1>1, <2>2, <3>1, InsertStrict
    <2> HIDE DEF t, w
    <2>7. p \in Nodes[0] /\ p.keys = t /\ p.vals = w
      <3>1. w \in Seq(Seq(Values))
        BY <2>5
      <3> QED
        BY <2>4, <3>1, LeafIn DEF Leaf
    <2> HIDE DEF p
    <2>8. Aligned(p)
      BY <2>4, <2>5, <2>6, <2>7 DEF Aligned
    <2>9. i \in 1..Len(t) /\ t[i] = k /\ w[i] = <<v>>
      <3>1. ~(i < i)
        BY <2>2
      <3> QED
        BY <2>2, <2>4, <2>5, <3>1
    <2>10. Read(0, p, k) = <<v>>
      BY <2>7, <2>8, <2>9, ReadHit
    <2>11. Append(Read(0, n, k), v) = <<v>>
      <3>1. Append(<<>>, v) = <<v>>
        OBVIOUS
      <3> QED
        BY <2>1, <3>1, Zenon
    <2>12. ASSUME NEW x \in Keys, x # k PROVE Read(0, p, x) = Read(0, n, x)
      <3>1. CASE \E m \in 1..Len(s) : s[m] = x
        <4>1. PICK m \in 1..Len(s) : s[m] = x
          BY <3>1
        <4>2. PICK j \in 1..Len(t) : t[j] = s[m] /\ w[j] = vs[m]
          <5>1. CASE m < i
            <6>1. m \in 1..(Len(s) + 1)
              BY <1>1
            <6> QED
              BY <2>4, <2>5, <5>1, <6>1
          <5>2. CASE ~(m < i)
            <6>1. m + 1 \in 1..(Len(s) + 1) /\ ~(m + 1 < i) /\ m + 1 # i /\ (m + 1) - 1 = m
              BY <1>1, <2>2, <5>2, SMTT(60)
            <6>2. t[m + 1] = s[m] /\ w[m + 1] = vs[m]
              BY <2>4, <2>5, <6>1
            <6> QED
              BY <2>4, <6>1, <6>2
          <5> QED
            BY <5>1, <5>2
        <4>3. Read(0, p, x) = w[j]
          BY <2>7, <2>8, <4>1, <4>2, ReadHit
        <4>4. Read(0, n, x) = vs[m]
          BY <4>1, ReadHit
        <4> QED
          BY <4>2, <4>3, <4>4
      <3>2. CASE \A m \in 1..Len(s) : s[m] # x
        <4>1. ASSUME NEW j \in 1..Len(t) PROVE t[j] # x
          <5>1. CASE j < i
            <6>1. j \in 1..Len(s) /\ t[j] = s[j]
              BY <1>1, <2>2, <2>4, <5>1, SMTT(60)
            <6> QED
              BY <3>2, <6>1
          <5>2. CASE j = i
            BY <2>9, <2>12, <5>2
          <5>3. CASE ~(j < i) /\ j # i
            <6>1. j - 1 \in 1..Len(s) /\ j \in 1..(Len(s) + 1)
              BY <1>1, <2>2, <2>4, <5>3
            <6>2. t[j] = s[j - 1]
              BY <2>4, <5>3, <6>1
            <6> QED
              BY <3>2, <6>1, <6>2
          <5> QED
            BY <5>1, <5>2, <5>3
        <4>2. x \in Nat
          BY <1>1
        <4>3. Read(0, p, x) = <<>> /\ Read(0, n, x) = <<>>
          BY <2>7, <2>8, <3>2, <4>1, <4>2, ReadMiss
        <4> QED
          BY <4>3
      <3> QED
        BY <3>1, <3>2
    <2>13. After(p)
      BY <2>7, <2>8, <2>10, <2>11, <2>12
    <2> QED
      BY <2>3, <2>13
  <1> QED
    BY <1>2, <1>3

\* A sequence put between the elements of another.
LEMMA WedgeSeq ==
    ASSUME NEW S, NEW s \in Seq(S), NEW t \in Seq(S), NEW i \in 1..(Len(s) + 1)
    PROVE  LET z == SubSeq(s, 1, i - 1) \o t \o SubSeq(s, i, Len(s))
           IN  /\ z \in Seq(S) /\ Len(z) = Len(s) + Len(t)
               /\ \A j \in 1..(i - 1) : z[j] = s[j]
               /\ \A j \in 1..Len(t) : z[i - 1 + j] = t[j]
               /\ \A j \in i..Len(s) : z[j + Len(t)] = s[j]
  <1> DEFINE a == SubSeq(s, 1, i - 1)
             b == SubSeq(s, i, Len(s))
             y == a \o t
             z == y \o b
  <1>1. Len(s) \in Nat /\ Len(t) \in Nat /\ i \in 1..(Len(s) + 1)
    OBVIOUS
  <1>2. a \in Seq(S) /\ Len(a) = i - 1 /\ \A j \in 1..(i - 1) : a[j] = s[j]
    <2>1. 1 \in 1..(Len(s) + 1) /\ i - 1 \in (1 - 1)..Len(s)
      BY <1>1
    <2>2. a \in Seq(S) /\ Len(a) = i - 1 - 1 + 1 /\ \A j \in 1..(i - 1 - 1 + 1) : a[j] = s[1 + j - 1]
      BY <2>1, CutSeq
    <2>3. i - 1 - 1 + 1 = i - 1 /\ \A j \in 1..(i - 1) : 1 + j - 1 = j
      BY <1>1
    <2> HIDE DEF a
    <2> QED
      BY <2>2, <2>3
  <1>3. b \in Seq(S) /\ Len(b) = Len(s) - i + 1 /\ \A j \in 1..(Len(s) - i + 1) : b[j] = s[i + j - 1]
    <2>1. Len(s) \in (i - 1)..Len(s)
      BY <1>1
    <2> QED
      BY <1>1, <2>1, CutSeq
  <1> HIDE DEF a, b
  <1>4. /\ y \in Seq(S) /\ Len(y) = i - 1 + Len(t)
        /\ \A j \in 1..(i - 1 + Len(t)) : y[j] = IF j <= i - 1 THEN a[j] ELSE t[j - (i - 1)]
    <2>1. /\ y \in Seq(S) /\ Len(y) = Len(a) + Len(t)
          /\ \A j \in 1..(Len(a) + Len(t)) : y[j] = IF j <= Len(a) THEN a[j] ELSE t[j - Len(a)]
      BY <1>2, JoinSeq
    <2> HIDE DEF y
    <2> QED
      BY <1>2, <2>1
  <1> HIDE DEF y
  <1>5. /\ z \in Seq(S) /\ Len(z) = Len(y) + Len(b)
        /\ \A j \in 1..(Len(y) + Len(b)) : z[j] = IF j <= Len(y) THEN y[j] ELSE b[j - Len(y)]
    BY <1>3, <1>4, JoinSeq
  <1> HIDE DEF z
  <1>6. Len(z) = Len(s) + Len(t) /\ Len(y) + Len(b) = Len(s) + Len(t)
    BY <1>1, <1>3, <1>4, <1>5
  <1>7. ASSUME NEW j \in 1..(i - 1) PROVE z[j] = s[j]
    <2>1. j \in 1..(Len(y) + Len(b)) /\ j <= Len(y) /\ j \in 1..(i - 1 + Len(t)) /\ j <= i - 1
      BY <1>1, <1>4, <1>6
    <2> QED
      BY <1>2, <1>4, <1>5, <2>1
  <1>8. ASSUME NEW j \in 1..Len(t) PROVE z[i - 1 + j] = t[j]
    <2> DEFINE m == i - 1 + j
    <2>1. /\ m \in 1..(Len(y) + Len(b)) /\ m <= Len(y) /\ m \in 1..(i - 1 + Len(t)) /\ ~(m <= i - 1)
          /\ m - (i - 1) = j
      BY <1>1, <1>4, <1>6
    <2> HIDE DEF m
    <2>2. z[m] = t[j]
      BY <1>4, <1>5, <2>1
    <2> QED
      BY <2>2 DEF m
  <1>9. ASSUME NEW j \in i..Len(s) PROVE z[j + Len(t)] = s[j]
    <2> DEFINE m == j + Len(t)
               r == j - i + 1
    <2>1. /\ m \in 1..(Len(y) + Len(b)) /\ ~(m <= Len(y)) /\ m - Len(y) = r
          /\ r \in 1..(Len(s) - i + 1) /\ i + r - 1 = j
      BY <1>1, <1>4, <1>6
    <2> HIDE DEF m, r
    <2>2. z[m] = b[r]
      BY <1>5, <2>1
    <2>3. b[r] = s[j]
      BY <1>3, <2>1
    <2> QED
      BY <2>2, <2>3 DEF m
  <1> QED
    BY <1>5, <1>6, <1>7, <1>8, <1>9 DEF z, y, a, b

\* What the node whose child i became new has where.
LEMMA SplicedForm ==
    ASSUME NEW h \in Nat \ {0}, NEW n \in Nodes[h], NEW new \in Nodes[h], NEW i \in 1..Len(n.kids)
    PROVE  LET p == Spliced(n, i, new)
               g == Len(new.keys)
           IN  /\ Len(p.keys) = Len(n.keys) + g /\ Len(p.kids) = Len(n.kids) + g
               /\ \A j \in 1..(i - 1) : p.keys[j] = n.keys[j] /\ p.kids[j] = n.kids[j]
               /\ \A j \in 1..g : p.keys[i - 1 + j] = new.keys[j]
               /\ \A j \in 1..(g + 1) : p.kids[i - 1 + j] = new.kids[j]
               /\ \A j \in i..Len(n.keys) : p.keys[j + g] = n.keys[j]
               /\ \A j \in (i + 1)..Len(n.kids) : p.kids[j + g] = n.kids[j]
  <1> DEFINE s == n.keys
             c == n.kids
             t == new.keys
             d == new.kids
             S == Nodes[h - 1]
             z == SubSeq(s, 1, i - 1) \o t \o SubSeq(s, i, Len(s))
             e == SubSeq(c, 1, i - 1) \o d \o SubSeq(c, i + 1, Len(c))
             p == Spliced(n, i, new)
  <1>1. /\ s \in Seq(Keys) /\ t \in Seq(Keys) /\ c \in Seq(S) /\ d \in Seq(S)
        /\ Len(c) = Len(s) + 1 /\ Len(d) = Len(t) + 1 /\ Len(s) \in Nat /\ Len(t) \in Nat
    BY InnerForm, NodeForm
  <1>2. p.keys = z /\ p.kids = e
    BY DEF Spliced, Inner
  <1> HIDE DEF p, s, c, t, d, S
  <1>3. i \in 1..(Len(s) + 1) /\ i \in 1..Len(c)
    BY <1>1 DEF c
  <1>4. /\ Len(z) = Len(s) + Len(t)
        /\ \A j \in 1..(i - 1) : z[j] = s[j]
        /\ \A j \in 1..Len(t) : z[i - 1 + j] = t[j]
        /\ \A j \in i..Len(s) : z[j + Len(t)] = s[j]
    <2>1. s \in Seq(Keys) /\ t \in Seq(Keys) /\ i \in 1..(Len(s) + 1)
      BY <1>1, <1>3
    <2> DEFINE u == SubSeq(s, 1, i - 1) \o t \o SubSeq(s, i, Len(s))
    <2>2. /\ u \in Seq(Keys) /\ Len(u) = Len(s) + Len(t)
          /\ \A j \in 1..(i - 1) : u[j] = s[j]
          /\ \A j \in 1..Len(t) : u[i - 1 + j] = t[j]
          /\ \A j \in i..Len(s) : u[j + Len(t)] = s[j]
      BY <2>1, WedgeSeq, ZenonT(60)
    <2>3. z = u
      OBVIOUS
    <2> HIDE DEF u, z
    <2> QED
      BY <2>2, <2>3
  <1>5. /\ Len(e) = Len(c) + Len(d) - 1
        /\ \A j \in 1..(i - 1) : e[j] = c[j]
        /\ \A j \in 1..Len(d) : e[i - 1 + j] = d[j]
        /\ \A j \in (i + 1)..Len(c) : e[j + Len(d) - 1] = c[j]
    <2>1. c \in Seq(S) /\ d \in Seq(S) /\ i \in 1..Len(c)
      BY <1>1, <1>3
    <2> DEFINE u == SubSeq(c, 1, i - 1) \o d \o SubSeq(c, i + 1, Len(c))
    <2>2. /\ u \in Seq(S) /\ Len(u) = Len(c) + Len(d) - 1
          /\ \A j \in 1..(i - 1) : u[j] = c[j]
          /\ \A j \in 1..Len(d) : u[i - 1 + j] = d[j]
          /\ \A j \in (i + 1)..Len(c) : u[j + Len(d) - 1] = c[j]
      BY <2>1, SpliceSeq, ZenonT(60)
    <2>3. e = u
      OBVIOUS
    <2> HIDE DEF u, e
    <2> QED
      BY <2>2, <2>3
  <1> HIDE DEF z, e
  <1>6. Len(e) = Len(c) + Len(t) /\ \A j \in (i + 1)..Len(c) : j + Len(d) - 1 = j + Len(t)
    BY <1>1, <1>3, <1>5
  <1>7. \A j \in (i + 1)..Len(c) : e[j + Len(t)] = c[j]
    BY <1>5, <1>6
  <1>8. \A j \in 1..(Len(t) + 1) : e[i - 1 + j] = d[j]
    BY <1>1, <1>5
  <1> QED
    BY <1>2, <1>4, <1>5, <1>6, <1>7, <1>8 DEF p, s, c, t, d

\* R above n has what n has once v is appended for k, except for separators.
Told(R, h, n, k, v) ==
    /\ R \in Nodes[h + 1] /\ Exact(R) /\ SeparatorsOf(n) \subseteq SeparatorsOf(R)
    /\ \A x \in Keys : x \notin SeparatorsOf(R) =>
          Read(h + 1, R, x) = IF x = k THEN Append(Read(h, n, x), v) ELSE Read(h, n, x)

\* The node whose child became new has what new has in the range of that child,
\* and what it had elsewhere.
LEMMA SplicedRead ==
    ASSUME NEW h \in Nat \ {0}, NEW n \in Sound(h), Exact(n), NEW k \in Keys, NEW v,
           NEW i \in 1..Len(n.kids), i > 1 => n.keys[i - 1] < k, i <= Len(n.keys) => k <= n.keys[i],
           NEW new, Sorted(new.keys), Told(new, h - 1, n.kids[i], k, v), Spliced(n, i, new) \in Sound(h)
    PROVE  LET p == Spliced(n, i, new)
           IN  /\ Exact(p) /\ SeparatorsOf(n) \subseteq SeparatorsOf(p)
               /\ \A x \in Keys : x \notin SeparatorsOf(p) =>
                     Read(h, p, x) = IF x = k THEN Append(Read(h, n, x), v) ELSE Read(h, n, x)
  <1> DEFINE s == n.keys
             c == n.kids
             t == new.keys
             d == new.kids
             g == Len(t)
             p == Spliced(n, i, new)
             q == p.keys
             e == p.kids
             Now(x, y) == IF x = k THEN Append(y, v) ELSE y
  <1>1. n \in Nodes[h] /\ Sorted(s) /\ p \in Nodes[h] /\ Sorted(q) /\ Sorted(t)
    BY SoundIsNode
  <1>2. h - 1 + 1 = h /\ h - 1 \in Nat /\ Keys \subseteq Nat /\ k \in Nat
    BY ProllyAssumption
  <1>3. /\ new \in Nodes[h] /\ Exact(new) /\ SeparatorsOf(c[i]) \subseteq SeparatorsOf(new)
        /\ \A x \in Keys : x \notin SeparatorsOf(new) => Read(h, new, x) = Now(x, Read(h - 1, c[i], x))
    BY <1>2 DEF Told
  <1>4. /\ s \in Seq(Nat) /\ t \in Seq(Nat) /\ Len(s) \in Nat /\ g \in Nat
        /\ Len(c) = Len(s) + 1 /\ Len(d) = g + 1
    BY <1>1, <1>3, NodeForm, InnerForm
  <1>5. /\ Len(q) = Len(s) + g /\ Len(e) = Len(c) + g
        /\ \A j \in 1..(i - 1) : q[j] = s[j] /\ e[j] = c[j]
        /\ \A j \in 1..g : q[i - 1 + j] = t[j]
        /\ \A j \in 1..(g + 1) : e[i - 1 + j] = d[j]
        /\ \A j \in i..Len(s) : q[j + g] = s[j]
        /\ \A j \in (i + 1)..Len(c) : e[j + g] = c[j]
    <2>1. n \in Nodes[h] /\ new \in Nodes[h] /\ i \in 1..Len(n.kids)
      BY <1>1, <1>3
    <2> QED
      BY <2>1, SplicedForm, ZenonT(60)
  <1>6. /\ i \in 1..Len(c) /\ (i > 1 => s[i - 1] < k) /\ (i <= Len(s) => k <= s[i])
    OBVIOUS
  <1>7. /\ \A x : x \in SeparatorsOf(p) <=> \/ \E j \in 1..Len(q) : x = q[j]
                                            \/ \E j \in 1..Len(e) : x \in SeparatorsOf(e[j])
        /\ \A x : x \in SeparatorsOf(n) <=> \/ \E j \in 1..Len(s) : x = s[j]
                                            \/ \E j \in 1..Len(c) : x \in SeparatorsOf(c[j])
        /\ \A x : x \in SeparatorsOf(new) <=> \/ \E j \in 1..g : x = t[j]
                                              \/ \E j \in 1..Len(d) : x \in SeparatorsOf(d[j])
    BY <1>1, <1>3, SepsInner
  <1>8. /\ Exact(p) <=> \A j \in 1..Len(e) : Exact(e[j])
        /\ \A j \in 1..Len(c) : Exact(c[j])
        /\ \A j \in 1..Len(d) : Exact(d[j])
    BY <1>1, <1>3, ExactInner
  <1>9. /\ \A x \in Nat : \A j : Place(q, x, j) => Read(h, p, x) = Read(h - 1, e[j], x)
        /\ \A x \in Nat : \A j : Place(s, x, j) => Read(h, n, x) = Read(h - 1, c[j], x)
        /\ \A x \in Nat : \A j : Place(t, x, j) => Read(h, new, x) = Read(h - 1, d[j], x)
    BY <1>1, <1>3, ReadInner
  <1> HIDE DEF p, q, e, s, c, t, d, g
  <1>10. /\ \A j \in 1..Len(s) : s[j] \in Nat
         /\ \A j, m \in 1..Len(s) : j <= m => s[j] <= s[m]
    BY <1>1, <1>4, SortedMeans
  <1>0. /\ Len(q) = Len(s) + g /\ Len(e) = Len(s) + 1 + g /\ Len(c) = Len(s) + 1 /\ Len(d) = g + 1
        /\ Len(s) \in Nat /\ g \in Nat /\ i \in Nat /\ 1 <= i /\ i <= Len(s) + 1
    BY <1>4, <1>5, <1>6
  \* Every part of p is one of n or one of new.
  <1>11. ASSUME NEW j \in 1..Len(e)
         PROVE  (\E m \in 1..Len(c) : e[j] = c[m]) \/ (\E m \in 1..Len(d) : e[j] = d[m])
    <2>1. CASE j < i
      <3>1. j \in 1..(i - 1) /\ j \in 1..Len(c)
        BY <1>0, <2>1
      <3> QED
        BY <1>5, <3>1
    <2>2. CASE i <= j /\ j <= i + g
      <3> DEFINE m == j - i + 1
      <3>1. m \in 1..(g + 1) /\ i - 1 + m = j /\ m \in 1..Len(d)
        BY <1>0, <2>2
      <3> HIDE DEF m
      <3> QED
        BY <1>5, <3>1
    <2>3. CASE i + g < j
      <3> DEFINE m == j - g
      <3>1. m \in (i + 1)..Len(c) /\ m + g = j /\ m \in 1..Len(c)
        BY <1>0, <2>3
      <3> HIDE DEF m
      <3> QED
        BY <1>5, <3>1
    <2> QED
      BY <1>0, <2>1, <2>2, <2>3
  <1>12. Exact(p)
    BY <1>8, <1>11
  \* No separator goes.
  <1>13. \A j \in 1..Len(s) : s[j] \in SeparatorsOf(p)
    <2>1. ASSUME NEW j \in 1..Len(s) PROVE s[j] \in SeparatorsOf(p)
      <3> HIDE DEF SeparatorsOf
      <3>1. CASE j < i
        <4>1. j \in 1..(i - 1) /\ j \in 1..Len(q)
          BY <1>0, <3>1
        <4> QED
          BY <1>5, <1>7, <4>1
      <3>2. CASE i <= j
        <4>1. j \in i..Len(s) /\ j + g \in 1..Len(q)
          BY <1>0, <3>2
        <4> QED
          BY <1>5, <1>7, <4>1
      <3> QED
        BY <1>0, <3>1, <3>2
    <2> QED
      BY <2>1
  <1>14. SeparatorsOf(new) \subseteq SeparatorsOf(p)
    <2>1. ASSUME NEW x \in SeparatorsOf(new) PROVE x \in SeparatorsOf(p)
      <3> HIDE DEF SeparatorsOf
      <3>1. CASE \E j \in 1..g : x = t[j]
        <4>1. PICK j \in 1..g : x = t[j]
          BY <3>1
        <4>2. i - 1 + j \in 1..Len(q)
          BY <1>0
        <4> QED
          BY <1>5, <1>7, <4>1, <4>2
      <3>2. CASE \E j \in 1..Len(d) : x \in SeparatorsOf(d[j])
        <4>1. PICK j \in 1..Len(d) : x \in SeparatorsOf(d[j])
          BY <3>2
        <4>2. i - 1 + j \in 1..Len(e) /\ j \in 1..(g + 1)
          BY <1>0
        <4> QED
          BY <1>5, <1>7, <4>1, <4>2
      <3> QED
        BY <1>7, <2>1, <3>1, <3>2
    <2> QED
      BY <2>1
  <1>15. SeparatorsOf(n) \subseteq SeparatorsOf(p)
    <2>1. ASSUME NEW j \in 1..Len(c), NEW x \in SeparatorsOf(c[j]) PROVE x \in SeparatorsOf(p)
      <3> HIDE DEF SeparatorsOf
      <3>1. CASE j < i
        <4>1. j \in 1..(i - 1) /\ j \in 1..Len(e)
          BY <1>0, <3>1
        <4> QED
          BY <1>5, <1>7, <2>1, <4>1
      <3>2. CASE j = i
        BY <1>3, <1>14, <2>1, <3>2
      <3>3. CASE i < j
        <4>1. j \in (i + 1)..Len(c) /\ j + g \in 1..Len(e)
          BY <1>0, <3>3
        <4> QED
          BY <1>5, <1>7, <2>1, <4>1
      <3> QED
        BY <1>0, <3>1, <3>2, <3>3
    <2>2. ASSUME NEW x \in SeparatorsOf(n) PROVE x \in SeparatorsOf(p)
      <3> HIDE DEF SeparatorsOf
      <3> QED
        BY <1>7, <1>13, <2>1, <2>2
    <2> QED
      BY <2>2
  <1>16. ASSUME NEW x \in Keys, x \notin SeparatorsOf(p) PROVE Read(h, p, x) = Now(x, Read(h, n, x))
    <2>1. x \in Nat /\ x \notin SeparatorsOf(new) /\ \A j \in 1..Len(s) : s[j] # x
      BY <1>2, <1>13, <1>14, <1>16
    <2>2. \A j \in 1..g : t[j] # x
      <3>1. \A j \in 1..g : t[j] \in SeparatorsOf(new)
        <4> HIDE DEF SeparatorsOf
        <4> QED
          BY <1>7
      <3> QED
        BY <2>1, <3>1
    <2> HIDE DEF SeparatorsOf
    <2> DEFINE j == SearchStrings(s, x)
    <2>3. Place(s, x, j)
      BY <1>1, <1>4, <2>1, PlaceExists
    <2> HIDE DEF j
    <2>4. /\ j \in 1..(Len(s) + 1) /\ (j > 1 => s[j - 1] < x) /\ (j <= Len(s) => x < s[j])
          /\ Read(h, n, x) = Read(h - 1, c[j], x)
      BY <1>9, <2>1, <2>3 DEF Place
    <2>5. CASE j < i
      <3>1. /\ j \in 1..(i - 1) /\ j \in 1..Len(s) /\ j <= Len(s) /\ i - 1 \in 1..Len(s) /\ j <= i - 1 /\ i > 1
            /\ j > 1 => j - 1 \in 1..(i - 1)
            /\ j \in 1..(Len(q) + 1)
        BY <1>0, <2>4, <2>5
      <3>2. Place(q, x, j)
        BY <1>5, <2>4, <3>1 DEF Place
      <3>3. x < s[j] /\ s[j] <= s[i - 1] /\ s[i - 1] < k /\ s[j] \in Nat /\ s[i - 1] \in Nat
        BY <1>6, <1>10, <2>4, <3>1
      <3>4. x # k
        BY <1>2, <2>1, <3>3
      <3>5. e[j] = c[j]
        BY <1>5, <3>1
      <3>6. Read(h, p, x) = Read(h - 1, e[j], x)
        BY <1>9, <2>1, <3>2
      <3> QED
        BY <2>4, <3>4, <3>5, <3>6
    <2>6. CASE i < j
      <3> DEFINE m == j + g
      <3>1. /\ j \in (i + 1)..Len(c) /\ j > 1 /\ j - 1 \in i..Len(s) /\ j - 1 \in 1..Len(s) /\ i \in 1..Len(s)
            /\ i <= Len(s) /\ i <= j - 1 /\ m \in 1..(Len(q) + 1) /\ m - 1 = j - 1 + g
            /\ m <= Len(q) => j <= Len(s) /\ j \in i..Len(s)
        BY <1>0, <2>4, <2>6
      <3>2. Place(q, x, m)
        <4>1. m > 1 => q[m - 1] < x
          BY <1>5, <2>4, <3>1
        <4>2. m <= Len(q) => x < q[m]
          BY <1>5, <2>4, <3>1
        <4> HIDE DEF m
        <4> QED
          BY <3>1, <4>1, <4>2 DEF Place
      <3>3. s[j - 1] < x /\ s[i] <= s[j - 1] /\ k <= s[i] /\ s[i] \in Nat /\ s[j - 1] \in Nat
        BY <1>6, <1>10, <2>4, <3>1
      <3>4. x # k
        BY <1>2, <2>1, <3>3
      <3>5. e[m] = c[j]
        BY <1>5, <3>1
      <3> HIDE DEF m
      <3>6. Read(h, p, x) = Read(h - 1, e[m], x)
        BY <1>9, <2>1, <3>2
      <3> QED
        BY <2>4, <3>4, <3>5, <3>6
    <2>7. CASE j = i
      <3> DEFINE o == SearchStrings(t, x)
                 m == i - 1 + o
      <3>1. Place(t, x, o)
        BY <1>1, <1>4, <2>1, <2>2, PlaceExists DEF g
      <3> HIDE DEF o
      <3>2. /\ o \in 1..(g + 1) /\ (o > 1 => t[o - 1] < x) /\ (o <= g => x < t[o])
            /\ Read(h, new, x) = Read(h - 1, d[o], x)
        BY <1>9, <2>1, <3>1 DEF Place, g
      <3>3. /\ m \in 1..(Len(q) + 1)
            /\ o > 1 => o - 1 \in 1..g /\ i - 1 + (o - 1) = m - 1
            /\ ~(o > 1) => o = 1 /\ m = i
            /\ m > 1 /\ m = i => i - 1 \in 1..(i - 1) /\ i > 1
            /\ o <= g => o \in 1..g
            /\ ~(o <= g) => m = i + g
            /\ m <= Len(q) /\ m = i + g => i \in i..Len(s) /\ i <= Len(s)
        <4>0. /\ Len(q) = Len(s) + g /\ Len(s) \in Nat /\ g \in Nat /\ i \in 1..(Len(s) + 1)
              /\ o \in 1..(g + 1)
          BY <1>0, <3>2
        <4> DEFINE lq == Len(q)
                   ls == Len(s)
        <4> HIDE DEF lq, ls
        <4>00. lq = ls + g /\ ls \in Nat /\ g \in Nat /\ i \in 1..(ls + 1) /\ o \in 1..(g + 1)
          BY <4>0 DEF lq, ls
        <4>1. m \in 1..(lq + 1)
          BY <4>00
        <4>2. o > 1 => o - 1 \in 1..g /\ i - 1 + (o - 1) = m - 1
          BY <4>00
        <4>3. ~(o > 1) => o = 1 /\ m = i
          BY <4>00
        <4>4. m > 1 /\ m = i => i - 1 \in 1..(i - 1) /\ i > 1
          BY <4>00
        <4>5. (o <= g => o \in 1..g) /\ (~(o <= g) => m = i + g)
          BY <4>00
        <4>6. m <= lq /\ m = i + g => i \in i..ls /\ i <= ls
          BY <4>00
        <4> HIDE DEF m
        <4> QED
          BY <4>1, <4>2, <4>3, <4>4, <4>5, <4>6 DEF lq, ls
      <3>4. m > 1 => q[m - 1] < x
        <4>1. CASE o > 1
          <5>1. q[i - 1 + (o - 1)] = t[o - 1]
            BY <1>5, <3>3, <4>1
          <5> QED
            BY <3>2, <3>3, <4>1, <5>1
        <4>2. CASE ~(o > 1)
          BY <1>5, <2>4, <2>7, <3>3, <4>2
        <4> QED
          BY <4>1, <4>2
      <3>5. m <= Len(q) => x < q[m]
        <4>1. CASE o <= g
          BY <1>5, <3>2, <3>3, <4>1
        <4>2. CASE ~(o <= g)
          <5>1. ASSUME m <= Len(q) PROVE x < q[m]
            <6>1. i \in i..Len(s) /\ i <= Len(s) /\ m = i + g
              BY <3>3, <4>2, <5>1
            <6> QED
              BY <1>5, <2>4, <2>7, <6>1
          <5> QED
            BY <5>1
        <4> QED
          BY <4>1, <4>2
      <3>6. e[m] = d[o]
        BY <1>5, <3>2
      <3> HIDE DEF m
      <3>7. Place(q, x, m)
        BY <3>3, <3>4, <3>5 DEF Place
      <3>8. Read(h, p, x) = Read(h - 1, e[m], x)
        BY <1>9, <2>1, <3>7
      <3>9. Read(h, new, x) = Now(x, Read(h - 1, c[i], x))
        BY <1>3, <2>1
      <3> HIDE DEF Now
      <3> QED
        BY <2>4, <2>7, <3>2, <3>6, <3>8, <3>9
    <2> QED
      BY <1>0, <2>4, <2>5, <2>6, <2>7
  <1> QED
    BY <1>12, <1>15, <1>16 DEF p

LEMMA ToldOfSplit ==
    ASSUME NEW h \in Nat, NEW n, NEW k, NEW v, NEW p \in Sound(h), Exact(p), Split(p) # Panicked,
           SeparatorsOf(n) \subseteq SeparatorsOf(p),
           \A x \in Keys : x \notin SeparatorsOf(p) =>
              Read(h, p, x) = IF x = k THEN Append(Read(h, n, x), v) ELSE Read(h, n, x)
    PROVE  Told(Split(p), h, n, k, v)
  <1> DEFINE R == Split(p)
             Now(x) == IF x = k THEN Append(Read(h, n, x), v) ELSE Read(h, n, x)
  <1>1. /\ R \in Nodes[h + 1] /\ Exact(R) /\ SeparatorsOf(p) \subseteq SeparatorsOf(R)
        /\ \A x \in Keys : x \notin SeparatorsOf(R) => Read(h + 1, R, x) = Read(h, p, x)
    BY SplitSame DEF Same
  <1>2. \A x \in Keys : x \notin SeparatorsOf(p) => Read(h, p, x) = Now(x)
    OBVIOUS
  <1>3. SeparatorsOf(n) \subseteq SeparatorsOf(R)
    BY <1>1
  <1> HIDE DEF R, Now
  <1>4. ASSUME NEW x \in Keys, x \notin SeparatorsOf(R) PROVE Read(h + 1, R, x) = Now(x)
    <2>1. x \notin SeparatorsOf(p)
      BY <1>1, <1>4
    <2> QED
      BY <1>1, <1>2, <1>4, <2>1
  <1>5. Told(R, h, n, k, v)
    BY <1>1, <1>3, <1>4 DEF Told, Now
  <1> QED
    BY <1>5 DEF R

\* The keys of a node that Split made are in order: there is at most one.
LEMMA BecomesSorted ==
    ASSUME NEW R, NEW h \in Nat, NEW K, NEW m, Whole(R, h, K, m) \/ Halved(R, h, K), K \subseteq Nat
    PROVE  Sorted(R.keys)
  <1>1. CASE Whole(R, h, K, m)
    <2>1. PICK n \in Sound(h) : R = Inner(h + 1, <<>>, <<n>>)
      BY <1>1 DEF Whole
    <2>2. R.keys = <<>>
      BY <2>1 DEF Inner
    <2>3. DOMAIN <<>> = {}
      OBVIOUS
    <2> QED
      BY <2>2, <2>3 DEF Sorted
  <1>2. CASE Halved(R, h, K)
    <2>1. PICK a \in Sound(h), b \in Sound(h), s \in K : R = Inner(h + 1, <<s>>, <<a, b>>)
      BY <1>2 DEF Halved
    <2> DEFINE t == <<s>>
    <2>2. R.keys = t
      BY <2>1 DEF Inner
    <2>3. DOMAIN t = 1..1
      OBVIOUS
    <2> HIDE DEF t
    <2>4. Sorted(t)
      BY <2>3 DEF Sorted
    <2> QED
      BY <2>2, <2>4
  <1> QED
    BY <1>1, <1>2

LEMMA PutAtRead ==
    ASSUME NEW h \in Nat, NEW n \in Sound(h), Len(n.keys) <= MaxKeys, Exact(n),
           NEW k \in Keys, NEW v \in Values, NEW f,
           h # 0 => \A c \in Sound(h - 1) : Filled(c) =>
                       /\ Becomes(f[h - 1][c], h - 1, c, k)
                       /\ Exact(c) /\ f[h - 1][c] # Panicked => Told(f[h - 1][c], h - 1, c, k, v),
           PutAt(k, v, f, h, n) # Panicked
    PROVE  Told(PutAt(k, v, f, h, n), h, n, k, v)
  <1> DEFINE i == SearchStrings(n.keys, k)
             new == f[h - 1][n.kids[i]]
  <1>0. n \in Nodes[h] /\ Sorted(n.keys)
    BY SoundIsNode
  <1>1. CASE h = 0
    <2> DEFINE p == PutInLeaf(n, k, v)
    <2>1. PutAt(k, v, f, h, n) = Split(p)
      BY <1>1 DEF PutAt
    <2>2. n \in Nodes[0] /\ Aligned(n)
      BY <1>0, <1>1, ExactLeaf
    <2>3. /\ p \in Nodes[0] /\ Aligned(p)
          /\ \A x \in Keys : Read(0, p, x) = IF x = k THEN Append(Read(0, n, x), v) ELSE Read(0, n, x)
      BY <2>2, PutInLeafRead
    <2> HIDE DEF p
    <2>4. p \in Sound(0) /\ Exact(p)
      BY <2>3, AlignedLeaf, ExactLeaf
    <2>5. SeparatorsOf(n) = {}
      BY <2>2, SepsLeaf
    <2>6. SeparatorsOf(n) \subseteq SeparatorsOf(p)
      BY <2>5
    <2>7. Split(p) # Panicked
      BY <2>1
    <2>8. /\ p \in Sound(h) /\ Exact(p)
          /\ \A x \in Keys : x \notin SeparatorsOf(p) =>
                Read(h, p, x) = IF x = k THEN Append(Read(h, n, x), v) ELSE Read(h, n, x)
      BY <1>1, <2>3, <2>4
    <2>9. Told(Split(p), h, n, k, v)
      BY <2>6, <2>7, <2>8, ToldOfSplit
    <2> QED
      BY <2>1, <2>9
  <1>2. CASE h # 0 /\ new = Panicked
    BY <1>2 DEF PutAt
  <1>3. CASE h # 0 /\ new # Panicked
    <2> DEFINE q == Spliced(n, i, new)
               K == KeysIn(n.kids[i]) \cup {k}
               len == Len(n.kids[i].keys)
    <2>1. PutAt(k, v, f, h, n) = Split(q)
      BY <1>3 DEF PutAt
    <2>2. h \in Nat \ {0} /\ h - 1 \in Nat
      BY <1>3
    <2>3. /\ i \in 1..Len(n.kids)
          /\ i > 1 => n.keys[i - 1] < k /\ n.keys[i - 1] <= k
          /\ i <= Len(n.keys) => k <= n.keys[i]
      <3>1. /\ i \in 1..(Len(n.keys) + 1) /\ k \in Nat
            /\ i > 1 => n.keys[i - 1] < k
            /\ i <= Len(n.keys) => k <= n.keys[i]
        BY SearchInNode
      <3>2. Len(n.kids) = Len(n.keys) + 1
        BY <1>0, <2>2, InnerForm
      <3> HIDE DEF i
      <3>3. Len(n.keys) \in Nat /\ \A j \in 1..Len(n.keys) : n.keys[j] \in Nat
        BY <1>0, NodeForm
      <3>4. ASSUME i > 1 PROVE n.keys[i - 1] < k /\ n.keys[i - 1] <= k
        <4>1. i - 1 \in 1..Len(n.keys)
          BY <3>1, <3>3, <3>4
        <4>2. n.keys[i - 1] \in Nat /\ n.keys[i - 1] < k
          BY <3>1, <3>3, <3>4, <4>1
        <4> QED
          BY <3>1, <4>2
      <3> QED
        BY <3>1, <3>2, <3>4
    <2> HIDE DEF i
    <2>4. n.kids[i] \in Sound(h - 1) /\ Filled(n.kids[i]) /\ n.kids[i] \in Nodes[h - 1] /\ Exact(n.kids[i])
      BY <1>0, <2>2, <2>3, KidsAround, KidIsNode, ExactInner
    <2>5. Becomes(new, h - 1, n.kids[i], k) /\ Told(new, h - 1, n.kids[i], k, v)
      BY <1>3, <2>4
    <2> HIDE DEF new
    <2>6. Whole(new, h - 1, K, len) \/ Halved(new, h - 1, K)
      BY <1>3, <2>5 DEF Becomes
    <2>7. len \in Nat /\ MinKeys \in Nat /\ MinKeys <= len
      BY <2>4, OrderFacts, SMTT(60) DEF Filled
    <2>8. K \subseteq Nat
      BY <2>2, <2>4, KeysInType, ProllyAssumption
    <2>9. Whole(new, h - 1, K, MinKeys) \/ Halved(new, h - 1, K)
      <3>1. K \subseteq K
        OBVIOUS
      <3> HIDE DEF K, len
      <3> QED
        BY <2>2, <2>6, <2>7, <3>1, BecomesMore
    <2>10. q \in Sound(h)
      BY <2>2, <2>3, <2>9, SplicedSound
    <2>11. Sorted(new.keys)
      <3> HIDE DEF K
      <3> QED
        BY <2>2, <2>8, <2>9, BecomesSorted
    <2>12. /\ Exact(q) /\ SeparatorsOf(n) \subseteq SeparatorsOf(q)
           /\ \A x \in Keys : x \notin SeparatorsOf(q) =>
                 Read(h, q, x) = IF x = k THEN Append(Read(h, n, x), v) ELSE Read(h, n, x)
      <3>1. /\ h \in Nat \ {0} /\ n \in Sound(h) /\ Exact(n) /\ k \in Keys /\ i \in 1..Len(n.kids)
            /\ (i > 1 => n.keys[i - 1] < k) /\ (i <= Len(n.keys) => k <= n.keys[i])
            /\ Sorted(new.keys) /\ Told(new, h - 1, n.kids[i], k, v) /\ Spliced(n, i, new) \in Sound(h)
        BY <2>2, <2>3, <2>5, <2>10, <2>11
      <3> HIDE DEF K, len
      <3> QED
        BY <3>1, SplicedRead, ZenonT(60)
    <2>13. Split(q) # Panicked
      BY <2>1
    <2> HIDE DEF q
    <2>14. Told(Split(q), h, n, k, v)
      BY <2>10, <2>12, <2>13, ToldOfSplit
    <2> QED
      BY <2>1, <2>14
  <1> QED
    BY <1>1, <1>2, <1>3

\* Put tells its caller a node that has what the node had and the new value.
LEMMA PutRead ==
    ASSUME NEW k \in Keys, NEW v \in Values
    PROVE  \A h \in Nat : \A n \in Sound(h) :
               Len(n.keys) <= MaxKeys /\ Exact(n) /\ RecursivePut(k, v)[h][n] # Panicked =>
                   Told(RecursivePut(k, v)[h][n], h, n, k, v)
  <1> DEFINE f == RecursivePut(k, v)
             Right(h) == \A n \in Sound(h) : Len(n.keys) <= MaxKeys /\ Exact(n) /\ f[h][n] # Panicked =>
                                                Told(f[h][n], h, n, k, v)
             T == {h \in Nat : Right(h)}
  <1>1. \A h \in Nat : f[h] = PutStep(k, v, f, h)
    BY PutDef
  <1>2. \A h \in Nat : \A n \in Sound(h) : f[h][n] = PutAt(k, v, f, h, n)
    <2> HIDE DEF f
    <2>1. \A h \in Nat : \A n \in Sound(h) : n \in Nodes[h]
      BY SoundIsNode
    <2> QED
      BY <1>1, <2>1, Zenon DEF PutStep
  <1>3. \A h \in Nat : \A n \in Sound(h) : Len(n.keys) <= MaxKeys => Becomes(f[h][n], h, n, k)
    BY PutSound
  <1> HIDE DEF f
  <1>4. 0 \in T
    <2>1. ASSUME NEW n \in Sound(0), Len(n.keys) <= MaxKeys, Exact(n), f[0][n] # Panicked
          PROVE  Told(f[0][n], 0, n, k, v)
      <3>1. PutAt(k, v, f, 0, n) # Panicked
        BY <1>2, <2>1
      <3>2. Told(PutAt(k, v, f, 0, n), 0, n, k, v)
        BY <2>1, <3>1, PutAtRead
      <3> QED
        BY <1>2, <3>2
    <2> QED
      BY <2>1
  <1>5. ASSUME NEW g \in Nat, g \in T PROVE g + 1 \in T
    <2> DEFINE h == g + 1
    <2>1. h \in Nat /\ h - 1 = g
      OBVIOUS
    <2> HIDE DEF h
    <2>2. \A c \in Sound(h - 1) : Filled(c) =>
             /\ Becomes(f[h - 1][c], h - 1, c, k)
             /\ Exact(c) /\ f[h - 1][c] # Panicked => Told(f[h - 1][c], h - 1, c, k, v)
      <3>1. ASSUME NEW c \in Sound(g), Filled(c) PROVE Len(c.keys) <= MaxKeys
        BY <3>1, OrderFacts DEF Filled
      <3> QED
        BY <1>3, <1>5, <2>1, <3>1
    <2>3. ASSUME NEW n \in Sound(h), Len(n.keys) <= MaxKeys, Exact(n), f[h][n] # Panicked
          PROVE  Told(f[h][n], h, n, k, v)
      <3>1. PutAt(k, v, f, h, n) # Panicked
        BY <1>2, <2>1, <2>3
      <3>2. Told(PutAt(k, v, f, h, n), h, n, k, v)
        BY <2>1, <2>2, <2>3, <3>1, PutAtRead
      <3> QED
        BY <1>2, <2>1, <3>2
    <2>4. h \in T
      BY <2>1, <2>3
    <2> QED
      BY <2>4 DEF h
  <1>6. \A h \in Nat : h \in T
    <2> HIDE DEF T
    <2> QED
      BY <1>4, <1>5, SetInduction
  <1> QED
    BY <1>6 DEF f

\* What the tree has after Put: a root of one child is that child.
LEMMA PutKeeps ==
    ASSUME NEW t, Rooted(t), Exact(t), NEW k \in Keys, NEW v \in Values, Put(t, k, v) # Panicked
    PROVE  LET r == Put(t, k, v)
           IN  /\ Exact(r) /\ SeparatorsOf(t) \subseteq SeparatorsOf(r)
               /\ \A x \in Keys : x \notin SeparatorsOf(r) =>
                     Get(r, x) = IF x = k THEN Append(Get(t, x), v) ELSE Get(t, x)
  <1> DEFINE h == t.height
             new == RecursivePut(k, v)[h][t]
             r == Put(t, k, v)
             g == h + 1
             After(x) == IF x = k THEN Append(Read(h, t, x), v) ELSE Read(h, t, x)
  <1>1. h \in Nat /\ t \in Sound(h) /\ Len(t.keys) <= MaxKeys
    BY DEF Rooted
  <1>2. r = IF new # Panicked /\ new.keys = <<>> THEN new.kids[1] ELSE new
    BY DEF Put
  <1>3. new # Panicked
    BY <1>2
  <1>4. Told(new, h, t, k, v)
    BY <1>1, <1>3, PutRead
  <1>5. g \in Nat \ {0} /\ g - 1 = h /\ Keys \subseteq Nat
    BY <1>1, ProllyAssumption
  <1>6. \A x : Get(t, x) = Read(h, t, x) /\ Get(r, x) = Read(r.height, r, x)
    BY DEF Get, Read
  <1> HIDE DEF h, new, g, r
  <1>7. /\ new \in Nodes[g] /\ Exact(new) /\ SeparatorsOf(t) \subseteq SeparatorsOf(new)
        /\ \A x \in Keys : x \notin SeparatorsOf(new) => Read(g, new, x) = After(x)
    BY <1>4 DEF Told, g
  <1>8. /\ r.height \in Nat /\ Exact(r) /\ SeparatorsOf(r) = SeparatorsOf(new)
        /\ \A x \in Keys : Read(r.height, r, x) = Read(g, new, x)
    <2>1. CASE new.keys = <<>>
      <3> DEFINE c == new.kids
                 q == new.keys
      <3>1. r = c[1]
        BY <1>2, <1>3, <2>1
      <3>2. q \in Seq(Nat) /\ Len(q) = 0 /\ Len(c) = 1
        <4>1. Len(<<>>) = 0
          OBVIOUS
        <4>2. q \in Seq(Nat) /\ Len(c) = Len(q) + 1
          BY <1>5, <1>7, NodeForm, InnerForm
        <4> QED
          BY <2>1, <4>1, <4>2
      <3>3. r.height = h
        <4>1. 1 \in 1..Len(new.kids)
          BY <3>2
        <4>2. new.kids[1].height = g - 1
          BY <1>5, <1>7, <4>1, KidIsNode
        <4> QED
          BY <1>5, <3>1, <4>2
      <3>4. Exact(new) <=> \A j \in 1..Len(c) : Exact(c[j])
        BY <1>5, <1>7, ExactInner
      <3>5. \A x : x \in SeparatorsOf(new) <=> \/ \E j \in 1..Len(q) : x = q[j]
                                              \/ \E j \in 1..Len(c) : x \in SeparatorsOf(c[j])
        BY <1>5, <1>7, SepsInner
      <3>6. ASSUME NEW x \in Keys PROVE Read(g, new, x) = Read(h, c[1], x)
        <4>1. Sorted(q)
          <5>1. DOMAIN q = {}
            BY <3>2
          <5> QED
            BY <5>1 DEF Sorted
        <4>2. Place(q, x, 1)
          BY <3>2 DEF Place
        <4> QED
          BY <1>5, <1>7, <4>1, <4>2, ReadInner
      <3> HIDE DEF c, q
      <3>7. \A j : (j \in 1..Len(c) <=> j = 1) /\ ~(j \in 1..Len(q))
        BY <3>2
      <3>8. \A x : x \in SeparatorsOf(new) <=> x \in SeparatorsOf(r)
        BY <3>1, <3>5, <3>7
      <3>9. SeparatorsOf(r) = SeparatorsOf(new)
        <4> HIDE DEF SeparatorsOf
        <4> QED
          BY <3>8
      <3> QED
        BY <1>1, <1>7, <3>1, <3>3, <3>4, <3>6, <3>7, <3>9 DEF h
    <2>2. CASE new.keys # <<>>
      <3>1. r = new
        BY <1>2, <2>2
      <3>2. new.height = g
        BY <1>5, <1>7, InnerForm
      <3> QED
        BY <1>5, <1>7, <3>1, <3>2
    <2> QED
      BY <2>1, <2>2
  <1>9. ASSUME NEW x \in Keys, x \notin SeparatorsOf(r)
        PROVE  Get(r, x) = IF x = k THEN Append(Get(t, x), v) ELSE Get(t, x)
    <2>1. Get(t, x) = Read(h, t, x) /\ Get(r, x) = Read(g, new, x)
      BY <1>6, <1>8
    <2>2. Read(g, new, x) = After(x)
      BY <1>7, <1>8, <1>9
    <2> QED
      BY <2>1, <2>2
  <1>10. SeparatorsOf(t) \subseteq SeparatorsOf(r)
    BY <1>7, <1>8
  <1> QED
    BY <1>8, <1>9, <1>10 DEF r

-----------------------------------------------------------------------------
(* Delete in a tree of one leaf                                              *)

LEMMA WithoutNone ==
    ASSUME NEW v
    PROVE  Without(<<>>, v) = <<>>
  <1> DEFINE s == <<>>
             D == 0..Len(s)
             Of(f, i) == IF i = 0 THEN <<>> ELSE IF s[i] = v THEN f[i - 1] ELSE Append(f[i - 1], s[i])
             Is(f) == f = [i \in D |-> Of(f, i)]
             r == CHOOSE f : Is(f)
             f0 == [i \in D |-> <<>>]
  <1>1. Len(s) = 0 /\ \A i : i \in D <=> i = 0
    OBVIOUS
  <1>2. Without(s, v) = r[Len(s)]
    BY DEF Without
  <1> HIDE DEF s, D
  <1>3. \A f : [i \in D |-> Of(f, i)] = f0
    BY <1>1
  <1>4. Is(f0)
    BY <1>3
  <1>5. Is(r)
    <2> HIDE DEF Is, f0
    <2> QED
      BY <1>4
  <1> HIDE DEF r
  <1>6. r[0] = <<>>
    BY <1>1, <1>5
  <1>7. Without(s, v) = <<>>
    BY <1>1, <1>2, <1>6
  <1> QED
    BY <1>7 DEF s

LEMMA RemoveStrict ==
    ASSUME NEW s \in Seq(Nat), Strict(s), NEW i \in 1..Len(s)
    PROVE  Strict(RemoveAt(s, i))
  <1> DEFINE t == RemoveAt(s, i)
  <1>1. Len(s) \in Nat /\ \A j, m \in 1..Len(s) : j < m => s[j] < s[m]
    BY StrictMeans
  <1>2. /\ t \in Seq(Nat) /\ Len(t) = Len(s) - 1
        /\ \A j \in 1..(Len(s) - 1) : t[j] = IF j < i THEN s[j] ELSE s[j + 1]
    <2> DEFINE S == Nat
    <2>1. s \in Seq(S) /\ i \in 1..Len(s)
      OBVIOUS
    <2> HIDE DEF S
    <2>2. /\ t \in Seq(S) /\ Len(t) = Len(s) - 1
          /\ \A j \in 1..(Len(s) - 1) : t[j] = IF j < i THEN s[j] ELSE s[j + 1]
      BY <2>1, RemoveSeq
    <2> QED
      BY <2>2 DEF S
  <1> HIDE DEF t
  <1>3. ASSUME NEW a \in 1..Len(t), NEW b \in 1..Len(t), a < b PROVE t[a] < t[b]
    <2>1. /\ a \in 1..(Len(s) - 1) /\ b \in 1..(Len(s) - 1) /\ a \in 1..Len(s) /\ b \in 1..Len(s)
          /\ a + 1 \in 1..Len(s) /\ b + 1 \in 1..Len(s) /\ a < b + 1 /\ a + 1 < b + 1
          /\ b < i => a < i
      BY <1>1, <1>2, <1>3, SMTT(60)
    <2>2. CASE b < i
      BY <1>1, <1>2, <1>3, <2>1, <2>2
    <2>3. CASE ~(b < i) /\ a < i
      BY <1>1, <1>2, <1>3, <2>1, <2>3
    <2>4. CASE ~(b < i) /\ ~(a < i)
      BY <1>1, <1>2, <1>3, <2>1, <2>4
    <2> QED
      BY <2>2, <2>3, <2>4
  <1>4. Strict(t)
    BY <1>2, <1>3, StrictMeans
  <1> QED
    BY <1>4 DEF t

\* Delete in a leaf takes the value from what the leaf has for the key.
LEMMA DeleteInLeafRead ==
    ASSUME NEW n \in Nodes[0], Aligned(n), NEW k \in Keys, NEW v \in Values
    PROVE  LET p == DeleteInLeaf(n, k, v)
           IN  /\ p \in Nodes[0] /\ Aligned(p)
               /\ \A x \in Keys : Read(0, p, x) = IF x = k THEN Without(Read(0, n, x), v) ELSE Read(0, n, x)
  <1> DEFINE s == n.keys
             vs == n.vals
             i == SearchStrings(s, k)
             V == Seq(Values)
             After(p) == /\ p \in Nodes[0] /\ Aligned(p)
                         /\ \A x \in Keys : Read(0, p, x) = IF x = k THEN Without(Read(0, n, x), v)
                                                            ELSE Read(0, n, x)
  <1>1. /\ n = Leaf(s, vs) /\ s \in Seq(Keys) /\ s \in Seq(Nat)
        /\ vs \in Seq(V) /\ Len(s) \in Nat /\ Len(vs) = Len(s) /\ Strict(s)
        /\ \A j, m \in 1..Len(s) : j < m => s[j] < s[m]
        /\ \A j \in 1..Len(s) : s[j] \in Nat /\ vs[j] \in V
        /\ Keys \subseteq Nat /\ k \in Nat
    BY AlignedLeaf, ProllyAssumption DEF Aligned
  <1>2. \A j, m \in 1..Len(s) : s[j] = s[m] => j = m
    <2>1. ASSUME NEW j \in 1..Len(s), NEW m \in 1..Len(s), s[j] = s[m] PROVE j = m
      <3>1. j < m \/ j = m \/ m < j
        BY <1>1
      <3>2. s[j] \in Nat /\ s[m] \in Nat
        BY <1>1
      <3> QED
        BY <1>1, <2>1, <3>1, <3>2
    <2> QED
      BY <2>1
  <1>3. CASE \A j \in 1..Len(s) : s[j] # k
    <2>1. ~Found(s, k) /\ Read(0, n, k) = <<>>
      BY <1>1, <1>3, ReadMiss
    <2>2. DeleteInLeaf(n, k, v) = n
      BY <2>1 DEF DeleteInLeaf
    <2>3. Without(<<>>, v) = <<>>
      BY WithoutNone
    <2>4. After(n)
      BY <2>1, <2>3
    <2> QED
      BY <2>2, <2>4
  <1>4. CASE \E j \in 1..Len(s) : s[j] = k
    <2>1. PICK j \in 1..Len(s) : s[j] = k
      BY <1>4
    <2>2. i = j /\ Found(s, k) /\ Read(0, n, k) = vs[j]
      BY <2>1, ReadHit
    <2> DEFINE rest == Without(vs[j], v)
    <2>3. rest \in V /\ Without(Read(0, n, k), v) = rest
      <3>1. vs[j] \in V
        BY <1>1
      <3> QED
        BY <2>2, <3>1, WithoutIn
    <2>4. ~(j > Len(vs)) /\ j \in 1..Len(vs)
      BY <1>1
    <2>5. CASE rest = <<>>
      <3> DEFINE t == RemoveAt(s, j)
                 w == RemoveAt(vs, j)
                 p == Leaf(t, w)
      <3>1. DeleteInLeaf(n, k, v) = p
        BY <2>2, <2>4, <2>5 DEF DeleteInLeaf
      <3> HIDE DEF rest
      <3>2. /\ t \in Seq(Keys) /\ Len(t) = Len(s) - 1
            /\ \A m \in 1..(Len(s) - 1) : t[m] = IF m < j THEN s[m] ELSE s[m + 1]
        <4>1. s \in Seq(Keys) /\ j \in 1..Len(s)
          BY <1>1
        <4> HIDE DEF s, V, vs, i
        <4> QED
          BY <4>1, RemoveSeq
      <3>3. /\ w \in Seq(V) /\ Len(w) = Len(s) - 1
            /\ \A m \in 1..(Len(s) - 1) : w[m] = IF m < j THEN vs[m] ELSE vs[m + 1]
        <4>1. vs \in Seq(V) /\ j \in 1..Len(vs)
          BY <1>1, <2>4
        <4> HIDE DEF s, V, vs, i
        <4>2. /\ w \in Seq(V) /\ Len(w) = Len(vs) - 1
              /\ \A m \in 1..(Len(vs) - 1) : w[m] = IF m < j THEN vs[m] ELSE vs[m + 1]
          BY <4>1, RemoveSeq
        <4> QED
          BY <1>1, <4>2
      <3>4. Strict(t)
        <4>1. s \in Seq(Nat) /\ Strict(s) /\ j \in 1..Len(s)
          BY <1>1
        <4> HIDE DEF s
        <4> QED
          BY <4>1, RemoveStrict
      <3> HIDE DEF t, w
      <3>5. p \in Nodes[0] /\ p.keys = t /\ p.vals = w
        <4>1. w \in Seq(Seq(Values))
          BY <3>3
        <4> QED
          BY <3>2, <4>1, LeafIn DEF Leaf
      <3> HIDE DEF p
      <3>6. Aligned(p)
        BY <3>2, <3>3, <3>4, <3>5 DEF Aligned
      <3>7. ASSUME NEW m \in 1..Len(t)
            PROVE  \E l \in 1..Len(s) : l # j /\ t[m] = s[l] /\ w[m] = vs[l]
        <4>1. m \in 1..(Len(s) - 1) /\ m \in 1..Len(s) /\ m + 1 \in 1..Len(s)
          BY <1>1, <3>2
        <4>2. CASE m < j
          <5>1. m # j /\ t[m] = s[m] /\ w[m] = vs[m]
            BY <3>2, <3>3, <4>1, <4>2
          <5> QED
            BY <4>1, <5>1
        <4>3. CASE ~(m < j)
          <5>1. m + 1 # j /\ t[m] = s[m + 1] /\ w[m] = vs[m + 1]
            BY <3>2, <3>3, <4>1, <4>3
          <5> QED
            BY <4>1, <5>1
        <4> QED
          BY <4>2, <4>3
      <3>8. ASSUME NEW l \in 1..Len(s), l # j PROVE \E m \in 1..Len(t) : t[m] = s[l]
        <4>1. CASE l < j
          <5>1. l \in 1..(Len(s) - 1)
            BY <1>1, <4>1
          <5> QED
            BY <3>2, <4>1, <5>1
        <4>2. CASE ~(l < j)
          <5>1. l - 1 \in 1..(Len(s) - 1) /\ ~(l - 1 < j) /\ (l - 1) + 1 = l
            BY <1>1, <3>8, <4>2
          <5>2. t[l - 1] = s[l]
            BY <3>2, <5>1
          <5> QED
            BY <3>2, <5>1, <5>2
        <4> QED
          BY <4>1, <4>2
      <3>9. ASSUME NEW x \in Keys
            PROVE  Read(0, p, x) = IF x = k THEN Without(Read(0, n, x), v) ELSE Read(0, n, x)
        <4>1. CASE \E m \in 1..Len(t) : t[m] = x
          <5>1. PICK m \in 1..Len(t) : t[m] = x
            BY <4>1
          <5>2. PICK l \in 1..Len(s) : l # j /\ t[m] = s[l] /\ w[m] = vs[l]
            BY <3>7
          <5>3. Read(0, p, x) = w[m]
            BY <3>5, <3>6, <5>1, ReadHit
          <5>4. Read(0, n, x) = vs[l]
            BY <5>1, <5>2, ReadHit
          <5>5. x # k
            BY <1>2, <2>1, <5>1, <5>2
          <5> QED
            BY <5>2, <5>3, <5>4, <5>5
        <4>2. CASE \A m \in 1..Len(t) : t[m] # x
          <5>1. x \in Nat
            BY <1>1
          <5>2. Read(0, p, x) = <<>>
            BY <3>5, <3>6, <4>2, <5>1, ReadMiss
          <5>3. CASE x = k
            BY <2>3, <2>5, <5>2, <5>3
          <5>4. CASE x # k
            <6>1. \A l \in 1..Len(s) : s[l] # x
              BY <2>1, <3>8, <4>2, <5>4
            <6>2. Read(0, n, x) = <<>>
              BY <5>1, <6>1, ReadMiss
            <6> QED
              BY <5>2, <5>4, <6>2
          <5> QED
            BY <5>3, <5>4
        <4> QED
          BY <4>1, <4>2
      <3>10. After(p)
        BY <3>5, <3>6, <3>9
      <3> QED
        BY <3>1, <3>10
    <2>6. CASE rest # <<>>
      <3> DEFINE w == [vs EXCEPT ![j] = rest]
                 p == Leaf(s, w)
      <3>1. DeleteInLeaf(n, k, v) = p
        <4>1. DeleteInLeaf(n, k, v) = [n EXCEPT !.vals[j] = rest]
          BY <2>2, <2>4, <2>6 DEF DeleteInLeaf
        <4>2. n = Leaf(s, vs) /\ w = [vs EXCEPT ![j] = rest] /\ p = Leaf(s, w)
          BY <1>1
        <4> HIDE DEF s, vs, w, rest, p, V
        <4>3. n.vals = vs
          BY <4>2 DEF Leaf
        <4>4. [n EXCEPT !.vals = w] = Leaf(s, w)
          BY <4>2 DEF Leaf
        <4>5. [n EXCEPT !.vals[j] = rest] = [n EXCEPT !.vals = [n.vals EXCEPT ![j] = rest]]
          OBVIOUS
        <4>6. [n EXCEPT !.vals[j] = rest] = [n EXCEPT !.vals = w]
          BY <4>2, <4>3, <4>5, Zenon
        <4>7. [n EXCEPT !.vals[j] = rest] = Leaf(s, w)
          BY <4>4, <4>6, Zenon
        <4> QED
          BY <4>1, <4>2, <4>7
      <3>2. w \in Seq(V) /\ Len(w) = Len(s) /\ \A m \in 1..Len(s) : w[m] = IF m = j THEN rest ELSE vs[m]
        <4> DEFINE z == [vs EXCEPT ![j] = rest]
        <4>1. w = z
          OBVIOUS
        <4>2. vs \in Seq(V) /\ rest \in V
          BY <1>1, <2>3
        <4> HIDE DEF V, rest, vs, s, w
        <4>3. z \in Seq(V) /\ Len(z) = Len(vs) /\ \A m \in 1..Len(vs) : z[m] = IF m = j THEN rest ELSE vs[m]
          BY <2>4, <4>2, ChangeSeq
        <4> QED
          BY <1>1, <4>1, <4>3
      <3> HIDE DEF w, rest
      <3>3. p \in Nodes[0] /\ p.keys = s /\ p.vals = w
        <4>1. w \in Seq(Seq(Values))
          BY <3>2
        <4> QED
          BY <1>1, <4>1, LeafIn DEF Leaf
      <3> HIDE DEF p
      <3>4. Aligned(p)
        BY <1>1, <3>2, <3>3 DEF Aligned
      <3>5. ASSUME NEW x \in Keys
            PROVE  Read(0, p, x) = IF x = k THEN Without(Read(0, n, x), v) ELSE Read(0, n, x)
        <4>1. CASE \E m \in 1..Len(s) : s[m] = x
          <5>1. PICK m \in 1..Len(s) : s[m] = x
            BY <4>1
          <5>2. Read(0, p, x) = w[m] /\ Read(0, n, x) = vs[m]
            BY <3>3, <3>4, <5>1, ReadHit
          <5>3. x = k <=> m = j
            BY <1>2, <2>1, <5>1
          <5> QED
            BY <2>3, <3>2, <5>2, <5>3
        <4>2. CASE \A m \in 1..Len(s) : s[m] # x
          <5>1. x \in Nat /\ x # k
            BY <1>1, <2>1, <4>2
          <5>2. Read(0, p, x) = <<>> /\ Read(0, n, x) = <<>>
            BY <3>3, <3>4, <4>2, <5>1, ReadMiss
          <5> QED
            BY <5>1, <5>2
        <4> QED
          BY <4>1, <4>2
      <3>6. After(p)
        BY <3>3, <3>4, <3>5
      <3> QED
        BY <3>1, <3>6
    <2> QED
      BY <2>5, <2>6
  <1> QED
    BY <1>3, <1>4

LEMMA DeleteOneLeaf ==
    ASSUME NEW t \in Nodes[0], Aligned(t), NEW k \in Keys, NEW v \in Values
    PROVE  LET r == Delete(t, k, v)
           IN  /\ r \in Nodes[0] /\ Aligned(r)
               /\ \A x \in Keys : Get(r, x) = IF x = k THEN Without(Get(t, x), v) ELSE Get(t, x)
  <1> DEFINE f == RecursiveDelete(k, v)
             p == DeleteInLeaf(t, k, v)
             r == Delete(t, k, v)
  <1>1. t.height = 0
    BY LeafForm
  <1>2. f[0][t] = p
    <2>1. f[0] = DeleteStep(k, v, f, 0)
      BY DeleteDef
    <2> HIDE DEF f
    <2>2. f[0][t] = DeleteAt(k, v, f, 0, t)
      BY <2>1, Zenon DEF DeleteStep
    <2> QED
      BY <2>2, Zenon DEF DeleteAt
  <1>3. /\ p \in Nodes[0] /\ Aligned(p)
        /\ \A x \in Keys : Read(0, p, x) = IF x = k THEN Without(Read(0, t, x), v) ELSE Read(0, t, x)
    BY DeleteInLeafRead
  <1>4. r = IF f[0][t].height > 0 /\ f[0][t].keys = <<>> THEN f[0][t].kids[1] ELSE f[0][t]
    BY <1>1 DEF Delete
  <1> HIDE DEF f, p, r
  <1>5. p.height = 0
    BY <1>3, LeafForm
  <1>6. r = p
    BY <1>2, <1>4, <1>5
  <1>7. \A x : Get(t, x) = Read(0, t, x) /\ Get(p, x) = Read(0, p, x)
    BY <1>1, <1>5, Zenon DEF Get, Read
  <1>8. \A x \in Keys : Get(p, x) = IF x = k THEN Without(Get(t, x), v) ELSE Get(t, x)
    BY <1>3, <1>7
  <1> QED
    BY <1>3, <1>6, <1>8 DEF r

\* The tree an index starts with.
LEMMA EmptyTree ==
    /\ Rooted(NewProllyTree) /\ Exact(NewProllyTree) /\ SeparatorsOf(NewProllyTree) = {}
    /\ \A x \in Keys : Get(NewProllyTree, x) = <<>>
  <1> DEFINE t == NewProllyTree
  <1>1. <<>> \in Seq(Keys) /\ <<>> \in Seq(Seq(Values)) /\ Len(<<>>) = 0 /\ DOMAIN <<>> = {}
    OBVIOUS
  <1>2. t \in Nodes[0] /\ t.keys = <<>> /\ t.vals = <<>> /\ t.height = 0
    BY <1>1, LeafIn DEF Leaf, NewProllyTree
  <1> HIDE DEF t
  <1>3. Sorted(t.keys) /\ Aligned(t)
    <2>1. Sorted(t.keys) /\ Strict(t.keys)
      BY <1>1, <1>2 DEF Sorted, Strict
    <2> QED
      BY <1>2, <2>1 DEF Aligned
  <1>4. Rooted(t)
    <2>1. t \in Sound(0)
      BY <1>2, <1>3, SoundLeaf
    <2> QED
      BY <1>1, <1>2, <2>1, OrderFacts DEF Rooted
  <1>5. Exact(t) /\ SeparatorsOf(t) = {}
    BY <1>2, <1>3, ExactLeaf, SepsLeaf
  <1>6. ASSUME NEW x \in Keys PROVE Get(t, x) = <<>>
    <2>1. x \in Nat /\ \A j \in 1..Len(t.keys) : t.keys[j] # x
      BY <1>1, <1>2, ProllyAssumption
    <2>2. Read(0, t, x) = <<>>
      BY <1>2, <1>3, <2>1, ReadMiss
    <2> QED
      BY <1>2, <2>2, Zenon DEF Get, Read
  <1> QED
    BY <1>4, <1>5, <1>6 DEF t
=============================================================================

----------------------------- MODULE TreeProofs -----------------------------
(***************************************************************************)
(* Proofs about ProllyTree, for any order of the tree and any sequence of  *)
(* calls.                                                                  *)
(***************************************************************************)
EXTENDS ProllyTree, NodeProofs

-----------------------------------------------------------------------------
(* Any sequence of calls                                                     *)

\* The inductive invariant: types, and a sound tree.  A tree that is only
\* balanced and in order says nothing of the siblings a merge joins; Rooted
\* does, of every node below the root.
TreeInv ==
    /\ Rooted(tree)
    /\ content \in [Keys -> Seq(Values)]
    /\ separators \subseteq Keys
    /\ workload \in Workloads /\ deletes \in 0..workload.deletes
    /\ loaded \in 0..Len(workload.load)

LEMMA WorkloadForm ==
    ASSUME NEW w \in Workloads
    PROVE  /\ w.load \in Seq(Keys \X Values) /\ Len(w.load) \in Nat /\ w.deletes \in Nat
           /\ \A k \in DOMAIN w.values : k \in Keys /\ \A v \in w.values[k] : v \in Values
  <1>1. /\ w.load \in Seq(Keys \X Values) /\ w.deletes \in Nat
        /\ DOMAIN w.values \subseteq Keys /\ UNION Range(w.values) \subseteq Values
    BY WorkloadAssumption
  <1>2. ASSUME NEW k \in DOMAIN w.values, NEW v \in w.values[k] PROVE v \in Values
    <2>1. w.values[k] \in Range(w.values)
      BY DEF Range
    <2> QED
      BY <1>1, <2>1
  <1> QED
    BY <1>1, <1>2

\* What is kept of a call whose result is a panic or a sound tree.
LEMMA KeepSound ==
    ASSUME TreeInv, NEW k \in Keys, NEW new, NEW described \in Seq(Values),
           new = Panicked \/ Rooted(new), Keep(k, new, described)
    PROVE  Rooted(tree') /\ content' \in [Keys -> Seq(Values)] /\ separators' \subseteq Keys
  <1>1. CASE new = Panicked
    BY <1>1 DEF Keep, TreeInv
  <1>2. CASE new # Panicked
    <2>1. tree' = new /\ content' = [content EXCEPT ![k] = described]
          /\ separators' = separators \cup SeparatorsOf(new)
      BY <1>2 DEF Keep
    <2>2. Rooted(new)
      BY <1>2
    <2>3. Rooted(tree')
      BY <2>1, <2>2 DEF Rooted
    <2>4. content' \in [Keys -> Seq(Values)]
      BY <2>1 DEF TreeInv
    <2>5. separators' \subseteq Keys
      BY <2>1, <2>2, SeparatorsType DEF TreeInv
    <2> QED
      BY <2>3, <2>4, <2>5
  <1> QED
    BY <1>1, <1>2

LEMMA InitSound == Init => TreeInv
  <1> SUFFICES ASSUME Init PROVE TreeInv
    OBVIOUS
  <1>1. Rooted(tree)
    BY EmptyTree DEF Init
  <1>2. content \in [Keys -> Seq(Values)]
    BY DEF Init
  <1>3. workload \in Workloads
    BY DEF Init
  <1>4. 0 \in 0..Len(workload.load) /\ 0 \in 0..workload.deletes
    BY <1>3, WorkloadForm
  <1> QED
    BY <1>1, <1>2, <1>3, <1>4 DEF Init, TreeInv

LEMMA LoadSound ==
    ASSUME TreeInv, Load
    PROVE  TreeInv'
  <1>1. PICK k \in Keys, v \in Values : Keep(k, Put(tree, k, v), Append(content[k], v))
    BY DEF Load
  <1> DEFINE new == Put(tree, k, v)
             described == Append(content[k], v)
  <1>2. new = Panicked \/ Rooted(new)
    BY PutRooted DEF TreeInv
  <1>3. described \in Seq(Values)
    <2>1. content[k] \in Seq(Values)
      BY DEF TreeInv
    <2> QED
      BY <2>1
  <1>4. Rooted(tree') /\ content' \in [Keys -> Seq(Values)] /\ separators' \subseteq Keys
    <2> HIDE DEF new, described
    <2>1. Keep(k, new, described)
      BY <1>1 DEF new, described
    <2> QED
      BY <1>2, <1>3, <2>1, KeepSound
  <1>5. loaded' \in 0..Len(workload.load)
    <2>1. workload \in Workloads /\ loaded \in 0..Len(workload.load)
      BY DEF TreeInv
    <2>2. Len(workload.load) \in Nat
      BY <2>1, WorkloadForm
    <2> QED
      BY <2>1, <2>2 DEF Load
  <1>6. workload' = workload /\ deletes' = deletes
    BY DEF Load
  <1>7. Rooted(tree)'
    BY <1>4 DEF Rooted
  <1> QED
    BY <1>4, <1>5, <1>6, <1>7 DEF TreeInv

LEMMA PutKeySound ==
    ASSUME TreeInv, NEW k \in Keys, NEW v \in Values, PutKey(k, v)
    PROVE  TreeInv'
  <1> DEFINE new == Put(tree, k, v)
             described == Append(content[k], v)
  <1>1. new = Panicked \/ Rooted(new)
    BY PutRooted DEF TreeInv
  <1>2. described \in Seq(Values)
    <2>1. content[k] \in Seq(Values)
      BY DEF TreeInv
    <2> QED
      BY <2>1
  <1>3. Keep(k, new, described)
    BY DEF PutKey
  <1> HIDE DEF new, described
  <1>4. Rooted(tree') /\ content' \in [Keys -> Seq(Values)] /\ separators' \subseteq Keys
    BY <1>1, <1>2, <1>3, KeepSound
  <1>5. workload' = workload /\ deletes' = deletes /\ loaded' = loaded
    BY DEF PutKey
  <1>6. Rooted(tree)'
    BY <1>4 DEF Rooted
  <1> QED
    BY <1>4, <1>5, <1>6 DEF TreeInv

LEMMA DeleteKeySound ==
    ASSUME TreeInv, NEW k \in Keys, NEW v \in Values, DeleteKey(k, v)
    PROVE  TreeInv'
  <1> DEFINE new == Delete(tree, k, v)
             described == Without(content[k], v)
  <1>1. new = Panicked \/ Rooted(new)
    BY DeleteRooted DEF TreeInv
  <1>2. described \in Seq(Values)
    <2>1. content[k] \in Seq(Values)
      BY DEF TreeInv
    <2> QED
      BY <2>1, WithoutIn
  <1>3. Keep(k, new, described)
    BY DEF DeleteKey
  <1> HIDE DEF new, described
  <1>4. Rooted(tree') /\ content' \in [Keys -> Seq(Values)] /\ separators' \subseteq Keys
    BY <1>1, <1>2, <1>3, KeepSound
  <1>5. workload' = workload /\ loaded' = loaded /\ deletes' \in 0..workload.deletes
    <2>1. workload \in Workloads /\ deletes \in 0..workload.deletes
      BY DEF TreeInv
    <2>2. workload.deletes \in Nat
      BY <2>1, WorkloadForm
    <2> QED
      BY <2>1, <2>2 DEF DeleteKey
  <1>6. Rooted(tree)'
    BY <1>4 DEF Rooted
  <1> QED
    BY <1>4, <1>5, <1>6 DEF TreeInv

\* Every step of a tree keeps it sound.
LEMMA StepSound == TreeInv /\ [Next]_vars => TreeInv'
  <1> SUFFICES ASSUME TreeInv, [Next]_vars PROVE TreeInv'
    OBVIOUS
  <1>1. CASE Load
    BY <1>1, LoadSound
  <1>2. CASE \E k \in DOMAIN workload.values : \E v \in workload.values[k] : PutKey(k, v) \/ DeleteKey(k, v)
    <2>1. PICK k \in DOMAIN workload.values : \E v \in workload.values[k] : PutKey(k, v) \/ DeleteKey(k, v)
      BY <1>2
    <2>2. PICK v \in workload.values[k] : PutKey(k, v) \/ DeleteKey(k, v)
      BY <2>1
    <2>3. k \in Keys /\ v \in Values
      BY <2>1, <2>2, WorkloadForm DEF TreeInv
    <2> QED
      BY <2>2, <2>3, PutKeySound, DeleteKeySound
  <1>3. CASE UNCHANGED vars
    <2>1. /\ tree' = tree /\ content' = content /\ separators' = separators
          /\ deletes' = deletes /\ loaded' = loaded /\ workload' = workload
      BY <1>3 DEF vars
    <2>2. Rooted(tree)'
      BY <2>1 DEF TreeInv, Rooted
    <2> QED
      BY <2>1, <2>2 DEF TreeInv
  <1> QED
    BY <1>1, <1>2, <1>3 DEF Next

\* A sound tree is a search tree.
LEMMA SoundIsSearchTree == TreeInv => SearchTree
  <1> SUFFICES ASSUME TreeInv PROVE SearchTree
    OBVIOUS
  <1>1. tree.height \in Nat /\ tree \in Sound(tree.height) /\ Len(tree.keys) <= MaxKeys
        /\ (tree.height > 0 => Len(tree.keys) >= 1)
    BY DEF TreeInv, Rooted
  <1>2. tree \in Nodes[tree.height] /\ tree.keys \in Seq(Keys)
    BY <1>1, SoundIsNode, NodeForm
  <1>3. TypeOK
    BY <1>2 DEF TypeOK, TreeInv
  <1>4. \A n \in NodesIn(tree) : Ranked(n) /\ (n # tree => Filled(n))
    BY <1>1 DEF Sound
  <1>5. Balanced
    <2>1. ASSUME NEW n \in NodesIn(tree)
          PROVE  Len(n.keys) <= MaxKeys /\ (n # tree => Len(n.keys) >= MinKeys)
      <3>1. CASE n = tree
        BY <1>1, <3>1
      <3>2. CASE n # tree
        <4>1. Len(n.keys) \in MinKeys..MaxKeys
          BY <1>4, <3>2 DEF Filled
        <4> QED
          BY <4>1, OrderFacts
      <3> QED
        BY <3>1, <3>2
    <2>2. tree.height > 0 => tree.keys # <<>>
      <3>1. Len(<<>>) = 0
        OBVIOUS
      <3> QED
        BY <1>1, <3>1
    <2> QED
      BY <2>1, <2>2 DEF Balanced
  <1>6. KeysInOrder
    BY <1>4 DEF KeysInOrder, Ranked, Sorted
  <1> QED
    BY <1>3, <1>5, <1>6 DEF SearchTree

\* prolly_trees.go: for a tree of any even order of at least four and any sequence of
\* Put and Delete, calls that panic included, every node has the parts of its kind, all
\* leaves are at one depth, every node but the root is at least MinKeys full and none
\* over MaxKeys, and all keys are in order.
THEOREM TreeStaysSearchTree == Spec => []SearchTree
  <1>1. Init => TreeInv
    BY InitSound
  <1>2. TreeInv /\ [Next]_vars => TreeInv'
    BY StepSound
  <1>3. TreeInv => SearchTree
    BY SoundIsSearchTree
  <1> QED
    BY <1>1, <1>2, <1>3, PTL DEF Spec

-----------------------------------------------------------------------------
(* The tree and the calls it was given                                       *)

\* As long as keys were only put, or no leaf was split, every key that is no
\* separator has what the calls describe; and the separators are all known.
Agrees(t, c, s, d) ==
    /\ SeparatorsOf(t) \subseteq s
    /\ d = 0 \/ s = {} => Exact(t) /\ \A k \in Keys \ s : Get(t, k) = c[k]
ReadInv == Agrees(tree, content, separators, deletes)

LEMMA PutAgrees ==
    ASSUME NEW t, Rooted(t), NEW c \in [Keys -> Seq(Values)], NEW s, NEW d, Agrees(t, c, s, d),
           NEW k \in Keys, NEW v \in Values, Put(t, k, v) # Panicked
    PROVE  Agrees(Put(t, k, v), [c EXCEPT ![k] = Append(c[k], v)], s \cup SeparatorsOf(Put(t, k, v)), d)
  <1> DEFINE r == Put(t, k, v)
             c1 == [c EXCEPT ![k] = Append(c[k], v)]
             s1 == s \cup SeparatorsOf(r)
  <1>1. SeparatorsOf(r) \subseteq s1
    OBVIOUS
  <1>2. ASSUME d = 0 \/ s1 = {} PROVE Exact(r) /\ \A x \in Keys \ s1 : Get(r, x) = c1[x]
    <2>1. d = 0 \/ s = {}
      BY <1>2
    <2>2. Exact(t) /\ \A x \in Keys \ s : Get(t, x) = c[x]
      BY <2>1 DEF Agrees
    <2>3. /\ Exact(r)
          /\ \A x \in Keys : x \notin SeparatorsOf(r) =>
                Get(r, x) = IF x = k THEN Append(Get(t, x), v) ELSE Get(t, x)
      BY <2>2, PutKeeps
    <2> HIDE DEF r
    <2>4. ASSUME NEW x \in Keys \ s1 PROVE Get(r, x) = c1[x]
      <3>1. x \in Keys \ s /\ x \notin SeparatorsOf(r)
        OBVIOUS
      <3>2. c1[x] = IF x = k THEN Append(c[k], v) ELSE c[x]
        OBVIOUS
      <3> QED
        BY <2>2, <2>3, <3>1, <3>2
    <2> QED
      BY <2>3, <2>4
  <1> HIDE DEF r, c1, s1
  <1>3. Agrees(r, c1, s1, d)
    BY <1>1, <1>2 DEF Agrees
  <1> QED
    BY <1>3 DEF r, c1, s1

LEMMA DeleteAgrees ==
    ASSUME NEW t, Rooted(t), NEW c \in [Keys -> Seq(Values)], NEW s, NEW d \in Nat, Agrees(t, c, s, d),
           NEW k \in Keys, NEW v \in Values
    PROVE  Agrees(Delete(t, k, v), [c EXCEPT ![k] = Without(c[k], v)],
                  s \cup SeparatorsOf(Delete(t, k, v)), d + 1)
  <1> DEFINE r == Delete(t, k, v)
             c1 == [c EXCEPT ![k] = Without(c[k], v)]
             s1 == s \cup SeparatorsOf(r)
  <1>1. SeparatorsOf(r) \subseteq s1
    OBVIOUS
  <1>2. ASSUME s1 = {} PROVE Exact(r) /\ \A x \in Keys \ s1 : Get(r, x) = c1[x]
    <2>1. s = {}
      BY <1>2
    <2>2. SeparatorsOf(t) = {} /\ Exact(t) /\ \A x \in Keys : Get(t, x) = c[x]
      BY <2>1 DEF Agrees
    <2>3. t.height \in Nat /\ t \in Nodes[t.height] /\ Len(t.keys) \in Nat
          /\ (t.height > 0 => Len(t.keys) >= 1)
      BY SoundIsNode, NodeForm DEF Rooted
    <2>4. t.height = 0
      <3>1. ASSUME t.height # 0 PROVE FALSE
        <4>1. t.height \in Nat \ {0} /\ 1 \in 1..Len(t.keys)
          BY <2>3, <3>1
        <4>2. \A x : x \in SeparatorsOf(t) <=> \/ \E j \in 1..Len(t.keys) : x = t.keys[j]
                                               \/ \E j \in 1..Len(t.kids) : x \in SeparatorsOf(t.kids[j])
          BY <2>3, <4>1, SepsInner
        <4> HIDE DEF SeparatorsOf
        <4>3. t.keys[1] \in SeparatorsOf(t)
          BY <4>1, <4>2
        <4> QED
          BY <2>2, <4>3
      <3> QED
        BY <3>1
    <2>5. t \in Nodes[0] /\ Aligned(t)
      BY <2>2, <2>3, <2>4, ExactLeaf
    <2>6. /\ r \in Nodes[0] /\ Aligned(r)
          /\ \A x \in Keys : Get(r, x) = IF x = k THEN Without(Get(t, x), v) ELSE Get(t, x)
      BY <2>5, DeleteOneLeaf
    <2> HIDE DEF r
    <2>7. Exact(r)
      BY <2>6, ExactLeaf
    <2>8. ASSUME NEW x \in Keys PROVE Get(r, x) = c1[x]
      <3>1. c1[x] = IF x = k THEN Without(c[k], v) ELSE c[x]
        OBVIOUS
      <3> QED
        BY <2>2, <2>6, <3>1
    <2> QED
      BY <2>7, <2>8
  <1> HIDE DEF r, c1, s1
  <1>3. ~(d + 1 = 0)
    OBVIOUS
  <1>4. Agrees(r, c1, s1, d + 1)
    BY <1>1, <1>2, <1>3 DEF Agrees
  <1> QED
    BY <1>4 DEF r, c1, s1

LEMMA InitAgrees == Init => ReadInv
  <1> SUFFICES ASSUME Init PROVE ReadInv
    OBVIOUS
  <1>1. Exact(tree) /\ SeparatorsOf(tree) = {} /\ \A x \in Keys : Get(tree, x) = <<>>
    BY EmptyTree DEF Init
  <1>2. separators = {} /\ \A x \in Keys : content[x] = <<>>
    BY DEF Init
  <1> QED
    BY <1>1, <1>2 DEF ReadInv, Agrees

\* What a step keeps of a call, once it is known what the call's result has.
LEMMA KeepAgrees ==
    ASSUME ReadInv, TreeInv, NEW k, NEW new, NEW described, Keep(k, new, described),
           deletes' = deletes \/ deletes' = deletes + 1,
           new # Panicked => Agrees(new, [content EXCEPT ![k] = described],
                                    separators \cup SeparatorsOf(new), deletes')
    PROVE  ReadInv'
  <1>1. deletes \in Nat
    <2>1. workload \in Workloads /\ deletes \in 0..workload.deletes
      BY DEF TreeInv
    <2> QED
      BY <2>1, WorkloadForm
  <1>2. CASE new = Panicked
    <2>1. tree' = tree /\ content' = content /\ separators' = separators
      BY <1>2 DEF Keep
    <2>2. deletes' = 0 => deletes = 0
      BY <1>1
    <2>3. Agrees(tree, content, separators, deletes')
      BY <2>2 DEF ReadInv, Agrees
    <2> QED
      BY <2>1, <2>3 DEF ReadInv
  <1>3. CASE new # Panicked
    <2>1. tree' = new /\ content' = [content EXCEPT ![k] = described]
          /\ separators' = separators \cup SeparatorsOf(new)
      BY <1>3 DEF Keep
    <2>2. Agrees(tree', content', separators', deletes')
      BY <1>3, <2>1
    <2> QED
      BY <2>2 DEF ReadInv
  <1> QED
    BY <1>2, <1>3

LEMMA StepAgrees == TreeInv /\ ReadInv /\ [Next]_vars => ReadInv'
  <1> SUFFICES ASSUME TreeInv, ReadInv, [Next]_vars PROVE ReadInv'
    OBVIOUS
  <1>1. /\ Rooted(tree) /\ content \in [Keys -> Seq(Values)] /\ deletes \in Nat
        /\ Agrees(tree, content, separators, deletes)
    <2>1. workload \in Workloads /\ deletes \in 0..workload.deletes
      BY DEF TreeInv
    <2> QED
      BY <2>1, WorkloadForm DEF TreeInv, ReadInv
  <1>2. ASSUME NEW k \in Keys, NEW v \in Values, Keep(k, Put(tree, k, v), Append(content[k], v)),
               deletes' = deletes
        PROVE  ReadInv'
    <2> DEFINE new == Put(tree, k, v)
               described == Append(content[k], v)
    <2>1. new # Panicked => Agrees(new, [content EXCEPT ![k] = described],
                                   separators \cup SeparatorsOf(new), deletes')
      BY <1>1, <1>2, PutAgrees
    <2>2. Keep(k, new, described)
      BY <1>2
    <2> HIDE DEF new, described
    <2> QED
      BY <1>2, <2>1, <2>2, KeepAgrees
  <1>3. ASSUME NEW k \in Keys, NEW v \in Values, DeleteKey(k, v) PROVE ReadInv'
    <2> DEFINE new == Delete(tree, k, v)
               described == Without(content[k], v)
    <2>1. deletes' = deletes + 1 /\ Keep(k, new, described)
      BY <1>3 DEF DeleteKey
    <2>2. Agrees(new, [content EXCEPT ![k] = described], separators \cup SeparatorsOf(new), deletes')
      BY <1>1, <2>1, DeleteAgrees
    <2> HIDE DEF new, described
    <2> QED
      BY <2>1, <2>2, KeepAgrees
  <1>4. CASE Load
    <2>1. PICK k \in Keys, v \in Values : Keep(k, Put(tree, k, v), Append(content[k], v))
      BY <1>4 DEF Load
    <2>2. deletes' = deletes
      BY <1>4 DEF Load
    <2> QED
      BY <1>2, <2>1, <2>2
  <1>5. CASE \E k \in DOMAIN workload.values : \E v \in workload.values[k] : PutKey(k, v) \/ DeleteKey(k, v)
    <2>1. PICK k \in DOMAIN workload.values : \E v \in workload.values[k] : PutKey(k, v) \/ DeleteKey(k, v)
      BY <1>5
    <2>2. PICK v \in workload.values[k] : PutKey(k, v) \/ DeleteKey(k, v)
      BY <2>1
    <2>3. k \in Keys /\ v \in Values
      BY <2>1, <2>2, WorkloadForm DEF TreeInv
    <2>4. CASE PutKey(k, v)
      <3>1. Keep(k, Put(tree, k, v), Append(content[k], v)) /\ deletes' = deletes
        BY <2>4 DEF PutKey
      <3> QED
        BY <1>2, <2>3, <3>1
    <2>5. CASE DeleteKey(k, v)
      BY <1>3, <2>3, <2>5
    <2> QED
      BY <2>2, <2>4, <2>5
  <1>6. CASE UNCHANGED vars
    <2>1. tree' = tree /\ content' = content /\ separators' = separators /\ deletes' = deletes
      BY <1>6 DEF vars
    <2>2. Agrees(tree', content', separators', deletes')
      BY <1>1, <2>1
    <2> QED
      BY <2>2 DEF ReadInv
  <1> QED
    BY <1>4, <1>5, <1>6 DEF Next

\* prolly_trees.go: for a tree of any even order of at least four, as long as keys are
\* only put, every key but those that splits made separators has exactly the values put
\* for it; and a tree whose leaf was never split has what Put and Delete describe.
THEOREM TreeLosesOnlySeparators == Spec => []OnlySeparatorsLost
  <1>1. Init => TreeInv /\ ReadInv
    BY InitSound, InitAgrees
  <1>2. TreeInv /\ ReadInv /\ [Next]_vars => TreeInv' /\ ReadInv'
    BY StepSound, StepAgrees
  <1>3. ReadInv => OnlySeparatorsLost
    BY DEF ReadInv, Agrees, OnlySeparatorsLost
  <1> QED
    BY <1>1, <1>2, <1>3, PTL DEF Spec
=============================================================================

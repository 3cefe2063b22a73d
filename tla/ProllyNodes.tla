---------------------------- MODULE ProllyNodes -----------------------------
(***************************************************************************)
(* pkg/core/prolly_trees.go: the trees that index UNIQUE columns, from a   *)
(* column value to the CIDs of pages.  Nodes are immutable and content     *)
(* addressed, so the CID of a node is the node, a tree is its root, and an *)
(* operation that fails or panics leaves the tree it was given.            *)
(*                                                                         *)
(* The functions are recursive like the code, but know the height of the   *)
(* node they are given: a node has it where the code has IsLeaf.           *)
(***************************************************************************)
EXTENDS Naturals, FiniteSets, SequencesExt

CONSTANTS
    Order,       \* ProllyTreeOrder, 8 in the code
    Keys,        \* index keys; strings in the code, here numbers, same order
    Values,      \* page CIDs
    Panic        \* what a Go index out of range yields; no page CID

MaxKeys == Order - 1
MinKeys == (Order \div 2) - 1

ASSUME ProllyAssumption ==
    /\ Order \in Nat /\ Order % 2 = 0 /\ Order >= 4
    /\ Keys \subseteq Nat
    /\ Panic \notin Values

-----------------------------------------------------------------------------
(* Nodes.  A leaf has one list of values for each key, an internal node one *)
(* child more than keys.                                                    *)

Leaf(keys, vals) == [height |-> 0, keys |-> keys, vals |-> vals, kids |-> <<>>]
Inner(h, keys, kids) == [height |-> h, keys |-> keys, vals |-> <<>>, kids |-> kids]

\* The nodes of height h: all leaves under them are as far down.
Nodes[h \in Nat] ==
    IF h = 0 THEN [height: {0}, keys: Seq(Keys), vals: Seq(Seq(Values)), kids: {<<>>}]
    ELSE {n \in [height: {h}, keys: Seq(Keys), vals: {<<>>}, kids: Seq(Nodes[h - 1])] :
             Len(n.kids) = Len(n.keys) + 1}

NewProllyTree == Leaf(<<>>, <<>>)

\* What a panic leaves: no node of any tree.
Panicked == Leaf(<<>>, <<<<Panic>>>>)

\* sort.SearchStrings: the first position whose key is not less than k.
SearchStrings(keys, k) == 1 + Cardinality({i \in DOMAIN keys : keys[i] < k})

Found(keys, k) ==
    LET i == SearchStrings(keys, k) IN i <= Len(keys) /\ keys[i] = k

\* Get goes right of a separator that equals the key.
RecursiveGet(k) ==
    LET get[h \in Nat] ==
          [node \in Nodes[h] |->
             LET i == SearchStrings(node.keys, k)
                 j == IF Found(node.keys, k) THEN i + 1 ELSE i
             IN  IF h > 0 THEN get[h - 1][node.kids[j]]
                 ELSE IF ~Found(node.keys, k) THEN <<>>
                 ELSE IF i > Len(node.vals) THEN <<Panic>>
                 ELSE node.vals[i]]
    IN  get

Get(root, k) == RecursiveGet(k)[root.height][root]

-----------------------------------------------------------------------------
(* Put *)

PutInLeaf(node, k, v) ==
    LET i == SearchStrings(node.keys, k)
    IN  IF Found(node.keys, k)
        THEN IF i > Len(node.vals) THEN Panicked
             ELSE [node EXCEPT !.vals[i] = Append(@, v)]
        ELSE IF i - 1 > Len(node.vals) THEN Panicked
             ELSE Leaf(InsertAt(node.keys, i, k), InsertAt(node.vals, i, <<v>>))

\* What a node becomes in its parent: itself, or two halves around the middle
\* key.  The values of the middle key of a leaf go to neither half.
\* Faulty variant: the right half of a leaf takes the values from mid on.
SplitShifted(node) ==
    IF node = Panicked THEN Panicked
    ELSE IF Len(node.keys) <= MaxKeys THEN Inner(node.height + 1, <<>>, <<node>>)
    ELSE IF node.height = 0 /\ Len(node.vals) < Len(node.keys) THEN Panicked
    ELSE LET mid == Len(node.keys) \div 2
             n   == Len(node.keys)
         IN  Inner(node.height + 1, <<node.keys[mid + 1]>>,
               IF node.height = 0
               THEN <<Leaf(SubSeq(node.keys, 1, mid), SubSeq(node.vals, 1, mid)),
                      Leaf(SubSeq(node.keys, mid + 2, n), SubSeq(node.vals, mid + 1, n - 1))>>
               ELSE <<Inner(node.height, SubSeq(node.keys, 1, mid), SubSeq(node.kids, 1, mid + 1)),
                      Inner(node.height, SubSeq(node.keys, mid + 2, n), SubSeq(node.kids, mid + 2, n + 1))>>)
Split(node) ==
    IF node = Panicked THEN Panicked
    ELSE IF Len(node.keys) <= MaxKeys THEN Inner(node.height + 1, <<>>, <<node>>)
    ELSE LET mid == Len(node.keys) \div 2
             n   == Len(node.keys)
             low  == SubSeq(node.keys, 1, mid)
             high == SubSeq(node.keys, mid + 2, n)
         IN  IF node.height = 0 /\ Len(node.vals) <= mid THEN Panicked
             ELSE Inner(node.height + 1, <<node.keys[mid + 1]>>,
               IF node.height = 0
               THEN <<Leaf(low, SubSeq(node.vals, 1, mid)),
                      Leaf(high, SubSeq(node.vals, mid + 2, Len(node.vals)))>>
               ELSE <<Inner(node.height, low, SubSeq(node.kids, 1, mid + 1)),
                      Inner(node.height, high, SubSeq(node.kids, mid + 2, n + 1))>>)

\* The node with a child i that became new.
Spliced(node, i, new) ==
    Inner(node.height,
        SubSeq(node.keys, 1, i - 1) \o new.keys \o SubSeq(node.keys, i, Len(node.keys)),
        SubSeq(node.kids, 1, i - 1) \o new.kids \o SubSeq(node.kids, i + 1, Len(node.kids)))

\* Put goes left of a separator that equals the key.
RecursivePut(k, v) ==
    LET put[h \in Nat] ==
          [node \in Nodes[h] |->
             LET i   == SearchStrings(node.keys, k)
                 new == put[h - 1][node.kids[i]]
             IN  IF h = 0 THEN Split(PutInLeaf(node, k, v))
                 ELSE IF new = Panicked THEN Panicked
                 ELSE Split(Spliced(node, i, new))]
    IN  put

Put(root, k, v) ==
    LET new == RecursivePut(k, v)[root.height][root]
    IN  IF new # Panicked /\ new.keys = <<>> THEN new.kids[1] ELSE new

-----------------------------------------------------------------------------
(* Delete *)

\* The values other than v, in their order.
Without(vals, v) ==
    LET newValues[i \in 0..Len(vals)] ==
          IF i = 0 THEN <<>>
          ELSE IF vals[i] = v THEN newValues[i - 1] ELSE Append(newValues[i - 1], vals[i])
    IN  newValues[Len(vals)]

DeleteInLeaf(node, k, v) ==
    LET i    == SearchStrings(node.keys, k)
        rest == Without(node.vals[i], v)
    IN  IF ~Found(node.keys, k) THEN node
        ELSE IF i > Len(node.vals) THEN Panicked
        ELSE IF rest = <<>>
        THEN Leaf(RemoveAt(node.keys, i), RemoveAt(node.vals, i))
        ELSE [node EXCEPT !.vals[i] = rest]

\* The separator moves down to the child, the sibling's outermost key takes
\* its place, and the child gets what the sibling had for that key.
\* Faulty variant: the key itself moves down and the separator stays.
BorrowKeepsSeparator(parent, i, l) ==
    LET child == parent.kids[i]
        keys  == <<Last(l.keys)>> \o child.keys
    IN  IF l.height = 0 /\ l.vals = <<>> THEN Panicked
        ELSE Inner(parent.height, parent.keys,
               [parent.kids EXCEPT
                  ![i - 1] = IF l.height = 0 THEN Leaf(Front(l.keys), Front(l.vals))
                             ELSE Inner(l.height, Front(l.keys), Front(l.kids)),
                  ![i] = IF l.height = 0 THEN Leaf(keys, <<Last(l.vals)>> \o child.vals)
                         ELSE Inner(l.height, keys, <<Last(l.kids)>> \o child.kids)])
BorrowFromLeft(parent, i, l) ==
    LET child == parent.kids[i]
        keys  == <<parent.keys[i - 1]>> \o child.keys
    IN  IF l.height = 0 /\ l.vals = <<>> THEN Panicked
        ELSE Inner(parent.height, [parent.keys EXCEPT ![i - 1] = Last(l.keys)],
               [parent.kids EXCEPT
                  ![i - 1] = IF l.height = 0 THEN Leaf(Front(l.keys), Front(l.vals))
                             ELSE Inner(l.height, Front(l.keys), Front(l.kids)),
                  ![i] = IF l.height = 0 THEN Leaf(keys, <<Last(l.vals)>> \o child.vals)
                         ELSE Inner(l.height, keys, <<Last(l.kids)>> \o child.kids)])

BorrowFromRight(parent, i, r) ==
    LET child == parent.kids[i]
        keys  == Append(child.keys, parent.keys[i])
    IN  IF r.height = 0 /\ r.vals = <<>> THEN Panicked
        ELSE Inner(parent.height, [parent.keys EXCEPT ![i] = Head(r.keys)],
               [parent.kids EXCEPT
                  ![i] = IF r.height = 0 THEN Leaf(keys, Append(child.vals, Head(r.vals)))
                         ELSE Inner(r.height, keys, Append(child.kids, Head(r.kids))),
                  ![i + 1] = IF r.height = 0 THEN Leaf(Tail(r.keys), Tail(r.vals))
                             ELSE Inner(r.height, Tail(r.keys), Tail(r.kids))])

\* Two neighbours as one node; the separator joins the keys between them, and
\* in a leaf it comes without values.
Joined(l, k, r) ==
    LET keys == Append(l.keys, k) \o r.keys
    IN  IF l.height = 0 THEN Leaf(keys, l.vals \o r.vals) ELSE Inner(l.height, keys, l.kids \o r.kids)

\* Children i and i + 1 become one.
Merge(parent, i) ==
    Inner(parent.height, RemoveAt(parent.keys, i),
        [RemoveAt(parent.kids, i + 1) EXCEPT
           ![i] = Joined(parent.kids[i], parent.keys[i], parent.kids[i + 1])])

HandleUnderflow(parent, i) ==
    IF i > 1 /\ Len(parent.kids[i - 1].keys) > MinKeys
    THEN BorrowFromLeft(parent, i, parent.kids[i - 1])
    ELSE IF i <= Len(parent.keys) /\ Len(parent.kids[i + 1].keys) > MinKeys
    THEN BorrowFromRight(parent, i, parent.kids[i + 1])
    ELSE Merge(parent, IF i > 1 THEN i - 1 ELSE i)

RecursiveDelete(k, v) ==
    LET delete[h \in Nat] ==
          [node \in Nodes[h] |->
             LET i     == SearchStrings(node.keys, k)
                 child == delete[h - 1][node.kids[i]]
                 new   == [node EXCEPT !.kids[i] = child]
             IN  IF h = 0 THEN DeleteInLeaf(node, k, v)
                 ELSE IF child = Panicked THEN Panicked
                 ELSE IF child = node.kids[i] THEN node
                 ELSE IF Len(child.keys) < MinKeys THEN HandleUnderflow(new, i)
                 ELSE new]
    IN  delete

Delete(root, k, v) ==
    LET new == RecursiveDelete(k, v)[root.height][root]
    IN  IF new.height > 0 /\ new.keys = <<>> THEN new.kids[1] ELSE new

-----------------------------------------------------------------------------
(* The nodes of a tree *)

\* A node and those below it.
NodesOf[h \in Nat] ==
    [node \in Nodes[h] |->
        IF h = 0 THEN {node}
        ELSE {node} \cup UNION {NodesOf[h - 1][node.kids[i]] : i \in DOMAIN node.kids}]

NodesIn(root) == NodesOf[root.height][root]
KeysIn(root) == UNION {Range(n.keys) : n \in NodesIn(root)}
SeparatorsOf(root) == UNION {Range(n.keys) : n \in {m \in NodesIn(root) : m.height > 0}}
=============================================================================

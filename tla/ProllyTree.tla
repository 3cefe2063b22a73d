----------------------------- MODULE ProllyTree -----------------------------
(***************************************************************************)
(* A tree of ProllyNodes under any sequence of Put and Delete.             *)
(***************************************************************************)
EXTENDS ProllyNodes

CONSTANT
    Workloads    \* bound: the pairs put beforehand, in this order; and for the
                 \* calls that follow the values of each key, the page CIDs kept
                 \* under one key and the number of Delete calls

ASSUME WorkloadAssumption ==
    \A w \in Workloads :
        /\ w.load \in Seq(Keys \X Values)
        /\ DOMAIN w.values \subseteq Keys /\ UNION Range(w.values) \subseteq Values
        /\ w.copies \in Nat /\ w.deletes \in Nat

VARIABLES
    tree,        \* root node
    content,     \* history: the pairs the calls so far describe
    separators,  \* history: keys that have been in an internal node
    deletes,     \* Delete calls so far
    loaded,      \* how many pairs of the workload were put beforehand
    workload     \* which of Workloads bounds this behaviour

vars == <<tree, content, separators, deletes, loaded, workload>>

-----------------------------------------------------------------------------
(* The calls an index makes: UpdateIndexesOnInsert, UpdateIndexesOnDelete *)

Init ==
    /\ workload \in Workloads
    /\ tree = NewProllyTree
    /\ content = [k \in Keys |-> <<>>]
    /\ separators = {}
    /\ deletes = 0
    /\ loaded = 0

\* The caller keeps the new root, or the old one if the call panicked.
Keep(k, new, described) ==
    IF new = Panicked
    THEN UNCHANGED <<tree, content, separators>>
    ELSE /\ tree' = new
         /\ content' = [content EXCEPT ![k] = described]
         /\ separators' = separators \cup SeparatorsOf(new)

Load ==
    /\ loaded < Len(workload.load)
    /\ \E k \in Keys, v \in Values :
          /\ <<k, v>> = workload.load[loaded + 1]
          /\ Keep(k, Put(tree, k, v), Append(content[k], v))
    /\ loaded' = loaded + 1
    /\ UNCHANGED <<deletes, workload>>

PutKey(k, v) ==
    /\ loaded = Len(workload.load)
    /\ Len(content[k]) < workload.copies
    /\ Keep(k, Put(tree, k, v), Append(content[k], v))
    /\ UNCHANGED <<deletes, loaded, workload>>

DeleteKey(k, v) ==
    /\ loaded = Len(workload.load)
    /\ deletes < workload.deletes
    /\ Keep(k, Delete(tree, k, v), Without(content[k], v))
    /\ deletes' = deletes + 1
    /\ UNCHANGED <<loaded, workload>>

Next ==
    \/ Load
    \/ \E k \in DOMAIN workload.values : \E v \in workload.values[k] :
          PutKey(k, v) \/ DeleteKey(k, v)

Spec == Init /\ [][Next]_vars

-----------------------------------------------------------------------------
(* Properties *)

\* Every node has the parts of its kind, an internal one a child around each
\* key, and all leaves are at one depth, after any sequence of Put and Delete.
TypeOK ==
    /\ tree \in Nodes[tree.height]
    /\ content \in [Keys -> Seq(Values)]
    /\ separators \subseteq Keys
    /\ workload \in Workloads /\ deletes \in 0..workload.deletes
    /\ loaded \in 0..Len(workload.load)

\* Splits, borrows, merges and the collapse of the root keep the tree a
\* B-tree: every node but the root at least MinKeys full, none over MaxKeys,
\* and a key or more in a root that has children.
Balanced ==
    /\ \A n \in NodesIn(tree) : Len(n.keys) <= MaxKeys /\ (n # tree => Len(n.keys) >= MinKeys)
    /\ tree.height > 0 => tree.keys # <<>>

\* The keys of the whole tree never get out of order, so that the binary
\* search of Get, Put and Delete has the sorted slice it needs in every node.
KeysInOrder ==
    \A n \in NodesIn(tree) :
        /\ \A i, j \in DOMAIN n.keys : i < j => n.keys[i] <= n.keys[j]
        /\ \A i \in DOMAIN n.kids : \A k \in KeysIn(n.kids[i]) :
              /\ i > 1 => n.keys[i - 1] <= k
              /\ i <= Len(n.keys) => k <= n.keys[i]

\* prolly_trees.go, any sequence of Put and Delete: every node has the parts of
\* its kind, the tree is balanced, and its keys are in order.
SearchTree == TypeOK /\ Balanced /\ KeysInOrder

\* What splits lose is limited to the keys promoted to separators: as long as
\* keys are only inserted, every other key has exactly the values put; and a
\* tree that was never split is the multimap its calls describe, Delete included.
OnlySeparatorsLost ==
    deletes = 0 \/ separators = {} =>
        \A k \in Keys \ separators : Get(tree, k) = content[k]

=============================================================================

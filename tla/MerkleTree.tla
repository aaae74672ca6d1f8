------------------------------ MODULE MerkleTree ------------------------------
(***************************************************************************)
(* The fixed-depth Merkle tree of zkapi-core/src/merkle.rs, and the path   *)
(* folding of MerkleUpdateLib.sol.  A tree is the record of the fields     *)
(* that the code reads: next_index and the node cache, a partial map per   *)
(* level.  The vector `leaves` is written and never read.                  *)
(*                                                                         *)
(* The Poseidon node hash is injective and never equals a leaf, so a hash  *)
(* is the pair it hashes.                                                  *)
(***************************************************************************)
EXTENDS Naturals

CONSTANTS
    Depth,      \* MERKLE_DEPTH
    Zero        \* the zero leaf

Levels == 0 .. Depth

\* The nodes of a level, and of a subtree of each height: 2 ^ height leaves.
WidthOfHeight[height \in Levels] ==
    IF height = 0 THEN 1 ELSE 2 * WidthOfHeight[height - 1]
Width(level) == WidthOfHeight[Depth - level]

\* HashMap::insert.
Insert(map, key, value) ==
    [k \in DOMAIN map \cup {key} |-> IF k = key THEN value ELSE map[k]]

Node(left, right) == <<left, right>>

\* compute_zero_hashes: the hash of an empty subtree of each height.
ZeroHashes[level \in Levels] ==
    IF level = 0 THEN Zero ELSE Node(ZeroHashes[level - 1], ZeroHashes[level - 1])

\* The ancestor of leaf `index` at a level: the code halves the index once
\* per level.
Ancestor(index, level) ==
    LET ancestor[l \in Levels] ==
          IF l = 0 THEN index ELSE ancestor[l - 1] \div 2
    IN  ancestor[level]

IsLeft(index, level) == Ancestor(index, level) % 2 = 0
SiblingIndex(index, level) ==
    IF IsLeft(index, level) THEN Ancestor(index, level) + 1
                            ELSE Ancestor(index, level) - 1

\* Mutant: the sibling is always hashed on the right.
FoldPathUnordered(index, leaf, siblings) ==
    LET current[level \in Levels] ==
          IF level = 0 THEN leaf ELSE Node(current[level - 1], siblings[level - 1])
    IN  current

\* The hashes along the path of a leaf, given its siblings bottom to top.
FoldPath(index, leaf, siblings) ==
    LET current[level \in Levels] ==
          IF level = 0 THEN leaf
          ELSE IF IsLeft(index, level - 1)
                 THEN Node(current[level - 1], siblings[level - 1])
                 ELSE Node(siblings[level - 1], current[level - 1])
    IN  current

ComputeRoot(index, leaf, siblings) == FoldPath(index, leaf, siblings)[Depth]

NewTree == [next_index |-> 0, nodes |-> [level \in Levels |-> << >>]]

\* A node that was never written stands for an empty subtree.
GetNode(tree, level, index) ==
    IF index \in DOMAIN tree.nodes[level]
      THEN tree.nodes[level][index] ELSE ZeroHashes[level]

Root(tree) == GetNode(tree, Depth, 0)
GetLeaf(tree, index) == GetNode(tree, 0, index)

\* get_siblings: sibling_idx = idx ^ 1 at every level below the root.
GetSiblings(tree, index) ==
    [level \in 0 .. Depth - 1 |->
       GetNode(tree, level, SiblingIndex(index, level))]

\* set_leaf: write the leaf, then recompute its ancestors from the cache.
SetLeaf(tree, index, value) ==
    LET path == FoldPath(index, value, GetSiblings(tree, index)) IN
    [tree EXCEPT !.nodes =
       [level \in Levels |-> Insert(@[level], Ancestor(index, level), path[level])]]

\* The definition the tree is checked against: the complete binary tree over
\* a function from all indices to leaves, level by level, and its root.
Layers(leaves) ==
    LET layer[level \in Levels] ==
          IF level = 0 THEN leaves
          ELSE [i \in 0 .. Width(level) - 1 |->
                  Node(layer[level - 1][2 * i], layer[level - 1][2 * i + 1])]
    IN  layer

RootOf(leaves) == Layers(leaves)[Depth][0]
===============================================================================

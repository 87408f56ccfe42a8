----------------------------- MODULE MerkleTree -----------------------------
(***************************************************************************)
(* The Merkle tree of the Rust side, doxa-trees: the leaves and every node *)
(* above an existing leaf, kept as one vector per level, missing nodes     *)
(* standing for the all-zero subtree.  Positions and levels are counted    *)
(* from 0 as in the code; layers[k] below is the code's layers[k - 1].     *)
(***************************************************************************)
EXTENDS Naturals, Sequences, SequencesExt

CONSTANTS Depth, Zero, LeafVals, BatchSizes

ASSUME DepthAssumption == Depth \in Nat \ {0} /\ BatchSizes \subseteq Nat

VARIABLES leaves, layers

treeVars == <<leaves, layers>>

default_siblings[i \in 0 .. Depth - 1] ==
    IF i = 0 THEN Zero ELSE <<default_siblings[i - 1], default_siblings[i - 1]>>

hash_2_to_1_swapped(a, b, swapped) == IF swapped THEN <<b, a>> ELSE <<a, b>>

root ==
    IF layers[Depth] = <<>>
    THEN hash_2_to_1_swapped(default_siblings[Depth - 1], default_siblings[Depth - 1], FALSE)
    ELSE layers[Depth][1]

VC == INSTANCE VectorCommitment

-----------------------------------------------------------------------------
(* Paths *)

\* The stored nodes of a level, leaves at level 0.
Nodes(lv, ls, level) == IF level = 0 THEN lv ELSE ls[level]

IsRight(index, level) == (index \div 2^level) % 2 = 1

\* The sibling of the level's node above leaf index.
Sibling(nodes, level, index) ==
    LET pos == index \div 2^level
        sibling == IF IsRight(index, level) THEN pos - 1 ELSE pos + 1
    IN  IF sibling < Len(nodes) THEN nodes[sibling + 1] ELSE default_siblings[level]

\* Mutant: a missing node stands for a zero leaf at every level.
merkle_path_ZeroNodes(index) ==
    [k \in 1 .. Depth |-> LET s == Sibling(Nodes(leaves, layers, k - 1), k - 1, index)
                          IN  IF s = default_siblings[k - 1] THEN Zero ELSE s]

merkle_path(index) == [k \in 1 .. Depth |-> Sibling(Nodes(leaves, layers, k - 1), k - 1, index)]

\* MerkleProof::verify: the node that leaf hashes up to.
RootFrom(leaf, index, siblings) ==
    FoldLeft(LAMBDA node, k : hash_2_to_1_swapped(node, siblings[k], IsRight(index, k - 1)),
             leaf, [k \in 1 .. Depth |-> k])

\* The walk of updateSubpoolRoot and verifyBatchLeaf in the contract.
ContractWalk(leaf, index, siblings) ==
    FoldLeft(LAMBDA node, k : IF (index \div 2^(k - 1)) % 2 = 0
                              THEN <<node, siblings[k]>> ELSE <<siblings[k], node>>,
             leaf, [k \in 1 .. Depth |-> k])

-----------------------------------------------------------------------------
(* Updates *)

\* Overwrite position pos of a layer, or push.
Put(layer, pos, h) == IF pos < Len(layer) THEN [layer EXCEPT ![pos + 1] = h] ELSE Append(layer, h)

\* Rehash the nodes above leaf index, bottom up.
update_merkle_path(lv, ls, index) ==
    FoldLeft(LAMBDA acc, k :
                LET h == hash_2_to_1_swapped(acc.hash, Sibling(Nodes(lv, acc.layers, k - 1), k - 1, index),
                                             IsRight(index, k - 1))
                IN  [hash |-> h, layers |-> [acc.layers EXCEPT ![k] = Put(@, index \div 2^k, h)]],
             [hash |-> lv[index + 1], layers |-> ls], [k \in 1 .. Depth |-> k]).layers

\* Mutant: the end of the range is rounded down at every level.
update_consecutive_paths_Floor(lv, ls, start, size) ==
    FoldLeft(LAMBDA acc, k :
                LET nodes == Nodes(lv, acc, k - 1)
                    end == (start + size) \div 2^(k - 1)
                IN  [acc EXCEPT ![k] = FoldLeft(
                        LAMBDA layer, pos :
                            Put(layer, pos \div 2, hash_2_to_1_swapped(nodes[pos + 1],
                                    Sibling(nodes, k - 1, pos * 2^(k - 1)), pos % 2 = 1)),
                        @, [j \in 1 .. end - start \div 2^(k - 1) |-> start \div 2^(k - 1) + j - 1])],
             ls, [k \in 1 .. Depth |-> k])

\* Rehash the nodes above leaves start .. start + size - 1, level by level.
update_consecutive_paths(lv, ls, start, size) ==
    FoldLeft(LAMBDA acc, k :
                LET nodes == Nodes(lv, acc, k - 1)
                    end == (start + size + 2^(k - 1) - 1) \div 2^(k - 1)
                IN  [acc EXCEPT ![k] = FoldLeft(
                        LAMBDA layer, pos :
                            Put(layer, pos \div 2, hash_2_to_1_swapped(nodes[pos + 1],
                                    Sibling(nodes, k - 1, pos * 2^(k - 1)), pos % 2 = 1)),
                        @, [j \in 1 .. end - start \div 2^(k - 1) |-> start \div 2^(k - 1) + j - 1])],
             ls, [k \in 1 .. Depth |-> k])

-----------------------------------------------------------------------------
(* Operations of MerkleTree *)

Init == leaves = <<>> /\ layers = [k \in 1 .. Depth |-> <<>>]

Full == Len(leaves) >= 2^Depth

insert(leaf) ==
    /\ ~Full
    /\ leaves' = Append(leaves, leaf)
    /\ layers' = update_merkle_path(leaves', layers, Len(leaves))

update_leaf(index, leaf) ==
    /\ index < Len(leaves)
    /\ leaves' = [leaves EXCEPT ![index + 1] = leaf]
    /\ layers' = update_merkle_path(leaves', layers, index)

\* An overlong batch is refused only after the leaves were extended: the error leaves the
\* tree with more leaves than it has room for, and none of them hashed.
insert_batch(batch) ==
    LET size == Len(batch) IN
    /\ IF size = 0 THEN leaves = <<>> ELSE Len(leaves) % size = 0
    /\ ~Full
    /\ leaves' = leaves \o batch
    /\ layers' = IF Len(leaves) + size > 2^Depth THEN layers
                 ELSE update_consecutive_paths(leaves', layers, Len(leaves), size)

Next ==
    \/ \E l \in LeafVals : insert(l)
    \/ \E n \in BatchSizes : \E batch \in [1 .. n -> LeafVals] : insert_batch(batch)
    \/ \E index \in 0 .. Len(leaves) - 1, l \in LeafVals : update_leaf(index, l)

Spec == Init /\ [][Next]_treeVars

-----------------------------------------------------------------------------
(* Properties *)

\* A batch was refused after its leaves were taken in.  No later call removes them.
Overlong == Len(leaves) > 2^Depth

\* However inserts, batches and updates are mixed, the incrementally kept root is the
\* root of the padded leaf vector, the same as the contract computes (IMTLib), until a
\* batch that does not fit is refused: that leaves the root as it was, though not the leaves
\* (insert_batch).
RootIsVectorRoot == VC!Init /\ [][VC!Next \/ (Overlong' /\ (Overlong \/ UNCHANGED root))]_<<leaves, root>>

\* A path taken from the tree proves the leaf at its index and no other value, also in
\* the contract and also for an index beyond the tree, of which only the low bits
\* count; walking another leaf up the same path gives the root of the tree with that
\* leaf in place, which is how updateSubpoolRoot moves the config root.  Only a tree that
\* refused an overlong batch is excepted.
PathsBindAndUpdate ==
    ~Overlong => \A index \in 0 .. 2^Depth - 1, l \in LeafVals \cup {Zero} :
        LET path == merkle_path(index)
            up == RootFrom(l, index, path)
        IN  /\ up = VC!RootOf(VC!WithLeaf(leaves, index, l))
            /\ (up = root) <=> (l = VC!LeafAt(leaves, index))
            /\ ContractWalk(l, index, path) = up
            /\ ContractWalk(l, index + 2^Depth, path) = up
=============================================================================

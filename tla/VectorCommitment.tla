-------------------------- MODULE VectorCommitment --------------------------
(***************************************************************************)
(* What a Merkle tree of fixed depth promises its users: a vector of       *)
(* leaves that grows on the right, and a root that is a function of the    *)
(* vector alone.  MerkleTree (Rust) and IMTLib (Solidity) each implement   *)
(* this specification, so after the same appends they agree on the root.   *)
(***************************************************************************)
EXTENDS Naturals, Sequences

CONSTANTS
    Depth,          \* depth of the tree
    Zero,           \* H::ZERO, the zero leaf
    LeafVals,       \* leaves that may be inserted
    BatchSizes      \* lengths of the batches that may be inserted at once

VARIABLES leaves, root

Capacity == 2^Depth

\* Poseidon two-to-one compression, taken to be collision free.
Compress(left, right) == <<left, right>>

LeafAt(s, i) == IF i < Len(s) THEN s[i + 1] ELSE Zero

\* The root over the vector s padded with zero leaves, by definition.
RootOf(s) ==
    LET node[l \in 0 .. Depth, i \in 0 .. Capacity - 1] ==
            IF l = 0 THEN LeafAt(s, i)
            ELSE Compress(node[l - 1, 2 * i], node[l - 1, 2 * i + 1])
    IN  node[Depth, 0]

\* s with leaf l at index i, padded up to i.
WithLeaf(s, i, l) ==
    [k \in 1 .. (IF i < Len(s) THEN Len(s) ELSE i + 1) |-> IF k = i + 1 THEN l ELSE LeafAt(s, k - 1)]

Init == leaves = <<>> /\ root = RootOf(<<>>)

AppendAll(s) ==
    /\ Len(leaves) + Len(s) <= Capacity
    /\ leaves' = leaves \o s
    /\ root' = RootOf(leaves')

Replace(i, l) ==
    /\ leaves' = WithLeaf(leaves, i, l)
    /\ root' = RootOf(leaves')

Next ==
    \/ \E l \in LeafVals : AppendAll(<<l>>)
    \/ \E n \in BatchSizes : \E s \in [1 .. n -> LeafVals] : AppendAll(s)
    \/ \E i \in 0 .. Len(leaves) - 1, l \in LeafVals : Replace(i, l)

Spec == Init /\ [][Next]_<<leaves, root>>

\* An append-only tree: no leaf is replaced.
AppendSpec == Init /\ [][\E l \in LeafVals : AppendAll(<<l>>)]_<<leaves, root>>
=============================================================================

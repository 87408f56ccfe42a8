------------------------------- MODULE IMTLib -------------------------------
(***************************************************************************)
(* The on-chain incremental Merkle tree, doxa-solidity/src/IMTLib.sol: one *)
(* cached left sibling per level, the leaves themselves never re-hashed.   *)
(***************************************************************************)
EXTENDS Naturals, Sequences, SequencesExt

CONSTANTS Depth, Zero, LeafVals, BatchSizes

VARIABLES
    leaves,             \* leaves[0 .. leafCount-1]
    filledSubtrees,     \* level -> cached left sibling
    currentRoot,
    confirmedRoots

imtVars == <<leaves, filledSubtrees, currentRoot, confirmedRoots>>
VC == INSTANCE VectorCommitment WITH root <- currentRoot

LeafCount == Len(leaves)
zeros[i \in 0 .. Depth] == IF i = 0 THEN Zero ELSE VC!Compress(zeros[i - 1], zeros[i - 1])

Init ==
    /\ leaves = <<>>
    /\ filledSubtrees = [i \in 0 .. Depth - 1 |-> zeros[i]]
    /\ currentRoot = zeros[Depth]
    /\ confirmedRoots = {currentRoot}

IsLeft(i) == (LeafCount \div 2^i) % 2 = 0

\* Mutant: the sibling is cached when the node is a right child.
Climb_CachesRight(acc, i) ==
    IF IsLeft(i) THEN [node |-> VC!Compress(acc.node, zeros[i]), filled |-> acc.filled]
    ELSE [node |-> VC!Compress(acc.filled[i], acc.node), filled |-> [acc.filled EXCEPT ![i] = acc.node]]

\* One turn of appendLeaf's loop, at level i.
Climb(acc, i) ==
    IF IsLeft(i)
    THEN [node |-> VC!Compress(acc.node, zeros[i]), filled |-> [acc.filled EXCEPT ![i] = acc.node]]
    ELSE [node |-> VC!Compress(acc.filled[i], acc.node), filled |-> acc.filled]

\* Mutant: one leaf too many.
HasRoom_OneMore == LeafCount <= 2^Depth

HasRoom == LeafCount < 2^Depth

AppendLeaf(leaf) ==
    LET top == FoldLeft(Climb, [node |-> leaf, filled |-> filledSubtrees],
                        [k \in 1 .. Depth |-> k - 1])
    IN  /\ HasRoom
        /\ leaves' = Append(leaves, leaf)
        /\ filledSubtrees' = top.filled
        /\ currentRoot' = top.node
        /\ confirmedRoots' = confirmedRoots \cup {top.node}

\* What the contract relies on: appends only, each giving the root of the vector.
Promise == VC!AppendSpec
=============================================================================

------------------------------- MODULE Trees --------------------------------
(***************************************************************************)
(* The two Merkle trees side by side.  As state tree, the contract appends *)
(* batch roots to its IMT and the state-sync service inserts them, in      *)
(* order and later, into its Rust tree.  As any other tree of the          *)
(* repository (config tree, batch subtree, account tree) the Rust tree is  *)
(* used alone, with inserts, batches and updates mixed.                    *)
(***************************************************************************)
EXTENDS MerkleTree, FiniteSets

VARIABLES mirrors, chainLeaves, filledSubtrees, currentRoot, confirmedRoots

imt == <<chainLeaves, filledSubtrees, currentRoot, confirmedRoots>>

\* The contract never appends a zero root: a batch root is a hash.
IMT == INSTANCE IMTLib WITH leaves <- chainLeaves, LeafVals <- LeafVals \ {Zero}

TreesInit == Init /\ IMT!Init /\ mirrors \in BOOLEAN

\* proveTransactionBatch, proveBridgeTxBatch: a confirmed batch root.
OnChain == \E l \in LeafVals \ {Zero} : mirrors /\ IMT!AppendLeaf(l) /\ UNCHANGED <<treeVars, mirrors>>

\* Mutant: the service inserts the newest root it sees, not the next one.
insert_state_tree_leaf_Newest ==
    /\ mirrors
    /\ Len(leaves) < Len(chainLeaves)
    /\ insert(chainLeaves[Len(chainLeaves)])
    /\ UNCHANGED <<imt, mirrors>>

insert_state_tree_leaf ==
    /\ mirrors
    /\ Len(leaves) < Len(chainLeaves)
    /\ insert(chainLeaves[Len(leaves) + 1])
    /\ UNCHANGED <<imt, mirrors>>

\* Bound: a behaviour ends where a batch was refused with its leaves in place; an update of
\* such a leaf would fail the assertion of update_merkle_path, or push nodes out of order.
Alone == ~mirrors /\ ~Overlong /\ Next /\ UNCHANGED <<imt, mirrors>>

TreesNext == OnChain \/ insert_state_tree_leaf \/ Alone

TreesSpec == TreesInit /\ [][TreesNext]_<<treeVars, imt, mirrors>>

-----------------------------------------------------------------------------

\* appendLeaf computes, from the cached siblings alone, the root of the whole padded
\* vector, and takes no leaf once the tree is full.
AppendLeafIsVector == IMT!Promise

\* Every append confirms a root never confirmed before: a root names one state of the
\* tree, so accepting any confirmed root in a submission accepts a past state and
\* nothing else.
RootsNeverRepeat == Cardinality(confirmedRoots) = Len(chainLeaves) + 1

\* The root the service answers with is one the contract confirmed, whatever the lag
\* and although the two trees are kept by different algorithms; with no lag it is the
\* contract's current root.
MirrorRootConfirmed ==
    mirrors => /\ root \in confirmedRoots
               /\ Len(leaves) = Len(chainLeaves) => root = currentRoot
=============================================================================

------------------------------ MODULE AssetTree ------------------------------
(***************************************************************************)
(* The per-asset balances of an account (doxa-client/src/account.rs): a    *)
(* Merkle tree of (asset, amount) leaves mirrored by a map from asset to   *)
(* leaf index and amount.  The tree is its leaf vector: MerkleTree shows   *)
(* that the root is a function of it, so the root is the vector padded     *)
(* with default leaves.                                                    *)
(***************************************************************************)
EXTENDS Naturals, Sequences, SequencesExt

CONSTANTS
    Assets,         \* asset ids, the default 0 excluded
    AstDepth        \* ACC_AST_DEPTH

ASSUME AssetAssumption == Assets \subseteq Nat \ {0}
ASSUME AstDepthAssumption == AstDepth \in Nat \ {0}
ASSUME AstWidthAssumption == 2^AstDepth \in Nat /\ 2^AstDepth > 1

DefaultAsset == 0

\* AccountStateTreeLeaf; AST_DEFAULT_LEAF is the hash of no (asset, amount) pair.
Leaf(a, amount) == <<a, amount>>
DefaultLeaf == <<>>

Tracked(t) == DOMAIN t.assets
Room(t) == Len(t.leaves) < 2^AstDepth

\* _insert_asset: a leaf at the next index.
_insert_asset(t, a, amount) ==
    [leaves |-> Append(t.leaves, Leaf(a, amount)),
     assets |-> [x \in Tracked(t) \cup {a} |->
                    IF x = a THEN [index |-> Len(t.leaves), amount |-> amount] ELSE t.assets[x]]]

\* Mutant: the leaf before the asset's own is rewritten.
update_asset_OffByOne(t, a, amount) ==
    [leaves |-> [t.leaves EXCEPT ![t.assets[a].index] = Leaf(a, amount)],
     assets |-> [t.assets EXCEPT ![a].amount = amount]]

\* update_asset: the asset's leaf is rewritten in place.
update_asset(t, a, amount) ==
    [leaves |-> [t.leaves EXCEPT ![t.assets[a].index + 1] = Leaf(a, amount)],
     assets |-> [t.assets EXCEPT ![a].amount = amount]]

\* AccountStateTree::new: the default asset takes leaf 0.
NewAst == _insert_asset([leaves |-> <<>>, assets |-> <<>>], DefaultAsset, 0)

\* new_from_asset_map: the entries, in leaf order, are inserted into a new tree; ok is
\* FALSE if the indices have a gap or an insert_asset is refused.
new_from_asset_map(map) ==
    LET entries == SetToSortSeq(DOMAIN map, LAMBDA a, b : map[a].index < map[b].index)
        contiguous == \A k \in DOMAIN entries : map[entries[k]].index = k - 1
        step(acc, a) == IF acc.ok /\ a # DefaultAsset /\ a \notin Tracked(acc.ast) /\ Room(acc.ast)
                        THEN [ok |-> TRUE, ast |-> _insert_asset(acc.ast, a, map[a].amount)]
                        ELSE [acc EXCEPT !.ok = FALSE]
    IN  IF contiguous THEN FoldLeft(step, [ok |-> TRUE, ast |-> NewAst], entries)
        ELSE [ok |-> FALSE, ast |-> NewAst]

\* insert_or_update_asset returns unless its unwrap panics: on the default asset, which
\* update_asset refuses, and on a full tree.
CanInsertOrUpdate(t, a) == a # DefaultAsset /\ (a \in Tracked(t) \/ Room(t))
insert_or_update_asset(t, a, amount) ==
    IF a \in Tracked(t) THEN update_asset(t, a, amount) ELSE _insert_asset(t, a, amount)

\* amount_for(a), or index next_index() and amount 0 where the callers default it.
next_index(t) == Len(t.leaves)
AmountOrNext(t, a) ==
    IF a \in Tracked(t) THEN [index |-> t.assets[a].index, amount |-> t.assets[a].amount, exists |-> TRUE]
    ELSE [index |-> next_index(t), amount |-> 0, exists |-> FALSE]

\* root(), as the padded leaf vector.
AstRoot(t) == [i \in 0..(2^AstDepth - 1) |-> IF i < Len(t.leaves) THEN t.leaves[i + 1] ELSE DefaultLeaf]
=============================================================================

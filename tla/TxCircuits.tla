------------------------------ MODULE TxCircuits ------------------------------
(***************************************************************************)
(* What a client's transactions commit to and what the private-            *)
(* transaction circuit asserts of a witness (doxa-client/src: account.rs,  *)
(* note.rs, plonky2_gadgets/priv_tx, merkle.rs, u256.rs, signature.rs).    *)
(* A hash is the tuple it hashes under a tag; a circuit is the conjunction *)
(* of its assertions over a record of witness values.  Merkle paths into   *)
(* the append-only state tree name its root by the number of leaves; a     *)
(* pool-config root is named by the approval key it commits the subpool to.*)
(***************************************************************************)
EXTENDS AssetTree

CONSTANTS
    NoteBatch,      \* NOTE_BATCH
    Modulus,        \* 2^256
    None,           \* Option::None
    DefaultPk       \* DEFAULT_SPEND_AUTH_PK and DEFAULT_ACC_COMM_CONSUME_PK_PLACEHOLDER

ASSUME NoteBatchAssumption == NoteBatch \in Nat \ {0}
ASSUME ModulusAssumption == Modulus \in Nat \ {0}

Slots == 1..NoteBatch

-----------------------------------------------------------------------------
(* Accounts, notes and the hashes that stand for them *)

\* ConsumeAuth: delegated to the subpool operator, or the owner's own key.
DelegatedConsume == [config |-> FALSE, pk |-> None]
ConsumeKey(pk) == [config |-> TRUE, pk |-> pk]

\* StandardAccount::new_with: the state before activation.
NewAccount(id, subpool) ==
    [id |-> id, subpool |-> subpool, nonce |-> 0, spend_pk |-> None,
     consume |-> DelegatedConsume, ast |-> NewAst]

pk_or_default(pk) == IF pk = None THEN DefaultPk ELSE pk

\* AccountAddress::from_acc; the public identifier is a hash of the private one.
Address(acc) == <<acc.subpool, acc.id>>

\* StandardAccount::commitment and derive_account_commitment.
Commitment(acc) ==
    <<"AC", acc.id, acc.subpool, AstRoot(acc.ast), acc.nonce, pk_or_default(acc.spend_pk),
      acc.consume.config, pk_or_default(acc.consume.pk)>>

\* nullifier and derive_account_nullifier; the nullifier key is a hash of the private
\* identifier.
NullifierOf(commitment, id) == <<"AN", commitment, id>>
Nullifier(acc) == NullifierOf(Commitment(acc), acc.id)

clone_with_incremented_nonce(acc) == [acc EXCEPT !.nonce = @ + 1]

\* StandardNote (its memo is not committed to) and its commitment and nullifier.
Note(id, amt, asset, recipient, sender) ==
    [id |-> id, amt |-> amt, asset |-> asset, recipient |-> recipient, sender |-> sender]
NoteCommitment(n) == <<"NC", n.id, n.amt, n.asset, n.recipient, n.sender>>

NoteNullifier(n, pos, id) == <<"NN", NoteCommitment(n), pos, id>>

\* The note a rejected note returns as.
Returned(n) == [n EXCEPT !.recipient = n.sender]

\* double_hash of a dummy seed: the nullifier or commitment of an unused slot.
DummyHash(seed) == <<"H2", seed>>
ZeroSeed == 0

\* derive_priv_tx_hash and derive_tx_hash.
PrivTxHash(an, ac, nns, ncs) == <<"TX", an, ac, nns, ncs>>

\* u256_addition_chain wraps.
U256Sum(x, amounts) == (x + SumFunction(amounts)) % Modulus

\* A signature verifies under the key and for the message it was made with.
Signature(sk, msg) == [key |-> sk, msg |-> msg]
Verifies(sig, pk, msg) == sig # None /\ sig.key = pk /\ sig.msg = msg

\* A path shows the leaf it was taken for, in the tree it was taken from.
PathTo(tree, pos) == [leaf |-> tree[pos + 1], pos |-> pos, root |-> Len(tree)]
Opens(path, leaf, root) == path.leaf = leaf /\ path.root = root
DummyPath == [leaf |-> <<>>, pos |-> 0, root |-> 0]

-----------------------------------------------------------------------------
(* The private-transaction circuit, over a witness record w *)

\* TxKindFlags.
SPEND == [is_fresh_acc |-> FALSE, is_priv_tx |-> TRUE, not_fake_tx |-> TRUE]
FRESH_ACC == [is_fresh_acc |-> TRUE, is_priv_tx |-> FALSE, not_fake_tx |-> TRUE]
FAKE == [is_fresh_acc |-> FALSE, is_priv_tx |-> FALSE, not_fake_tx |-> FALSE]

\* assert_fresh_account.
FreshAccountDefaults(acc) ==
    /\ AstRoot(acc.ast) = AstRoot(NewAst)
    /\ acc.nonce = 0
    /\ pk_or_default(acc.spend_pk) = DefaultPk
    /\ ~acc.consume.config
    /\ pk_or_default(acc.consume.pk) = DefaultPk

\* assert_account_invariants.
AccountInvariants(accin, accout, flags) ==
    /\ accin.id = accout.id /\ accin.subpool = accout.subpool
    /\ accout.nonce = accin.nonce + 1
    /\ ~flags.is_priv_tx => AstRoot(accout.ast) = AstRoot(accin.ast)
    /\ flags.is_priv_tx => /\ pk_or_default(accout.spend_pk) = pk_or_default(accin.spend_pk)
                           /\ pk_or_default(accout.consume.pk) = pk_or_default(accin.consume.pk)
                           /\ accout.consume.config = accin.consume.config

\* assert_asset_amt_or_default_in_ast: the leaf, put at the path's index, gives the root.
AssetInAst(asset, amt, siblings, index, root, exists) ==
    /\ [siblings EXCEPT ![index] = IF exists THEN Leaf(asset, amt) ELSE DefaultLeaf] = root
    /\ ~exists => amt = 0

\* assert_ast_update: one leaf changes, under the same siblings.
AstUpdateRoots(asset, amt_in, amt_out, siblings, index, root_in, root_out, exists_in, exists_out) ==
    /\ AssetInAst(asset, amt_in, siblings, index, root_in, exists_in)
    /\ AssetInAst(asset, amt_out, siblings, index, root_out, exists_out)
AstUpdate(w) ==
    AstUpdateRoots(w.asset, w.accin_amt, w.accout_amt, AstRoot(w.accin.ast), w.ast_index,
                   AstRoot(w.accin.ast), AstRoot(w.accout.ast), w.exists_in, w.exists_out)

\* assert_reject_note_pairs.
RejectPairs(w) ==
    \A i \in Slots : w.slots[i].rjct =>
        LET n == w.slots[i].inote
            o == w.slots[i].onote
        IN  /\ w.slots[i].iactive
            /\ n.id = o.id /\ n.amt = o.amt /\ n.asset = o.asset
            /\ o.recipient = n.sender /\ o.sender = n.sender

\* assert_inotes_valid, after the connection of every note's asset.
InputNotesValid(w) ==
    \A i \in Slots :
        /\ w.slots[i].inote.asset = w.asset /\ w.slots[i].onote.asset = w.asset
        /\ w.slots[i].iactive => Opens(w.slots[i].ipath, NoteCommitment(w.slots[i].inote), w.state_root)
        /\ w.slots[i].inote.recipient = Address(w.accin)

\* assert_balance_invariant.
BalanceInvariant(w) ==
    U256Sum(w.accin_amt, [i \in Slots |-> IF w.slots[i].iactive THEN w.slots[i].inote.amt ELSE 0])
      = U256Sum(w.accout_amt, [i \in Slots |-> IF w.slots[i].oactive THEN w.slots[i].onote.amt ELSE 0])

\* What the circuit derives for each slot; the dummy where the slot is inactive.
EffectiveNullifiers(w) ==
    [i \in Slots |-> IF w.slots[i].iactive
                     THEN NoteNullifier(w.slots[i].inote, w.slots[i].ipos, w.accin.id)
                     ELSE DummyHash(w.slots[i].dinote)]
EffectiveCommitments(w) ==
    [i \in Slots |-> IF w.slots[i].oactive THEN NoteCommitment(w.slots[i].onote)
                     ELSE DummyHash(w.slots[i].donote)]
DerivedTxHash(w) ==
    PrivTxHash(Nullifier(w.accin), Commitment(w.accout), EffectiveNullifiers(w), EffectiveCommitments(w))

\* assert_subpool_full_proof: the approval key is the one the pool-config root commits to.
SubpoolFullProof(w) == w.flags.not_fake_tx => w.approval_key = w.config_root

\* Mutant: only the first slot is asked for the spend signature.
SpendRequired_FirstSlot(w) == w.slots[1].oactive /\ ~w.slots[1].rjct

\* assert_tx_signatures.
SpendRequired(w) == \E i \in Slots : w.slots[i].oactive /\ ~w.slots[i].rjct
ConsumeRequired(w) == (\E i \in Slots : w.slots[i].iactive) /\ ~SpendRequired(w) /\ w.accin.consume.config
TxSignatures(w) ==
    LET hash == DerivedTxHash(w)
    IN  /\ SpendRequired(w) => Verifies(w.spend_sig, pk_or_default(w.accin.spend_pk), hash)
        /\ ConsumeRequired(w) => Verifies(w.consume_sig, pk_or_default(w.accin.consume.pk), hash)
        /\ w.flags.not_fake_tx => Verifies(w.approval_sig, w.approval_key, hash)

\* Mutant: the membership of the input account is asserted of padding proofs too.
AccountInTree_Ungated(w) ==
    ~w.flags.is_fresh_acc => Opens(w.accin_path, Commitment(w.accin), w.state_root)

\* conditionally_assert_account_commitment_exists_in_act under check_act.
AccountInTree(w) ==
    ~w.flags.is_fresh_acc /\ w.flags.not_fake_tx => Opens(w.accin_path, Commitment(w.accin), w.state_root)

\* priv_tx_circuit: a proof exists iff every assertion holds of the witness.
PrivTxCircuit(w) ==
    /\ w.flags.is_fresh_acc => FreshAccountDefaults(w.accin)
    /\ AccountInvariants(w.accin, w.accout, w.flags)
    /\ AccountInTree(w)
    /\ AstUpdate(w)
    /\ RejectPairs(w)
    /\ InputNotesValid(w)
    /\ BalanceInvariant(w)
    /\ SubpoolFullProof(w)
    /\ TxSignatures(w)

\* The public inputs: the commitments registered are those of the dummy output notes.
PrivTxPublicInputs(w) ==
    [state_root |-> w.state_root, config_root |-> w.config_root, not_fake_tx |-> w.flags.not_fake_tx,
     accin_null |-> Nullifier(w.accin), accout_comm |-> Commitment(w.accout),
     inotes_null |-> EffectiveNullifiers(w),
     onotes_comm |-> [i \in Slots |-> DummyHash(w.slots[i].donote)]]
=============================================================================

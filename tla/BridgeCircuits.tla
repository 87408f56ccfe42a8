---------------------------- MODULE BridgeCircuits ----------------------------
(***************************************************************************)
(* What a deposit and a withdrawal commit to and what their circuits       *)
(* assert of a witness (doxa-client/src/plonky2_gadgets: deposit_tx,       *)
(* withdraw_tx; note.rs and account.rs for the native hashes).  As in      *)
(* TxCircuits, a hash is the tuple it hashes under a tag and a circuit is  *)
(* the conjunction of its assertions over a record of witness values.      *)
(***************************************************************************)
EXTENDS TxCircuits

-----------------------------------------------------------------------------
(* Commitments *)

\* DepositNote and its commitment; default_for_recipient is the note of padding.
DepositNote(id, recipient, amount, asset) ==
    [id |-> id, recipient |-> recipient, amount |-> amount, asset |-> asset]
DepositNoteCommitment(n) == <<"DC", n.id, n.recipient, n.amount, n.asset>>
default_for_recipient(recipient) == DepositNote(0, recipient, 0, DefaultAsset)

\* derive_deposit_tx_hash and derive_withdraw_tx_hash, native and in the circuit.
DepositTxHash(an, ac, note_comm, eth) == <<"DTX", an, ac, note_comm, eth>>
WithdrawTxHash(an, ac, asset_ids, amounts, eth) == <<"WTX", an, ac, asset_ids, amounts, eth>>

\* assert_account_invariants_simple: everything but the balances is frozen.
AccountInvariantsSimple(accin, accout) ==
    /\ accin.id = accout.id /\ accin.subpool = accout.subpool
    /\ accout.nonce = accin.nonce + 1
    /\ pk_or_default(accout.spend_pk) = pk_or_default(accin.spend_pk)
    /\ pk_or_default(accout.consume.pk) = pk_or_default(accin.consume.pk)
    /\ accout.consume.config = accin.consume.config

\* Mutant: the membership of the input account is asserted of padding too.
LiveAccount_Ungated(w) == Opens(w.accin_path, Commitment(w.accin), w.state_root)

\* The membership of the input account and the subpool proof, both gated by not_fake_tx.
LiveAccount(w) == w.not_fake_tx => Opens(w.accin_path, Commitment(w.accin), w.state_root)
ApprovalKeyCommitted(w) == w.not_fake_tx => w.approval_key = w.config_root

-----------------------------------------------------------------------------
(* The deposit circuit *)

\* The hash the circuit derives from its targets.
DerivedDepositHash(w) ==
    DepositTxHash(Nullifier(w.accin), Commitment(w.accout), DepositNoteCommitment(w.note), w.eth)

\* Consume where the account has its own key, approval always, neither for padding.
DepositSignatures(w) ==
    LET hash == DerivedDepositHash(w)
    IN  /\ w.accin.consume.config /\ w.not_fake_tx =>
              Verifies(w.consume_sig, pk_or_default(w.accin.consume.pk), hash)
        /\ w.not_fake_tx => Verifies(w.approval_sig, w.approval_key, hash)

\* deposit_tx_circuit.  The recipient is wired to the account of padding proofs too.
DepositTxCircuit(w) ==
    /\ LiveAccount(w)
    /\ w.note.recipient = Address(w.accin)
    /\ AccountInvariantsSimple(w.accin, w.accout)
    /\ AstUpdateRoots(w.note.asset, w.accin_amt, w.accout_amt, AstRoot(w.accin.ast), w.ast_index,
                      AstRoot(w.accin.ast), AstRoot(w.accout.ast), w.exists_in, w.exists_out)
    /\ U256Sum(w.accin_amt, <<w.note.amount>>) = w.accout_amt
    /\ ApprovalKeyCommitted(w)
    /\ DepositSignatures(w)

\* DepositTxPublicTargets.
DepositPublicInputs(w) ==
    [state_root |-> w.state_root, config_root |-> w.config_root, not_fake_tx |-> w.not_fake_tx,
     accin_null |-> Nullifier(w.accin), accout_comm |-> Commitment(w.accout),
     note_comm |-> DepositNoteCommitment(w.note), eth |-> w.eth,
     amount |-> w.note.amount, asset |-> w.note.asset]

-----------------------------------------------------------------------------
(* The withdrawal circuit; w.slots[i] is withdrawal slot i *)

DerivedWithdrawHash(w) ==
    WithdrawTxHash(Nullifier(w.accin), Commitment(w.accout), [i \in Slots |-> w.slots[i].asset],
                   [i \in Slots |-> w.slots[i].amount], w.eth)

\* The chain of roots: slot i updates the tree that slot i - 1 left.  The intermediate
\* roots are free targets, so they are whatever makes the slots agree.
SlotRootOut(s) ==
    [s.siblings EXCEPT ![s.index] = IF s.exists_out THEN Leaf(s.asset, s.accout_amt) ELSE DefaultLeaf]
ChainedAstUpdates(w) ==
    \A i \in Slots :
        LET s == w.slots[i]
            prev_root == IF i = 1 THEN AstRoot(w.accin.ast) ELSE SlotRootOut(w.slots[i - 1])
            curr_root == IF i = NoteBatch THEN AstRoot(w.accout.ast) ELSE SlotRootOut(s)
        IN  AstUpdateRoots(s.asset, s.accin_amt, s.accout_amt, s.siblings, s.index,
                           prev_root, curr_root, s.exists_in, s.exists_out)

\* Mutant: the owner's signature is not verified.
WithdrawSignatures_ApprovalOnly(w) ==
    w.not_fake_tx => Verifies(w.approval_sig, w.approval_key, DerivedWithdrawHash(w))

\* The operator's and the owner's signatures, over the same hash.
WithdrawSignatures(w) ==
    w.not_fake_tx => /\ Verifies(w.approval_sig, w.approval_key, DerivedWithdrawHash(w))
                     /\ Verifies(w.spend_sig, pk_or_default(w.accin.spend_pk), DerivedWithdrawHash(w))

\* withdraw_tx_circuit.
WithdrawTxCircuit(w) ==
    /\ LiveAccount(w)
    /\ AccountInvariantsSimple(w.accin, w.accout)
    /\ \A i \in Slots : w.slots[i].accin_amt = U256Sum(w.slots[i].accout_amt, <<w.slots[i].amount>>)
    /\ ChainedAstUpdates(w)
    /\ ApprovalKeyCommitted(w)
    /\ WithdrawSignatures(w)

\* WithdrawTxPublicTargets.
WithdrawPublicInputs(w) ==
    [state_root |-> w.state_root, config_root |-> w.config_root, not_fake_tx |-> w.not_fake_tx,
     accin_null |-> Nullifier(w.accin), accout_comm |-> Commitment(w.accout),
     asset_ids |-> [i \in Slots |-> w.slots[i].asset], amounts |-> [i \in Slots |-> w.slots[i].amount],
     eth |-> w.eth]
=============================================================================

------------------------------- MODULE BridgeTx -------------------------------
(***************************************************************************)
(* A client's deposits and withdrawals, from the builder calls             *)
(* (plonky2_gadgets/deposit_tx/builder.rs, withdraw_tx/builder.rs) through *)
(* signing, path fetching and proving to a contract that holds the tokens. *)
(* The contract is reduced to what DoxaContract enforces of one            *)
(* transaction; a withdrawal counts as paid when it is queued there.       *)
(***************************************************************************)
EXTENDS BridgeCircuits

CONSTANTS
    Me,                 \* the client's private identifier
    Subpool,            \* its subpool
    SpendSk, ConsumeSk, \* its keys; a public key is named by its private key
    WrongSk,            \* a key that is not the account's
    ApprovalSks,        \* the approval keys the operator has used or will use
    FakeKey,            \* the key of SubpoolFullProof::default
    EthAddrs,           \* Ethereum addresses
    WithdrawAmounts,    \* amounts of withdrawal slots
    Depositor,          \* the one among them that pays for the client's deposits
    MaxTx,              \* bound: transactions opened
    MaxProofs,          \* bound: proofs waiting to be published
    MaxDeposits,        \* bound: deposits registered
    MaxOutside          \* bound: other transactions and key rotations

ASSUME BridgeBounds == {MaxTx, MaxProofs, MaxDeposits, MaxOutside} \subseteq Nat
ASSUME WithdrawAssumption == WithdrawAmounts \subseteq 0..(Modulus - 1)
ASSUME FundedAssumption == Modulus > 2 /\ 2^AstDepth > 2     \* for the account the client starts with
ASSUME KeyAssumption == None \notin {SpendSk, ConsumeSk}

VARIABLES
    stateTree,      \* leaves of the on-chain state tree
    nullifiers,     \* nullifiers the contract has recorded
    approvalSk,     \* key of the current pool configuration
    acc,            \* the client's account
    deposits,       \* deposits of the contract, by note commitment
    escrow,         \* tokens the contract holds and has not paid out, by asset
    tx,             \* the builder in use
    opened,         \* transactions opened so far
    proofs,         \* proofs not yet published
    outside         \* other transactions and key rotations so far

chainVars == <<stateTree, nullifiers, approvalSk, acc, deposits, escrow, outside>>
vars == <<stateTree, nullifiers, approvalSk, acc, deposits, escrow, tx, opened, proofs, outside>>

MyAddress == <<Subpool, Me>>

\* The notes the client may deposit: a tracked asset, one that fills its tree, one it
\* could not hold, and one for somebody else.
Notes ==
    {DepositNote(1, MyAddress, 1, 1), DepositNote(2, MyAddress, 1, 3),
     DepositNote(3, MyAddress, Modulus - 1, 1), DepositNote(4, <<Subpool, None>>, 1, 1)}

-----------------------------------------------------------------------------
(* Builders *)

NoTx == [stage |-> "none"]

\* A builder as new leaves it: of the fields of both kinds, note is a deposit's and
\* withdrawals a withdrawal's, and what the later calls set is not there yet.
NewTx(kind, note, eth) ==
    [stage |-> "builder", kind |-> kind, accin |-> acc, note |-> note, withdrawals |-> <<>>,
     eth |-> eth, accout |-> None, hash |-> None, accin_path |-> None, approval_key |-> None,
     spend_sig |-> None, consume_sig |-> None, approval_sig |-> None]
Returns(ok, next) == tx' = IF ok THEN next ELSE NoTx
Built == tx.stage = "built"
BuiltAs(kind) == Built /\ tx.kind = kind

Begin(t) ==
    /\ tx = NoTx /\ opened < MaxTx
    /\ tx' = t
    /\ opened' = opened + 1
    /\ UNCHANGED <<proofs, chainVars>>

\* DepositTxBuilder::new.
DepositNew(note, eth) ==
    /\ acc.nonce # 0 /\ note.recipient = Address(acc)
    /\ Begin(NewTx("deposit", note, eth))

\* WithdrawRealTxBuilder::new.
WithdrawNew(eth) ==
    /\ acc.nonce # 0
    /\ Begin(NewTx("withdraw", None, eth))

\* add_withdrawal borrows the builder: a refused slot leaves it as it was.
AddWithdrawal(asset, amount) ==
    /\ tx.stage = "builder" /\ tx.kind = "withdraw"
    /\ Len(tx.withdrawals) # NoteBatch
    /\ tx' = [tx EXCEPT !.withdrawals = Append(@, [asset |-> asset, amount |-> amount])]
    /\ UNCHANGED <<opened, proofs, chainVars>>

\* What build adds, none of the later calls made yet.
AsBuilt(accout, hash) ==
    [tx EXCEPT !.stage = "built", !.accout = accout, !.hash = hash]

\* DepositTxBuilder::build: the addition and insert_or_update_asset panic.
DepositBuild ==
    /\ tx.stage = "builder" /\ tx.kind = "deposit"
    /\ LET old == AmountOrNext(tx.accin.ast, tx.note.asset).amount
           accout == [clone_with_incremented_nonce(tx.accin) EXCEPT
                        !.ast = insert_or_update_asset(@, tx.note.asset, old + tx.note.amount)]
       IN  Returns(old + tx.note.amount < Modulus /\ CanInsertOrUpdate(tx.accin.ast, tx.note.asset),
                   AsBuilt(accout, DepositTxHash(Nullifier(tx.accin), Commitment(accout),
                                                 DepositNoteCommitment(tx.note), tx.eth)))
    /\ UNCHANGED <<opened, proofs, chainVars>>

\* merkle_proof_at: past the last leaf of a full tree the bits of the index wrap and the
\* siblings are those of an empty tree.
PathSiblings(t, index) ==
    IF index < 2^AstDepth THEN AstRoot(t) ELSE [i \in DOMAIN AstRoot(t) |-> DefaultLeaf]

\* Mutant: the path of a slot is that of the next free leaf.
FilledSlot_NextLeaf(t, w) ==
    LET old == AmountOrNext(t, w.asset)
    IN  [asset |-> w.asset, amount |-> w.amount, accin_amt |-> old.amount,
         accout_amt |-> old.amount - w.amount, exists_in |-> TRUE,
         exists_out |-> old.amount - w.amount > 0, index |-> next_index(t) % 2^AstDepth,
         siblings |-> PathSiblings(t, next_index(t))]

\* One slot of compute_withdrawal_slots over the tree the slots before it left.  The asset
\* remains in the output account only if something of it is left.
FilledSlot(t, w) ==
    LET old == AmountOrNext(t, w.asset)
    IN  [asset |-> w.asset, amount |-> w.amount, accin_amt |-> old.amount,
         accout_amt |-> old.amount - w.amount, exists_in |-> TRUE,
         exists_out |-> old.amount - w.amount > 0, index |-> old.index % 2^AstDepth,
         siblings |-> PathSiblings(t, old.index)]
PaddingSlot(t) ==
    [asset |-> DefaultAsset, amount |-> 0, accin_amt |-> 0, accout_amt |-> 0, exists_in |-> FALSE,
     exists_out |-> FALSE, index |-> next_index(t) % 2^AstDepth, siblings |-> PathSiblings(t, next_index(t))]

\* Slot i is computed without a panic: its asset is tracked and is not the default asset,
\* and the slots up to it together take no more than there is.
SlotFits(t, withdrawals, i) ==
    i \in DOMAIN withdrawals =>
        /\ withdrawals[i].asset \in Tracked(t) \ {DefaultAsset}
        /\ withdrawals[i].amount <= AmountOrNext(t, withdrawals[i].asset).amount
AfterSlot(t, withdrawals, i) ==
    IF i \in DOMAIN withdrawals /\ SlotFits(t, withdrawals, i)
    THEN update_asset(t, withdrawals[i].asset,
                      AmountOrNext(t, withdrawals[i].asset).amount - withdrawals[i].amount)
    ELSE t

\* compute_withdrawal_slots; ok is FALSE where it panics.
compute_withdrawal_slots(accin, withdrawals) ==
    LET current_ast[i \in 0..NoteBatch] ==
            IF i = 0 THEN accin.ast ELSE AfterSlot(current_ast[i - 1], withdrawals, i)
    IN  [ok |-> \A i \in Slots : SlotFits(current_ast[i - 1], withdrawals, i),
         slots |-> [i \in Slots |-> IF i \in DOMAIN withdrawals THEN FilledSlot(current_ast[i - 1], withdrawals[i])
                                                                ELSE PaddingSlot(current_ast[i - 1])],
         ast |-> current_ast[NoteBatch]]

WithdrawnAccount(accin, slots) == [clone_with_incremented_nonce(accin) EXCEPT !.ast = slots.ast]
HashOfSlots(accin, accout, slots, eth) ==
    WithdrawTxHash(Nullifier(accin), Commitment(accout), [i \in Slots |-> slots[i].asset],
                   [i \in Slots |-> slots[i].amount], eth)

\* WithdrawRealTxBuilder::build: each slot is checked against the balance before any of them.
WithdrawBuild ==
    /\ tx.stage = "builder" /\ tx.kind = "withdraw"
    /\ LET computed == compute_withdrawal_slots(tx.accin, tx.withdrawals)
           accout == WithdrawnAccount(tx.accin, computed)
       IN  Returns(/\ tx.withdrawals # <<>>
                   /\ \A i \in DOMAIN tx.withdrawals :
                         tx.withdrawals[i].amount <= AmountOrNext(tx.accin.ast, tx.withdrawals[i].asset).amount
                   /\ computed.ok,
                   AsBuilt(accout, HashOfSlots(tx.accin, accout, computed.slots, tx.eth)))
    /\ UNCHANGED <<opened, proofs, chainVars>>

\* consume_sign of a deposit: only with the account's own consume key.
ConsumeSign ==
    /\ BuiltAs("deposit")
    /\ Returns(tx.accin.consume = ConsumeKey(ConsumeSk),
               [tx EXCEPT !.consume_sig = Signature(ConsumeSk, tx.hash)])
    /\ UNCHANGED <<opened, proofs, chainVars>>

\* spend_sign of a withdrawal takes whatever key it is given.
SpendSign(sk) ==
    /\ BuiltAs("withdraw")
    /\ tx' = [tx EXCEPT !.spend_sig = Signature(sk, tx.hash)]
    /\ UNCHANGED <<opened, proofs, chainVars>>

\* approval_sign of both, with the operator's key as it is now.
ApprovalSign ==
    /\ Built
    /\ tx' = [tx EXCEPT !.approval_sig = Signature(approvalSk, tx.hash)]
    /\ UNCHANGED <<opened, proofs, chainVars>>

\* with_account_path of both, from the tree as it is now.
WithAccountPath ==
    /\ Built
    /\ \E pos \in 0..(Len(stateTree) - 1) :
          /\ stateTree[pos + 1] = Commitment(tx.accin)
          /\ tx' = [tx EXCEPT !.accin_path = PathTo(stateTree, pos)]
    /\ UNCHANGED <<opened, proofs, chainVars>>

\* with_subpool_proof of both, from the pool configuration as it is now.
WithSubpoolProof ==
    /\ Built
    /\ tx' = [tx EXCEPT !.approval_key = approvalSk]
    /\ UNCHANGED <<opened, proofs, chainVars>>

-----------------------------------------------------------------------------
(* Proving *)

\* into_deposit_tx and into_withdraw_tx.
IntoDepositTxSucceeds(t) ==
    /\ t.approval_sig # None
    /\ t.accin.consume.config => t.consume_sig # None
    /\ t.accin_path # None /\ t.approval_key # None
IntoWithdrawTxSucceeds(t) ==
    t.approval_sig # None /\ t.spend_sig # None /\ t.accin_path # None /\ t.approval_key # None
IntoTxSucceeds(t) ==
    IF t.kind = "deposit" THEN IntoDepositTxSucceeds(t) ELSE IntoWithdrawTxSucceeds(t)

\* BuiltDepositTx::prove, up to the proof.
DepositWitness(t) ==
    LET old == AmountOrNext(t.accin.ast, t.note.asset)
    IN  [not_fake_tx |-> TRUE, accin |-> t.accin, accout |-> t.accout, note |-> t.note, eth |-> t.eth,
         accin_path |-> t.accin_path, ast_index |-> old.index, accin_amt |-> old.amount,
         accout_amt |-> old.amount + t.note.amount, exists_in |-> old.exists,
         exists_out |-> t.note.asset \in Tracked(t.accout.ast), state_root |-> t.accin_path.root,
         config_root |-> t.approval_key, approval_key |-> t.approval_key,
         consume_sig |-> t.consume_sig, approval_sig |-> t.approval_sig]

\* BuiltWithdrawTx::prove, up to the proof: the slots and the account are computed anew.
WithdrawWitness(t) ==
    LET computed == compute_withdrawal_slots(t.accin, t.withdrawals)
    IN  [not_fake_tx |-> TRUE, accin |-> t.accin, accout |-> WithdrawnAccount(t.accin, computed),
         slots |-> computed.slots, eth |-> t.eth, accin_path |-> t.accin_path,
         state_root |-> t.accin_path.root, config_root |-> t.approval_key,
         approval_key |-> t.approval_key, spend_sig |-> t.spend_sig, approval_sig |-> t.approval_sig]

Proves(t) ==
    IF t.kind = "deposit" THEN DepositTxCircuit(DepositWitness(t)) ELSE WithdrawTxCircuit(WithdrawWitness(t))
PublicInputs(t) ==
    IF t.kind = "deposit" THEN DepositPublicInputs(DepositWitness(t)) ELSE WithdrawPublicInputs(WithdrawWitness(t))

\* into_..._tx followed by prove.
Prove ==
    /\ Built /\ Cardinality(proofs) < MaxProofs
    /\ tx' = NoTx
    /\ proofs' = IF IntoTxSucceeds(tx) /\ Proves(tx)
                 THEN proofs \cup {[kind |-> tx.kind, public |-> PublicInputs(tx), accout |-> tx.accout,
                                    spend_sig |-> tx.spend_sig, consume_sig |-> tx.consume_sig]}
                 ELSE proofs
    /\ UNCHANGED <<opened, chainVars>>

\* The client gives a transaction up.
Discard == tx # NoTx /\ tx' = NoTx /\ UNCHANGED <<opened, proofs, chainVars>>

\* FakeDepositTxBuilder and FakeWithdrawTxBuilder: padding for a root and configuration.
FakeAccount == NewAccount(None, None)
FakeDeposit(root, config_root) ==
    [not_fake_tx |-> FALSE, accin |-> FakeAccount, accout |-> clone_with_incremented_nonce(FakeAccount),
     note |-> default_for_recipient(Address(FakeAccount)), eth |-> None, accin_path |-> DummyPath,
     ast_index |-> 0, accin_amt |-> 0, accout_amt |-> 0, exists_in |-> TRUE, exists_out |-> TRUE,
     state_root |-> root, config_root |-> config_root, approval_key |-> FakeKey,
     consume_sig |-> None, approval_sig |-> None]
FakeWithdraw(root, config_root) ==
    LET computed == compute_withdrawal_slots(FakeAccount, <<>>)
    IN  [not_fake_tx |-> FALSE, accin |-> FakeAccount, accout |-> WithdrawnAccount(FakeAccount, computed),
         slots |-> computed.slots, eth |-> None, accin_path |-> DummyPath, state_root |-> root,
         config_root |-> config_root, approval_key |-> FakeKey, spend_sig |-> None, approval_sig |-> None]

-----------------------------------------------------------------------------
(* The contract *)

DepositRecord(status, value, eth, asset) ==
    [status |-> status, value |-> value, recipient |-> eth, asset |-> asset]

\* depositAndRegister: the commitment is opaque to the contract, so what is paid in need
\* not be what the note says.  No token has a supply of 2^256.
RegisterDeposit(note, value) ==
    LET key == DepositNoteCommitment(note)
    IN  /\ Cardinality(DOMAIN deposits) < MaxDeposits
        /\ key \notin DOMAIN deposits
        /\ escrow[note.asset] + value < Modulus
        /\ deposits' = [k \in DOMAIN deposits \cup {key} |->
                            IF k = key THEN DepositRecord("Pending", value, Depositor, note.asset) ELSE deposits[k]]
        /\ escrow' = [escrow EXCEPT ![note.asset] = @ + value]
        /\ UNCHANGED <<stateTree, nullifiers, approvalSk, acc, tx, opened, proofs, outside>>

\* withdrawPendingDeposit, the delay having passed.
WithdrawPendingDeposit(key) ==
    /\ deposits[key].status = "Pending"
    /\ deposits' = [deposits EXCEPT ![key].status = "Withdrawn"]
    /\ escrow' = [escrow EXCEPT ![deposits[key].asset] = @ - deposits[key].value]
    /\ UNCHANGED <<stateTree, nullifiers, approvalSk, acc, tx, opened, proofs, outside>>

\* Mutant: the nullifier of the input account is not looked up.
Accepts_Respends(p) == p.state_root <= Len(stateTree) /\ p.config_root = approvalSk

\* submitBridgeTxBatch and proveBridgeTxBatch of a batch with p: a root the tree has had,
\* the current configuration and an account that is not spent.
Accepts(p) ==
    /\ p.state_root <= Len(stateTree) /\ p.config_root = approvalSk
    /\ p.accin_null \notin nullifiers

\* The leaf and the nullifier of a published slot; the client moves to the new account.
Landed(p) ==
    /\ Accepts(p.public)
    /\ stateTree' = Append(stateTree, p.public.accout_comm)
    /\ nullifiers' = nullifiers \cup {p.public.accin_null}
    /\ acc' = p.accout
    /\ proofs' = proofs \ {p}
    /\ UNCHANGED <<approvalSk, tx, opened, outside>>

\* Mutant: the amount of the slot is not compared with the deposit.
PublishDeposit_AnyValue(p) ==
    LET key == p.public.note_comm
    IN  /\ p.kind = "deposit"
        /\ key \in DOMAIN deposits
        /\ deposits[key] = DepositRecord("Pending", deposits[key].value, p.public.eth, p.public.asset)
        /\ Landed(p)
        /\ deposits' = [deposits EXCEPT ![key].status = "Validated"]
        /\ UNCHANGED escrow

\* A deposit slot: the deposit is pending and says what the slot says.
PublishDeposit(p) ==
    LET key == p.public.note_comm
    IN  /\ p.kind = "deposit"
        /\ key \in DOMAIN deposits
        /\ deposits[key] = DepositRecord("Pending", p.public.amount, p.public.eth, p.public.asset)
        /\ Landed(p)
        /\ deposits' = [deposits EXCEPT ![key].status = "Validated"]
        /\ UNCHANGED escrow

\* A withdrawal slot: every entry is queued for payment to the address of the slot.
Paid(p, asset) ==
    SumFunction([i \in Slots |-> IF p.asset_ids[i] = asset THEN p.amounts[i] ELSE 0])
PublishWithdraw(p) ==
    /\ p.kind = "withdraw"
    /\ Landed(p)
    /\ escrow' = [a \in Assets |-> escrow[a] - Paid(p.public, a)]
    /\ UNCHANGED deposits

\* Someone else's transaction lands.
ForeignLeaf ==
    /\ outside < MaxOutside
    /\ stateTree' = Append(stateTree, DummyHash(outside))
    /\ outside' = outside + 1
    /\ UNCHANGED <<nullifiers, approvalSk, acc, deposits, escrow, tx, opened, proofs>>

\* The operator rotates the subpool's approval key.
RotateApprovalKey(k) ==
    /\ outside < MaxOutside
    /\ k # approvalSk
    /\ approvalSk' = k
    /\ outside' = outside + 1
    /\ UNCHANGED <<stateTree, nullifiers, acc, deposits, escrow, tx, opened, proofs>>

-----------------------------------------------------------------------------

\* An account that holds two units of one asset and one of another.
FundedAccount(consume) ==
    [NewAccount(Me, Subpool) EXCEPT !.nonce = 1, !.spend_pk = SpendSk, !.consume = consume,
                                    !.ast = _insert_asset(_insert_asset(@, 1, 2), 2, 1)]

Balance(account, a) == AmountOrNext(account.ast, a).amount

Init ==
    /\ \/ acc = NewAccount(Me, Subpool) /\ stateTree = <<>>
       \/ /\ acc \in {FundedAccount(DelegatedConsume), FundedAccount(ConsumeKey(ConsumeSk))}
          /\ stateTree = <<Commitment(acc)>>
    /\ escrow = [a \in Assets |-> Balance(acc, a)]
    /\ deposits = <<>> /\ nullifiers = {}
    /\ approvalSk = CHOOSE first \in ApprovalSks : TRUE
    /\ tx = NoTx /\ opened = 0 /\ proofs = {} /\ outside = 0

Next ==
    \/ \E note \in Notes, eth \in EthAddrs : DepositNew(note, eth)
    \/ WithdrawNew(Depositor)
    \/ \E asset \in Assets \cup {DefaultAsset}, amount \in WithdrawAmounts : AddWithdrawal(asset, amount)
    \/ DepositBuild \/ WithdrawBuild
    \/ ConsumeSign \/ ApprovalSign
    \/ \E sk \in {SpendSk, WrongSk} : SpendSign(sk)
    \/ WithAccountPath \/ WithSubpoolProof
    \/ Prove \/ Discard
    \/ \E note \in Notes : \E value \in {note.amount, note.amount + 1} : RegisterDeposit(note, value)
    \/ \E key \in DOMAIN deposits : WithdrawPendingDeposit(key)
    \/ \E p \in proofs : PublishDeposit(p) \/ PublishWithdraw(p)
    \/ ForeignLeaf
    \/ \E k \in ApprovalSks : RotateApprovalKey(k)

Spec == Init /\ [][Next]_vars

-----------------------------------------------------------------------------
(* Properties *)

\* What prove refuses although build and into_..._tx let it through: a withdrawal that
\* takes all there is of an asset, whose leaf the circuit then expects to be the default;
\* padding slots over a full tree, which open position 0 of an empty one; a spend
\* signature by another key; an approval key that the configuration does not name.
EmptiesAnAsset(t) ==
    \E i \in DOMAIN t.withdrawals : Balance(t.accout, t.withdrawals[i].asset) = 0
PaddingOverFullTree(t) == Len(t.withdrawals) < NoteBatch /\ ~Room(t.accin.ast)
Explained(t) ==
    \/ t.approval_sig.key # t.approval_key
    \/ t.kind = "withdraw" /\ (EmptiesAnAsset(t) \/ PaddingOverFullTree(t) \/ t.spend_sig.key # t.accin.spend_pk)

\* Builders and circuits agree: prove refuses a deposit or a withdrawal exactly for one of
\* the reasons above, however the calls were ordered and whatever the slots repeat.  The
\* native hash, the recomputed slots and the tree updates match what the circuit derives.
ProvesUnlessExplained == Built /\ IntoTxSucceeds(tx) => (Proves(tx) <=> ~Explained(tx))

\* The padding of both halves of a bridge batch proves against every root and configuration.
PaddingAlwaysProves ==
    tx = NoTx => /\ DepositTxCircuit(FakeDeposit(Len(stateTree), approvalSk))
                 /\ WithdrawTxCircuit(FakeWithdraw(Len(stateTree), approvalSk))

\* The tokens the contract holds are, asset by asset, the client's balance and the deposits
\* still pending: a deposit is credited once and for what was paid in, a withdrawal pays
\* out what the account lost, and a cancelled deposit is not credited.
PendingValue(a) ==
    SumFunction([key \in DOMAIN deposits |->
                    IF deposits[key].status = "Pending" /\ deposits[key].asset = a THEN deposits[key].value ELSE 0])
EscrowIsBalanceAndPending == \A a \in Assets : escrow[a] = Balance(acc, a) + PendingValue(a)

\* One account state on chain is unspent, the one the client holds.
LiveStates == {c \in ToSet(stateTree) : c[1] = "AC" /\ NullifierOf(c, Me) \notin nullifiers}
OneLiveState == LiveStates = IF acc.nonce = 0 THEN {} ELSE {Commitment(acc)}

\* Tokens leave an account only under its owner's spend signature over these very slots
\* and this very address, and an account with a consume key of its own is credited only
\* under that key.
SignedBy(sig, pk, hash) == sig # None /\ sig.key = pk /\ sig.msg = hash
OwnerAuthorisesBridge ==
    [][\A p \in proofs \ proofs' :
         IF p.kind = "withdraw"
         THEN SignedBy(p.spend_sig, acc.spend_pk,
                       WithdrawTxHash(Nullifier(acc), Commitment(acc'), p.public.asset_ids, p.public.amounts, p.public.eth))
         ELSE acc.consume.config =>
              SignedBy(p.consume_sig, acc.consume.pk,
                       DepositTxHash(Nullifier(acc), Commitment(acc'), p.public.note_comm, p.public.eth))]_proofs
=============================================================================

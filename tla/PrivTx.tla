-------------------------------- MODULE PrivTx --------------------------------
(***************************************************************************)
(* A client's private transactions, from the builder calls of              *)
(* SpendTxBuilder and FreshAccTxBuilder (plonky2_gadgets/priv_tx/builder)  *)
(* through signing, path fetching and proving to publication on a ledger   *)
(* that others use too.  A builder method takes the builder by value, so a *)
(* call that returns an error, or panics, leaves no builder behind.  The   *)
(* ledger is reduced to what DoxaContract enforces of one transaction.     *)
(***************************************************************************)
EXTENDS TxCircuits

CONSTANTS
    Me, Other,          \* private identifiers: the client's and a counterparty's
    Subpool,            \* the subpool of both
    SpendSk, ConsumeSk, \* the client's keys; a public key is named by its private key
    ApprovalSks,        \* the approval keys the operator has used or will use
    FakeKey,            \* the key of SubpoolFullProof::default
    OutAmounts,         \* amounts of new output notes
    MaxNotes,           \* bound: notes added to the first transaction, three fewer to each next
    MaxTx,              \* bound: transactions opened
    MaxProofs,          \* bound: proofs waiting to be published
    MaxOutside          \* bound: steps of others

ASSUME BoundsAssumption == {MaxNotes, MaxTx, MaxProofs, MaxOutside} \subseteq Nat
ASSUME ValueAssumption == Assets # {} /\ OutAmounts \subseteq Nat
ASSUME KeyAssumption == None \notin {SpendSk, ConsumeSk}

VARIABLES
    stateTree,      \* leaves of the on-chain state tree
    nullifiers,     \* nullifiers the contract has recorded
    approvalSk,     \* key of the current pool configuration
    acc,            \* the client's account
    notes,          \* notes payable to the client, by their position in the tree
    tx,             \* the builder in use
    opened,         \* transactions opened so far
    proofs,         \* proofs not yet published
    outside         \* steps of others so far

ledgerVars == <<stateTree, nullifiers, approvalSk, acc, notes, outside>>
vars == <<stateTree, nullifiers, approvalSk, acc, notes, tx, opened, proofs, outside>>

MyAddress == <<Subpool, Me>>
OtherAddress == <<Subpool, Other>>

-----------------------------------------------------------------------------
(* Builders *)

NoTx == [stage |-> "none"]

\* A method that fails consumes the builder.
Returns(ok, next) == tx' = IF ok THEN next ELSE NoTx

Building(kind) == tx.stage = "builder" /\ tx.kind = kind
Built == tx.stage = "built"

\* Seeds sampled for transaction n; input and output seeds differ.
DinoteSeeds(n, count) == [i \in 1..count |-> 2 * (n * NoteBatch + i)]
DonoteSeeds(n, count) == [i \in 1..count |-> 2 * (n * NoteBatch + i) + 1]

\* A builder as new leaves it; what the later calls set is not there yet.
NewBuilder(kind, asset) ==
    [stage |-> "builder", kind |-> kind, n |-> opened + 1, accin |-> acc, asset |-> asset,
     inotes |-> <<>>, onotes |-> <<>>, rejected |-> <<>>, dinotes |-> None, donotes |-> None,
     new_spend |-> None, new_consume |-> None, accout |-> None, hash |-> None, root |-> None,
     accin_path |-> None, inote_paths |-> None, rejected_paths |-> None, approval_key |-> None,
     spend_sig |-> None, consume_sig |-> None, approval_sig |-> None]

\* SpendTxBuilder::new.
SpendNew(asset) ==
    /\ tx = NoTx /\ opened < MaxTx
    /\ acc.nonce # 0
    /\ tx' = NewBuilder("spend", asset)
    /\ opened' = opened + 1
    /\ UNCHANGED <<proofs, ledgerVars>>

\* FreshAccTxBuilder::new.
FreshAccNew ==
    /\ tx = NoTx /\ opened < MaxTx
    /\ acc.nonce = 0
    /\ tx' = NewBuilder("fresh", DefaultAsset)
    /\ opened' = opened + 1
    /\ UNCHANGED <<proofs, ledgerVars>>

NotesAdded == Len(tx.inotes) + Len(tx.onotes) + Len(tx.rejected)
MoreNotes == Building("spend") /\ NotesAdded + 3 * (tx.n - 1) < MaxNotes

\* add_input_note; the note is one the client has found at pos.
AddInputNote(pos) ==
    /\ MoreNotes
    /\ Returns(/\ Len(tx.rejected) + Len(tx.inotes) + 1 <= NoteBatch
               /\ notes[pos].asset = tx.asset
               /\ notes[pos].recipient = Address(tx.accin),
               [tx EXCEPT !.inotes = Append(@, [note |-> notes[pos], pos |-> pos])])
    /\ UNCHANGED <<opened, proofs, ledgerVars>>

\* add_output_note; StandardNote::create samples the identifier.
AddOutputNote(amt) ==
    /\ MoreNotes
    /\ Returns(Len(tx.rejected) + Len(tx.onotes) + 1 <= NoteBatch,
               [tx EXCEPT !.onotes =
                    Append(@, Note(100 + tx.n * NoteBatch + Len(@), amt, tx.asset, OtherAddress, Address(tx.accin)))])
    /\ UNCHANGED <<opened, proofs, ledgerVars>>

\* add_rejected_note.
AddRejectedNote(pos) ==
    /\ MoreNotes
    /\ Returns(/\ \A k \in {Len(tx.inotes), Len(tx.onotes)} : Len(tx.rejected) + 1 + k <= NoteBatch
               /\ notes[pos].asset = tx.asset
               /\ notes[pos].recipient = Address(tx.accin),
               [tx EXCEPT !.rejected = Append(@, [note |-> notes[pos], pos |-> pos])])
    /\ UNCHANGED <<opened, proofs, ledgerVars>>

\* fill_dinotes and fill_donotes: as many as there are free slots now; FreshAcc uses none.
FillDinotes ==
    /\ tx.stage = "builder"
    /\ tx' = [tx EXCEPT !.dinotes = DinoteSeeds(tx.n, NoteBatch - Len(tx.inotes) - Len(tx.rejected))]
    /\ UNCHANGED <<opened, proofs, ledgerVars>>
FillDonotes ==
    /\ tx.stage = "builder"
    /\ tx' = [tx EXCEPT !.donotes = DonoteSeeds(tx.n, NoteBatch - Len(tx.onotes) - Len(tx.rejected))]
    /\ UNCHANGED <<opened, proofs, ledgerVars>>

\* with_new_spend_key, with_new_consume_key and with_delegated_consume.
WithNewSpendKey ==
    /\ Building("fresh")
    /\ tx' = [tx EXCEPT !.new_spend = SpendSk]
    /\ UNCHANGED <<opened, proofs, ledgerVars>>
WithConsume(auth) ==
    /\ Building("fresh")
    /\ tx' = [tx EXCEPT !.new_consume = auth]
    /\ UNCHANGED <<opened, proofs, ledgerVars>>

\* What build adds to a transaction, none of the later calls made yet.
AsBuilt(accout, hash) ==
    [tx EXCEPT !.stage = "built", !.accout = accout, !.hash = hash]

Amounts(s) == SumFunction([i \in DOMAIN s |-> s[i].amt])
InputsOf(t) == [i \in DOMAIN t.inotes |-> t.inotes[i].note]
RejectedOf(t) == [i \in DOMAIN t.rejected |-> t.rejected[i].note]

\* Slot i of the batch: the rejected notes come first, then the regular ones, then dummies.
BuiltNullifier(t, i) ==
    LET j == i - Len(t.rejected)
    IN  IF j <= 0 THEN NoteNullifier(t.rejected[i].note, t.rejected[i].pos, t.accin.id)
        ELSE IF j <= Len(t.inotes) THEN NoteNullifier(t.inotes[j].note, t.inotes[j].pos, t.accin.id)
        ELSE DummyHash(t.dinotes[j - Len(t.inotes)])

\* Mutant: a rejected note is committed to as it came in.
BuiltCommitment_NotReturned(t, i) ==
    LET j == i - Len(t.rejected)
    IN  IF j <= 0 THEN NoteCommitment(t.rejected[i].note)
        ELSE IF j <= Len(t.onotes) THEN NoteCommitment(t.onotes[j])
        ELSE DummyHash(t.donotes[j - Len(t.onotes)])

BuiltCommitment(t, i) ==
    LET j == i - Len(t.rejected)
    IN  IF j <= 0 THEN NoteCommitment(Returned(t.rejected[i].note))
        ELSE IF j <= Len(t.onotes) THEN NoteCommitment(t.onotes[j])
        ELSE DummyHash(t.donotes[j - Len(t.onotes)])

\* The dummies cover the free slots, so that no index of build is out of range.
DummiesReach(t) ==
    /\ t.dinotes # None /\ t.donotes # None
    /\ Len(t.rejected) + Len(t.inotes) + Len(t.dinotes) >= NoteBatch
    /\ Len(t.rejected) + Len(t.onotes) + Len(t.donotes) >= NoteBatch

HashAsBuilt(t, accout) ==
    PrivTxHash(Nullifier(t.accin), Commitment(accout),
               [i \in Slots |-> BuiltNullifier(t, i)], [i \in Slots |-> BuiltCommitment(t, i)])

\* SpendTxBuilder::build: refuses a transaction without notes, one that overdraws the
\* account and one without dummies; the sums and the indexing panic.
SpendBuild ==
    /\ Building("spend")
    /\ LET delta_in == Amounts(InputsOf(tx))
           delta_out == Amounts(tx.onotes)
           old == AmountOrNext(tx.accin.ast, tx.asset).amount
           accout == [clone_with_incremented_nonce(tx.accin) EXCEPT
                        !.ast = insert_or_update_asset(@, tx.asset, old + delta_in - delta_out)]
       IN  Returns(/\ NotesAdded > 0
                   /\ delta_in < Modulus /\ delta_out < Modulus
                   /\ old + delta_in < Modulus /\ delta_out <= old + delta_in
                   /\ CanInsertOrUpdate(tx.accin.ast, tx.asset)
                   /\ DummiesReach(tx),
                   AsBuilt(accout, HashAsBuilt(tx, accout)))
    /\ UNCHANGED <<opened, proofs, ledgerVars>>

\* FreshAccTxBuilder::build.
FreshAccBuild ==
    /\ Building("fresh")
    /\ LET accout == [clone_with_incremented_nonce(tx.accin) EXCEPT
                        !.spend_pk = tx.new_spend, !.consume = tx.new_consume]
       IN  Returns(tx.new_spend # None /\ tx.new_consume # None /\ DummiesReach(tx),
                   AsBuilt(accout, HashAsBuilt(tx, accout)))
    /\ UNCHANGED <<opened, proofs, ledgerVars>>

\* spend_sign: only with output notes, and only with the account's key.
SpendSign ==
    /\ Built /\ tx.kind = "spend"
    /\ Returns(tx.onotes # <<>> /\ tx.accin.spend_pk = SpendSk,
               [tx EXCEPT !.spend_sig = Signature(SpendSk, tx.hash)])
    /\ UNCHANGED <<opened, proofs, ledgerVars>>

\* consume_sign: only to consume, and only with the account's own consume key.
ConsumeSign ==
    /\ Built /\ tx.kind = "spend"
    /\ Returns(/\ tx.inotes # <<>> \/ tx.rejected # <<>>
               /\ tx.onotes = <<>>
               /\ tx.accin.consume = ConsumeKey(ConsumeSk),
               [tx EXCEPT !.consume_sig = Signature(ConsumeSk, tx.hash)])
    /\ UNCHANGED <<opened, proofs, ledgerVars>>

\* approval_sign, by the operator, whatever its key is now.
ApprovalSign ==
    /\ Built
    /\ tx' = [tx EXCEPT !.approval_sig = Signature(approvalSk, tx.hash)]
    /\ UNCHANGED <<opened, proofs, ledgerVars>>

\* with_account_path: the client asks for the path of its account as the tree is now.
WithAccountPath ==
    /\ Built /\ tx.kind = "spend"
    /\ \E pos \in 0..(Len(stateTree) - 1) :
          /\ stateTree[pos + 1] = Commitment(tx.accin)
          /\ tx' = [tx EXCEPT !.accin_path = PathTo(stateTree, pos)]
    /\ UNCHANGED <<opened, proofs, ledgerVars>>

\* with_state_root, for the account that is in no tree yet.
WithStateRoot ==
    /\ Built /\ tx.kind = "fresh"
    /\ tx' = [tx EXCEPT !.root = Len(stateTree)]
    /\ UNCHANGED <<opened, proofs, ledgerVars>>

\* with_input_notes_path and with_rejected_notes_path, in the order the notes were added.
PathsOf(s) == [i \in DOMAIN s |-> PathTo(stateTree, s[i].pos)]
WithInputNotesPath ==
    /\ Built /\ tx.kind = "spend"
    /\ tx' = [tx EXCEPT !.inote_paths = PathsOf(tx.inotes)]
    /\ UNCHANGED <<opened, proofs, ledgerVars>>
WithRejectedNotesPath ==
    /\ Built /\ tx.kind = "spend"
    /\ tx' = [tx EXCEPT !.rejected_paths = PathsOf(tx.rejected)]
    /\ UNCHANGED <<opened, proofs, ledgerVars>>

\* with_subpool_proof, against the pool configuration as it is now.
WithSubpoolProof ==
    /\ Built
    /\ tx' = [tx EXCEPT !.approval_key = approvalSk]
    /\ UNCHANGED <<opened, proofs, ledgerVars>>

-----------------------------------------------------------------------------
(* Proving *)

\* into_priv_tx: what has to be set before the transaction can be proven.
IntoPrivTxSucceeds(t) ==
    /\ t.approval_key # None
    /\ t.kind = "spend" => t.accin_path # None /\ t.inote_paths # None /\ t.rejected_paths # None
    /\ t.kind = "fresh" => t.approval_sig # None /\ t.root # None

\* The notes of unused slots.  The circuit wires the recipient of every input note to the
\* account, so set_dummy_inote leaves it unset.
DefaultAddress == <<None, None>>
DummyInote(asset, owner) == Note(0, 0, asset, owner, DefaultAddress)
DummyOnote(asset) == Note(0, 0, asset, DefaultAddress, DefaultAddress)

\* Slot i as set_notes_witness fills it.
WitnessSlot(t, asset, i) ==
    LET j == i - Len(t.rejected)
        rjct == j <= 0
        iactive == rjct \/ j <= Len(t.inotes)
        oactive == rjct \/ j <= Len(t.onotes)
        ipath == IF rjct THEN t.rejected_paths[i] ELSE IF iactive THEN t.inote_paths[j] ELSE DummyPath
    IN  [rjct |-> rjct, iactive |-> iactive, oactive |-> oactive, ipath |-> ipath, ipos |-> ipath.pos,
         inote |-> IF rjct THEN t.rejected[i].note
                   ELSE IF iactive THEN t.inotes[j].note ELSE DummyInote(asset, Address(t.accin)),
         onote |-> IF rjct THEN Returned(t.rejected[i].note)
                   ELSE IF oactive THEN t.onotes[j] ELSE DummyOnote(asset),
         dinote |-> IF iactive THEN ZeroSeed ELSE t.dinotes[j - Len(t.inotes)],
         donote |-> IF oactive THEN ZeroSeed ELSE t.donotes[j - Len(t.onotes)]]

\* set_notes_witness accepts the numbers of notes and of dummies.
NoteCountsFit(t) ==
    /\ \A k \in {Len(t.inotes), Len(t.onotes)} : Len(t.rejected) + k < NoteBatch
    /\ Len(t.dinotes) = NoteBatch - Len(t.inotes) - Len(t.rejected)
    /\ Len(t.donotes) = NoteBatch - Len(t.onotes) - Len(t.rejected)

\* set_witness over the BuiltPrivTx that into_priv_tx makes.
Witness(t) ==
    LET asset == IF Len(t.rejected) + Len(t.inotes) + Len(t.onotes) = 0 THEN DefaultAsset ELSE t.asset
        old == AmountOrNext(t.accin.ast, asset)
        new == AmountOrNext(t.accout.ast, asset)
    IN  [flags |-> IF t.kind = "fresh" THEN FRESH_ACC ELSE SPEND,
         accin |-> t.accin, accout |-> t.accout,
         accin_path |-> IF t.kind = "fresh" THEN DummyPath ELSE t.accin_path,
         asset |-> asset, ast_index |-> old.index, same_index |-> old.index = new.index,
         accin_amt |-> old.amount, accout_amt |-> new.amount,
         exists_in |-> old.exists, exists_out |-> new.exists,
         slots |-> [i \in Slots |-> WitnessSlot(t, asset, i)],
         state_root |-> IF t.kind = "fresh" THEN t.root ELSE t.accin_path.root,
         config_root |-> t.approval_key, approval_key |-> t.approval_key,
         spend_sig |-> t.spend_sig, consume_sig |-> t.consume_sig, approval_sig |-> t.approval_sig]

\* BuiltPrivTx::prove returns a proof.
Proves(t) == NoteCountsFit(t) /\ LET w == Witness(t) IN w.same_index /\ PrivTxCircuit(w)

\* into_priv_tx followed by prove.  A proof carries its public inputs; the client keeps
\* with it the account it leads to and what was signed.
Prove ==
    /\ Built /\ Cardinality(proofs) < MaxProofs
    /\ tx' = NoTx
    /\ proofs' = IF IntoPrivTxSucceeds(tx) /\ Proves(tx)
                 THEN proofs \cup {[public |-> PrivTxPublicInputs(Witness(tx)), accout |-> tx.accout,
                                    sent |-> tx.onotes, returned |-> RejectedOf(tx), hash |-> tx.hash,
                                    spend_sig |-> tx.spend_sig, consume_sig |-> tx.consume_sig]}
                 ELSE proofs
    /\ UNCHANGED <<opened, ledgerVars>>

\* The client gives a transaction up.
Discard == tx # NoTx /\ tx' = NoTx /\ UNCHANGED <<opened, proofs, ledgerVars>>

\* FakeSpendTxBuilder: the padding transaction of an aggregation batch.
FakeTx(root, config_root) ==
    LET accin == NewAccount(None, None)
        t == [kind |-> "fake", accin |-> accin, rejected |-> <<>>, inotes |-> <<>>, onotes |-> <<>>,
              dinotes |-> [i \in Slots |-> ZeroSeed], donotes |-> [i \in Slots |-> ZeroSeed]]
    IN  [flags |-> FAKE, accin |-> accin, accout |-> clone_with_incremented_nonce(accin),
         accin_path |-> DummyPath, asset |-> DefaultAsset, ast_index |-> 0, same_index |-> TRUE,
         accin_amt |-> 0, accout_amt |-> 0, exists_in |-> TRUE, exists_out |-> TRUE,
         slots |-> [i \in Slots |-> WitnessSlot(t, DefaultAsset, i)],
         state_root |-> root, config_root |-> config_root, approval_key |-> FakeKey,
         spend_sig |-> None, consume_sig |-> None, approval_sig |-> None]

-----------------------------------------------------------------------------
(* The ledger *)

\* Mutant: the nullifiers of input notes are neither looked up nor recorded.
NullifierSet_AccountOnly(p) == {p.accin_null}

\* The nullifiers of a real slot.
NullifierSet(p) == {p.accin_null} \cup {p.inotes_null[i] : i \in Slots}

\* Mutant: nullifiers already recorded are not looked up.
Accepts_Respends(p) == p.state_root <= Len(stateTree) /\ p.config_root = approvalSk

\* proveTransactionBatch over a batch with p: a root the tree has had, the current
\* configuration, and nullifiers that are new.
Accepts(p) ==
    /\ p.state_root <= Len(stateTree) /\ p.config_root = approvalSk
    /\ NullifierSet(p) \cap nullifiers = {}

\* The sequencer, which is not in the repository, refuses a nullifier that is already in
\* the batch (TxRejectionReason); nothing in builder, circuit or contract does.
Sequenced(p) == IsInjective(p.inotes_null)

\* The batch is finalised: the leaves are appended in output_commitments order and the
\* client moves to the new account.
Publish(p) ==
    /\ Sequenced(p.public) /\ Accepts(p.public)
    /\ stateTree' = stateTree \o <<p.public.accout_comm>> \o p.public.onotes_comm
    /\ nullifiers' = nullifiers \cup NullifierSet(p.public)
    /\ acc' = p.accout
    /\ proofs' = proofs \ {p}
    /\ UNCHANGED <<approvalSk, notes, tx, opened, outside>>

\* Someone else's transaction lands.
ForeignLeaf ==
    /\ outside < MaxOutside
    /\ stateTree' = Append(stateTree, DummyHash(1 + 2 * outside))
    /\ outside' = outside + 1
    /\ UNCHANGED <<nullifiers, approvalSk, acc, notes, tx, opened, proofs>>

\* The operator rotates the subpool's approval key.
RotateApprovalKey(k) ==
    /\ outside < MaxOutside
    /\ k # approvalSk
    /\ approvalSk' = k
    /\ outside' = outside + 1
    /\ UNCHANGED <<stateTree, nullifiers, acc, notes, tx, opened, proofs>>

-----------------------------------------------------------------------------

\* An account activated by an earlier FreshAcc, holding one unit of the first asset.
ActiveAccount(consume) ==
    LET asset == CHOOSE a \in Assets : TRUE
    IN  [NewAccount(Me, Subpool) EXCEPT !.nonce = 1, !.spend_pk = SpendSk, !.consume = consume,
                                        !.ast = _insert_asset(@, asset, 1)]

\* Two notes from the counterparty, equal but for their identifiers.
IncomingNote(k) == Note(k, 1, CHOOSE a \in Assets : TRUE, MyAddress, OtherAddress)

Init ==
    /\ \/ acc = NewAccount(Me, Subpool) /\ stateTree = <<>> /\ notes = <<>>
       \/ /\ acc \in {ActiveAccount(DelegatedConsume), ActiveAccount(ConsumeKey(ConsumeSk))}
          /\ stateTree = <<Commitment(acc), NoteCommitment(IncomingNote(1)), NoteCommitment(IncomingNote(2))>>
          /\ notes = [k \in {1, 2} |-> IncomingNote(k)]
    /\ nullifiers = {}
    /\ approvalSk = CHOOSE first \in ApprovalSks : TRUE
    /\ tx = NoTx /\ opened = 0 /\ proofs = {} /\ outside = 0

Next ==
    \/ \E asset \in Assets \cup {DefaultAsset} : SpendNew(asset)
    \/ FreshAccNew
    \/ \E pos \in DOMAIN notes : AddInputNote(pos) \/ AddRejectedNote(pos)
    \/ \E amt \in OutAmounts : AddOutputNote(amt)
    \/ FillDinotes \/ FillDonotes
    \/ WithNewSpendKey
    \/ \E auth \in {DelegatedConsume, ConsumeKey(ConsumeSk)} : WithConsume(auth)
    \/ SpendBuild \/ FreshAccBuild
    \/ SpendSign \/ ConsumeSign \/ ApprovalSign
    \/ WithAccountPath \/ WithStateRoot \/ WithInputNotesPath \/ WithRejectedNotesPath
    \/ WithSubpoolProof
    \/ Prove \/ Discard
    \/ \E p \in proofs : Publish(p)
    \/ ForeignLeaf
    \/ \E k \in ApprovalSks : RotateApprovalKey(k)

Spec == Init /\ [][Next]_vars

-----------------------------------------------------------------------------
(* Properties *)

\* The reasons for which prove may refuse a transaction that into_priv_tx let through:
\* a full batch; notes added after the dummies; paths taken from different trees; a
\* signature missing or made with a key the pool configuration did not have.
FullBatch(t) == \E k \in {Len(t.inotes), Len(t.onotes)} : Len(t.rejected) + k >= NoteBatch
FilledTooEarly(t) ==
    \/ Len(t.dinotes) # NoteBatch - Len(t.inotes) - Len(t.rejected)
    \/ Len(t.donotes) # NoteBatch - Len(t.onotes) - Len(t.rejected)
PathsDiffer(t) ==
    t.kind = "spend" /\ \/ \E i \in DOMAIN t.inotes : t.inote_paths[i].root # t.accin_path.root
                        \/ \E i \in DOMAIN t.rejected : t.rejected_paths[i].root # t.accin_path.root
SignatureMissing(t) ==
    \/ t.onotes # <<>> /\ t.spend_sig = None
    \/ /\ t.onotes = <<>> /\ (t.inotes # <<>> \/ t.rejected # <<>>)
       /\ t.accin.consume.config /\ t.consume_sig = None
    \/ t.approval_sig = None
    \/ t.approval_sig # None /\ t.approval_sig.key # t.approval_key

\* Builders and circuit agree: a built transaction is refused by prove exactly for one of
\* the reasons above, whatever notes it has and however the calls were ordered.  The
\* native hashes, nullifier positions, tree updates and sums of the builders must all
\* match what the circuit derives.
ProvesUnlessExplained ==
    Built /\ IntoPrivTxSucceeds(tx) =>
        (Proves(tx) <=> ~(FullBatch(tx) \/ FilledTooEarly(tx) \/ PathsDiffer(tx) \/ SignatureMissing(tx)))

\* The padding transaction of FakeSpendTxBuilder can be proven against every root and
\* configuration, so an aggregation batch can always be filled.
PaddingAlwaysProves == tx = NoTx => PrivTxCircuit(FakeTx(Len(stateTree), approvalSk))

\* Of the account states committed on chain exactly one is unspent, and it is the one the
\* client holds; none before the account is activated.  Two transactions built from the
\* same state cannot both land.
LiveStates ==
    {c \in ToSet(stateTree) : c[1] = "AC" /\ NullifierOf(c, Me) \notin nullifiers}
OneLiveState == LiveStates = IF acc.nonce = 0 THEN {} ELSE {Commitment(acc)}

\* The client's value: its balance and the notes payable to it that are not spent.
Balance == SumFunction([a \in Tracked(acc.ast) |-> acc.ast.assets[a].amount])
UnspentNotes == {pos \in DOMAIN notes : NoteNullifier(notes[pos], pos, Me) \notin nullifiers}
Value == Balance + SumFunction([pos \in UnspentNotes |-> notes[pos].amt])

\* A transaction takes from the client exactly what it sent and what it returned: an
\* input note is credited once, and no balance is made or lost by an update.
ValueLeavesOnlyByNotes ==
    [][Value' + SumFunction([p \in proofs \ proofs' |-> Amounts(p.sent) + Amounts(p.returned)]) = Value
      ]_<<acc, notes, nullifiers, proofs>>

\* The balance shrinks only under the owner's spend signature over this very transaction,
\* and a note of an owner with its own consume key is consumed only under one of the
\* owner's signatures.
OwnerSigned(p, sig, pk) == sig # None /\ sig.key = pk /\ sig.msg = p.hash
OwnerAuthorises ==
    [][\A p \in proofs \ proofs' :
         /\ Balance' < Balance => OwnerSigned(p, p.spend_sig, acc.spend_pk)
         /\ acc.consume.config /\ UnspentNotes' # UnspentNotes =>
                \/ OwnerSigned(p, p.spend_sig, acc.spend_pk)
                \/ OwnerSigned(p, p.consume_sig, acc.consume.pk)]_proofs

\* The map of an account indexes its tree: every leaf belongs to exactly one tracked asset
\* and holds its amount, so the balance a client reads is the one its next proof opens.
MapIndexesLeaves ==
    \A t \in {acc.ast} \cup (IF Built THEN {tx.accout.ast} ELSE {}) :
        /\ \A a \in Tracked(t) : t.leaves[t.assets[a].index + 1] = Leaf(a, t.assets[a].amount)
        /\ Cardinality(Tracked(t)) = Len(t.leaves)

\* Doc of the public inputs: the effective output note commitments, a dummy only where the
\* slot is inactive.
EffectiveOutputsPublished ==
    \A p \in proofs : \A i \in DOMAIN p.sent : NoteCommitment(p.sent[i]) \in ToSet(p.public.onotes_comm)
=============================================================================

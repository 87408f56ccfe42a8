---------------------------- MODULE DoxaContract ----------------------------
(***************************************************************************)
(* The on-chain half of Doxa: doxa-solidity/src/DoxaContract.sol together  *)
(* with the append operation of IMTLib.sol.  Every external function that  *)
(* changes storage is one action; an EVM transaction is atomic and a       *)
(* revert changes nothing, so a revert condition is a negated guard.       *)
(*                                                                         *)
(* Hashes are collision resistant, hence each hash is represented by what  *)
(* it commits to: a piCommitment by the batch preimage, an IMT root by the *)
(* sequence of leaves under it, the config root by the function from leaf  *)
(* positions to leaves.  IMTLib and MerkleTree check that the hash-level   *)
(* algorithms agree with this reading.                                     *)
(***************************************************************************)
EXTENDS Integers, FiniteSets, Sequences, Functions

CONSTANTS
    Users,              \* addresses that deposit, own subpools, withdraw
    Operators,          \* addresses the operator role may be handed to
    ZeroAddress,        \* address(0)
    Verifiers,          \* deployed Groth16 verifier contracts
    Provable,           \* [Verifiers -> set of batch bodies they accept]
    Tokens,             \* ERC20 contracts
    AssetIds,           \* asset ids that may be registered
    LimbBase,           \* 2^32: what one u32 limb of the preimage can hold
    SubpoolIds,         \* subpool ids that may be assigned
    SubpoolRootVals,    \* values a subpool owner may post, 0 among them
    ConfigTreeDepth,    \* depth of the config tree
    TreeDepth,          \* depth of the incremental Merkle tree
    NoteComms,          \* deposit note commitments
    MaxAmounts,         \* amounts a depositor may ask to be pulled
    Fees,               \* what a fee-on-transfer token may keep
    Delays,             \* withdrawal delays the operator may set
    TxBodies,           \* private-transaction batches, header excluded
    BridgeBodies,       \* bridge-transaction batches, header excluded
    MaxBlock,           \* bound: block numbers explored
    MaxSubmissions      \* bound: batches ever submitted

\* A pending deposit is worth something, and 0 is the reserved asset id.
ASSUME AmountAssumption == MaxAmounts \subseteq Nat /\ Fees \subseteq Nat
ASSUME AssetAssumption == AssetIds \subseteq Nat \ {0} /\ LimbBase \in Nat \ {0}
ASSUME SubpoolAssumption == SubpoolIds \subseteq Nat \ {0}
                            /\ SubpoolRootVals \subseteq Nat
ASSUME DepthAssumption == ConfigTreeDepth \in Nat \ {0} /\ TreeDepth \in Nat \ {0}
\* Arithmetic of ^, which the provers' theories lack.
ASSUME WidthAssumption == 2^ConfigTreeDepth \in Nat \ {0} /\ 2^TreeDepth \in Nat
ASSUME BlockAssumption == MaxBlock \in Nat \ {0} /\ Delays \subseteq Nat /\ Delays # {}
ASSUME AddressAssumption == ZeroAddress \notin Users \cup Operators \cup Verifiers \cup Tokens
ASSUME RoleAssumption == Operators # {} /\ Verifiers # {}

VARIABLES
    operator, paused, txVerifier, bridgeTxVerifier,
    assetMap,               \* asset id -> token, or ZeroAddress
    subpoolOwners,          \* subpool id -> owner, or ZeroAddress
    subpoolRoots,           \* subpool id -> posted root, 0 at first
    mainPoolConfigRoot,     \* config tree: position -> leaf
    leaves,                 \* imt.leaves[0 .. leafCount-1]
    confirmedRoots,         \* imt.confirmedRoots
    nullifiers,             \* spent nullifiers
    pendingWithdrawals,     \* _pendingWithdrawals
    deposits,               \* note commitment -> Deposit
    withdrawalDelay,
    pendingTxBatches, confirmedTxBatches,
    pendingBridgeTxBatches, confirmedBridgeTxBatches,
    blockNumber,            \* block.number
    balance,                \* token -> balanceOf(this), kept by the token
    shielded                \* asset id -> value the circuits hold in accounts

adminVars   == <<operator, paused, txVerifier, bridgeTxVerifier, withdrawalDelay>>
configVars  == <<subpoolOwners, subpoolRoots, mainPoolConfigRoot>>
imtVars     == <<leaves, confirmedRoots>>
txVars      == <<pendingTxBatches, confirmedTxBatches>>
bridgeVars  == <<pendingBridgeTxBatches, confirmedBridgeTxBatches>>
valueVars   == <<pendingWithdrawals, deposits, balance, shielded>>
vars == <<adminVars, assetMap, configVars, imtVars, nullifiers, txVars,
          bridgeVars, valueVars, blockNumber>>

Addresses == Users \cup Operators

-----------------------------------------------------------------------------
(* Config tree.  Leaf of subpool id holding root r is compress(id, r); the   *)
(* zero leaf is the number 0.  A caller can name siblings that hash oldLeaf  *)
(* up to the root iff oldLeaf is the leaf at the position its id's low bits  *)
(* select.                                                                   *)

ZeroLeaf == <<>>
ConfigPositions == 0 .. (2^ConfigTreeDepth - 1)
ConfigLeaf(id, root) == <<id, root>>
ConfigLeaves == {ZeroLeaf} \cup (SubpoolIds \X SubpoolRootVals)
Position(id) == id % 2^ConfigTreeDepth

-----------------------------------------------------------------------------
(* Batch preimages: a body (slots and batchPoseidonRoot) under a header.     *)

Preimage(body, root, cfg) == [body |-> body, root |-> root, cfg |-> cfg]

\* Slots whose notFakeTx word is set; padding slots are ignored on chain.
Real(slots) == {s \in DOMAIN slots : slots[s].notFakeTx}

\* Nullifiers a private-transaction batch spends: the account's and the notes'.
TxNullifiers(body) ==
    UNION {{body.slots[s].accinNull} \cup body.slots[s].noteInNull : s \in Real(body.slots)}

\* Nullifiers a bridge batch spends: one account per withdraw or deposit slot.
BridgeNullifiers(body) ==
    {body.withdraws[s].accinNull : s \in Real(body.withdraws)}
        \cup {body.deposits[s].accinNull : s \in Real(body.deposits)}

\* Deposit notes a bridge batch validates.
DepositNotes(body) == {body.deposits[s].noteComm : s \in Real(body.deposits)}

\* A u64 field read by _cdGLU64: only its low u32 limb survives.
GLU64(x) == x % LimbBase

\* Any commitment a batch can name is a key of the deposits mapping.
ASSUME NoteAssumption == \A b \in BridgeBodies : DepositNotes(b) \subseteq NoteComms

\* The real slots of one batch name different accounts and deposits.  The contract
\* compares slots with storage only, not with each other: the batch builder is relied on.
ASSUME SlotAssumption ==
    \A b \in BridgeBodies : \A s, t \in Real(b.deposits) :
        /\ b.deposits[s].noteComm = b.deposits[t].noteComm => s = t
        /\ b.deposits[s].accinNull = b.deposits[t].accinNull => s = t

\* What a body may name: sixty-four-bit ids and amounts in a bounded number of slots, and an
\* asset that may be registered wherever value moves.
ASSUME FiniteAssumption == IsFiniteSet(AssetIds) /\ IsFiniteSet(NoteComms)
ASSUME BodyAssumption ==
    \A b \in BridgeBodies :
        /\ IsFiniteSet(Real(b.withdraws)) /\ IsFiniteSet(Real(b.deposits))
        /\ \A s \in Real(b.withdraws) :
            /\ IsFiniteSet(DOMAIN b.withdraws[s].assetIds)
            /\ \A j \in DOMAIN b.withdraws[s].assetIds :
                /\ b.withdraws[s].amounts[j] \in Nat
                /\ b.withdraws[s].amounts[j] # 0 => b.withdraws[s].assetIds[j] \in AssetIds
        /\ \A s \in Real(b.deposits) :
            b.deposits[s].amount \in Nat /\ b.deposits[s].assetId \in AssetIds

NoDeposit == [value |-> 0, recipient |-> ZeroAddress, status |-> "None",
              depositBlock |-> 0, assetId |-> 0]

\* Mutant: compares the two ids after truncating both.
SlotMatchesDeposit_Truncated(slot) ==
    /\ deposits[slot.noteComm].recipient = slot.ethAddress
    /\ deposits[slot.noteComm].value = slot.amount
    /\ GLU64(deposits[slot.noteComm].assetId) = GLU64(slot.assetId)

\* What a real deposit slot must repeat of the deposit it validates.
SlotMatchesDeposit(slot) ==
    /\ deposits[slot.noteComm].recipient = slot.ethAddress
    /\ deposits[slot.noteComm].value = slot.amount
    /\ deposits[slot.noteComm].assetId = GLU64(slot.assetId)

\* The queue entries a proven bridge batch adds, keyed by where they come from.
WithdrawalEntries(p) ==
    {[pi |-> p, slot |-> s,
      recipient |-> p.body.withdraws[s].recipient,
      assetIds |-> [j \in DOMAIN p.body.withdraws[s].assetIds |->
                        GLU64(p.body.withdraws[s].assetIds[j])],
      amounts |-> p.body.withdraws[s].amounts] : s \in Real(p.body.withdraws)}

\* Total of asset aid over the lines of one withdraw slot or one queue entry.
LineTotal(w, aid) ==
    SumFunction([j \in DOMAIN w.assetIds |-> IF w.assetIds[j] = aid THEN w.amounts[j] ELSE 0])

\* Total of asset aid over a set of queue entries.
Owed(entries, aid) == SumFunction([e \in entries |-> LineTotal(e, aid)])

-----------------------------------------------------------------------------
(* What a valid proof establishes (the circuits, seen from the contract):    *)
(* withdrawals are paid out of account balances, deposits credit them.       *)

\* Circuit-side asset totals of a batch, before the contract truncates ids.
WithdrawnFromAccounts(body, aid) ==
    SumFunction([s \in Real(body.withdraws) |-> LineTotal(body.withdraws[s], aid)])

CreditedToAccounts(body, aid) ==
    SumFunction([s \in Real(body.deposits) |-> IF body.deposits[s].assetId = aid
                                               THEN body.deposits[s].amount ELSE 0])

\* Accounts hold what the batch takes from them.
Funded(body) == \A aid \in AssetIds : WithdrawnFromAccounts(body, aid) <= shielded[aid]

-----------------------------------------------------------------------------
(* constructor *)

Init ==
    /\ operator \in Operators
    /\ paused = FALSE
    /\ txVerifier \in Verifiers
    /\ bridgeTxVerifier \in Verifiers
    /\ assetMap = [a \in AssetIds |-> ZeroAddress]
    /\ subpoolOwners = [id \in SubpoolIds |-> ZeroAddress]
    /\ subpoolRoots = [id \in SubpoolIds |-> 0]
    /\ mainPoolConfigRoot = [pos \in ConfigPositions |-> ZeroLeaf]
    /\ leaves = <<>>
    /\ confirmedRoots = {<<>>}
    /\ nullifiers = {}
    /\ pendingWithdrawals = {}
    /\ deposits = [n \in NoteComms |-> NoDeposit]
    /\ withdrawalDelay \in Delays
    /\ pendingTxBatches = {} /\ confirmedTxBatches = {}
    /\ pendingBridgeTxBatches = {} /\ confirmedBridgeTxBatches = {}
    /\ blockNumber = 1
    /\ balance = [t \in Tokens |-> 0]
    /\ shielded = [a \in AssetIds |-> 0]

-----------------------------------------------------------------------------
(* Access control and configuration: operator only, never paused. *)

OnlyOperator(sender) == sender = operator
WhenNotPaused == ~paused

SetTxVerifier(sender, v) ==
    /\ OnlyOperator(sender)
    /\ txVerifier' = v
    /\ UNCHANGED <<operator, paused, bridgeTxVerifier, withdrawalDelay, assetMap, configVars,
                   imtVars, nullifiers, txVars, bridgeVars, valueVars, blockNumber>>

SetBridgeTxVerifier(sender, v) ==
    /\ OnlyOperator(sender)
    /\ bridgeTxVerifier' = v
    /\ UNCHANGED <<operator, paused, txVerifier, withdrawalDelay, assetMap, configVars,
                   imtVars, nullifiers, txVars, bridgeVars, valueVars, blockNumber>>

SetOperator(sender, newOperator) ==
    /\ OnlyOperator(sender)
    /\ operator' = newOperator
    /\ UNCHANGED <<paused, txVerifier, bridgeTxVerifier, withdrawalDelay, assetMap, configVars,
                   imtVars, nullifiers, txVars, bridgeVars, valueVars, blockNumber>>

SetPaused(sender, p) ==
    /\ OnlyOperator(sender)
    /\ paused' = p
    /\ UNCHANGED <<operator, txVerifier, bridgeTxVerifier, withdrawalDelay, assetMap, configVars,
                   imtVars, nullifiers, txVars, bridgeVars, valueVars, blockNumber>>

SetWithdrawalDelay(sender, d) ==
    /\ OnlyOperator(sender)
    /\ withdrawalDelay' = d
    /\ UNCHANGED <<operator, paused, txVerifier, bridgeTxVerifier, assetMap, configVars,
                   imtVars, nullifiers, txVars, bridgeVars, valueVars, blockNumber>>

\* _tokenToAssetId is the inverse of assetMap, so a token is taken iff it is mapped to.
RegisterAsset(sender, aid, token) ==
    /\ OnlyOperator(sender)
    /\ assetMap[aid] = ZeroAddress
    /\ \A a \in AssetIds : assetMap[a] # token
    /\ assetMap' = [assetMap EXCEPT ![aid] = token]
    /\ UNCHANGED <<adminVars, configVars, imtVars, nullifiers, txVars, bridgeVars,
                   valueVars, blockNumber>>

-----------------------------------------------------------------------------
(* Subpool registry *)

AssignSubpoolOwner(sender, id, owner) ==
    /\ OnlyOperator(sender)
    /\ id # 1 => id - 1 \in SubpoolIds /\ subpoolOwners[id - 1] # ZeroAddress
    /\ subpoolOwners' = [subpoolOwners EXCEPT ![id] = owner]
    /\ UNCHANGED <<adminVars, assetMap, subpoolRoots, mainPoolConfigRoot, imtVars, nullifiers,
                   txVars, bridgeVars, valueVars, blockNumber>>

OldLeaf(id) == IF subpoolRoots[id] = 0 THEN ZeroLeaf ELSE ConfigLeaf(id, subpoolRoots[id])

\* Mutant: the old leaf is not checked against the current root.
UpdateSubpoolRoot_NoPathCheck(sender, id, newRoot) ==
    /\ WhenNotPaused
    /\ subpoolOwners[id] # ZeroAddress
    /\ sender = subpoolOwners[id]
    /\ subpoolRoots' = [subpoolRoots EXCEPT ![id] = newRoot]
    /\ mainPoolConfigRoot' = [mainPoolConfigRoot EXCEPT ![Position(id)] = ConfigLeaf(id, newRoot)]
    /\ UNCHANGED <<adminVars, assetMap, subpoolOwners, imtVars, nullifiers, txVars, bridgeVars,
                   valueVars, blockNumber>>

UpdateSubpoolRoot(sender, id, newRoot) ==
    /\ WhenNotPaused
    /\ subpoolOwners[id] # ZeroAddress
    /\ sender = subpoolOwners[id]
    /\ mainPoolConfigRoot[Position(id)] = OldLeaf(id)
    /\ subpoolRoots' = [subpoolRoots EXCEPT ![id] = newRoot]
    /\ mainPoolConfigRoot' = [mainPoolConfigRoot EXCEPT ![Position(id)] = ConfigLeaf(id, newRoot)]
    /\ UNCHANGED <<adminVars, assetMap, subpoolOwners, imtVars, nullifiers, txVars, bridgeVars,
                   valueVars, blockNumber>>

-----------------------------------------------------------------------------
(* Deposit lifecycle *)

\* _depositAndRegister: the recorded value is the balance difference, which a
\* fee-on-transfer token makes smaller than maxAmount.
RegisterDeposit(note, payer, aid, maxAmount, fee) ==
    LET token == assetMap[aid]
        value == maxAmount - fee
    IN  /\ deposits[note].status = "None"
        /\ maxAmount # 0
        /\ token # ZeroAddress
        /\ value > 0
        /\ balance' = [balance EXCEPT ![token] = @ + value]
        /\ deposits' = [deposits EXCEPT ![note] =
                           [value |-> value, recipient |-> payer, status |-> "Pending",
                            depositBlock |-> blockNumber, assetId |-> aid]]
        /\ UNCHANGED <<adminVars, assetMap, configVars, imtVars, nullifiers, txVars, bridgeVars,
                       pendingWithdrawals, shielded, blockNumber>>

DepositAndRegister(sender, note, aid, maxAmount, fee) ==
    WhenNotPaused /\ RegisterDeposit(note, sender, aid, maxAmount, fee)

\* Anyone may deposit for a payer who gave the contract an allowance.
DepositAndRegisterFor(sender, note, payer, aid, maxAmount, fee) ==
    WhenNotPaused /\ RegisterDeposit(note, payer, aid, maxAmount, fee)

WithdrawPendingDeposit(sender, note) ==
    LET dep == deposits[note]
        token == assetMap[dep.assetId]
    IN  /\ WhenNotPaused
        /\ dep.status = "Pending"
        /\ sender = dep.recipient
        /\ blockNumber >= dep.depositBlock + withdrawalDelay
        /\ balance[token] >= dep.value
        /\ deposits' = [deposits EXCEPT ![note].status = "Withdrawn"]
        /\ balance' = [balance EXCEPT ![token] = @ - dep.value]
        /\ UNCHANGED <<adminVars, assetMap, configVars, imtVars, nullifiers, txVars, bridgeVars,
                       pendingWithdrawals, shielded, blockNumber>>

-----------------------------------------------------------------------------
(* Batches: submit (operator), then prove (anyone) *)

Submitted == pendingTxBatches \cup confirmedTxBatches
                \cup pendingBridgeTxBatches \cup confirmedBridgeTxBatches

\* Headers a batch builder may have used: a root it has seen confirmed or one it
\* expects once a pending batch is proven, and a config root current at some time.
HeaderRoots == confirmedRoots \cup {Append(leaves, p.body.batchPoseidonRoot) : p \in Submitted}
HeaderConfigs == {mainPoolConfigRoot} \cup {p.cfg : p \in Submitted}

\* Mutant: any root is accepted.
HeaderCurrent_AnyRoot(p) == p.cfg = mainPoolConfigRoot

\* The two header checks of a submission.
HeaderCurrent(p) == p.root \in confirmedRoots /\ p.cfg = mainPoolConfigRoot

SubmitTransactionBatch(sender, p) ==
    /\ OnlyOperator(sender) /\ WhenNotPaused
    /\ HeaderCurrent(p)
    /\ p \notin confirmedTxBatches
    /\ p \notin pendingTxBatches
    /\ Cardinality(Submitted) < MaxSubmissions
    /\ pendingTxBatches' = pendingTxBatches \cup {p}
    /\ UNCHANGED <<adminVars, assetMap, configVars, imtVars, nullifiers, confirmedTxBatches,
                   bridgeVars, valueVars, blockNumber>>

SubmitBridgeTxBatch(sender, p) ==
    /\ OnlyOperator(sender) /\ WhenNotPaused
    /\ HeaderCurrent(p)
    /\ p \notin confirmedBridgeTxBatches
    /\ p \notin pendingBridgeTxBatches
    /\ Cardinality(Submitted) < MaxSubmissions
    /\ pendingBridgeTxBatches' = pendingBridgeTxBatches \cup {p}
    /\ UNCHANGED <<adminVars, assetMap, configVars, imtVars, nullifiers, txVars,
                   confirmedBridgeTxBatches, valueVars, blockNumber>>

\* Mutant: the pre-check of spent nullifiers is skipped.
NullifiersUnused_Skipped(ns) == TRUE

\* The pre-check over the real slots of a batch about to be proven.
NullifiersUnused(ns) == ns \cap nullifiers = {}

\* Mutant: only deposits never made are refused.
DepositsPending_NotNone(body) == \A n \in DepositNotes(body) : deposits[n].status # "None"

\* The pre-check over the deposit slots of a bridge batch about to be proven.
DepositsPending(body) == \A n \in DepositNotes(body) : deposits[n].status = "Pending"

\* IMTLib.appendLeaf: reverts when the tree is full; the new root is confirmed.
AppendLeaf(leaf) ==
    /\ Len(leaves) < 2^TreeDepth
    /\ leaves' = Append(leaves, leaf)
    /\ confirmedRoots' = confirmedRoots \cup {Append(leaves, leaf)}

ProveTransactionBatch(p) ==
    /\ WhenNotPaused
    /\ p \in pendingTxBatches
    /\ p.body \in Provable[txVerifier]
    /\ NullifiersUnused(TxNullifiers(p.body))
    /\ pendingTxBatches' = pendingTxBatches \ {p}
    /\ confirmedTxBatches' = confirmedTxBatches \cup {p}
    /\ nullifiers' = nullifiers \cup TxNullifiers(p.body)
    /\ AppendLeaf(p.body.batchPoseidonRoot)
    /\ UNCHANGED <<adminVars, assetMap, configVars, bridgeVars, valueVars, blockNumber>>

\* Mutant: the batch is not recorded as confirmed.
ProveBridgeTxBatch_NotConfirmed(p) ==
    /\ WhenNotPaused
    /\ p \in pendingBridgeTxBatches
    /\ p.body \in Provable[bridgeTxVerifier] /\ Funded(p.body)
    /\ NullifiersUnused(BridgeNullifiers(p.body))
    /\ DepositsPending(p.body)
    /\ \A s \in Real(p.body.deposits) : SlotMatchesDeposit(p.body.deposits[s])
    /\ pendingBridgeTxBatches' = pendingBridgeTxBatches \ {p}
    /\ confirmedBridgeTxBatches' = confirmedBridgeTxBatches
    /\ nullifiers' = nullifiers \cup BridgeNullifiers(p.body)
    /\ pendingWithdrawals' = pendingWithdrawals \cup WithdrawalEntries(p)
    /\ deposits' = [n \in NoteComms |-> IF n \in DepositNotes(p.body)
                                        THEN [deposits[n] EXCEPT !.status = "Validated"]
                                        ELSE deposits[n]]
    /\ AppendLeaf(p.body.batchPoseidonRoot)
    /\ shielded' = [a \in AssetIds |-> shielded[a] - WithdrawnFromAccounts(p.body, a)
                                                   + CreditedToAccounts(p.body, a)]
    /\ UNCHANGED <<adminVars, assetMap, configVars, txVars, balance, blockNumber>>

ProveBridgeTxBatch(p) ==
    /\ WhenNotPaused
    /\ p \in pendingBridgeTxBatches
    /\ p.body \in Provable[bridgeTxVerifier] /\ Funded(p.body)
    /\ NullifiersUnused(BridgeNullifiers(p.body))
    /\ DepositsPending(p.body)
    /\ \A s \in Real(p.body.deposits) : SlotMatchesDeposit(p.body.deposits[s])
    /\ pendingBridgeTxBatches' = pendingBridgeTxBatches \ {p}
    /\ confirmedBridgeTxBatches' = confirmedBridgeTxBatches \cup {p}
    /\ nullifiers' = nullifiers \cup BridgeNullifiers(p.body)
    /\ pendingWithdrawals' = pendingWithdrawals \cup WithdrawalEntries(p)
    /\ deposits' = [n \in NoteComms |-> IF n \in DepositNotes(p.body)
                                        THEN [deposits[n] EXCEPT !.status = "Validated"]
                                        ELSE deposits[n]]
    /\ AppendLeaf(p.body.batchPoseidonRoot)
    /\ shielded' = [a \in AssetIds |-> shielded[a] - WithdrawnFromAccounts(p.body, a)
                                                   + CreditedToAccounts(p.body, a)]
    /\ UNCHANGED <<adminVars, assetMap, configVars, txVars, balance, blockNumber>>

-----------------------------------------------------------------------------
(* flushPendingWithdrawals: pays every queued line or reverts; lines of asset *)
(* 0 or of an unregistered asset are dropped.                                 *)

Payout(token) == SumFunction([a \in AssetIds |-> IF assetMap[a] = token
                                                 THEN Owed(pendingWithdrawals, a) ELSE 0])

\* Mutant: the queue is paid and kept.
FlushPendingWithdrawals_KeepsQueue ==
    /\ \A t \in Tokens : balance[t] >= Payout(t)
    /\ balance' = [t \in Tokens |-> balance[t] - Payout(t)]
    /\ UNCHANGED <<adminVars, assetMap, configVars, imtVars, nullifiers, txVars, bridgeVars,
                   pendingWithdrawals, deposits, shielded, blockNumber>>

FlushPendingWithdrawals ==
    /\ \A t \in Tokens : balance[t] >= Payout(t)
    /\ balance' = [t \in Tokens |-> balance[t] - Payout(t)]
    /\ pendingWithdrawals' = {}
    /\ UNCHANGED <<adminVars, assetMap, configVars, imtVars, nullifiers, txVars, bridgeVars,
                   deposits, shielded, blockNumber>>

NextBlock ==
    /\ blockNumber < MaxBlock
    /\ blockNumber' = blockNumber + 1
    /\ UNCHANGED <<adminVars, assetMap, configVars, imtVars, nullifiers, txVars, bridgeVars,
                   valueVars>>

Next ==
    \/ \E sender \in Addresses :
        \/ \E v \in Verifiers : SetTxVerifier(sender, v) \/ SetBridgeTxVerifier(sender, v)
        \/ \E o \in Operators : SetOperator(sender, o)
        \/ \E b \in BOOLEAN : SetPaused(sender, b)
        \/ \E d \in Delays : SetWithdrawalDelay(sender, d)
        \/ \E aid \in AssetIds, t \in Tokens : RegisterAsset(sender, aid, t)
        \/ \E id \in SubpoolIds, owner \in Users : AssignSubpoolOwner(sender, id, owner)
        \/ \E id \in SubpoolIds, r \in SubpoolRootVals : UpdateSubpoolRoot(sender, id, r)
        \/ \E n \in NoteComms, aid \in AssetIds, m \in MaxAmounts, fee \in Fees :
            \/ DepositAndRegister(sender, n, aid, m, fee)
            \/ \E payer \in Users : DepositAndRegisterFor(sender, n, payer, aid, m, fee)
        \/ \E n \in NoteComms : WithdrawPendingDeposit(sender, n)
        \/ \E b \in TxBodies, r \in HeaderRoots, c \in HeaderConfigs :
            SubmitTransactionBatch(sender, Preimage(b, r, c))
        \/ \E b \in BridgeBodies, r \in HeaderRoots, c \in HeaderConfigs :
            SubmitBridgeTxBatch(sender, Preimage(b, r, c))
    \/ \E p \in pendingTxBatches : ProveTransactionBatch(p)
    \/ \E p \in pendingBridgeTxBatches : ProveBridgeTxBatch(p)
    \/ FlushPendingWithdrawals
    \/ NextBlock

Spec == Init /\ [][Next]_vars

-----------------------------------------------------------------------------
(* Properties *)

ConfigTrees == [ConfigPositions -> ConfigLeaves]
BatchRoots == {b.batchPoseidonRoot : b \in TxBodies \cup BridgeBodies}
TxPreimages == [body : TxBodies, root : Seq(BatchRoots), cfg : ConfigTrees]
BridgePreimages == [body : BridgeBodies, root : Seq(BatchRoots), cfg : ConfigTrees]
Statuses == {"None", "Pending", "Validated", "Withdrawn"}
DepositRecords == [value : Nat, recipient : Addresses \cup {ZeroAddress}, status : Statuses,
                   depositBlock : 0 .. MaxBlock, assetId : AssetIds \cup {0}]

\* Types of the contract's storage.  Queue entries are typed by where they come
\* from: each belongs to a real withdraw slot of a confirmed bridge batch.
TypeOK ==
    /\ operator \in Operators
    /\ paused \in BOOLEAN
    /\ txVerifier \in Verifiers /\ bridgeTxVerifier \in Verifiers
    /\ assetMap \in [AssetIds -> Tokens \cup {ZeroAddress}]
    /\ subpoolOwners \in [SubpoolIds -> Users \cup {ZeroAddress}]
    /\ subpoolRoots \in [SubpoolIds -> SubpoolRootVals \cup {0}]
    /\ mainPoolConfigRoot \in ConfigTrees
    /\ leaves \in Seq(BatchRoots)
    /\ confirmedRoots \subseteq Seq(BatchRoots)
    /\ IsFiniteSet(pendingWithdrawals)
    /\ pendingWithdrawals \subseteq UNION {WithdrawalEntries(p) : p \in confirmedBridgeTxBatches}
    /\ deposits \in [NoteComms -> DepositRecords]
    /\ withdrawalDelay \in Delays
    /\ pendingTxBatches \subseteq TxPreimages /\ confirmedTxBatches \subseteq TxPreimages
    /\ pendingBridgeTxBatches \subseteq BridgePreimages
    /\ confirmedBridgeTxBatches \subseteq BridgePreimages
    /\ blockNumber \in 1 .. MaxBlock
    /\ balance \in [Tokens -> Nat]
    /\ shielded \in [AssetIds -> Nat]

\* What the confirmed batches spent, private and bridge.
TxSpent == UNION {TxNullifiers(q.body) : q \in confirmedTxBatches}
BridgeSpent == UNION {BridgeNullifiers(q.body) : q \in confirmedBridgeTxBatches}

\* No nullifier is spent by two batches, private or bridge, whatever the order in
\* which batches that share an account or a note are submitted and proven, and the
\* nullifier set is exactly what the confirmed batches spent.
NoDoubleSpend ==
    /\ \A p, q \in confirmedTxBatches :
        p # q => TxNullifiers(p.body) \cap TxNullifiers(q.body) = {}
    /\ \A p, q \in confirmedBridgeTxBatches :
        p # q => BridgeNullifiers(p.body) \cap BridgeNullifiers(q.body) = {}
    /\ \A p \in confirmedTxBatches, q \in confirmedBridgeTxBatches :
        TxNullifiers(p.body) \cap BridgeNullifiers(q.body) = {}
    /\ nullifiers = TxSpent \cup BridgeSpent

\* A deposit is credited by at most one confirmed batch, it is Validated exactly
\* when one did, and that batch credited the recorded recipient, value and asset;
\* so a deposit taken back with withdrawPendingDeposit is never credited as well.
DepositCreditedOnce ==
    /\ \A n \in NoteComms : deposits[n].status = "Validated" <=>
        \E p \in confirmedBridgeTxBatches : n \in DepositNotes(p.body)
    /\ \A p, q \in confirmedBridgeTxBatches :
        p # q => DepositNotes(p.body) \cap DepositNotes(q.body) = {}
    /\ \A p \in confirmedBridgeTxBatches : \A s \in Real(p.body.deposits) :
        SlotMatchesDeposit(p.body.deposits[s])

\* Value recorded for asset aid in deposits neither credited nor taken back.
PendingValue(aid) ==
    SumFunction([n \in NoteComms |-> IF deposits[n].status = "Pending" /\ deposits[n].assetId = aid
                                     THEN deposits[n].value ELSE 0])

\* Account-held value that withdraw slots can name as contract asset aid.
ShieldedAs(aid) == SumFunction([a \in AssetIds |-> IF GLU64(a) = aid THEN shielded[a] ELSE 0])

\* The token balance backs, exactly, the pending deposits, the value in accounts
\* and the queued withdrawals of its asset; no other asset is owed, so flush never
\* silently skips a line and never runs short.
EscrowBacksClaims ==
    \A aid \in AssetIds :
        LET claims == PendingValue(aid) + ShieldedAs(aid) + Owed(pendingWithdrawals, aid)
        IN  IF assetMap[aid] = ZeroAddress THEN claims = 0 ELSE balance[assetMap[aid]] = claims

\* The config tree and subpoolRoots agree: every non-zero leaf is some subpool's
\* currently posted root and no posted root is displaced by another subpool, also
\* when ids beyond the tree's width share a leaf position.
ConfigLeavesCurrent ==
    /\ \A id \in SubpoolIds : subpoolRoots[id] # 0 =>
        mainPoolConfigRoot[Position(id)] = ConfigLeaf(id, subpoolRoots[id])
    /\ \A pos \in ConfigPositions :
        \/ mainPoolConfigRoot[pos] = ZeroLeaf
        \/ \E id \in SubpoolIds : /\ Position(id) = pos
                                  /\ subpoolOwners[id] # ZeroAddress
                                  /\ mainPoolConfigRoot[pos] = ConfigLeaf(id, subpoolRoots[id])

\* The tree holds one leaf per confirmed batch, and the leaf of a batch comes after
\* every leaf under the root the batch was proven against: no batch can spend an
\* output of itself or of a batch that is not yet in the tree.
LeafFollowsItsRoot ==
    /\ Len(leaves) = Cardinality(confirmedTxBatches) + Cardinality(confirmedBridgeTxBatches)
    /\ \A p \in confirmedTxBatches \cup confirmedBridgeTxBatches :
        \E i \in DOMAIN leaves : /\ leaves[i] = p.body.batchPoseidonRoot
                                 /\ Len(p.root) < i
                                 /\ p.root = SubSeq(leaves, 1, Len(p.root))

\* A deposit record is written once; afterwards only its status moves, from Pending
\* to Validated (prove) or to Withdrawn (withdrawPendingDeposit), and not back.
DepositLifecycle ==
    [][\A n \in NoteComms :
        deposits[n].status # "None" /\ deposits'[n] # deposits[n] =>
            /\ deposits[n].status = "Pending"
            /\ \E st \in {"Validated", "Withdrawn"} :
                deposits'[n] = [deposits[n] EXCEPT !.status = st]]_vars

=============================================================================

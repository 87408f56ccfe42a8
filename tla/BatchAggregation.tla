-------------------------- MODULE BatchAggregation --------------------------
(***************************************************************************)
(* doxa-server: how proofs become a batch, how the aggregation circuits    *)
(* reduce the batch to one preimage, and how the contract and the          *)
(* state-sync service take that preimage apart again.  A field element is  *)
(* <<v, k>>, limb k of the value v; a u32 word is a field element with its *)
(* half.  Hashes are injective: a commitment is the list it hashes.        *)
(***************************************************************************)
EXTENDS Naturals, Sequences, SequencesExt

CONSTANTS
    NOTE_BATCH,         \* notes per private transaction (7)
    Arity,              \* children per aggregation level (8, 4)
    TxDepth,            \* levels of the private aggregator (2)
    PairDepth           \* levels of the pair aggregator (4)

PRIV_TX_BATCH_SIZE == Arity^TxDepth
BRIDGE_TX_HALF_SIZE == Arity^PairDepth
SUBTREE_BATCHSIZE == PRIV_TX_BATCH_SIZE * (1 + NOTE_BATCH)

\* GenericAggregatorConfig::validate, of an aggregator with that many levels.
validate(depth) == depth # 0 /\ (\E k \in 1 .. 9 : Arity = 2^k) /\ Arity^depth <= 512

\* Both aggregators are valid, and one subtree size serves both kinds of batch.
ASSUME SizeAssumption ==
    /\ {NOTE_BATCH, Arity, TxDepth, PairDepth} \subseteq Nat
    /\ validate(TxDepth) /\ validate(PairDepth)
    /\ SUBTREE_BATCHSIZE = 2 * BRIDGE_TX_HALF_SIZE

Limbs(v, n) == [k \in 1 .. n |-> <<v, k>>]
Hash(v) == Limbs(v, 4)
Concat(f(_), n) == FlattenSeq([j \in 1 .. n |-> f(j)])

\* s[from .. from + len) in the code's counting from 0.
Slice(s, from, len) == SubSeq(s, from + 1, from + len)

-----------------------------------------------------------------------------
(* Public inputs of the leaf circuits                                        *)

PrefixPis(t) ==
    Hash(<<"root", t.root>>) \o Hash(<<"config", t.config>>) \o Limbs(<<"real", t.real>>, 1) \o Hash(<<"AN", t.id>>) \o Hash(<<"AC", t.id>>)

PrivPis(t) ==
    LET Null(j) == Hash(<<"NN", t.id, j>>)
        Comm(j) == Hash(<<"NC", t.id, j>>)
    IN  PrefixPis(t) \o Concat(Null, NOTE_BATCH) \o Concat(Comm, NOTE_BATCH)

WithdrawPis(t) ==
    LET AssetId(j) == Limbs(<<"asset", t.id, j>>, 1)
        Amount(j) == Limbs(<<"amount", t.id, j>>, 8)
    IN  PrefixPis(t) \o Concat(AssetId, NOTE_BATCH) \o Concat(Amount, NOTE_BATCH) \o Limbs(<<"addr", t.id>>, 5)

DepositPis(t) ==
    PrefixPis(t) \o Hash(<<"note", t.id>>) \o Limbs(<<"eth", t.id>>, 5) \o Limbs(<<"amount", t.id>>, 8)
        \o Limbs(<<"asset", t.id>>, 1)

\* PIHelper
batch_common_pis(pis) == Slice(pis, 0, 8)
batch_unique_pis(pis) == SubSeq(pis, 9, Len(pis))
accout_commitment(pis) == Slice(pis, 13, 4)

\* Mutant: the leaves of a slot are its input nullifiers.
output_commitments_Inputs(pis, kind) ==
    IF kind = "priv"
    THEN <<accout_commitment(pis)>> \o [j \in 1 .. NOTE_BATCH |-> Slice(pis, 17 + (j - 1) * 4, 4)]
    ELSE <<accout_commitment(pis)>>

output_commitments(pis, kind) ==
    IF kind = "priv"
    THEN <<accout_commitment(pis)>>
            \o [j \in 1 .. NOTE_BATCH |-> Slice(pis, 17 + 4 * NOTE_BATCH + (j - 1) * 4, 4)]
    ELSE <<accout_commitment(pis)>>

\* push_fields: every element as its low, then its high word.
Words(fields) == [w \in 1 .. 2 * Len(fields) |-> <<fields[(w + 1) \div 2], IF w % 2 = 1 THEN "lo" ELSE "hi">>]

-----------------------------------------------------------------------------
(* The Poseidon subtree over a batch's output commitments                    *)

\* compute_root_native: level by level, in place.
compute_root_native(leaves) ==
    LET levels == CHOOSE d \in 0 .. Len(leaves) : 2^d = Len(leaves)
        Halve(nodes, l) ==
            SubSeq(FoldLeft(LAMBDA ns, i : [ns EXCEPT ![i] = <<ns[2 * i - 1], ns[2 * i]>>],
                            nodes, [i \in 1 .. Len(nodes) \div 2 |-> i]),
                   1, Len(nodes) \div 2)
    IN  FoldLeft(Halve, leaves, [l \in 1 .. levels |-> l])[1]

\* The root a MerkleTree of 2^d leaves has: what state-sync opens leaves against.
SubtreeRoot(leaves) ==
    LET node[l \in 0 .. Len(leaves), i \in 1 .. Len(leaves)] ==
            IF l = 0 THEN leaves[i] ELSE <<node[l - 1, 2 * i - 1], node[l - 1, 2 * i]>>
    IN  node[CHOOSE d \in 0 .. Len(leaves) : 2^d = Len(leaves), 1]

-----------------------------------------------------------------------------
(* Batches                                                                   *)

NoRoot == <<>>
NewBatch(kind) == [kind |-> kind, w |-> <<>>, d |-> <<>>, batch_poseidon_root |-> NoRoot]

\* A private batch keeps its proofs in w.
Half(t) == IF t.leaf = "deposit" THEN "d" ELSE "w"
HalfSize(b) == IF b.kind = "priv" THEN PRIV_TX_BATCH_SIZE ELSE BRIDGE_TX_HALF_SIZE
is_empty(b) == b.w = <<>> /\ b.d = <<>>
is_finalized(b) == b.batch_poseidon_root # NoRoot
is_full(b) == Len(b.w) = HalfSize(b) /\ (b.kind = "bridge" => Len(b.d) = HalfSize(b))

FirstOf(b) == IF b.w # <<>> THEN b.w[1] ELSE b.d[1]
CommonOf(t) == <<t.root, t.config>>

\* Mutant: only the state root is compared.
CanAdd_StateRootOnly(b, t) ==
    /\ ~is_full(b) /\ ~is_finalized(b)
    /\ ~is_empty(b) => t.root = FirstOf(b).root
    /\ Len(b[Half(t)]) < HalfSize(b)

CanAdd(b, t) ==
    /\ ~is_full(b) /\ ~is_finalized(b)
    /\ ~is_empty(b) => CommonOf(t) = CommonOf(FirstOf(b))
    /\ Len(b[Half(t)]) < HalfSize(b)

add_proof(b, t) == [b EXCEPT ![Half(t)] = Append(@, t)]

\* FakeSpendTxBuilder, FakeWithdrawTxBuilder, FakeDepositTxBuilder.
Padding(b, leaf) == [FirstOf(b) EXCEPT !.leaf = leaf, !.id = <<leaf, 0>>, !.real = FALSE]

\* Mutant: every padding slot is a copy of the batch's first proof.
Padded_CopiesFirst(b, half, leaf) ==
    b[half] \o [k \in 1 .. HalfSize(b) - Len(b[half]) |-> [FirstOf(b) EXCEPT !.leaf = leaf]]

Padded(b, half, leaf) == b[half] \o [k \in 1 .. HalfSize(b) - Len(b[half]) |-> Padding(b, leaf)]

PisOf(t) ==
    CASE t.leaf = "priv" -> PrivPis(t) [] t.leaf = "withdraw" -> WithdrawPis(t) [] OTHER -> DepositPis(t)

\* proofs(): withdrawals first.
ProofPis(b) == [s \in 1 .. Len(b.w \o b.d) |-> PisOf((b.w \o b.d)[s])]
Leaves(b) == Concat(LAMBDA s : output_commitments(ProofPis(b)[s], b.kind), Len(b.w \o b.d))

CanFinalize(b) == ~is_empty(b) /\ ~is_finalized(b)

finalize(b) ==
    LET full == IF b.kind = "priv" THEN [b EXCEPT !.w = Padded(b, "w", "priv")]
                ELSE [b EXCEPT !.w = Padded(b, "w", "withdraw"), !.d = Padded(b, "d", "deposit")]
    IN  [full EXCEPT !.batch_poseidon_root = compute_root_native(Leaves(full))]

pi_preimage_words(b) ==
    Words(Hash(<<"SR", b.batch_poseidon_root>>))
        \o Words(batch_common_pis(ProofPis(b)[1]))
        \o Concat(LAMBDA s : Words(batch_unique_pis(ProofPis(b)[s])), Len(ProofPis(b)))

-----------------------------------------------------------------------------
(* Aggregation circuits: the public inputs of each proof, and what it asserts *)

\* Mutant: the last chunk of a level comes first.
aggregate_Rotated(leafPis, depth) ==
    FoldLeft(LAMBDA level, l : LET n == Len(level) \div Arity IN
                [g \in 1 .. n |-> FlattenSeq(Slice(level, ((g % n)) * Arity, Arity))],
             leafPis, [l \in 1 .. depth |-> l])[1]

\* aggregate: every level proves chunks of Arity and passes the inputs through.
aggregate(leafPis, depth) ==
    FoldLeft(LAMBDA level, l :
                [g \in 1 .. Len(level) \div Arity |-> FlattenSeq(Slice(level, (g - 1) * Arity, Arity))],
             leafPis, [l \in 1 .. depth |-> l])[1]

\* build_pair_leaf
PairLeaf(w, d) == batch_common_pis(w) \o batch_unique_pis(w) \o batch_unique_pis(d)
PairAsserts(w, d) == batch_common_pis(w) = batch_common_pis(d)

\* SubtreeRootCircuit: root, then all leaves.
SubtreePis(leaves) == Hash(<<"SR", compute_root_native(leaves)>>) \o FlattenSeq(leaves)
sr_leaf(sr, i) == Slice(sr, 4 + i * 4, 4)

\* TxCircuitPublicTargets::from_pis, by the cursor of split_at.
SlotTargets(pis) ==
    [root |-> Slice(pis, 0, 4), config |-> Slice(pis, 4, 4), flag |-> Slice(pis, 8, 1),
     accin |-> Slice(pis, 9, 4), accout |-> Slice(pis, 13, 4), nulls |-> Slice(pis, 17, 4 * NOTE_BATCH),
     comms |-> Slice(pis, 17 + 4 * NOTE_BATCH, 4 * NOTE_BATCH)]

PrivPiSize == 17 + 8 * NOTE_BATCH

\* setup_super_builder of the private aggregator.
PrivSuper(tx, sr) ==
    LET slots == [s \in 1 .. PRIV_TX_BATCH_SIZE |-> SlotTargets(Slice(tx, (s - 1) * PrivPiSize, PrivPiSize))]
        Comms(s) == <<slots[s].accout>> \o [j \in 1 .. NOTE_BATCH |-> Slice(slots[s].comms, (j - 1) * 4, 4)]
        Unique(s) == slots[s].flag \o slots[s].accin \o slots[s].accout \o slots[s].nulls \o slots[s].comms
    IN  [ok |-> \A s \in 1 .. PRIV_TX_BATCH_SIZE :
                    /\ \A j \in 0 .. NOTE_BATCH : Comms(s)[j + 1] = sr_leaf(sr, (s - 1) * (1 + NOTE_BATCH) + j)
                    /\ slots[s].root = slots[1].root /\ slots[s].config = slots[1].config,
         preimage |-> Words(Slice(sr, 0, 4) \o slots[1].root \o slots[1].config)
                        \o Words(Concat(Unique, PRIV_TX_BATCH_SIZE))]

WUniqueSize == 9 + NOTE_BATCH + 8 * NOTE_BATCH + 5
DUniqueSize == 27
ACCOUT_COMM_UNIQUE_OFF == 5
PairPiSize == 8 + WUniqueSize + DUniqueSize

\* setup_super_builder of the bridge aggregator.
BridgeSuper(pairs, sr) ==
    LET base(s) == (s - 1) * PairPiSize
        W(s) == Slice(pairs, base(s) + 8, WUniqueSize)
        D(s) == Slice(pairs, base(s) + 8 + WUniqueSize, DUniqueSize)
    IN  [ok |-> \A s \in 1 .. BRIDGE_TX_HALF_SIZE :
                    /\ Slice(W(s), ACCOUT_COMM_UNIQUE_OFF, 4) = sr_leaf(sr, s - 1)
                    /\ Slice(D(s), ACCOUT_COMM_UNIQUE_OFF, 4) = sr_leaf(sr, BRIDGE_TX_HALF_SIZE + s - 1)
                    /\ Slice(pairs, base(s), 8) = Slice(pairs, 0, 8),
         preimage |-> Words(Slice(sr, 0, 4) \o Slice(pairs, 0, 8)) \o Words(Concat(W, BRIDGE_TX_HALF_SIZE))
                        \o Words(Concat(D, BRIDGE_TX_HALF_SIZE))]

\* PrivTxAggregator::prove.
PrivTxSuperProof(b) == PrivSuper(aggregate(ProofPis(b), TxDepth), SubtreePis(Leaves(b)))

\* BridgeTxAggregator::prove: withdrawal s is paired with deposit s.
BridgeTxSuperProof(b) ==
    LET pis == ProofPis(b)
        H == BRIDGE_TX_HALF_SIZE
        pairs == [s \in 1 .. H |-> PairLeaf(pis[s], pis[H + s])]
        super == BridgeSuper(aggregate(pairs, PairDepth), SubtreePis(Leaves(b)))
    IN  [super EXCEPT !.ok = @ /\ \A s \in 1 .. H : PairAsserts(pis[s], pis[H + s])]

SuperProof(b) == IF b.kind = "priv" THEN PrivTxSuperProof(b) ELSE BridgeTxSuperProof(b)

-----------------------------------------------------------------------------
(* The contract's readers of the preimage, at byte offsets                   *)

TX_HEADER_SIZE == 96
TX_SLOT_SIZE == 8 + 32 + 32 + NOTE_BATCH * 32 + NOTE_BATCH * 32
W_SLOT_SIZE == 8 + 32 + 32 + NOTE_BATCH * 8 + NOTE_BATCH * 64 + 40
D_SLOT_SIZE == 8 + 32 + 32 + 32 + 40 + 64 + 8
D_SECTION_OFF == 96 + BRIDGE_TX_HALF_SIZE * W_SLOT_SIZE
W_AMT_OFF == 72 + NOTE_BATCH * 8
W_ETH_ADDR_OFF == W_AMT_OFF + NOTE_BATCH * 64

\* _cdB32 and _glHashToU256: eight words, put together again as four elements.
B32(pre, off) ==
    LET w == Slice(pre, off \div 4, 8)
    IN  [k \in 1 .. 4 |-> IF w[2 * k - 1][1] = w[2 * k][1] THEN w[2 * k - 1][1] ELSE w]
Bool(pre, off) == pre[off \div 4 + 1] # <<<<<<"real", FALSE>>, 1>>, "lo">>
\* _cdGLU64, _cdGLU256, _cdGLAddress: the low words of n elements.
LowWords(pre, off, n) == [k \in 1 .. n |-> pre[off \div 4 + 2 * k - 1]]

TxSlot(pre, s) ==
    LET off == TX_HEADER_SIZE + s * TX_SLOT_SIZE
    IN  [real |-> Bool(pre, off), accin |-> B32(pre, off + 8),
         nulls |-> [j \in 1 .. NOTE_BATCH |-> B32(pre, off + 72 + (j - 1) * 32)]]

WSlot(pre, s) ==
    LET off == 96 + s * W_SLOT_SIZE
    IN  [real |-> Bool(pre, off), accin |-> B32(pre, off + 8),
         assets |-> [j \in 1 .. NOTE_BATCH |-> LowWords(pre, off + 72 + (j - 1) * 8, 1)],
         amounts |-> [j \in 1 .. NOTE_BATCH |-> LowWords(pre, off + W_AMT_OFF + (j - 1) * 64, 8)],
         addr |-> LowWords(pre, off + W_ETH_ADDR_OFF, 5)]

DSlot(pre, s) ==
    LET off == D_SECTION_OFF + s * D_SLOT_SIZE
    IN  [real |-> Bool(pre, off), accin |-> B32(pre, off + 8),
         note |-> B32(pre, off + 72), eth |-> LowWords(pre, off + 104, 5),
         amount |-> LowWords(pre, off + 144, 8), asset |-> LowWords(pre, off + 208, 1)]

-----------------------------------------------------------------------------
(* The state-sync service's readers, with the literals of its constants.rs    *)

\* Mutant: the output notes are looked for one note too early.
SyncTx_NoteOutEarly == [slot |-> 520, accin |-> 8, accout |-> 40, noteIn |-> 72, noteOut |-> 264]

SyncTx == [slot |-> 520, accin |-> 8, accout |-> 40, noteIn |-> 72, noteOut |-> 296]
SyncW == [slot |-> 616, accin |-> 8, accout |-> 40]
SyncD == [slot |-> 216, accin |-> 8, accout |-> 40]

\* Where slot s begins.
SyncTxOff(s) == 96 + s * SyncTx.slot
SyncWOff(s) == 96 + s * SyncW.slot
SyncDOff(s) == 96 + BRIDGE_TX_HALF_SIZE * SyncW.slot + s * SyncD.slot

\* apply_tx_preimage, apply_bridge_preimage: the leaves recorded, each with its index in the
\* subtree, and the nullifiers recorded, those of real slots.
SyncWrites(pre, kind) ==
    IF kind = "priv"
    THEN UNION {{<<s * 8, B32(pre, SyncTxOff(s) + SyncTx.accout)>>}
                    \cup {<<s * 8 + j + 1, B32(pre, SyncTxOff(s) + SyncTx.noteOut + j * 32)>> : j \in 0 .. 6}
                : s \in 0 .. PRIV_TX_BATCH_SIZE - 1}
    ELSE UNION {{<<s, B32(pre, SyncWOff(s) + SyncW.accout)>>,
                 <<BRIDGE_TX_HALF_SIZE + s, B32(pre, SyncDOff(s) + SyncD.accout)>>}
                : s \in 0 .. BRIDGE_TX_HALF_SIZE - 1}

SyncNullifiers(pre, kind) ==
    LET AccIn(offs, accin) == {B32(pre, off + accin) : off \in {o \in offs : Bool(pre, o)}}
        TxOffs == {SyncTxOff(s) : s \in 0 .. PRIV_TX_BATCH_SIZE - 1}
        WOffs == {SyncWOff(s) : s \in 0 .. BRIDGE_TX_HALF_SIZE - 1}
        DOffs == {SyncDOff(s) : s \in 0 .. BRIDGE_TX_HALF_SIZE - 1}
    IN  IF kind = "priv"
        THEN AccIn(TxOffs, SyncTx.accin)
                \cup UNION {{B32(pre, off + SyncTx.noteIn + j * 32) : j \in 0 .. 6} : off \in {o \in TxOffs : Bool(pre, o)}}
        ELSE AccIn(WOffs, SyncW.accin) \cup AccIn(DOffs, SyncD.accin)

\* pending_batch_leaves: zero where nothing was written.
SyncLeaves(pre, kind) ==
    LET writes == SyncWrites(pre, kind)
    IN  [i \in 1 .. SUBTREE_BATCHSIZE |->
            IF \E x \in writes : x[1] = i - 1 THEN (CHOOSE x \in writes : x[1] = i - 1)[2] ELSE <<>>]
=============================================================================

----------------------------- MODULE ProofBatch -----------------------------
(***************************************************************************)
(* PrivateTxBatch and BridgeTxBatch of doxa-server: a batch takes proofs   *)
(* one by one until it is full or finalized, and is then read by the       *)
(* aggregation circuits, by the contract and by the state-sync service.    *)
(***************************************************************************)
EXTENDS BatchAggregation, FiniteSets

CONSTANTS
    StateRoots, ConfigRoots,    \* roots that proofs are made against
    MaxRepeats                  \* bound: repeated proofs in a batch

VARIABLES
    batch,      \* the open batch: [kind, w, d, batch_poseidon_root]
    taken       \* the proofs it took, by half

batchVars == <<batch, taken>>

NoBatch == NewBatch("none")
NoProofs == [w |-> <<>>, d |-> <<>>]

BatchInit == batch = NoBatch /\ taken = NoProofs

OpenBatch(kind) ==
    /\ batch = NoBatch
    /\ batch' = NewBatch(kind)
    /\ UNCHANGED taken

Repeats(half) == Len(half) - Cardinality(ToSet(half))

\* A proof is new or, as add_proof does not compare proofs, one the batch already has.
AddProof(leaf, n, root, config) ==
    LET t == [leaf |-> leaf, id |-> <<leaf, n>>, real |-> TRUE, root |-> root, config |-> config]
    IN  /\ batch.kind = (IF leaf = "priv" THEN "priv" ELSE "bridge")
        /\ n <= Len(batch[Half(t)]) + 1 - Repeats(batch[Half(t)])
        /\ CanAdd(batch, t)
        /\ batch' = add_proof(batch, t)
        /\ taken' = [taken EXCEPT ![Half(t)] = Append(@, t)]
        /\ Repeats(taken'.w) + Repeats(taken'.d) <= MaxRepeats

Finalize ==
    /\ CanFinalize(batch)
    /\ batch' = finalize(batch)
    /\ UNCHANGED taken

Fill ==
    \/ \E leaf \in {"priv", "withdraw", "deposit"}, n \in 1 .. SUBTREE_BATCHSIZE, r \in StateRoots, c \in ConfigRoots :
           AddProof(leaf, n, r, c)
    \/ Finalize

-----------------------------------------------------------------------------
(* Properties *)

\* Whatever the mix of real and padding proofs, the aggregation circuits accept a
\* finalized batch, and the commitment they compute is over the very preimage that
\* pi_preimage_bytes gives the contract.
FinalizedBatchProves ==
    is_finalized(batch) =>
        LET proof == SuperProof(batch)
        IN  proof.ok /\ proof.preimage = pi_preimage_words(batch)

\* What the contract reads at its fixed offsets is what the proofs the batch took say, slot by
\* slot and note by note, for both kinds; every other slot reads as fake; and state-sync,
\* reading at its own offsets, records the nullifiers the contract marks as spent.
ContractReadsBatch ==
    is_finalized(batch) =>
        LET pre == pi_preimage_words(batch)
            Low(v, n) == [k \in 1 .. n |-> <<<<v, k>>, "lo">>]
            Reads(slot, t) == slot.real /\ slot.accin = Hash(<<"AN", t.id>>)
            TxReads(slot, t) == \A j \in 1 .. NOTE_BATCH : slot.nulls[j] = Hash(<<"NN", t.id, j>>)
            WReads(slot, t) ==
                /\ slot.addr = Low(<<"addr", t.id>>, 5)
                /\ \A j \in 1 .. NOTE_BATCH : /\ slot.assets[j] = Low(<<"asset", t.id, j>>, 1)
                                              /\ slot.amounts[j] = Low(<<"amount", t.id, j>>, 8)
            DReads(slot, t) ==
                /\ slot.note = Hash(<<"note", t.id>>) /\ slot.eth = Low(<<"eth", t.id>>, 5)
                /\ slot.amount = Low(<<"amount", t.id>>, 8) /\ slot.asset = Low(<<"asset", t.id>>, 1)
            Real(slots) == {slot \in slots : slot.real}
        IN  IF batch.kind = "priv"
            THEN LET slot == [s \in 1 .. PRIV_TX_BATCH_SIZE |-> TxSlot(pre, s - 1)] IN
                 /\ \A s \in DOMAIN slot :
                        IF s <= Len(taken.w) THEN Reads(slot[s], taken.w[s]) /\ TxReads(slot[s], taken.w[s])
                        ELSE ~slot[s].real
                 /\ SyncNullifiers(pre, "priv") =
                        UNION {{x.accin} \cup ToSet(x.nulls) : x \in Real(ToSet(slot))}
            ELSE LET w == [s \in 1 .. BRIDGE_TX_HALF_SIZE |-> WSlot(pre, s - 1)]
                     d == [s \in 1 .. BRIDGE_TX_HALF_SIZE |-> DSlot(pre, s - 1)]
                 IN
                 /\ \A s \in DOMAIN w :
                        IF s <= Len(taken.w) THEN Reads(w[s], taken.w[s]) /\ WReads(w[s], taken.w[s])
                        ELSE ~w[s].real
                 /\ \A s \in DOMAIN d :
                        IF s <= Len(taken.d) THEN Reads(d[s], taken.d[s]) /\ DReads(d[s], taken.d[s])
                        ELSE ~d[s].real
                 /\ SyncNullifiers(pre, "bridge") =
                        {x.accin : x \in Real(ToSet(w))} \cup {x.accin : x \in Real(ToSet(d))}

\* Every commitment opens: the leaves state-sync records from the preimage, at its own
\* offsets and indices, hash in the tree it builds for them to the batch root the contract
\* appends.
CommittedLeavesOpen ==
    is_finalized(batch) =>
        LET pre == pi_preimage_words(batch)
        IN  B32(pre, 0) = Hash(<<"SR", SubtreeRoot(SyncLeaves(pre, batch.kind))>>)
=============================================================================

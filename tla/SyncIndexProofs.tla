--------------------------- MODULE SyncIndexProofs ---------------------------
(***************************************************************************)
(* Proofs about the batch index of the state-sync service: between polls   *)
(* it is exactly the chain's as of last_synced_block, batches, nullifiers  *)
(* and outputs.  And about its config tree: idle at the head of a quiet    *)
(* chain it is the contract's.                                             *)
(***************************************************************************)
EXTENDS StateSyncProofs

\* Batches in the two pending maps, and in the two confirmed ones.
Pend(s) == s.pendingTx \cup s.pendingBridge
Conf(s) == s.confirmedTx \cup s.confirmedBridge

\* The sequencer puts a transaction into one batch only.
BatchedOnce == ~Rebatching

\* Batches that spend nothing in common have no output in common: a commitment binds the
\* nullifier of the account that makes it.
OutputsFollowInputs ==
    \A p, q \in Preimages : Nullifiers(p) \cap Nullifiers(q) = {} => p.body.outputs \cap q.body.outputs = {}

\* What was submitted spends apart, and the log names only what was submitted.
SpentApart == \A p, q \in Submitted : p # q => Nullifiers(p) \cap Nullifiers(q) = {}
LogSubmitted == \A b \in Blocks : log[b].submitted \subseteq Submitted

\* The secondary indexes of s agree with its batches: a batch is pending or confirmed, its
\* outputs are located under it, and its nullifiers are on the side it is on.
Indexed(s) ==
    /\ Pend(s) \cap Conf(s) = {}
    /\ \A p \in Held(s) : \A c \in p.body.outputs :
        \E l \in s.commitments : l.comm = c /\ l.pi = p /\ (p \in Conf(s) => l.confirmed)
    /\ \A p \in Pend(s) : \A n \in Nullifiers(p) :
        \E x \in s.pendingNullifiers : x.null = n /\ x.pi = p
    /\ \A x \in s.pendingNullifiers : x.pi \in Pend(s)
    /\ s.confirmedNullifiers = UNION {Nullifiers(p) : p \in Conf(s)}

\* Every batch whose leaf the mirror has is confirmed.
LeavesConfirmed(s) ==
    \A b \in Blocks : \A e \in log[b].proven : e.leafIndex < Len(s.leaves) => e.pi \in Conf(s)

\* Everything submitted up to last_synced_block is held, the submissions of the window too
\* once they are processed, and nothing else than submissions of mined blocks is pending.
SubmissionsKept ==
    /\ Pend(st) \subseteq Submissions(1, HeadBlock)
    /\ Submissions(1, st.lastSynced) \subseteq Held(st)
    /\ phase \in {"collect", "proven", "config", "roots", "rebuild", "deposits"} =>
        Submissions(FromBlock, ToBlock) \subseteq Held(st)

\* The inductive invariant of the batch index.
IndexInv == SpentApart /\ LogSubmitted /\ Indexed(st) /\ LeavesConfirmed(st) /\ SubmissionsKept

-----------------------------------------------------------------------------
(* The chain *)

\* A contract step submits at most one batch, one the sequencer let through, and forgets
\* none.
LEMMA SubmittedMoves ==
    ASSUME ChainStep \/ MineBlock
    PROVE  \/ Submitted' = Submitted
           \/ \E p : Sequenced(p) /\ Submitted' = Submitted \cup {p}
<1> USE DEF Submitted, txVars, bridgeVars
<1>1. CASE MineBlock
  BY <1>1 DEF MineBlock, NextBlock
<1>2. CASE ChainStep
  <2> PICK sender \in Addresses :
        \/ \E aid \in AssetIds, t \in Tokens : RegisterAsset(sender, aid, t)
        \/ \E id \in SubpoolIds, owner \in Users : AssignSubpoolOwner(sender, id, owner)
        \/ \E id \in SubpoolIds, r \in SubpoolRootVals : UpdateSubpoolRoot(sender, id, r)
        \/ \E n \in NoteComms, aid \in AssetIds, m \in MaxAmounts, fee \in Fees :
            DepositAndRegister(sender, n, aid, m, fee)
        \/ \E n \in NoteComms : WithdrawPendingDeposit(sender, n)
        \/ \E b \in TxBodies, r \in HeaderRoots, c \in HeaderConfigs :
            Sequenced(Preimage(b, r, c)) /\ SubmitTransactionBatch(sender, Preimage(b, r, c))
        \/ \E b \in BridgeBodies, r \in HeaderRoots, c \in HeaderConfigs :
            Sequenced(Preimage(b, r, c)) /\ SubmitBridgeTxBatch(sender, Preimage(b, r, c))
        \/ \E p \in pendingTxBatches : ProveTransactionBatch(p)
        \/ \E p \in pendingBridgeTxBatches : ProveBridgeTxBatch(p)
    BY <1>2 DEF ChainStep
  <2>1. ASSUME NEW aid, NEW t, RegisterAsset(sender, aid, t) PROVE Submitted' = Submitted
    BY <2>1 DEF RegisterAsset
  <2>2. ASSUME NEW id, NEW owner, AssignSubpoolOwner(sender, id, owner) PROVE Submitted' = Submitted
    BY <2>2 DEF AssignSubpoolOwner
  <2>3. ASSUME NEW id, NEW r, UpdateSubpoolRoot(sender, id, r) PROVE Submitted' = Submitted
    BY <2>3 DEF UpdateSubpoolRoot
  <2>4. ASSUME NEW n, NEW aid, NEW m, NEW fee, DepositAndRegister(sender, n, aid, m, fee)
        PROVE  Submitted' = Submitted
    BY <2>4 DEF DepositAndRegister, RegisterDeposit
  <2>5. ASSUME NEW n, WithdrawPendingDeposit(sender, n) PROVE Submitted' = Submitted
    BY <2>5 DEF WithdrawPendingDeposit
  <2>6. ASSUME NEW p, SubmitTransactionBatch(sender, p) \/ SubmitBridgeTxBatch(sender, p)
        PROVE  Submitted' = Submitted \cup {p}
    BY <2>6 DEF SubmitTransactionBatch, SubmitBridgeTxBatch
  <2>7. ASSUME NEW p \in pendingTxBatches, ProveTransactionBatch(p) PROVE Submitted' = Submitted
    BY <2>7 DEF ProveTransactionBatch
  <2>8. ASSUME NEW p \in pendingBridgeTxBatches, ProveBridgeTxBatch(p) PROVE Submitted' = Submitted
    BY <2>8 DEF ProveBridgeTxBatch
  <2> HIDE DEF Submitted
  <2> QED
    BY <2>1, <2>2, <2>3, <2>4, <2>5, <2>6, <2>7, <2>8
<1> QED
  BY <1>1, <1>2

\* The chain keeps submitted batches apart, and logs what it records.
LEMMA ChainSubmits ==
    ASSUME BatchedOnce, TypeOK, SyncTyped, SpentApart, LogSubmitted, ChainStep \/ MineBlock
    PROVE  SpentApart' /\ LogSubmitted'
<1>1. Submitted \subseteq Submitted'
  BY SubmittedMoves
<1>2. SpentApart'
  <2>1. CASE Submitted' = Submitted
    BY <2>1 DEF SpentApart
  <2>2. ASSUME NEW p, Sequenced(p), Submitted' = Submitted \cup {p} PROVE SpentApart'
    <3>1. \A q \in Submitted : Nullifiers(q) \cap Nullifiers(p) = {}
      BY <2>2 DEF Sequenced, BatchedOnce
    <3>2. \A q, r \in Submitted \cup {p} : q # r => Nullifiers(q) \cap Nullifiers(r) = {}
      BY <3>1 DEF SpentApart
    <3> QED
      BY <2>2, <3>2 DEF SpentApart
  <2> QED
    BY <2>1, <2>2, SubmittedMoves
<1>3. LogSubmitted'
  <2>1. CASE MineBlock
    BY <1>1, <2>1 DEF MineBlock, LogSubmitted
  <2>2. CASE ChainStep
    <3>1. blockNumber \in Blocks
      BY WindowTyped
    <3>2. /\ \A c \in Blocks : c # blockNumber => log'[c] = log[c]
          /\ log'[blockNumber].submitted = log[blockNumber].submitted \cup (Pending' \ Pending)
      BY <2>2, <3>1, EmitAt DEF ChainStep, SyncTyped
    <3>3. Pending' \subseteq Submitted'
      BY DEF Pending, Submitted
    <3> QED
      BY <1>1, <3>1, <3>2, <3>3 DEF LogSubmitted
  <2> QED
    BY <2>1, <2>2
<1> QED
  BY <1>2, <1>3

-----------------------------------------------------------------------------
(* The operations on the state *)

\* The nullifiers indexed after apply, and what is held.
AppliedAs(s, p, t) ==
    /\ Pend(t) = Pend(s) \cup {p} /\ Conf(t) = Conf(s)
    /\ t.leaves = s.leaves /\ t.lastSynced = s.lastSynced
    /\ t.confirmedNullifiers = s.confirmedNullifiers
    /\ t.commitments = {l \in s.commitments : l.comm \notin p.body.outputs}
                \cup {[comm |-> c, pi |-> p, confirmed |-> FALSE] : c \in p.body.outputs}
    /\ t.pendingNullifiers = {x \in s.pendingNullifiers : x.null \notin Nullifiers(p)}
                \cup {[null |-> n, pi |-> p] : n \in Nullifiers(p)}

\* What an applied preimage changes of the index.
LEMMA ApplyIndexes ==
    ASSUME NEW s, IsState(s), NEW p
    PROVE  AppliedAs(s, p, ApplyPreimage(s, p))
<1> DEFINE t == ApplyPreimage(s, p)
<1>1. Kind(p) \in {"tx", "bridge"}
  BY DEF Kind
<1>2. /\ t.pendingTx = IF Kind(p) = "tx" THEN s.pendingTx \cup {p} ELSE s.pendingTx
      /\ t.pendingBridge = IF Kind(p) = "bridge" THEN s.pendingBridge \cup {p} ELSE s.pendingBridge
      /\ t.confirmedTx = s.confirmedTx /\ t.confirmedBridge = s.confirmedBridge
      /\ t.leaves = s.leaves /\ t.lastSynced = s.lastSynced
      /\ t.confirmedNullifiers = s.confirmedNullifiers
  BY ApplyPreimageFields DEF PreimageApplied
<1>3. Pend(t) = Pend(s) \cup {p} /\ Conf(t) = Conf(s)
  <2> HIDE DEF t
  <2> QED
    BY <1>1, <1>2 DEF Pend, Conf
<1>4. /\ t.commitments = {l \in s.commitments : l.comm \notin p.body.outputs}
                \cup {[comm |-> c, pi |-> p, confirmed |-> FALSE] : c \in p.body.outputs}
      /\ t.pendingNullifiers = {x \in s.pendingNullifiers : x.null \notin Nullifiers(p)}
                \cup {[null |-> n, pi |-> p] : n \in Nullifiers(p)}
  BY DEF ApplyPreimage, IsState, NewState
<1> QED
  BY <1>2, <1>3, <1>4 DEF AppliedAs

\* A preimage with nothing in common with those held is indexed beside them.
LEMMA ApplyIndexed ==
    ASSUME NEW s, NEW t, NEW p, Indexed(s), AppliedAs(s, p, t), p \notin Held(s),
           \A q \in Held(s) : /\ Nullifiers(q) \cap Nullifiers(p) = {}
                              /\ q.body.outputs \cap p.body.outputs = {},
           \A x \in s.pendingNullifiers : x.null \in Nullifiers(x.pi)
    PROVE  Indexed(t)
<1>0. Held(s) = Pend(s) \cup Conf(s) /\ Held(t) = Pend(t) \cup Conf(t)
  BY DEF Held, Pend, Conf
<1>1. Pend(t) = Pend(s) \cup {p} /\ Conf(t) = Conf(s) /\ p \notin Conf(s) /\ p \notin Pend(s)
      /\ t.confirmedNullifiers = s.confirmedNullifiers
  BY <1>0 DEF AppliedAs
<1>2. Pend(t) \cap Conf(t) = {}
  BY <1>1 DEF Indexed
<1>3. ASSUME NEW q \in Held(t), NEW c \in q.body.outputs
      PROVE  \E l \in t.commitments : l.comm = c /\ l.pi = q /\ (q \in Conf(t) => l.confirmed)
  <2>1. CASE q = p
    <3>1. [comm |-> c, pi |-> p, confirmed |-> FALSE] \in t.commitments
      BY <2>1 DEF AppliedAs
    <3> QED
      BY <1>1, <2>1, <3>1
  <2>2. CASE q # p
    <3>1. q \in Held(s)
      BY <1>0, <1>1, <2>2
    <3>2. PICK l \in s.commitments : l.comm = c /\ l.pi = q /\ (q \in Conf(s) => l.confirmed)
      BY <3>1 DEF Indexed
    <3>3. c \notin p.body.outputs
      BY <3>1
    <3>4. l \in t.commitments
      BY <3>2, <3>3 DEF AppliedAs
    <3> QED
      BY <1>1, <3>2, <3>4
  <2> QED
    BY <2>1, <2>2
<1>4. ASSUME NEW q \in Pend(t), NEW n \in Nullifiers(q)
      PROVE  \E x \in t.pendingNullifiers : x.null = n /\ x.pi = q
  <2>1. CASE q = p
    <3>1. [null |-> n, pi |-> p] \in t.pendingNullifiers
      BY <2>1 DEF AppliedAs
    <3> QED
      BY <2>1, <3>1
  <2>2. CASE q # p
    <3>1. q \in Pend(s) /\ q \in Held(s)
      BY <1>0, <1>1, <2>2
    <3>2. PICK x \in s.pendingNullifiers : x.null = n /\ x.pi = q
      BY <3>1 DEF Indexed
    <3>3. x \in t.pendingNullifiers
      BY <3>1, <3>2 DEF AppliedAs
    <3> QED
      BY <3>2, <3>3
  <2> QED
    BY <2>1, <2>2
<1>5. ASSUME NEW x \in t.pendingNullifiers PROVE x.pi \in Pend(t)
  <2>1. CASE x \in s.pendingNullifiers
    BY <1>1, <2>1 DEF Indexed
  <2>2. CASE x \notin s.pendingNullifiers
    <3>1. PICK n \in Nullifiers(p) : x = [null |-> n, pi |-> p]
      BY <2>2 DEF AppliedAs
    <3> QED
      BY <1>1, <3>1
  <2> QED
    BY <2>1, <2>2
<1>6. t.confirmedNullifiers = UNION {Nullifiers(q) : q \in Conf(t)}
  BY <1>1 DEF Indexed
<1> QED
  BY <1>2, <1>3, <1>4, <1>5, <1>6 DEF Indexed

\* Confirming a pending batch moves it, its nullifiers and its outputs to the other side.
LEMMA ConfirmIndexed ==
    ASSUME NEW s, NEW t, NEW p, NEW root, Indexed(s), ConfirmedAs(s, p, root, t), p \in Pend(s),
           OwnNullifiers(s), LocationsTyped(s)
    PROVE  Indexed(t) /\ Pend(t) = Pend(s) \ {p} /\ Conf(t) = Conf(s) \cup {p}
<1>0. Held(s) = Pend(s) \cup Conf(s) /\ Held(t) = Pend(t) \cup Conf(t)
  BY DEF Held, Pend, Conf
<1>1. Pend(t) = Pend(s) \ {p} /\ Conf(t) = Conf(s) \cup {p}
  BY DEF ConfirmedAs, Pend, Conf
<1>2. Pend(t) \cap Conf(t) = {}
  BY <1>1 DEF Indexed
<1>3. ASSUME NEW q \in Held(t), NEW c \in q.body.outputs
      PROVE  \E l \in t.commitments : l.comm = c /\ l.pi = q /\ (q \in Conf(t) => l.confirmed)
  <2>1. q \in Held(s)
    BY <1>0, <1>1
  <2>2. PICK l \in s.commitments : l.comm = c /\ l.pi = q /\ (q \in Conf(s) => l.confirmed)
    BY <2>1 DEF Indexed
  <2>3. t.commitments = Marked(s, p) /\ DOMAIN l = {"comm", "pi", "confirmed"}
    BY <2>2 DEF ConfirmedAs, LocationsTyped
  <2>4. CASE q = p
    <3>1. [l EXCEPT !.confirmed = TRUE] \in t.commitments
      BY <2>2, <2>3, <2>4 DEF Marked
    <3>2. /\ [l EXCEPT !.confirmed = TRUE].comm = l.comm
          /\ [l EXCEPT !.confirmed = TRUE].pi = l.pi
          /\ [l EXCEPT !.confirmed = TRUE].confirmed
      BY <2>3
    <3> QED
      BY <2>2, <3>1, <3>2
  <2>5. CASE q # p
    <3>1. l \in t.commitments
      BY <2>2, <2>3, <2>5 DEF Marked
    <3> QED
      BY <1>1, <2>2, <2>5, <3>1
  <2> QED
    BY <2>4, <2>5
<1>4. t.pendingNullifiers = SpentElsewhere(s, p)
      /\ t.confirmedNullifiers = s.confirmedNullifiers \cup SpentIn(s, p)
  BY DEF ConfirmedAs
<1>5. ASSUME NEW q \in Pend(t), NEW n \in Nullifiers(q)
      PROVE  \E x \in t.pendingNullifiers : x.null = n /\ x.pi = q
  BY <1>1, <1>4 DEF Indexed, SpentElsewhere
<1>6. ASSUME NEW x \in t.pendingNullifiers PROVE x.pi \in Pend(t)
  BY <1>1, <1>4 DEF Indexed, SpentElsewhere
<1>7. SpentIn(s, p) = Nullifiers(p)
  <2>1. ASSUME NEW n \in Nullifiers(p) PROVE n \in SpentIn(s, p)
    <3>1. PICK x \in s.pendingNullifiers : x.null = n /\ x.pi = p
      BY DEF Indexed
    <3> QED
      BY <3>1 DEF SpentIn
  <2>2. ASSUME NEW n \in SpentIn(s, p) PROVE n \in Nullifiers(p)
    <3>1. PICK x \in s.pendingNullifiers : x.pi = p /\ n = x.null
      BY DEF SpentIn
    <3> QED
      BY <3>1 DEF OwnNullifiers
  <2> QED
    BY <2>1, <2>2
<1>8. t.confirmedNullifiers = UNION {Nullifiers(q) : q \in Conf(t)}
  BY <1>1, <1>4, <1>7 DEF Indexed
<1> QED
  BY <1>1, <1>2, <1>3, <1>5, <1>6, <1>8 DEF Indexed

-----------------------------------------------------------------------------
(* Every step *)

\* A step of the chain adds leaves beyond the mirror and events beyond the window.
LEMMA ChainIndexInv ==
    ASSUME BatchedOnce, TypeOK, TypeOK', BatchesApart, SyncTyped, MirrorInv, IndexInv,
           ChainStep \/ MineBlock, UNCHANGED syncVars
    PROVE  IndexInv'
<1>0. /\ st' = st /\ phase' = phase /\ window' = window
      /\ SpentApart /\ LogSubmitted /\ Indexed(st) /\ LeavesConfirmed(st) /\ SubmissionsKept
  BY DEF syncVars, IndexInv
<1>1. SpentApart' /\ LogSubmitted'
  BY <1>0, ChainSubmits
<1>2. Indexed(st)'
  BY <1>0 DEF Indexed, Pend, Conf, Held
<1>3. LeavesConfirmed(st)'
  <2>1. /\ leaves \in Seq(BatchRoots) /\ st.leaves \in Seq(BatchRoots)
        /\ IsPrefix(st.leaves, leaves)
    BY DEF TypeOK, MirrorInv, MirrorState, MirrorIsPrefix
  <2>2. ~(Len(leaves) < Len(st.leaves))
    <3>1. Len(st.leaves) <= Len(leaves)
      BY <2>1, PrefixLeaves
    <3> QED
      BY <2>1, <3>1
  <2>3. \A c \in Blocks : \A e \in log'[c].proven :
            e \in log[c].proven \/ ~(e.leafIndex < Len(st.leaves))
    BY <2>2, LogGrows
  <2> QED
    BY <1>0, <2>3 DEF LeavesConfirmed, Conf
<1>4. /\ window.from \in Nat /\ window.to < blockNumber /\ window.to \in Nat
      /\ st.lastSynced \in Nat /\ st.lastSynced < blockNumber
      /\ blockNumber \in Blocks /\ Blocks = 1 .. MaxBlock /\ MaxBlock \in Nat
  BY WindowTyped
<1>5. \A c \in 1 .. blockNumber - 1 : log'[c] = log[c]
  <2>1. \A c \in 1 .. blockNumber - 1 : c \in Blocks /\ c < blockNumber
    BY <1>4
  <2> QED
    BY <2>1, LogGrows
<1>6. /\ Submissions(1, st.lastSynced)' = Submissions(1, st.lastSynced)
      /\ Submissions(FromBlock, ToBlock)' = Submissions(FromBlock, ToBlock)
  <2>1. 1 .. st.lastSynced \subseteq 1 .. blockNumber - 1
    BY <1>4
  <2>2. window.from + 1 .. window.to \subseteq 1 .. blockNumber - 1
    BY <1>4
  <2> QED
    BY <1>0, <1>5, <2>1, <2>2 DEF Submissions, FromBlock, ToBlock
<1>7. Submissions(1, HeadBlock) \subseteq Submissions(1, HeadBlock)'
  <2>1. blockNumber' = blockNumber \/ blockNumber' = blockNumber + 1
    BY ChainKeepsBlock DEF MineBlock, NextBlock
  <2>2. 1 .. blockNumber - 1 \subseteq 1 .. blockNumber' - 1
    BY <1>4, <2>1
  <2> QED
    BY <1>5, <2>2 DEF Submissions, HeadBlock
<1>8. SubmissionsKept'
  BY <1>0, <1>6, <1>7 DEF SubmissionsKept, Pend, Held
<1> QED
  BY <1>1, <1>2, <1>3, <1>8 DEF IndexInv

\* What may be applied: a submitted batch that is not held has nothing in common with
\* those that are.
LEMMA FreshBatch ==
    ASSUME OutputsFollowInputs, TypeOK, SyncTyped, ConfirmedInv, IndexInv,
           NEW p \in Submitted, p \notin Held(st)
    PROVE  /\ Indexed(ApplyPreimage(st, p))
           /\ AppliedAs(st, p, ApplyPreimage(st, p))
<1>1. Submitted \subseteq Preimages
  BY BatchesTyped DEF Submitted, Pending, Confirmed
<1>2. Submissions(1, HeadBlock) \subseteq Submitted
  <2>1. 1 .. HeadBlock \subseteq Blocks
    BY WindowTyped DEF HeadBlock
  <2> QED
    BY <2>1 DEF IndexInv, LogSubmitted, Submissions
<1>3. Held(st) \subseteq Submitted
  <2>1. Pend(st) \subseteq Submitted
    BY <1>2 DEF IndexInv, SubmissionsKept
  <2>2. Conf(st) \subseteq Submitted
    BY DEF ConfirmedInv, Sound, Truthful, Conf, Submitted
  <2> QED
    BY <2>1, <2>2 DEF Held, Pend, Conf
<1>4. ASSUME NEW q \in Held(st)
      PROVE  /\ Nullifiers(q) \cap Nullifiers(p) = {}
             /\ q.body.outputs \cap p.body.outputs = {}
  <2>1. q # p /\ q \in Submitted /\ q \in Preimages /\ p \in Preimages
    BY <1>1, <1>3
  <2>2. Nullifiers(q) \cap Nullifiers(p) = {}
    BY <2>1 DEF IndexInv, SpentApart
  <2> QED
    BY <2>1, <2>2 DEF OutputsFollowInputs
<1>5. IsState(st) /\ \A x \in st.pendingNullifiers : x.null \in Nullifiers(x.pi)
  BY DEF SyncTyped, ConfirmedInv, Sound, OwnNullifiers
<1>6. AppliedAs(st, p, ApplyPreimage(st, p))
  BY <1>5, ApplyIndexes
<1>7. Indexed(st)
  BY DEF IndexInv
<1>8. Indexed(ApplyPreimage(st, p))
  BY <1>4, <1>5, <1>6, <1>7, ApplyIndexed
<1> QED
  BY <1>6, <1>8

\* Confirming the next entry moves its batch to the confirmed side, and nothing else.
LEMMA ConfirmIndex ==
    ASSUME OutputsFollowInputs, TypeOK, NoDoubleSpend, SyncTyped, ConfirmedInv, MirrorInv,
           IndexInv, ConfirmEntry
    PROVE  /\ Indexed(st')
           /\ Pend(st') \subseteq Pend(st) /\ Held(st) \subseteq Held(st')
           /\ Conf(st') = Conf(st) \cup {NextEntry.pi}
<1> DEFINE e == NextEntry
           s == Prepared(NextEntry)
<1>0. LeafLog /\ MirrorState /\ IsState(st) /\ Indexed(st)
  BY DEF MirrorInv, SyncTyped, IndexInv
<1>1. phase = "proven" /\ todo # {} /\ st' = ConfirmBatch(s, e)
  BY DEF ConfirmEntry, Prepared
<1>2. e.pi \notin Conf(st) /\ e \in todo
  BY <1>0, <1>1, NextEntryMirror DEF Conf
<1>3. e.pi \in Submitted
  BY <1>2 DEF ConfirmedInv, TodoOnChain, OnChain, Confirmed, Submitted
<1>4. /\ Indexed(s) /\ OwnNullifiers(s) /\ LocationsTyped(s) /\ e.pi \in Pend(s)
      /\ Pend(s) \subseteq Pend(st) \cup {e.pi} /\ Pend(st) \subseteq Pend(s)
      /\ Conf(s) = Conf(st) /\ IsState(s)
  <2>1. CASE Known(e.pi)
    <3>1. s = st /\ e.pi \in Pend(st)
      BY <2>1 DEF Prepared, Known, Pend
    <3> QED
      BY <1>0, <3>1 DEF ConfirmedInv, Sound
  <2>2. CASE ~Known(e.pi)
    <3>1. s = ApplyPreimage(st, e.pi)
      BY <2>2 DEF Prepared
    <3>2. e.pi \notin Held(st)
      BY <1>2, <2>2 DEF Known, Held, Conf
    <3>3. Indexed(s) /\ AppliedAs(st, e.pi, s)
      BY <1>3, <3>1, <3>2, FreshBatch
    <3>4. OwnNullifiers(s) /\ LocationsTyped(s) /\ IsState(s)
      <4>1. IsState(s)
        BY <1>0, PreparedFields
      <4>2. OwnNullifiers(s)
        <5> SUFFICES ASSUME NEW x \in s.pendingNullifiers PROVE x.null \in Nullifiers(x.pi)
          BY DEF OwnNullifiers
        <5>1. x \in st.pendingNullifiers \/ \E n \in Nullifiers(e.pi) : x = [null |-> n, pi |-> e.pi]
          BY <3>3 DEF AppliedAs
        <5> QED
          BY <5>1 DEF ConfirmedInv, Sound, OwnNullifiers
      <4>3. LocationsTyped(s)
        <5> SUFFICES ASSUME NEW l \in s.commitments PROVE DOMAIN l = {"comm", "pi", "confirmed"}
          BY DEF LocationsTyped
        <5>1. l \in st.commitments
              \/ \E c \in e.pi.body.outputs : l = [comm |-> c, pi |-> e.pi, confirmed |-> FALSE]
          BY <3>3 DEF AppliedAs
        <5> QED
          BY <5>1 DEF ConfirmedInv, Sound, LocationsTyped
      <4> QED
        BY <4>1, <4>2, <4>3
    <3> QED
      BY <3>3, <3>4 DEF AppliedAs
  <2> QED
    BY <2>1, <2>2
<1>5. ConfirmedAs(s, e.pi, e.newTreeRoot, st')
  BY <1>1, <1>4, ConfirmBatchFields
<1> HIDE DEF s
<1>6. Indexed(st') /\ Pend(st') = Pend(s) \ {e.pi} /\ Conf(st') = Conf(s) \cup {e.pi}
  BY <1>4, <1>5, ConfirmIndexed
<1>7. Held(st) = Pend(st) \cup Conf(st) /\ Held(st') = Pend(st') \cup Conf(st')
  BY DEF Held, Pend, Conf
<1> QED
  BY <1>4, <1>6, <1>7

\* Steps of the service keep its index, provided calls fail early.
LEMMA ServiceIndexInv ==
    ASSUME OutputsFollowInputs, FailsEarly, TypeOK, NoDoubleSpend, SyncTyped, ConfirmedInv,
           MirrorInv, IndexInv, SyncStep \/ RpcFailure \/ Crash, UNCHANGED chainVars
    PROVE  IndexInv'
<1> DEFINE Done == {"collect", "proven", "config", "roots", "rebuild", "deposits"}
           InWindow == Submissions(window'.from + 1, window'.to)
           Kept == /\ Pend(st') \subseteq Submissions(1, HeadBlock)
                   /\ Submissions(1, st'.lastSynced) \subseteq Held(st')
                   /\ phase' \in Done => InWindow \subseteq Held(st')
<1>0. /\ log' = log /\ Submitted' = Submitted /\ HeadBlock' = HeadBlock /\ IsState(st)
      /\ SpentApart /\ LogSubmitted /\ Indexed(st) /\ LeavesConfirmed(st) /\ LeafLog /\ MirrorState
  BY DEF chainVars, vars, txVars, bridgeVars, Submitted, HeadBlock, SyncTyped, IndexInv, MirrorInv
<1>1. /\ Pend(st) \subseteq Submissions(1, HeadBlock)
      /\ Submissions(1, st.lastSynced) \subseteq Held(st)
      /\ phase \in Done => Submissions(window.from + 1, window.to) \subseteq Held(st)
  BY DEF IndexInv, SubmissionsKept, FromBlock, ToBlock
<1>2. ASSUME Indexed(st'), LeavesConfirmed(st'), Kept PROVE IndexInv'
  <2>1. SpentApart' /\ LogSubmitted'
    BY <1>0 DEF SpentApart, LogSubmitted
  <2>2. Indexed(st)' /\ LeavesConfirmed(st)'
    BY <1>0, <1>2 DEF Indexed, Held, Pend, Conf, LeavesConfirmed
  <2>3. SubmissionsKept'
    BY <1>0, <1>2 DEF SubmissionsKept, Submissions, Held, Pend, FromBlock, ToBlock
  <2> QED
    BY <2>1, <2>2, <2>3 DEF IndexInv
<1>3. ASSUME SameBatches(st, st')
      PROVE  /\ Indexed(st') /\ LeavesConfirmed(st')
             /\ Pend(st') = Pend(st) /\ Held(st') = Held(st)
  BY <1>0, <1>3 DEF SameBatches, Indexed, LeavesConfirmed, Pend, Conf, Held
<1>4. st' = st => SameBatches(st, st')
  BY DEF SameBatches
<1> HIDE DEF Kept
<1>5. CASE StartGenesis \/ Crash
  <2>1. st' = NewState /\ phase' \in {"down", "txSubs"}
    BY <1>5 DEF StartGenesis, Crash
  <2>2. /\ Pend(NewState) = {} /\ Conf(NewState) = {} /\ Held(NewState) = {}
        /\ NewState.leaves = <<>> /\ NewState.lastSynced = 0
        /\ NewState.commitments = {} /\ NewState.pendingNullifiers = {}
        /\ NewState.confirmedNullifiers = {}
    BY NewStateFields DEF Pend, Conf, Held
  <2>3. Indexed(NewState)
    BY <2>2 DEF Indexed
  <2>4. LeavesConfirmed(NewState)
    <3>1. \A c \in Blocks : \A e \in log[c].proven : e.leafIndex \in Nat
      <4>1. \A c \in Blocks : log[c].proven \subseteq Entries
        BY DEF SyncTyped, Events
      <4> QED
        BY <4>1 DEF Entries
    <3>2. Len(NewState.leaves) = 0
      BY <2>2
    <3> QED
      BY <3>1, <3>2 DEF LeavesConfirmed
  <2>5. Kept
    <3>1. Submissions(1, 0) = {}
      BY DEF Submissions
    <3> QED
      BY <2>1, <2>2, <3>1 DEF Kept
  <2> QED
    BY <1>2, <2>1, <2>3, <2>4, <2>5
<1>6. CASE StartPoll
  <2>1. st' = st /\ phase' = "txSubs"
    BY <1>6 DEF StartPoll
  <2>2. Kept
    BY <1>1, <2>1 DEF Kept
  <2> QED
    BY <1>2, <1>3, <1>4, <2>1, <2>2
<1>7. ASSUME NEW p, ApplySubmission(p) PROVE IndexInv'
  <2>1. /\ st' = ApplyPreimage(st, p) /\ phase' = phase /\ window' = window
        /\ phase \in {"txSubs", "bridgeSubs"}
        /\ p \in Submissions(window.from + 1, window.to) /\ p \notin Held(st)
    BY <1>7 DEF ApplySubmission, Unprocessed, Held, FromBlock, ToBlock
  <2>2. p \in Submissions(1, HeadBlock) /\ p \in Submitted
    <3>1. window.from + 1 .. window.to \subseteq 1 .. HeadBlock /\ 1 .. HeadBlock \subseteq Blocks
      BY WindowTyped DEF HeadBlock
    <3> QED
      BY <1>0, <2>1, <3>1 DEF Submissions, LogSubmitted
  <2>3. Indexed(st') /\ AppliedAs(st, p, st')
    BY <2>1, <2>2, FreshBatch
  <2>4. LeavesConfirmed(st')
    BY <1>0, <2>3 DEF AppliedAs, LeavesConfirmed
  <2>5. Held(st) \subseteq Held(st')
    BY <1>0, <2>1, HeldGrows
  <2>6. Kept
    BY <1>1, <2>1, <2>2, <2>3, <2>5 DEF Kept, AppliedAs
  <2> QED
    BY <1>2, <2>3, <2>4, <2>6
<1>8. CASE TxSubmissionsDone \/ BridgeSubmissionsDone \/ CollectProven \/ ProvenDone
  <2>1. st' = st /\ window' = window
    BY <1>8 DEF TxSubmissionsDone, BridgeSubmissionsDone, CollectProven, ProvenDone
  <2>2. phase' \in Done => Submissions(window.from + 1, window.to) \subseteq Held(st)
    <3>1. CASE BridgeSubmissionsDone
      <4>1. phase = "bridgeSubs"
            /\ {p \in Submissions(window.from + 1, window.to) : Kind(p) = "bridge"} \ Held(st) = {}
        BY <3>1 DEF BridgeSubmissionsDone, Goto, Unprocessed, Held, FromBlock, ToBlock
      <4>2. {p \in Submissions(window.from + 1, window.to) : Kind(p) = "tx"} \ Held(st) = {}
        BY <1>0, <4>1 DEF MirrorState, SubmissionsHeld, Unprocessed, Held, FromBlock, ToBlock
      <4>3. \A p : Kind(p) \in {"tx", "bridge"}
        BY DEF Kind
      <4> QED
        BY <4>1, <4>2, <4>3
    <3>2. CASE TxSubmissionsDone
      BY <3>2 DEF TxSubmissionsDone, Goto
    <3>3. CASE CollectProven \/ ProvenDone
      BY <1>1, <3>3 DEF CollectProven, ProvenDone, Goto
    <3> QED
      BY <1>8, <3>1, <3>2, <3>3
  <2>3. Kept
    BY <1>1, <2>1, <2>2 DEF Kept
  <2> QED
    BY <1>2, <1>3, <1>4, <2>1, <2>3
<1>9. CASE ConfirmEntry
  <2>1. phase = "proven" /\ phase' = phase /\ window' = window /\ todo # {}
    BY <1>9 DEF ConfirmEntry
  <2>2. /\ Indexed(st') /\ Pend(st') \subseteq Pend(st) /\ Held(st) \subseteq Held(st')
        /\ Conf(st') = Conf(st) \cup {NextEntry.pi}
    BY <1>9, ConfirmIndex
  <2>3. st'.lastSynced = st.lastSynced
    BY <1>9, <2>1, ServiceStates, NewStateFields DEF SyncDeposits, Goto, StartGenesis, Crash, ConfirmEntry
  <2>4. LeavesConfirmed(st')
    <3> SUFFICES ASSUME NEW b \in Blocks, NEW f \in log[b].proven, f.leafIndex < Len(st'.leaves)
                 PROVE  f.pi \in Conf(st')
      BY DEF LeavesConfirmed
    <3>1. Len(st'.leaves) = Len(st.leaves) + 1
      BY <1>0, <1>9, ConfirmMirror
    <3>2. f.leafIndex \in Nat /\ Len(st.leaves) \in Nat
      BY <1>0 DEF SyncTyped, Events, Entries, MirrorState
    <3>3. CASE f.leafIndex < Len(st.leaves)
      BY <1>0, <2>2, <3>3 DEF LeavesConfirmed
    <3>4. CASE f.leafIndex = Len(st.leaves)
      <4>1. PICK c \in Blocks : NextEntry \in log[c].proven
        BY <1>0, <2>1, NextEntryMirror
      <4>2. NextEntry.leafIndex = Len(st.leaves)
        BY <1>0, <2>1, NextEntryMirror
      <4>3. f = NextEntry
        BY <1>0, <3>4, <4>1, <4>2 DEF LeafLog, EntriesOrdered
      <4> QED
        BY <2>2, <4>3
    <3> QED
      BY <3>1, <3>2, <3>3, <3>4
  <2>5. Kept
    BY <1>1, <2>1, <2>2, <2>3 DEF Kept
  <2> QED
    BY <1>2, <2>2, <2>4, <2>5
<1>10. CASE ConfirmFails
  BY <1>0, <1>10, NextEntryMirror DEF ConfirmFails
<1>11. CASE AssignSubpools \/ UpdateRoots \/ RebuildTree
  <2>1. SameBatches(st, st') /\ st'.lastSynced = st.lastSynced
    <3>1. CASE AssignSubpools
      BY <1>0, <3>1, AssignedFields DEF AssignSubpools
    <3>2. CASE UpdateRoots
      <4>1. PICK roots : st' = [st EXCEPT !.subpoolRoots = roots]
        BY <3>2, Zenon DEF UpdateRoots
      <4> QED
        BY <1>0, <4>1, RootsFields
    <3>3. CASE RebuildTree
      BY <1>0, <3>3, RebuildFields DEF RebuildTree
    <3> QED
      BY <1>11, <3>1, <3>2, <3>3
  <2>2. phase \in Done /\ window' = window
    BY <1>11 DEF AssignSubpools, UpdateRoots, RebuildTree, Goto
  <2>3. Kept
    BY <1>1, <1>3, <2>1, <2>2 DEF Kept
  <2> QED
    BY <1>2, <1>3, <2>1, <2>3
<1>12. CASE SyncDeposits
  <2>1. PICK ds : DepositsApplied(st, FromBlock, ToBlock) = [st EXCEPT !.deposits = ds]
    BY DepositsAppliedOnly
  <2>2. st' = [[st EXCEPT !.deposits = ds] EXCEPT !.lastSynced = window.to]
    BY <1>12, <2>1 DEF SyncDeposits
  <2>3. SameBatches(st, st') /\ st'.lastSynced = window.to
    <3>1. ASSUME NEW t, NEW b, t = [[st EXCEPT !.deposits = ds] EXCEPT !.lastSynced = b]
          PROVE  SameBatches(st, t) /\ t.lastSynced = b
      BY <1>0, <3>1 DEF IsState, NewState, SameBatches
    <3> QED
      BY <2>2, <3>1
  <2>4. phase = "deposits" /\ phase' = "idle" /\ st.lastSynced = window.from
    BY <1>12 DEF SyncDeposits, Goto, SyncTyped, Syncing
  <2>5. Submissions(1, window.to) \subseteq Held(st)
    <3>1. \A b \in 1 .. window.to : b \in 1 .. window.from \/ b \in window.from + 1 .. window.to
      BY WindowTyped
    <3>2. Submissions(1, window.to) \subseteq
            Submissions(1, window.from) \cup Submissions(window.from + 1, window.to)
      BY <3>1 DEF Submissions
    <3> QED
      BY <1>1, <2>4, <3>2
  <2>6. Kept
    BY <1>1, <1>3, <2>3, <2>4, <2>5 DEF Kept
  <2> QED
    BY <1>2, <1>3, <2>3, <2>6
<1>13. CASE RpcFailure
  <2>1. st' = st /\ phase' \in {"down", "idle"}
    BY <1>13 DEF RpcFailure, GiveUp
  <2>2. Kept
    BY <1>1, <2>1 DEF Kept
  <2> QED
    BY <1>2, <1>3, <1>4, <2>1, <2>2
<1> QED
  BY <1>5, <1>6, <1>7, <1>8, <1>9, <1>10, <1>11, <1>12, <1>13, ServiceMoves

\* Every step keeps the batch index.
LEMMA NextIndexInv ==
    ASSUME OutputsFollowInputs, FailsEarly, BatchedOnce
    PROVE  /\ TypeOK /\ TypeOK' /\ BatchesApart /\ NoDoubleSpend /\ SyncTyped /\ ConfirmedInv
           /\ MirrorInv /\ IndexInv /\ [SyncNext]_allVars
           => IndexInv'
<1> SUFFICES ASSUME TypeOK, TypeOK', BatchesApart, NoDoubleSpend, SyncTyped, ConfirmedInv,
                    MirrorInv, IndexInv, [SyncNext]_allVars
             PROVE  IndexInv'
  OBVIOUS
<1>1. CASE (ChainStep \/ MineBlock) /\ UNCHANGED syncVars
  BY <1>1, ChainIndexInv
<1>2. CASE (SyncStep \/ RpcFailure \/ Crash) /\ UNCHANGED chainVars
  BY <1>2, ServiceIndexInv
<1>3. CASE UNCHANGED chainVars /\ UNCHANGED syncVars
  BY <1>3 DEF chainVars, vars, txVars, bridgeVars, syncVars, IndexInv, SpentApart, LogSubmitted,
     Submitted, Indexed, LeavesConfirmed, SubmissionsKept, Submissions, HeadBlock, Held, Pend,
     Conf, FromBlock, ToBlock
<1> QED
  BY <1>1, <1>2, <1>3, StepCases

\* At first nothing is submitted and nothing indexed.
LEMMA InitIndexInv == SyncInit => IndexInv
<1> SUFFICES ASSUME SyncInit PROVE IndexInv
  OBVIOUS
<1>1. st = NewState /\ phase = "down" /\ Submitted = {}
  BY DEF SyncInit, Init, Submitted
<1>2. \A b \in Blocks : log[b].proven = {} /\ log[b].submitted = {}
  BY DEF SyncInit, NoEvents, Blocks
<1>3. /\ Pend(NewState) = {} /\ Conf(NewState) = {} /\ Held(NewState) = {}
      /\ NewState.lastSynced = 0
      /\ NewState.commitments = {} /\ NewState.pendingNullifiers = {}
      /\ NewState.confirmedNullifiers = {}
  BY NewStateFields DEF Pend, Conf, Held
<1>4. Indexed(st)
  BY <1>1, <1>3 DEF Indexed
<1>5. SubmissionsKept
  <2>1. Submissions(1, 0) = {}
    BY DEF Submissions
  <2> QED
    BY <1>1, <1>3, <2>1 DEF SubmissionsKept
<1> QED
  BY <1>1, <1>2, <1>4, <1>5 DEF IndexInv, SpentApart, LogSubmitted, LeavesConfirmed

-----------------------------------------------------------------------------
(* Between polls *)

\* The entries up to a block.
LEMMA ProvenUpTo ==
    ASSUME log \in [Blocks -> Events], NEW b \in Nat, b <= MaxBlock
    PROVE  /\ Proven(1, b) \subseteq Entries
           /\ \A e : e \in Proven(1, b) <=> \E c \in Blocks : c <= b /\ e \in log[c].proven
<1>1. \A c : c \in 1 .. b <=> c \in Blocks /\ c <= b
  BY BlockAssumption DEF Blocks
<1>2. \A e : e \in Proven(1, b) <=> \E c \in Blocks : c <= b /\ e \in log[c].proven
  BY <1>1 DEF Proven
<1>3. \A c \in Blocks : log[c].proven \subseteq Entries
  BY DEF Events
<1> QED
  BY <1>2, <1>3

\* Between polls the mirror's leaves are the entries up to last_synced_block, and what is
\* confirmed are their batches.
LEMMA IdleMirror ==
    ASSUME TypeOK, SyncTyped, MirrorInv, IndexInv, Idle
    PROVE  /\ Conf(st) = ProvenBy(st.lastSynced)
           /\ Len(st.leaves) = Cardinality(ProvenBy(st.lastSynced))
<1>0. PICK b \in Nat : b = st.lastSynced /\ b <= MaxBlock
  BY WindowTyped
<1>1. PICK k \in Nat : k = Len(st.leaves) /\ k <= Len(leaves)
  <2>1. /\ leaves \in Seq(BatchRoots) /\ st.leaves \in Seq(BatchRoots)
        /\ IsPrefix(st.leaves, leaves)
    BY DEF TypeOK, MirrorInv, MirrorState, MirrorIsPrefix
  <2> QED
    BY <2>1, PrefixLeaves
<1>2. \A c \in Blocks : \A e \in log[c].proven : e.leafIndex < k <=> c <= b
  BY <1>0, <1>1 DEF MirrorInv, MirrorState, MirrorProgress, LeavesUpTo, Idle
<1>3. /\ Proven(1, b) \subseteq Entries
      /\ \A e : e \in Proven(1, b) <=> \E c \in Blocks : c <= b /\ e \in log[c].proven
  BY <1>0, ProvenUpTo DEF SyncTyped
<1>4. Conf(st) = ProvenBy(b)
  <2>1. ASSUME NEW p \in Conf(st) PROVE p \in ProvenBy(b)
    <3>1. PICK c \in Blocks : \E e \in log[c].proven : e.pi = p /\ e.leafIndex < k
      BY <1>1 DEF MirrorInv, MirrorState, ConfirmedHasLeaf, Conf
    <3>2. PICK e \in log[c].proven : e.pi = p /\ e.leafIndex < k
      BY <3>1
    <3>3. e \in Proven(1, b)
      BY <1>2, <1>3, <3>2
    <3> QED
      BY <3>2, <3>3 DEF ProvenBy
  <2>2. ASSUME NEW p \in ProvenBy(b) PROVE p \in Conf(st)
    <3>1. PICK e \in Proven(1, b) : e.pi = p
      BY DEF ProvenBy
    <3>2. PICK c \in Blocks : c <= b /\ e \in log[c].proven
      BY <1>3
    <3> QED
      BY <1>1, <1>2, <3>1, <3>2 DEF IndexInv, LeavesConfirmed
  <2> QED
    BY <2>1, <2>2
<1>5. Cardinality(ProvenBy(b)) = k
  <2> DEFINE I == 0 .. k - 1
             At(i) == CHOOSE e \in Proven(1, b) : e.leafIndex = i
             f == [i \in I |-> At(i).pi]
  <2>1. ASSUME NEW i \in I PROVE At(i) \in Proven(1, b) /\ At(i).leafIndex = i
    <3>1. i \in 0 .. Len(leaves) - 1
      <4>1. Len(leaves) \in Nat
        BY DEF TypeOK
      <4> QED
        BY <1>1, <4>1
    <3>2. PICK c \in Blocks : \E e \in log[c].proven : e.leafIndex = i
      BY <3>1 DEF MirrorInv, LeafLog
    <3>3. PICK e \in log[c].proven : e.leafIndex = i
      BY <3>2
    <3>4. i < k
      BY <1>1
    <3>5. e \in Proven(1, b)
      BY <1>2, <1>3, <3>3, <3>4
    <3> QED
      BY <3>3, <3>5
  <2>2. ASSUME NEW e \in Proven(1, b), NEW g \in Proven(1, b)
        PROVE  /\ e.pi = g.pi => e = g
               /\ e.leafIndex = g.leafIndex => e = g
    BY <1>3 DEF MirrorInv, LeafLog, EntriesOrdered
  <2> HIDE DEF At
  <2>3. f \in [I -> ProvenBy(b)]
    BY <2>1 DEF ProvenBy
  <2>4. ASSUME NEW i \in I, NEW j \in I, f[i] = f[j] PROVE i = j
    BY <2>1, <2>2, <2>4
  <2>5. ASSUME NEW p \in ProvenBy(b) PROVE \E i \in I : f[i] = p
    <3>1. PICK e \in Proven(1, b) : e.pi = p
      BY DEF ProvenBy
    <3>2. e.leafIndex \in Nat /\ e.leafIndex < k
      BY <1>2, <1>3 DEF Entries
    <3>3. e.leafIndex \in I
      BY <1>1, <3>2
    <3>4. At(e.leafIndex) = e
      BY <2>1, <2>2, <3>3
    <3> QED
      BY <3>1, <3>3, <3>4
  <2>6. f \in Bijection(I, ProvenBy(b))
    BY <2>3, <2>4, <2>5 DEF Bijection, Injection, Surjection, IsInjective
  <2>7. ExistsBijection(I, ProvenBy(b))
    BY <2>6 DEF ExistsBijection
  <2>8. IsFiniteSet(I) /\ Cardinality(I) = k
    <3>1. 0 \in Int /\ k - 1 \in Int
      BY <1>1
    <3>2. IsFiniteSet(I) /\ Cardinality(I) = IF 0 > k - 1 THEN 0 ELSE (k - 1) - 0 + 1
      BY <3>1, FS_Interval
    <3> QED
      BY <1>1, <3>2
  <2> HIDE DEF I
  <2> QED
    BY <2>7, <2>8, FS_Bijection
<1> QED
  BY <1>0, <1>1, <1>4, <1>5

\* What the invariants say of an idle service.
LEMMA IdleExact ==
    ASSUME TypeOK, SyncTyped, MirrorInv, IndexInv
    PROVE  IdleBatchesExact /\ IdleNullifiersExact
<1> SUFFICES ASSUME Idle PROVE IdleBatchesExact /\ IdleNullifiersExact
  BY DEF IdleBatchesExact, IdleNullifiersExact
<1>0. PICK b : b = st.lastSynced
  OBVIOUS
<1>1. Conf(st) = ProvenBy(b) /\ Len(st.leaves) = Cardinality(ProvenBy(b))
  BY <1>0, IdleMirror
<1>2. Indexed(st) /\ Held(st) = Pend(st) \cup Conf(st)
  BY DEF IndexInv, Held, Pend, Conf
<1>3. Submissions(1, b) \subseteq Held(st) /\ Pend(st) \subseteq Submissions(1, HeadBlock)
  BY <1>0 DEF IndexInv, SubmissionsKept
<1>4. /\ Submissions(1, b) \ ProvenBy(b) \subseteq Pend(st)
      /\ Pend(st) \subseteq Submissions(1, HeadBlock) \ ProvenBy(b)
  BY <1>1, <1>2, <1>3 DEF Indexed
<1>5. \A p \in ProvenBy(b) : \A c \in p.body.outputs :
            \E l \in st.commitments : l.comm = c /\ l.pi = p /\ l.confirmed
  BY <1>1, <1>2 DEF Indexed
<1>6. IdleBatchesExact
  BY <1>0, <1>1, <1>4, <1>5 DEF IdleBatchesExact, Pend, Conf
<1>7. st.confirmedNullifiers = SpentBy(b)
  BY <1>1, <1>2 DEF Indexed, SpentBy
<1>8. IdleNullifiersExact
  BY <1>0, <1>2, <1>7 DEF IdleNullifiersExact, Indexed, Pend
<1> QED
  BY <1>6, <1>8

\* All the invariants together, for every number of batches, blocks, failures and restarts.
LEMMA IndexInvariant ==
    ASSUME OutputsFollowInputs, FailsEarly, BatchedOnce
    PROVE  SyncSpec => [](TypeOK /\ SyncTyped /\ MirrorInv /\ IndexInv)
<1>1. SyncSpec => [](TypeOK /\ BatchesApart /\ NoDoubleSpend)
  BY FollowsContract, TypeInvariant, Apart, SpendsOnce, PTL
<1>2. SyncSpec => []ConfirmedInv
  BY <1>1, SyncTypes, InitConfirmedInv, NextConfirmedInv, PTL DEF SyncSpec
<1>3. SyncSpec => []MirrorInv
  BY <1>1, <1>2, SyncTypes, InitMirrorInv, NextMirrorInv, PTL DEF SyncSpec
<1> QED
  BY <1>1, <1>2, <1>3, SyncTypes, InitIndexInv, NextIndexInv, PTL DEF SyncSpec

\* Between polls the batch index is exactly the chain's as of last_synced_block: confirmed
\* is what was proven by then, one leaf each, pending is what was submitted and not proven,
\* and every output of a proven batch has its place.  It needs that a transaction is
\* batched once, and that no call fails between the confirmations of a window.
THEOREM BatchIndexExact ==
    ASSUME OutputsFollowInputs, FailsEarly, BatchedOnce
    PROVE  SyncSpec => []IdleBatchesExact
<1>1. TypeOK /\ SyncTyped /\ MirrorInv /\ IndexInv => IdleBatchesExact
  BY IdleExact
<1> QED
  BY <1>1, IndexInvariant, PTL

\* Under the same conditions a nullifier is reported confirmed between polls iff a batch
\* proven by last_synced_block spent it, and pending only while a pending batch would.
THEOREM NullifierIndexExact ==
    ASSUME OutputsFollowInputs, FailsEarly, BatchedOnce
    PROVE  SyncSpec => []IdleNullifiersExact
<1>1. TypeOK /\ SyncTyped /\ MirrorInv /\ IndexInv => IdleNullifiersExact
  BY IdleExact
<1> QED
  BY <1>1, IndexInvariant, PTL

-----------------------------------------------------------------------------
(* The config tree.  QuietConfigExact is about the head of the chain, the     *)
(* service knows the past: what it holds of a subpool is right as long as no   *)
(* later block posts a root for it.                                            *)

\* Every subpool has a leaf of its own, and none posts the zero root, which the contract
\* hashes into a leaf and the mirror into none.
ConfigPlaces == SubpoolIds \subseteq ConfigPositions /\ 0 \notin SubpoolRootVals

\* A root of subpool id is logged in block b, in no block after b, and id was assigned by b.
Posted(id, b) == \E r \in SubpoolRootVals : <<id, r>> \in log[b].updated
Settled(id, b) == \A d \in Blocks : d > b => ~Posted(id, d)
AssignedBy(id, b) == \E c \in Blocks : c <= b /\ id \in log[c].assigned

\* Root events are of the past and of assigned subpools, and the last of a subpool has its
\* current root; no event, no root.
RootsLogged ==
    /\ \A b \in Blocks : \A u \in log[b].updated :
        b <= blockNumber /\ u \in SubpoolIds \X SubpoolRootVals /\ AssignedBy(u[1], b)
    /\ \A id \in SubpoolIds : \A b \in Blocks : \A r \in SubpoolRootVals :
        <<id, r>> \in log[b].updated /\ Settled(id, b) => r = subpoolRoots[id]
    /\ \A id \in SubpoolIds : subpoolRoots[id] # 0 => \E b \in Blocks : Posted(id, b)
    /\ \A id \in SubpoolIds : ~Posted(id, blockNumber) => minedRoots[id] = subpoolRoots[id]

\* Subpools are assigned in the order of their ids, finitely many in a block.
AssignmentsLogged ==
    /\ \A b \in Blocks : IsFiniteSet(log[b].assigned)
    /\ \A b \in Blocks : \A id \in log[b].assigned : id # 1 => AssignedBy(id - 1, b)
    /\ \A id \in SubpoolIds : subpoolOwners[id] # ZeroAddress => AssignedBy(id, blockNumber)

\* s has the current root of subpool id; a subpool it has no root for has none on chain.
KnowsRoot(s, id) ==
    /\ \A e \in s.subpoolRoots : e.id = id => e.root = subpoolRoots[id]
    /\ subpoolRoots[id] # 0 => \E e \in s.subpoolRoots : e.id = id

\* The block up to which the indexed roots, and the tree built from them, are in step.
RootsReach == IF phase \in {"rebuild", "deposits"} THEN window.to ELSE st.lastSynced
TreeReach == IF phase = "deposits" THEN window.to ELSE st.lastSynced

\* Up to there the service has the current root and leaf of every subpool that is settled.
RootsKnown ==
    /\ \A e \in st.subpoolRoots : e.root # 0 => e.id \in SubpoolIds
    /\ \A id \in SubpoolIds : Settled(id, RootsReach) => KnowsRoot(st, id)
TreeKnown ==
    /\ DOMAIN st.configTree = ConfigPositions /\ st.configTree = [pos \in ConfigPositions |-> st.configTree[pos]]
    /\ \A pos \in ConfigPositions : pos \notin SubpoolIds => st.configTree[pos] = ZeroLeaf
    /\ \A id \in SubpoolIds : Settled(id, TreeReach) => st.configTree[id] = OldLeaf(id)

\* Genesis sync starts from nothing, and counts every subpool of its window before it
\* reads the roots of those it has counted.
GenesisCounts ==
    /\ phase = "idle" => mode # "genesis"
    /\ mode = "genesis" /\ Syncing => st.lastSynced = 0
    /\ mode = "genesis" /\ phase \in {"txSubs", "bridgeSubs", "collect", "proven", "config"} =>
        st.nextSubpoolId = 1 /\ st.buffered = {}
    /\ mode = "genesis" /\ phase = "roots" =>
        /\ st.nextSubpoolId \in Nat
        /\ 1 .. st.nextSubpoolId - 1 \subseteq SubpoolIds
        /\ \A id \in SubpoolIds : AssignedBy(id, window.to) => id < st.nextSubpoolId

\* The inductive invariant of the config tree.
ConfigInv == RootsLogged /\ AssignmentsLogged /\ RootsKnown /\ TreeKnown /\ GenesisCounts

\* The leaves a step of the contract changes.
PostedLeaves == {mainPoolConfigRoot'[pos] : pos \in
                    {q \in ConfigPositions : mainPoolConfigRoot'[q] # mainPoolConfigRoot[q]}}

\* What a step logs of the registry.
LEMMA EmitRegistry ==
    ASSUME Emit, log \in [Blocks -> Events], blockNumber \in Blocks
    PROVE  LET b == blockNumber IN
           /\ log'[b].assigned = log[b].assigned
                \cup {id \in SubpoolIds : subpoolOwners'[id] # subpoolOwners[id]}
           /\ log'[b].updated = {u \in log[b].updated : \A l \in PostedLeaves : l[1] # u[1]} \cup PostedLeaves
<1> DEFINE b == blockNumber
           new == [submitted |-> log[b].submitted \cup (Pending' \ Pending),
             proven    |-> log[b].proven \cup {[pi |-> p, leafIndex |-> Len(leaves),
                                           newTreeRoot |-> leaves'] : p \in Confirmed' \ Confirmed},
             available |-> log[b].available \cup Becomes("Pending"),
             validated |-> log[b].validated \cup Becomes("Validated"),
             withdrawn |-> log[b].withdrawn \cup Becomes("Withdrawn"),
             assigned  |-> log[b].assigned
                            \cup {id \in SubpoolIds : subpoolOwners'[id] # subpoolOwners[id]},
             updated   |-> {u \in log[b].updated : \A l \in PostedLeaves : l[1] # u[1]} \cup PostedLeaves]
<1>1. log' = [log EXCEPT ![b] = new]
  BY DEF Emit, PostedLeaves
<1>2. log'[b] = new
  <2> HIDE DEF new
  <2> QED
    BY <1>1
<1>3. /\ new.assigned = log[b].assigned
                \cup {id \in SubpoolIds : subpoolOwners'[id] # subpoolOwners[id]}
      /\ new.updated = {u \in log[b].updated : \A l \in PostedLeaves : l[1] # u[1]} \cup PostedLeaves
  OBVIOUS
<1> HIDE DEF new
<1> QED
  BY <1>2, <1>3

\* What a step of the contract does to the roots and logs of them,
RootsKept ==
    subpoolRoots' = subpoolRoots /\ log'[blockNumber].updated = log[blockNumber].updated
RootPosted(id, r) ==
    /\ subpoolOwners[id] # ZeroAddress
    /\ subpoolRoots' = [subpoolRoots EXCEPT ![id] = r]
    /\ log'[blockNumber].updated = {u \in log[blockNumber].updated : u[1] # id} \cup {<<id, r>>}

\* and to the owners.
OwnersKept ==
    subpoolOwners' = subpoolOwners /\ log'[blockNumber].assigned = log[blockNumber].assigned
OwnerAssigned(id) ==
    /\ id # 1 => id - 1 \in SubpoolIds /\ subpoolOwners[id - 1] # ZeroAddress
    /\ \A k \in SubpoolIds : k # id => subpoolOwners'[k] = subpoolOwners[k]
    /\ log'[blockNumber].assigned = log[blockNumber].assigned \cup {id}

\* A subpool's leaf is at its id.
LEMMA PlaceOf ==
    ASSUME ConfigPlaces, NEW id \in SubpoolIds
    PROVE  Position(id) = id /\ id \in ConfigPositions
<1>1. PICK W : W = 2^ConfigTreeDepth /\ W \in Nat \ {0}
  BY WidthAssumption
<1>2. id \in 0 .. W - 1
  BY <1>1 DEF ConfigPlaces, ConfigPositions
<1>3. id % W = id
  BY <1>1, <1>2
<1> QED
  BY <1>1, <1>2, <1>3 DEF Position, ConfigPositions

\* The registry steps as the log shows them.
LEMMA RegistryStep ==
    ASSUME ConfigPlaces, TypeOK, SyncTyped, ChainStep
    PROVE  /\ RootsKept \/ \E id \in SubpoolIds, r \in SubpoolRootVals : RootPosted(id, r)
           /\ OwnersKept \/ \E id \in SubpoolIds : OwnerAssigned(id)
<1>1. Emit /\ [Next]_vars
  BY ChainStepsNext DEF ChainStep
<1>2. /\ log'[blockNumber].assigned = log[blockNumber].assigned
                \cup {id \in SubpoolIds : subpoolOwners'[id] # subpoolOwners[id]}
      /\ log'[blockNumber].updated =
            {u \in log[blockNumber].updated : \A l \in PostedLeaves : l[1] # u[1]} \cup PostedLeaves
  BY <1>1, WindowTyped, EmitRegistry DEF SyncTyped
<1>3. ASSUME mainPoolConfigRoot' = mainPoolConfigRoot, subpoolRoots' = subpoolRoots PROVE RootsKept
  <2>1. PostedLeaves = {}
    BY <1>3 DEF PostedLeaves
  <2> QED
    BY <1>2, <1>3, <2>1 DEF RootsKept
<1>4. ASSUME subpoolOwners' = subpoolOwners PROVE OwnersKept
  BY <1>2, <1>4 DEF OwnersKept
<1>5. CASE UNCHANGED configVars
  BY <1>3, <1>4, <1>5 DEF configVars
<1>6. ASSUME NEW sender, NEW id \in SubpoolIds, NEW owner \in Users, AssignSubpoolOwner(sender, id, owner)
      PROVE  RootsKept /\ (OwnersKept \/ OwnerAssigned(id))
  <2>1. /\ id # 1 => id - 1 \in SubpoolIds /\ subpoolOwners[id - 1] # ZeroAddress
        /\ subpoolOwners' = [subpoolOwners EXCEPT ![id] = owner]
        /\ mainPoolConfigRoot' = mainPoolConfigRoot /\ subpoolRoots' = subpoolRoots
    BY <1>6 DEF AssignSubpoolOwner
  <2>2. subpoolOwners = [k \in SubpoolIds |-> subpoolOwners[k]]
    BY DEF TypeOK
  <2>3. \A k \in SubpoolIds : k # id => subpoolOwners'[k] = subpoolOwners[k]
    BY <2>1, <2>2
  <2>4. CASE subpoolOwners[id] = owner
    <3>1. subpoolOwners' = subpoolOwners
      BY <2>1, <2>2, <2>4
    <3> QED
      BY <1>3, <1>4, <2>1, <3>1
  <2>5. CASE subpoolOwners[id] # owner
    <3>1. {k \in SubpoolIds : subpoolOwners'[k] # subpoolOwners[k]} = {id}
      BY <2>1, <2>2, <2>5
    <3> QED
      BY <1>2, <1>3, <2>1, <2>3, <3>1 DEF OwnerAssigned
  <2> QED
    BY <2>4, <2>5
<1>7. ASSUME NEW sender, NEW id \in SubpoolIds, NEW r \in SubpoolRootVals, UpdateSubpoolRoot(sender, id, r)
      PROVE  (RootsKept \/ RootPosted(id, r)) /\ OwnersKept
  <2>1. /\ subpoolOwners[id] # ZeroAddress /\ subpoolOwners' = subpoolOwners
        /\ mainPoolConfigRoot[Position(id)] = OldLeaf(id)
        /\ subpoolRoots' = [subpoolRoots EXCEPT ![id] = r]
        /\ mainPoolConfigRoot' = [mainPoolConfigRoot EXCEPT ![Position(id)] = ConfigLeaf(id, r)]
    BY <1>7 DEF UpdateSubpoolRoot
  <2>2. Position(id) = id /\ id \in ConfigPositions /\ r # 0
    BY PlaceOf DEF ConfigPlaces
  <2>3. /\ subpoolRoots = [k \in SubpoolIds |-> subpoolRoots[k]]
        /\ mainPoolConfigRoot = [k \in ConfigPositions |-> mainPoolConfigRoot[k]]
    BY DEF TypeOK, ConfigTrees
  <2>4. CASE subpoolRoots[id] = r
    <3>1. mainPoolConfigRoot[id] = ConfigLeaf(id, r)
      BY <2>1, <2>2, <2>4 DEF OldLeaf
    <3>2. mainPoolConfigRoot' = mainPoolConfigRoot /\ subpoolRoots' = subpoolRoots
      BY <2>1, <2>2, <2>3, <2>4, <3>1
    <3> QED
      BY <1>3, <1>4, <2>1, <3>2
  <2>5. CASE subpoolRoots[id] # r
    <3>1. mainPoolConfigRoot[id] # ConfigLeaf(id, r)
      BY <2>1, <2>2, <2>5 DEF OldLeaf, ConfigLeaf, ZeroLeaf
    <3>2. PostedLeaves = {ConfigLeaf(id, r)}
      BY <2>1, <2>2, <2>3, <3>1 DEF PostedLeaves
    <3>3. ConfigLeaf(id, r) = <<id, r>> /\ ConfigLeaf(id, r)[1] = id
      BY DEF ConfigLeaf
    <3>4. log'[blockNumber].updated = {u \in log[blockNumber].updated : u[1] # id} \cup {<<id, r>>}
      BY <1>2, <3>2, <3>3
    <3> QED
      BY <1>4, <2>1, <3>4 DEF RootPosted
  <2> QED
    BY <2>4, <2>5
<1> QED
  BY <1>1, <1>5, <1>6, <1>7, OnlyRegistryMoves

\* A contract step logs into the current block only.
LEMMA LogElsewhere ==
    ASSUME TypeOK, SyncTyped, ChainStep
    PROVE  /\ blockNumber' = blockNumber /\ minedRoots' = minedRoots /\ blockNumber \in Blocks
           /\ \A c \in Blocks : c # blockNumber => log'[c] = log[c]
<1>1. blockNumber \in Blocks /\ Emit /\ minedRoots' = minedRoots
  BY WindowTyped DEF ChainStep
<1>2. \A c \in Blocks : c # blockNumber => log'[c] = log[c]
  BY <1>1, EmitAt DEF SyncTyped
<1> QED
  BY <1>1, <1>2, ChainKeepsBlock

\* Assignments stay logged.
LEMMA AssignedStays ==
    ASSUME ConfigPlaces, TypeOK, SyncTyped, ChainStep \/ MineBlock, NEW id, NEW b, AssignedBy(id, b)
    PROVE  AssignedBy(id, b)'
<1>1. CASE MineBlock
  BY <1>1 DEF MineBlock, AssignedBy
<1>2. CASE ChainStep
  <2>1. \A c \in Blocks : log[c].assigned \subseteq log'[c].assigned
    BY <1>2, LogElsewhere, RegistryStep DEF OwnersKept, OwnerAssigned
  <2> QED
    BY <2>1 DEF AssignedBy
<1> QED
  BY <1>1, <1>2

\* The roots after a contract step: a subpool has the posts and the root it had, or it has
\* just posted.
LEMMA RootsMove ==
    ASSUME ConfigPlaces, TypeOK, SyncTyped, ChainStep
    PROVE  \/ /\ subpoolRoots' = subpoolRoots
              /\ \A b \in Blocks : log'[b].updated = log[b].updated
           \/ \E i \in SubpoolIds, r \in SubpoolRootVals :
                /\ subpoolOwners[i] # ZeroAddress
                /\ subpoolRoots'[i] = r
                /\ \A id \in SubpoolIds : id # i => subpoolRoots'[id] = subpoolRoots[id]
                /\ \A b \in Blocks : b # blockNumber => log'[b].updated = log[b].updated
                /\ log'[blockNumber].updated = {u \in log[blockNumber].updated : u[1] # i} \cup {<<i, r>>}
<1>1. CASE RootsKept
  BY <1>1, LogElsewhere DEF RootsKept
<1>2. ASSUME NEW i \in SubpoolIds, NEW r \in SubpoolRootVals, RootPosted(i, r)
      PROVE  /\ subpoolOwners[i] # ZeroAddress
             /\ subpoolRoots'[i] = r
             /\ \A id \in SubpoolIds : id # i => subpoolRoots'[id] = subpoolRoots[id]
             /\ \A b \in Blocks : b # blockNumber => log'[b].updated = log[b].updated
             /\ log'[blockNumber].updated = {u \in log[blockNumber].updated : u[1] # i} \cup {<<i, r>>}
  <2>1. subpoolRoots = [id \in SubpoolIds |-> subpoolRoots[id]]
    BY DEF TypeOK
  <2>2. subpoolRoots'[i] = r /\ \A id \in SubpoolIds : id # i => subpoolRoots'[id] = subpoolRoots[id]
    BY <1>2, <2>1 DEF RootPosted
  <2> QED
    BY <1>2, <2>2, LogElsewhere DEF RootPosted
<1> QED
  BY <1>1, <1>2, RegistryStep

\* Seen from an earlier block, a step of the chain unsettles a subpool or leaves it and its
\* root alone.
LEMMA SettledStays ==
    ASSUME ConfigPlaces, TypeOK, SyncTyped, RootsLogged, ChainStep \/ MineBlock,
           NEW id \in SubpoolIds, NEW b \in Nat, b < blockNumber, Settled(id, b)'
    PROVE  Settled(id, b) /\ subpoolRoots'[id] = subpoolRoots[id]
<1>1. CASE MineBlock
  BY <1>1 DEF MineBlock, NextBlock, configVars, Settled, Posted
<1>2. CASE ChainStep
  <2>0. blockNumber \in Blocks
    BY WindowTyped
  <2>1. CASE /\ subpoolRoots' = subpoolRoots
             /\ \A d \in Blocks : log'[d].updated = log[d].updated
    BY <2>1 DEF Settled, Posted
  <2>2. ASSUME NEW i \in SubpoolIds, NEW r \in SubpoolRootVals,
               \A k \in SubpoolIds : k # i => subpoolRoots'[k] = subpoolRoots[k],
               \A d \in Blocks : d # blockNumber => log'[d].updated = log[d].updated,
               log'[blockNumber].updated = {u \in log[blockNumber].updated : u[1] # i} \cup {<<i, r>>}
        PROVE  Settled(id, b) /\ subpoolRoots'[id] = subpoolRoots[id]
    <3>1. blockNumber > b
      BY <2>0, WindowTyped
    <3>2. Posted(i, blockNumber)'
      <4>1. <<i, r>> \in log'[blockNumber].updated
        BY <2>2
      <4> QED
        BY <1>2, <4>1, LogElsewhere DEF Posted
    <3>3. id # i
      BY <1>2, <2>0, <3>1, <3>2, LogElsewhere DEF Settled
    <3>4. ASSUME NEW d \in Blocks, Posted(id, d) PROVE Posted(id, d)'
      <4>1. PICK x \in SubpoolRootVals : <<id, x>> \in log[d].updated
        BY <3>4 DEF Posted
      <4>2. <<id, x>>[1] = id
        OBVIOUS
      <4>3. <<id, x>> \in log'[d].updated
        BY <2>2, <3>3, <4>1, <4>2
      <4> QED
        BY <4>3 DEF Posted
    <3> QED
      BY <2>2, <3>3, <3>4 DEF Settled
  <2> QED
    BY <1>2, <2>1, <2>2, RootsMove
<1> QED
  BY <1>1, <1>2

\* The chain logs its roots,
LEMMA ChainRootsLogged ==
    ASSUME ConfigPlaces, TypeOK, SyncTyped, RootsLogged, AssignmentsLogged, ChainStep \/ MineBlock
    PROVE  RootsLogged'
<1>0. blockNumber \in Blocks /\ Blocks = 1 .. MaxBlock /\ MaxBlock \in Nat
  BY WindowTyped
<1>1. CASE MineBlock
  <2>1. /\ log' = log /\ minedRoots' = subpoolRoots /\ subpoolRoots' = subpoolRoots
        /\ blockNumber' = blockNumber + 1
    BY <1>1 DEF MineBlock, NextBlock, configVars
  <2>2. \A b \in Blocks : b <= blockNumber => b <= blockNumber'
    BY <1>0, <2>1
  <2>3. \A id, b : AssignedBy(id, b)' <=> AssignedBy(id, b)
    BY <2>1 DEF AssignedBy
  <2>4. \A id, b : (Settled(id, b)' <=> Settled(id, b)) /\ (Posted(id, b)' <=> Posted(id, b))
    BY <2>1 DEF Settled, Posted
  <2> QED
    BY <2>1, <2>2, <2>3, <2>4 DEF RootsLogged
<1>2. CASE ChainStep
  <2>1. /\ blockNumber' = blockNumber /\ minedRoots' = minedRoots
        /\ \A id, b : AssignedBy(id, b) => AssignedBy(id, b)'
    BY <1>2, LogElsewhere, AssignedStays
  <2>2. CASE /\ subpoolRoots' = subpoolRoots
             /\ \A d \in Blocks : log'[d].updated = log[d].updated
    <3>1. \A id : \A b \in Blocks : (Settled(id, b)' <=> Settled(id, b)) /\ (Posted(id, b)' <=> Posted(id, b))
      BY <2>2 DEF Settled, Posted
    <3> QED
      BY <1>0, <2>1, <2>2, <3>1 DEF RootsLogged
  <2>3. ASSUME NEW i \in SubpoolIds, NEW r \in SubpoolRootVals,
               subpoolOwners[i] # ZeroAddress,
               subpoolRoots'[i] = r,
               \A k \in SubpoolIds : k # i => subpoolRoots'[k] = subpoolRoots[k],
               \A d \in Blocks : d # blockNumber => log'[d].updated = log[d].updated,
               log'[blockNumber].updated = {u \in log[blockNumber].updated : u[1] # i} \cup {<<i, r>>}
        PROVE  RootsLogged'
    <3>1. <<i, r>> \in log'[blockNumber].updated /\ <<i, r>> \in SubpoolIds \X SubpoolRootVals /\ <<i, r>>[1] = i
      BY <2>3
    <3>2. Posted(i, blockNumber)'
      BY <2>1, <3>1 DEF Posted
    <3>3. ASSUME NEW id \in SubpoolIds, id # i, NEW d \in Blocks, NEW x
          PROVE  <<id, x>> \in log'[d].updated <=> <<id, x>> \in log[d].updated
      <4>1. <<id, x>>[1] = id
        OBVIOUS
      <4>2. <<id, x>> # <<i, r>>
        BY <3>3
      <4> QED
        BY <2>3, <3>3, <4>1, <4>2
    <3>4. \A id \in SubpoolIds : id # i => \A d \in Blocks : Posted(id, d)' <=> Posted(id, d)
      BY <3>3 DEF Posted
    <3>5. \A id \in SubpoolIds : id # i => \A d \in Blocks : Settled(id, d)' <=> Settled(id, d)
      BY <3>4 DEF Settled
    <3>6. ASSUME NEW b \in Blocks, NEW u \in log'[b].updated
          PROVE  b <= blockNumber' /\ u \in SubpoolIds \X SubpoolRootVals /\ AssignedBy(u[1], b)'
      <4>1. CASE u \in log[b].updated
        BY <2>1, <4>1 DEF RootsLogged
      <4>2. CASE b = blockNumber /\ u = <<i, r>>
        <5>1. AssignedBy(i, blockNumber)
          BY <2>3 DEF AssignmentsLogged
        <5>2. b <= b
          BY <1>0
        <5> QED
          BY <2>1, <3>1, <4>2, <5>1, <5>2
      <4> QED
        BY <2>3, <4>1, <4>2
    <3>7. ASSUME NEW id \in SubpoolIds, NEW b \in Blocks, NEW x \in SubpoolRootVals,
                 <<id, x>> \in log'[b].updated, Settled(id, b)'
          PROVE  x = subpoolRoots'[id]
      <4>1. CASE id # i
        BY <2>3, <3>3, <3>5, <3>7, <4>1 DEF RootsLogged
      <4>2. CASE id = i /\ b = blockNumber
        <5>1. <<id, x>>[1] = id /\ <<id, x>>[2] = x /\ <<i, r>>[2] = r
          OBVIOUS
        <5>2. <<id, x>> = <<i, r>>
          BY <2>3, <3>7, <4>2, <5>1
        <5> QED
          BY <2>3, <4>2, <5>1, <5>2
      <4>3. CASE id = i /\ b # blockNumber
        <5>1. b <= blockNumber
          BY <2>1, <3>6, <3>7
        <5>2. blockNumber > b
          BY <1>0, <4>3, <5>1
        <5> QED
          BY <1>0, <3>2, <3>7, <4>3, <5>2, <2>1 DEF Settled
      <4> QED
        BY <4>1, <4>2, <4>3
    <3>8. ASSUME NEW id \in SubpoolIds, subpoolRoots'[id] # 0 PROVE \E b \in Blocks : Posted(id, b)'
      <4>1. CASE id = i
        BY <1>0, <2>1, <3>2, <4>1
      <4>2. CASE id # i
        BY <2>3, <3>4, <3>8, <4>2 DEF RootsLogged
      <4> QED
        BY <4>1, <4>2
    <3>9. ASSUME NEW id \in SubpoolIds, ~Posted(id, blockNumber)' PROVE minedRoots'[id] = subpoolRoots'[id]
      <4>1. id # i
        BY <3>2, <3>9
      <4>2. ~Posted(id, blockNumber)
        BY <1>0, <2>1, <3>4, <3>9, <4>1
      <4> QED
        BY <2>1, <2>3, <4>1, <4>2 DEF RootsLogged
    <3> QED
      BY <3>6, <3>7, <3>8, <3>9 DEF RootsLogged
  <2> QED
    BY <1>2, <2>2, <2>3, RootsMove
<1> QED
  BY <1>1, <1>2

\* and its assignments.
LEMMA ChainAssignmentsLogged ==
    ASSUME ConfigPlaces, TypeOK, SyncTyped, AssignmentsLogged, ChainStep \/ MineBlock
    PROVE  AssignmentsLogged'
<1>0. blockNumber \in Blocks /\ Blocks = 1 .. MaxBlock /\ MaxBlock \in Nat
  BY WindowTyped
<1>1. \A id, b : AssignedBy(id, b) => AssignedBy(id, b)'
  BY AssignedStays
<1>2. CASE MineBlock
  <2>1. log' = log /\ subpoolOwners' = subpoolOwners /\ blockNumber' = blockNumber + 1
    BY <1>2 DEF MineBlock, NextBlock, configVars
  <2>2. ASSUME NEW id, AssignedBy(id, blockNumber) PROVE AssignedBy(id, blockNumber)'
    <3>1. \A c \in Blocks : c <= blockNumber => c <= blockNumber'
      BY <1>0, <2>1
    <3> QED
      BY <2>1, <2>2, <3>1 DEF AssignedBy
  <2> QED
    BY <1>1, <2>1, <2>2 DEF AssignmentsLogged
<1>3. CASE ChainStep
  <2>1. blockNumber' = blockNumber /\ \A c \in Blocks : c # blockNumber => log'[c] = log[c]
    BY <1>3, LogElsewhere
  <2>2. CASE OwnersKept
    <3>1. \A b \in Blocks : log'[b].assigned = log[b].assigned
      BY <2>1, <2>2 DEF OwnersKept
    <3> QED
      BY <1>1, <2>1, <2>2, <3>1 DEF AssignmentsLogged, OwnersKept
  <2>3. ASSUME NEW i \in SubpoolIds, OwnerAssigned(i) PROVE AssignmentsLogged'
    <3>1. /\ i # 1 => i - 1 \in SubpoolIds /\ subpoolOwners[i - 1] # ZeroAddress
          /\ \A k \in SubpoolIds : k # i => subpoolOwners'[k] = subpoolOwners[k]
          /\ log'[blockNumber].assigned = log[blockNumber].assigned \cup {i}
      BY <2>3 DEF OwnerAssigned
    <3>2. ASSUME NEW b \in Blocks PROVE IsFiniteSet(log'[b].assigned)
      <4>1. IsFiniteSet(log[b].assigned)
        BY DEF AssignmentsLogged
      <4>2. IsFiniteSet(log[b].assigned \cup {i})
        BY <4>1, FS_AddElement
      <4> QED
        BY <2>1, <3>1, <4>1, <4>2
    <3>3. ASSUME NEW b \in Blocks, NEW id \in log'[b].assigned, id # 1 PROVE AssignedBy(id - 1, b)'
      <4>1. CASE id \in log[b].assigned
        BY <1>1, <3>3, <4>1 DEF AssignmentsLogged
      <4>2. CASE b = blockNumber /\ id = i
        BY <1>1, <3>1, <3>3, <4>2 DEF AssignmentsLogged
      <4> QED
        BY <2>1, <3>1, <4>1, <4>2
    <3>4. ASSUME NEW id \in SubpoolIds, subpoolOwners'[id] # ZeroAddress PROVE AssignedBy(id, blockNumber)'
      <4>1. CASE id = i
        <5>1. i \in log'[blockNumber].assigned /\ blockNumber <= blockNumber
          BY <1>0, <3>1
        <5> QED
          BY <1>0, <2>1, <4>1, <5>1 DEF AssignedBy
      <4>2. CASE id # i
        BY <1>1, <2>1, <3>1, <3>4, <4>2 DEF AssignmentsLogged
      <4> QED
        BY <4>1, <4>2
    <3> QED
      BY <3>2, <3>3, <3>4 DEF AssignmentsLogged
  <2> QED
    BY <1>3, <2>2, <2>3, RegistryStep
<1> QED
  BY <1>2, <1>3

\* The part of the state the config tree is built from.
SameConfig(s, t) ==
    /\ t.subpoolRoots = s.subpoolRoots /\ t.configTree = s.configTree
    /\ t.nextSubpoolId = s.nextSubpoolId /\ t.buffered = s.buffered /\ t.lastSynced = s.lastSynced

\* Batches leave it alone.
LEMMA BatchesKeepConfig ==
    ASSUME NEW s, IsState(s), NEW p, NEW e
    PROVE  SameConfig(s, ApplyPreimage(s, p)) /\ SameConfig(s, ConfirmBatch(s, e))
<1>1. SameConfig(s, ApplyPreimage(s, p))
  BY DEF SameConfig, ApplyPreimage, IsState, NewState
<1>2. SameConfig(s, ConfirmBatch(s, e))
  BY DEF SameConfig, ConfirmBatch, IsState, NewState
<1> QED
  BY <1>1, <1>2

\* It starts empty.
LEMMA NewConfig ==
    /\ NewState.subpoolRoots = {} /\ NewState.nextSubpoolId = 1 /\ NewState.buffered = {}
    /\ NewState.configTree = [pos \in ConfigPositions |-> ZeroLeaf] /\ NewState.lastSynced = 0
BY DEF NewState

\* Of a finite set of positive ids that has the predecessor of each, a count from 1 finds
\* all.
LEMMA CountAll ==
    ASSUME NEW W \in SUBSET (Nat \ {0}), IsFiniteSet(W), \A id \in W : id # 1 => id - 1 \in W,
           NEW k, k = CHOOSE j \in 1 .. 1 + Cardinality(W) : (\A id \in 1 .. j - 1 : id \in W) /\ j \notin W
    PROVE  k \in Nat /\ 1 .. k - 1 \subseteq W /\ \A id \in W : id < k
<1> DEFINE n == Cardinality(W)
           T == {j \in 1 .. 1 + n : j \notin W}
<1>1. n \in Nat
  BY FS_CardinalityType
<1>2. T # {}
  <2> SUFFICES ASSUME T = {} PROVE FALSE
    OBVIOUS
  <2>1. 1 .. 1 + n \subseteq W
    OBVIOUS
  <2>2. Cardinality(1 .. 1 + n) <= n
    BY <2>1, FS_Subset
  <2>3. Cardinality(1 .. 1 + n) = 1 + n
    <3>1. 1 \in Int /\ 1 + n \in Int /\ ~(1 > 1 + n) /\ (1 + n) - 1 + 1 = 1 + n
      BY <1>1
    <3> HIDE DEF n
    <3>2. Cardinality(1 .. 1 + n) = IF 1 > 1 + n THEN 0 ELSE (1 + n) - 1 + 1
      BY <3>1, FS_Interval
    <3> QED
      BY <1>1, <3>1, <3>2
  <2> HIDE DEF n
  <2> QED
    BY <1>1, <2>2, <2>3
<1>3. T \subseteq Nat
  BY <1>1
<1>4. PICK m \in T : \A j \in T : m <= j
  BY <1>2, <1>3, LeastNat
<1>5. \A id \in 1 .. m - 1 : id \in W
  <2> SUFFICES ASSUME NEW id \in 1 .. m - 1, id \notin W PROVE FALSE
    OBVIOUS
  <2>1. id \in 1 .. 1 + n /\ ~(m <= id)
    <3> HIDE DEF n
    <3>1. m \in 1 .. 1 + n
      BY <1>4
    <3> QED
      BY <1>1, <3>1
  <2> QED
    BY <1>4, <2>1
<1>6. \E j \in 1 .. 1 + n : (\A id \in 1 .. j - 1 : id \in W) /\ j \notin W
  BY <1>4, <1>5
<1>7. k \in 1 .. 1 + n /\ (\A id \in 1 .. k - 1 : id \in W) /\ k \notin W
  <2> HIDE DEF n
  <2> QED
    BY <1>6 DEF n
<1>8. ASSUME NEW id \in W, ~(id < k) PROVE FALSE
  <2> DEFINE U == {j \in W : ~(j < k)}
  <2>1. PICK l \in U : \A j \in U : l <= j
    <3>1. U \subseteq Nat /\ id \in U
      BY <1>8
    <3> QED
      BY <3>1, LeastNat
  <2>2. k \in Nat /\ k >= 1 /\ l \in Nat /\ l # k /\ ~(l < k)
    <3> HIDE DEF n
    <3> QED
      BY <1>1, <1>7, <2>1
  <2>3. l # 1 /\ ~(l - 1 < k) /\ ~(l <= l - 1)
    BY <2>2
  <2>4. l - 1 \in W
    BY <2>1, <2>3
  <2>5. l - 1 \in U
    BY <2>3, <2>4
  <2> QED
    BY <2>1, <2>3, <2>5
<1> QED
  <2> HIDE DEF n
  <2>1. k \in Nat
    BY <1>1, <1>7
  <2> QED
    BY <1>7, <1>8, <2>1

\* What counting the assigned ids makes of the roots: a new one is zero.
RootsAssigned(s, ids, t) ==
    /\ s.subpoolRoots \subseteq t.subpoolRoots
    /\ \A e \in t.subpoolRoots \ s.subpoolRoots : e.root = 0 /\ \A f \in s.subpoolRoots : f.id # e.id
    /\ t.configTree = s.configTree /\ t.lastSynced = s.lastSynced
    /\ LET waiting == s.buffered \cup {id \in ids : id >= s.nextSubpoolId} IN
       t.nextSubpoolId = CHOOSE k \in s.nextSubpoolId .. s.nextSubpoolId + Cardinality(waiting) :
                 /\ \A id \in s.nextSubpoolId .. k - 1 : id \in waiting
                 /\ k \notin waiting

\* That is what AssignedState does.
LEMMA AssignedRoots ==
    ASSUME NEW s, IsState(s), NEW ids
    PROVE  RootsAssigned(s, ids, AssignedState(s, ids))
<1> DEFINE t == AssignedState(s, ids)
<1> DEFINE waiting == s.buffered \cup {id \in ids : id >= s.nextSubpoolId}
           next == CHOOSE k \in s.nextSubpoolId .. s.nextSubpoolId + Cardinality(waiting) :
                      /\ \A id \in s.nextSubpoolId .. k - 1 : id \in waiting
                      /\ k \notin waiting
           fresh == {id \in s.nextSubpoolId .. next - 1 : \A e \in s.subpoolRoots : e.id # id}
           added == s.subpoolRoots \cup {[id |-> id, root |-> 0] : id \in fresh}
           kept == {id \in waiting : id > next}
<1>1. AssignedState(s, ids) =
          [s EXCEPT !.subpoolRoots = added, !.nextSubpoolId = next, !.buffered = kept]
  BY Zenon DEF AssignedState
<1>2. ASSUME NEW e \in added \ s.subpoolRoots PROVE e.root = 0 /\ \A f \in s.subpoolRoots : f.id # e.id
  <2> HIDE DEF next
  <2>1. PICK id \in fresh : e = [id |-> id, root |-> 0]
    BY <1>2
  <2> QED
    BY <2>1
<1>3. s.subpoolRoots \subseteq added
  OBVIOUS
<1> HIDE DEF added, next, kept
<1>4. t.subpoolRoots = added /\ t.nextSubpoolId = next /\ t.configTree = s.configTree /\ t.lastSynced = s.lastSynced
  BY <1>1 DEF IsState, NewState
<1> QED
  BY <1>2, <1>3, <1>4 DEF next, RootsAssigned

\* What the service holds stays right while the chain moves: what a contract step changes it
\* unsettles.
LEMMA ChainConfigInv ==
    ASSUME ConfigPlaces, TypeOK, SyncTyped, ConfigInv, ChainStep \/ MineBlock, UNCHANGED syncVars
    PROVE  ConfigInv'
<1>0. /\ st' = st /\ phase' = phase /\ window' = window /\ mode' = mode
      /\ RootsLogged /\ AssignmentsLogged /\ RootsKnown /\ TreeKnown /\ GenesisCounts
  BY DEF syncVars, ConfigInv
<1>1. RootsLogged' /\ AssignmentsLogged'
  BY <1>0, ChainRootsLogged, ChainAssignmentsLogged
<1>2. /\ RootsReach' = RootsReach /\ RootsReach \in Nat /\ RootsReach < blockNumber
      /\ TreeReach' = TreeReach /\ TreeReach \in Nat /\ TreeReach < blockNumber
  BY <1>0, WindowTyped DEF RootsReach, TreeReach
<1>3. ASSUME NEW id \in SubpoolIds, NEW b \in Nat, b < blockNumber, Settled(id, b)'
      PROVE  Settled(id, b) /\ subpoolRoots'[id] = subpoolRoots[id]
  BY <1>0, <1>3, SettledStays
<1>4. RootsKnown'
  <2>1. ASSUME NEW id \in SubpoolIds, Settled(id, RootsReach)' PROVE KnowsRoot(st, id)'
    <3>1. Settled(id, RootsReach) /\ subpoolRoots'[id] = subpoolRoots[id]
      <4>1. PICK b \in Nat : b = RootsReach
        BY <1>2
      <4>2. Settled(id, b)' /\ b < blockNumber
        BY <1>2, <2>1, <4>1 DEF Settled
      <4> QED
        BY <1>3, <4>1, <4>2
    <3>2. KnowsRoot(st, id)
      BY <1>0, <3>1 DEF RootsKnown
    <3> QED
      BY <1>0, <3>1, <3>2 DEF KnowsRoot
  <2> QED
    BY <1>0, <2>1 DEF RootsKnown
<1>5. TreeKnown'
  <2>1. ASSUME NEW id \in SubpoolIds, Settled(id, TreeReach)' PROVE st'.configTree[id] = OldLeaf(id)'
    <3>1. Settled(id, TreeReach) /\ subpoolRoots'[id] = subpoolRoots[id]
      <4>1. PICK b \in Nat : b = TreeReach
        BY <1>2
      <4>2. Settled(id, b)' /\ b < blockNumber
        BY <1>2, <2>1, <4>1 DEF Settled
      <4> QED
        BY <1>3, <4>1, <4>2
    <3>2. st.configTree[id] = OldLeaf(id)
      BY <1>0, <3>1 DEF TreeKnown
    <3> QED
      BY <1>0, <3>1, <3>2 DEF OldLeaf
  <2> QED
    BY <1>0, <2>1 DEF TreeKnown
<1>6. GenesisCounts'
  <2>1. ASSUME NEW id, AssignedBy(id, window.to)' PROVE AssignedBy(id, window.to)
    <3>1. \A c \in Blocks : c <= window.to => log'[c] = log[c]
      <4>1. CASE MineBlock
        BY <4>1 DEF MineBlock
      <4>2. CASE ChainStep
        <5>1. \A c \in Blocks : c <= window.to => c # blockNumber
          BY WindowTyped
        <5> QED
          BY <4>2, <5>1, LogElsewhere
      <4> QED
        BY <4>1, <4>2
    <3> QED
      BY <1>0, <2>1, <3>1 DEF AssignedBy
  <2>2. Syncing' = Syncing
    BY <1>0 DEF Syncing
  <2> QED
    BY <1>0, <2>1, <2>2 DEF GenesisCounts
<1> QED
  BY <1>1, <1>4, <1>5, <1>6 DEF ConfigInv

\* A subpool settled since an earlier block is settled since a later one.
LEMMA SettledLater ==
    ASSUME NEW id, NEW a \in Nat, NEW b \in Nat, a <= b, Settled(id, a)
    PROVE  Settled(id, b)
<1>1. \A d \in Blocks : d > b => d > a
  BY BlockAssumption DEF Blocks
<1> QED
  BY <1>1 DEF Settled

\* The chain a service step sees stays as it is,
LEMMA ChainKept ==
    ASSUME UNCHANGED chainVars
    PROVE  /\ log' = log /\ subpoolRoots' = subpoolRoots /\ subpoolOwners' = subpoolOwners
           /\ blockNumber' = blockNumber /\ minedRoots' = minedRoots
BY DEF chainVars, vars, configVars

\* which subpools are settled or assigned too,
LEMMA SettledKept ==
    ASSUME UNCHANGED chainVars, NEW id, NEW b
    PROVE  (Settled(id, b)' <=> Settled(id, b)) /\ (AssignedBy(id, b)' <=> AssignedBy(id, b))
BY ChainKept DEF Settled, Posted, AssignedBy

\* and what is logged.
LEMMA LogsKept ==
    ASSUME UNCHANGED chainVars, RootsLogged, AssignmentsLogged
    PROVE  RootsLogged' /\ AssignmentsLogged'
<1>1. /\ log' = log /\ subpoolRoots' = subpoolRoots /\ subpoolOwners' = subpoolOwners
      /\ blockNumber' = blockNumber /\ minedRoots' = minedRoots
  BY ChainKept
<1>2. RootsLogged'
  BY <1>1 DEF RootsLogged, Settled, Posted, AssignedBy
<1>3. AssignmentsLogged'
  BY <1>1 DEF AssignmentsLogged, AssignedBy
<1> QED
  BY <1>2, <1>3

\* Where the roots and the tree are in step is between the ends of the window.
LEMMA ReachTyped ==
    ASSUME TypeOK, SyncTyped
    PROVE  /\ RootsReach \in Nat /\ TreeReach \in Nat /\ st.lastSynced \in Nat
           /\ st.lastSynced <= RootsReach /\ st.lastSynced <= TreeReach
<1>1. /\ st.lastSynced \in Nat /\ window.to \in Nat /\ window.from <= window.to
      /\ Syncing => st.lastSynced = window.from
  BY WindowTyped DEF SyncTyped
<1>2. phase \in {"rebuild", "deposits"} => Syncing
  BY DEF Syncing
<1> QED
  BY <1>1, <1>2 DEF RootsReach, TreeReach

\* A service step that leaves the roots and the tree alone, and reaches no further with them.
LEMMA KeptConfig ==
    ASSUME TypeOK, SyncTyped, ConfigInv, UNCHANGED chainVars, SameConfig(st, st'),
           phase' # "rebuild", phase' # "deposits"
    PROVE  RootsLogged' /\ AssignmentsLogged' /\ RootsKnown' /\ TreeKnown'
<1>0. RootsLogged /\ AssignmentsLogged /\ RootsKnown /\ TreeKnown
  BY DEF ConfigInv
<1>1. RootsLogged' /\ AssignmentsLogged' /\ subpoolRoots' = subpoolRoots
  BY <1>0, ChainKept, LogsKept
<1>2. RootsReach' = st.lastSynced /\ TreeReach' = st.lastSynced
  BY DEF RootsReach, TreeReach, SameConfig
<1>3. ASSUME NEW id, Settled(id, st.lastSynced) PROVE Settled(id, RootsReach) /\ Settled(id, TreeReach)
  BY <1>3, ReachTyped, SettledLater
<1>4. \A id : Settled(id, RootsReach)' \/ Settled(id, TreeReach)' => Settled(id, st.lastSynced)
  <2>1. PICK b : b = st.lastSynced
    OBVIOUS
  <2>2. \A id : Settled(id, RootsReach)' \/ Settled(id, TreeReach)' => Settled(id, b)'
    BY <1>2, <2>1 DEF Settled
  <2> QED
    BY <2>1, <2>2, SettledKept
<1>5. RootsKnown'
  BY <1>0, <1>1, <1>3, <1>4 DEF RootsKnown, KnowsRoot, SameConfig
<1>6. TreeKnown'
  BY <1>0, <1>1, <1>3, <1>4 DEF TreeKnown, OldLeaf, SameConfig
<1> QED
  BY <1>1, <1>5, <1>6

\* An empty state is right about every subpool that never posted.
LEMMA FreshConfig ==
    ASSUME RootsLogged, NEW id \in SubpoolIds, Settled(id, 0)
    PROVE  KnowsRoot(NewState, id) /\ OldLeaf(id) = ZeroLeaf
<1>1. \A b \in Blocks : b > 0
  BY BlockAssumption DEF Blocks
<1>2. subpoolRoots[id] = 0
  BY <1>1 DEF RootsLogged, Settled
<1> QED
  BY <1>2, NewConfig DEF KnowsRoot, OldLeaf

\* Starting over, after a crash or a failed genesis sync.
LEMMA RestartConfig ==
    ASSUME ConfigPlaces, ConfigInv, UNCHANGED chainVars, StartGenesis \/ Crash
    PROVE  ConfigInv'
<1>0. /\ RootsLogged' /\ AssignmentsLogged' /\ subpoolRoots' = subpoolRoots /\ RootsLogged
  BY ChainKept, LogsKept DEF ConfigInv
<1>1. st' = NewState /\ phase' \in {"txSubs", "down"}
  BY DEF StartGenesis, Crash
<1>2. RootsReach' = 0 /\ TreeReach' = 0
  BY <1>1, NewConfig DEF RootsReach, TreeReach
<1>3. ASSUME NEW id \in SubpoolIds, Settled(id, RootsReach)' \/ Settled(id, TreeReach)'
      PROVE  KnowsRoot(NewState, id) /\ OldLeaf(id) = ZeroLeaf
  <2>1. Settled(id, 0)'
    BY <1>2, <1>3 DEF Settled
  <2>2. Settled(id, 0)
    BY <2>1, SettledKept
  <2> QED
    BY <1>0, <2>2, FreshConfig
<1>4. RootsKnown'
  BY <1>0, <1>1, <1>3, NewConfig DEF RootsKnown, KnowsRoot
<1>5. TreeKnown'
  <2>1. \A pos \in ConfigPositions : NewState.configTree[pos] = ZeroLeaf
    BY NewConfig
  <2>2. \A id \in SubpoolIds : id \in ConfigPositions
    BY DEF ConfigPlaces
  <2>3. DOMAIN NewState.configTree = ConfigPositions
        /\ NewState.configTree = [pos \in ConfigPositions |-> NewState.configTree[pos]]
    BY NewConfig
  <2>4. \A id \in SubpoolIds : Settled(id, TreeReach)' => NewState.configTree[id] = OldLeaf(id)'
    <3>1. \A id \in SubpoolIds : OldLeaf(id)' = OldLeaf(id)
      BY <1>0 DEF OldLeaf
    <3> QED
      BY <1>3, <2>1, <2>2, <3>1
  <2> HIDE DEF NewState
  <2> QED
    BY <1>1, <2>1, <2>3, <2>4 DEF TreeKnown
<1>6. GenesisCounts'
  BY <1>1, NewConfig DEF GenesisCounts
<1> QED
  BY <1>0, <1>4, <1>5, <1>6 DEF ConfigInv

\* What is assigned in blocks 1 .. b.
AssignedIn(b) == UNION {log[c].assigned : c \in 1 .. b}

\* It is finite, and has the predecessor of every id.
LEMMA AssignedUnion ==
    ASSUME AssignmentsLogged, log \in [Blocks -> Events], NEW b \in Nat, b <= MaxBlock
    PROVE  /\ \A id : id \in AssignedIn(b) <=> AssignedBy(id, b)
           /\ AssignedIn(b) \in SUBSET (Nat \ {0}) /\ AssignedIn(b) \subseteq SubpoolIds
           /\ IsFiniteSet(AssignedIn(b))
           /\ \A id \in AssignedIn(b) : id # 1 => id - 1 \in AssignedIn(b)
<1> DEFINE W == AssignedIn(b)
<1>0. 1 .. b \subseteq Blocks /\ MaxBlock \in Nat
  BY BlockAssumption DEF Blocks
<1>1. \A c : c \in 1 .. b <=> c \in Blocks /\ c <= b
  BY <1>0 DEF Blocks
<1>2. \A id : id \in W <=> AssignedBy(id, b)
  BY <1>1 DEF AssignedBy, AssignedIn
<1>3. W \subseteq SubpoolIds
  <2>1. \A c \in Blocks : log[c].assigned \subseteq SubpoolIds
    BY DEF Events
  <2> QED
    BY <1>0, <2>1 DEF AssignedIn
<1>4. IsFiniteSet(W)
  <2> DEFINE F == {log[c].assigned : c \in 1 .. b}
  <2>1. IsFiniteSet(1 .. b)
    BY FS_Interval
  <2>2. IsFiniteSet(F)
    <3> DEFINE f == [c \in 1 .. b |-> log[c].assigned]
    <3>1. F = {f[c] : c \in 1 .. b}
      OBVIOUS
    <3> HIDE DEF F, f
    <3> QED
      BY <2>1, <3>1, FiniteImage
  <2>3. \A x \in F : IsFiniteSet(x)
    BY <1>0 DEF AssignmentsLogged
  <2> HIDE DEF F
  <2>4. IsFiniteSet(UNION F)
    BY <2>2, <2>3, FS_UNION
  <2> QED
    BY <2>4 DEF F, AssignedIn
<1>5. ASSUME NEW id \in W, id # 1 PROVE id - 1 \in W
  <2>1. PICK c \in Blocks : c <= b /\ id \in log[c].assigned
    BY <1>2 DEF AssignedBy
  <2>2. AssignedBy(id - 1, c)
    BY <1>5, <2>1 DEF AssignmentsLogged
  <2>3. \A d \in Blocks : d <= c => d <= b
    BY <1>0, <2>1 DEF Blocks
  <2>4. AssignedBy(id - 1, b)
    BY <2>2, <2>3 DEF AssignedBy
  <2> QED
    BY <1>2, <2>4
<1>6. W \in SUBSET (Nat \ {0})
  BY <1>3, SubpoolAssumption
<1> QED
  BY <1>2, <1>3, <1>4, <1>5, <1>6

\* The assigned ids are counted.
LEMMA AssignConfig ==
    ASSUME TypeOK, SyncTyped, ConfigInv, UNCHANGED chainVars, AssignSubpools
    PROVE  ConfigInv'
<1>0. /\ RootsLogged' /\ AssignmentsLogged' /\ subpoolRoots' = subpoolRoots
      /\ AssignmentsLogged /\ RootsKnown /\ TreeKnown /\ GenesisCounts
  BY ChainKept, LogsKept DEF ConfigInv
<1> DEFINE ids == UNION {log[b].assigned : b \in FromBlock .. ToBlock}
<1>1. /\ phase = "config" /\ phase' = "roots" /\ mode' = mode /\ window' = window
      /\ st' = AssignedState(st, ids) /\ IsState(st)
  BY DEF AssignSubpools, Goto, SyncTyped
<1>2s. RootsAssigned(st, ids, st')
  <2> HIDE DEF ids
  <2> QED
    BY <1>1, AssignedRoots
<1>2. /\ st.subpoolRoots \subseteq st'.subpoolRoots
      /\ \A e \in st'.subpoolRoots \ st.subpoolRoots : e.root = 0 /\ \A f \in st.subpoolRoots : f.id # e.id
      /\ st'.configTree = st.configTree /\ st'.lastSynced = st.lastSynced
      /\ LET waiting == st.buffered \cup {id \in ids : id >= st.nextSubpoolId} IN
         st'.nextSubpoolId = CHOOSE k \in st.nextSubpoolId .. st.nextSubpoolId + Cardinality(waiting) :
                   /\ \A id \in st.nextSubpoolId .. k - 1 : id \in waiting
                   /\ k \notin waiting
  BY <1>2s DEF RootsAssigned
<1>3. RootsReach = st.lastSynced /\ TreeReach = st.lastSynced
      /\ RootsReach' = st.lastSynced /\ TreeReach' = st.lastSynced
  BY <1>1, <1>2 DEF RootsReach, TreeReach
<1>4. \A id : /\ Settled(id, RootsReach)' <=> Settled(id, RootsReach)
              /\ Settled(id, TreeReach)' <=> Settled(id, TreeReach)
  <2>1. PICK b : b = st.lastSynced
    OBVIOUS
  <2>2. \A id : /\ Settled(id, RootsReach)' <=> Settled(id, b)'
                /\ Settled(id, TreeReach)' <=> Settled(id, b)'
    BY <1>3, <2>1 DEF Settled
  <2> QED
    BY <1>3, <2>1, <2>2, SettledKept
<1>5. RootsKnown'
  <2>1. \A e \in st'.subpoolRoots : e.root # 0 => e.id \in SubpoolIds
    BY <1>0, <1>2 DEF RootsKnown
  <2>2. ASSUME NEW id \in SubpoolIds, Settled(id, RootsReach)' PROVE KnowsRoot(st, id)'
    <3>1. KnowsRoot(st, id)
      BY <1>0, <1>4, <2>2 DEF RootsKnown
    <3>2. ASSUME NEW e \in st'.subpoolRoots, e.id = id PROVE e.root = subpoolRoots[id]
      <4>1. CASE e \in st.subpoolRoots
        BY <3>1, <3>2, <4>1 DEF KnowsRoot
      <4>2. CASE e \notin st.subpoolRoots
        BY <1>2, <3>1, <3>2, <4>2 DEF KnowsRoot
      <4> QED
        BY <4>1, <4>2
    <3> QED
      BY <1>0, <1>2, <3>1, <3>2 DEF KnowsRoot
  <2> QED
    BY <2>1, <2>2 DEF RootsKnown
<1>6. TreeKnown'
  BY <1>0, <1>2, <1>4 DEF TreeKnown, OldLeaf
<1>7. GenesisCounts'
  <2>1. ASSUME mode = "genesis"
        PROVE  /\ st'.nextSubpoolId \in Nat /\ 1 .. st'.nextSubpoolId - 1 \subseteq SubpoolIds
               /\ \A id \in SubpoolIds : AssignedBy(id, window.to) => id < st'.nextSubpoolId
    <3>1. st.nextSubpoolId = 1 /\ st.buffered = {} /\ st.lastSynced = 0 /\ window.from = 0
      BY <1>0, <1>1, <2>1 DEF GenesisCounts, SyncTyped, Syncing
    <3>2. FromBlock = 1 /\ ToBlock = window.to /\ window.to \in Nat /\ window.to <= MaxBlock
      BY <3>1, WindowTyped DEF FromBlock, ToBlock
    <3>3. ids = AssignedIn(window.to)
      BY <3>2 DEF AssignedIn
    <3> HIDE DEF ids
    <3>4. /\ \A id : id \in ids <=> AssignedBy(id, window.to)
          /\ ids \in SUBSET (Nat \ {0}) /\ ids \subseteq SubpoolIds /\ IsFiniteSet(ids)
          /\ \A id \in ids : id # 1 => id - 1 \in ids
      BY <1>0, <3>2, <3>3, AssignedUnion DEF SyncTyped
    <3>5. {} \cup {id \in ids : id >= 1} = ids
      <4>1. \A id \in ids : id \in Nat /\ id # 0
        BY <3>4
      <4>2. \A n \in Nat : n # 0 => n >= 1
        OBVIOUS
      <4>3. \A id \in ids : id >= 1
        BY <4>1, <4>2
      <4> QED
        BY <4>3, Zenon
    <3>6. st'.nextSubpoolId = CHOOSE k \in 1 .. 1 + Cardinality(ids) :
                                (\A id \in 1 .. k - 1 : id \in ids) /\ k \notin ids
      BY <1>2, <3>1, <3>5
    <3>7. st'.nextSubpoolId \in Nat /\ 1 .. st'.nextSubpoolId - 1 \subseteq ids
          /\ \A id \in ids : id < st'.nextSubpoolId
      BY <3>4, <3>6, CountAll
    <3> QED
      BY <3>4, <3>7
  <2>2. mode = "genesis" => st.lastSynced = 0
    BY <1>0, <1>1 DEF GenesisCounts, Syncing
  <2>3. \A id : AssignedBy(id, window.to)' <=> AssignedBy(id, window.to)
    <3>1. PICK b : b = window.to
      OBVIOUS
    <3>2. \A id : AssignedBy(id, window.to)' <=> AssignedBy(id, b)'
      BY <1>1, <3>1 DEF AssignedBy
    <3> QED
      BY <3>1, <3>2, SettledKept
  <2> HIDE DEF ids
  <2> QED
    BY <1>1, <1>2, <2>1, <2>2, <2>3 DEF GenesisCounts
<1> QED
  BY <1>0, <1>5, <1>6, <1>7 DEF ConfigInv

\* The latest roots logged in blocks from .. to, as UpdateRoots picks them.
PostedIn(from, to) == {q \in (from .. to) \X (SubpoolIds \X SubpoolRootVals) : q[2] \in log[q[1]].updated}
LatestIn(from, to) ==
    {p[2] : p \in {q \in PostedIn(from, to) : \A r \in PostedIn(from, to) : r[2][1] = q[2][1] => r[1] <= q[1]}}

\* One of them, in terms of the log.
LEMMA LatestOf ==
    ASSUME NEW from, NEW to, NEW u
    PROVE  u \in LatestIn(from, to) <=>
             /\ u \in SubpoolIds \X SubpoolRootVals
             /\ \E b \in from .. to : /\ u \in log[b].updated
                                      /\ \A d \in from .. to : Posted(u[1], d) => d <= b
<1>1. \A b, v : <<b, v>> \in PostedIn(from, to) <=>
                  b \in from .. to /\ v \in SubpoolIds \X SubpoolRootVals /\ v \in log[b].updated
  BY DEF PostedIn
<1>2. \A q \in PostedIn(from, to) : q = <<q[1], q[2]>>
  BY DEF PostedIn
<1>3. ASSUME u \in LatestIn(from, to)
      PROVE  /\ u \in SubpoolIds \X SubpoolRootVals
             /\ \E b \in from .. to : /\ u \in log[b].updated
                                      /\ \A d \in from .. to : Posted(u[1], d) => d <= b
  <2>1. PICK q \in PostedIn(from, to) :
            /\ u = q[2] /\ \A r \in PostedIn(from, to) : r[2][1] = q[2][1] => r[1] <= q[1]
    BY <1>3 DEF LatestIn
  <2>2. q[1] \in from .. to /\ u \in SubpoolIds \X SubpoolRootVals /\ u \in log[q[1]].updated
    BY <1>1, <1>2, <2>1
  <2>3. ASSUME NEW d \in from .. to, Posted(u[1], d) PROVE d <= q[1]
    <3>1. PICK x \in SubpoolRootVals : <<u[1], x>> \in log[d].updated
      BY <2>3 DEF Posted
    <3>2. <<u[1], x>> \in SubpoolIds \X SubpoolRootVals /\ <<u[1], x>>[1] = u[1]
      BY <2>2, <3>1
    <3>3. <<d, <<u[1], x>>>> \in PostedIn(from, to)
      BY <1>1, <3>1, <3>2
    <3>4. <<d, <<u[1], x>>>>[1] = d /\ <<d, <<u[1], x>>>>[2] = <<u[1], x>>
      OBVIOUS
    <3> QED
      BY <2>1, <3>2, <3>3, <3>4
  <2> QED
    BY <2>2, <2>3
<1>4. ASSUME u \in SubpoolIds \X SubpoolRootVals,
             NEW b \in from .. to, u \in log[b].updated,
             \A d \in from .. to : Posted(u[1], d) => d <= b
      PROVE  u \in LatestIn(from, to)
  <2>1. <<b, u>> \in PostedIn(from, to) /\ <<b, u>>[1] = b /\ <<b, u>>[2] = u
    BY <1>1, <1>4
  <2>2. ASSUME NEW r \in PostedIn(from, to), r[2][1] = u[1] PROVE r[1] <= b
    <3>1. r[1] \in from .. to /\ r[2] \in SubpoolIds \X SubpoolRootVals /\ r[2] \in log[r[1]].updated
      BY <1>1, <1>2
    <3>2. r[2] = <<r[2][1], r[2][2]>> /\ r[2][2] \in SubpoolRootVals
      BY <3>1
    <3>3. Posted(u[1], r[1])
      BY <2>2, <3>1, <3>2 DEF Posted
    <3> QED
      BY <1>4, <3>1, <3>3
  <2>3. \A r \in PostedIn(from, to) : r[2][1] = <<b, u>>[2][1] => r[1] <= <<b, u>>[1]
    BY <2>1, <2>2
  <2> QED
    BY <2>1, <2>3 DEF LatestIn
<1> QED
  BY <1>3, <1>4

\* A subpool settled since the end of a window has its current root posted last in it, or no
\* root posted in it.
LEMMA LatestCurrent ==
    ASSUME RootsLogged, NEW from \in Nat, NEW to \in Nat, to <= MaxBlock, NEW id \in SubpoolIds, Settled(id, to)
    PROVE  /\ \A u \in LatestIn(from + 1, to) : u[1] = id => u[2] = subpoolRoots[id]
           /\ (\A u \in LatestIn(from + 1, to) : u[1] # id) => Settled(id, from)
<1>0. \A d : d \in from + 1 .. to <=> d \in Blocks /\ d > from /\ ~(d > to)
  BY BlockAssumption DEF Blocks
<1>1. ASSUME NEW u \in LatestIn(from + 1, to), u[1] = id PROVE u[2] = subpoolRoots[id]
  <2>1. PICK b \in from + 1 .. to : /\ u \in log[b].updated
                                    /\ \A d \in from + 1 .. to : Posted(id, d) => d <= b
    BY <1>1, LatestOf
  <2>2. u \in SubpoolIds \X SubpoolRootVals
    BY <1>1, LatestOf
  <2>3. u = <<id, u[2]>> /\ u[2] \in SubpoolRootVals
    BY <1>1, <2>2
  <2>4. Settled(id, b)
    <3> SUFFICES ASSUME NEW d \in Blocks, d > b, Posted(id, d) PROVE FALSE
      BY DEF Settled
    <3>1. b \in Nat /\ d \in Nat /\ b > from
      BY <1>0 DEF Blocks
    <3>2. d > from /\ ~(d <= b)
      BY <3>1
    <3>3. CASE d > to
      BY <3>3 DEF Settled
    <3>4. CASE ~(d > to)
      BY <1>0, <2>1, <3>2, <3>4
    <3> QED
      BY <3>3, <3>4
  <2> QED
    BY <1>0, <2>1, <2>3, <2>4 DEF RootsLogged
<1>2. ASSUME NEW d \in from + 1 .. to, Posted(id, d) PROVE \E u \in LatestIn(from + 1, to) : u[1] = id
  <2> DEFINE T == {to - c : c \in {x \in from + 1 .. to : Posted(id, x)}}
  <2>1. T \subseteq Nat /\ T # {}
    BY <1>2
  <2>2. PICK m \in T : \A k \in T : m <= k
    BY <2>1, LeastNat
  <2>3. PICK b \in from + 1 .. to : Posted(id, b) /\ m = to - b
    BY <2>2
  <2>4. ASSUME NEW c \in from + 1 .. to, Posted(id, c) PROVE c <= b
    <3>1. to - b <= to - c
      BY <2>2, <2>3, <2>4
    <3> QED
      BY <2>3, <3>1
  <2>5. PICK r \in SubpoolRootVals : <<id, r>> \in log[b].updated
    BY <2>3 DEF Posted
  <2>6. <<id, r>> \in SubpoolIds \X SubpoolRootVals /\ <<id, r>>[1] = id
    OBVIOUS
  <2>7. <<id, r>> \in LatestIn(from + 1, to)
    BY <2>3, <2>4, <2>5, <2>6, LatestOf
  <2> QED
    BY <2>6, <2>7
<1>3. ASSUME \A u \in LatestIn(from + 1, to) : u[1] # id PROVE Settled(id, from)
  <2> SUFFICES ASSUME NEW d \in Blocks, d > from, Posted(id, d) PROVE FALSE
    BY DEF Settled
  <2>1. CASE d > to
    BY <2>1 DEF Settled
  <2>2. CASE ~(d > to)
    BY <1>0, <1>2, <1>3, <2>2
  <2> QED
    BY <2>1, <2>2
<1> QED
  BY <1>1, <1>3

\* The roots after UpdateRoots: read at the head of the chain or replayed.
CurrentRoots == {[id |-> id, root |-> minedRoots[id]] : id \in 1 .. st.nextSubpoolId - 1}
ReplayedRoots ==
    {e \in st.subpoolRoots : \A u \in LatestIn(FromBlock, ToBlock) : u[1] # e.id}
        \cup {[id |-> u[1], root |-> u[2]] : u \in LatestIn(FromBlock, ToBlock)}

\* That is what the service sets.
LEMMA RootsSet ==
    ASSUME UpdateRoots, IsState(st)
    PROVE  /\ phase = "roots" /\ phase' = "rebuild" /\ mode' = mode /\ window' = window
           /\ st'.subpoolRoots = IF mode = "genesis" THEN CurrentRoots ELSE ReplayedRoots
           /\ st'.configTree = st.configTree /\ st'.lastSynced = st.lastSynced
<1> DEFINE roots == IF mode = "genesis" THEN CurrentRoots ELSE ReplayedRoots
<1>1. /\ phase = "roots" /\ phase' = "rebuild" /\ mode' = mode /\ window' = window
      /\ st' = [st EXCEPT !.subpoolRoots = roots]
  BY Zenon DEF UpdateRoots, Goto, CurrentRoots, ReplayedRoots, LatestIn, PostedIn
<1> HIDE DEF roots
<1>2. st'.subpoolRoots = roots /\ st'.configTree = st.configTree /\ st'.lastSynced = st.lastSynced
  BY <1>1 DEF IsState, NewState
<1> QED
  BY <1>1, <1>2 DEF roots

\* Genesis sync has counted every subpool whose root it needs, and the head's root of a
\* settled subpool is the current one.
LEMMA GenesisRoots ==
    ASSUME TypeOK, SyncTyped, ConfigInv, phase = "roots", mode = "genesis"
    PROVE  /\ \A e \in CurrentRoots : e.id \in SubpoolIds
           /\ \A id \in SubpoolIds : Settled(id, window.to) =>
                /\ \A e \in CurrentRoots : e.id = id => e.root = subpoolRoots[id]
                /\ subpoolRoots[id] # 0 => \E e \in CurrentRoots : e.id = id
<1>0. /\ st.nextSubpoolId \in Nat /\ 1 .. st.nextSubpoolId - 1 \subseteq SubpoolIds
      /\ \A id \in SubpoolIds : AssignedBy(id, window.to) => id < st.nextSubpoolId
      /\ RootsLogged
  BY DEF ConfigInv, GenesisCounts
<1>1. \A e \in CurrentRoots : e.id \in SubpoolIds /\ e.root = minedRoots[e.id]
  BY <1>0 DEF CurrentRoots
<1>2. ASSUME NEW id \in SubpoolIds, Settled(id, window.to)
      PROVE  /\ \A e \in CurrentRoots : e.id = id => e.root = subpoolRoots[id]
             /\ subpoolRoots[id] # 0 => \E e \in CurrentRoots : e.id = id
  <2>1. ~Posted(id, blockNumber)
    <3>1. blockNumber \in Blocks /\ blockNumber > window.to
      BY WindowTyped
    <3> QED
      BY <1>2, <3>1 DEF Settled
  <2>2. minedRoots[id] = subpoolRoots[id]
    BY <1>0, <2>1 DEF RootsLogged
  <2>3. ASSUME subpoolRoots[id] # 0 PROVE \E e \in CurrentRoots : e.id = id
    <3>1. PICK b \in Blocks : Posted(id, b)
      BY <1>0, <2>3 DEF RootsLogged
    <3>2. b <= window.to /\ b \in Nat /\ window.to \in Nat
      <4>1. b \in Nat /\ window.to \in Nat /\ ~(b > window.to)
        BY <1>2, <3>1, WindowTyped DEF Settled, Blocks
      <4> QED
        BY <4>1
    <3>3. PICK r \in SubpoolRootVals : <<id, r>> \in log[b].updated
      BY <3>1 DEF Posted
    <3>4. AssignedBy(<<id, r>>[1], b) /\ <<id, r>>[1] = id
      BY <1>0, <3>3 DEF RootsLogged
    <3>5. AssignedBy(id, window.to)
      <4>1. PICK c \in Blocks : c <= b /\ id \in log[c].assigned
        BY <3>4 DEF AssignedBy
      <4>2. c <= window.to
        BY <3>2, <4>1 DEF Blocks
      <4> QED
        BY <4>1, <4>2 DEF AssignedBy
    <3>6. id \in 1 .. st.nextSubpoolId - 1
      <4>1. id \in Nat /\ id # 0 /\ id < st.nextSubpoolId
        BY <1>0, <3>5, SubpoolAssumption
      <4> QED
        BY <1>0, <4>1
    <3>7. [id |-> id, root |-> minedRoots[id]] \in CurrentRoots
      BY <3>6 DEF CurrentRoots
    <3> QED
      BY <3>7
  <2> QED
    BY <1>1, <2>2, <2>3
<1> QED
  BY <1>1, <1>2

\* Replaying the last event of each subpool keeps the others.
LEMMA PolledRoots ==
    ASSUME TypeOK, SyncTyped, ConfigInv, phase = "roots"
    PROVE  /\ \A e \in ReplayedRoots : e.root # 0 => e.id \in SubpoolIds
           /\ \A id \in SubpoolIds : Settled(id, window.to) =>
                /\ \A e \in ReplayedRoots : e.id = id => e.root = subpoolRoots[id]
                /\ subpoolRoots[id] # 0 => \E e \in ReplayedRoots : e.id = id
<1>0. /\ RootsLogged /\ RootsKnown
      /\ window.from \in Nat /\ window.to \in Nat /\ window.to <= MaxBlock
      /\ FromBlock = window.from + 1 /\ ToBlock = window.to
      /\ RootsReach = window.from
  BY WindowTyped DEF ConfigInv, FromBlock, ToBlock, RootsReach, SyncTyped, Syncing
<1> DEFINE L == LatestIn(window.from + 1, window.to)
<1>1. LatestIn(FromBlock, ToBlock) = L
  BY <1>0
<1>2. \A u \in L : u[1] \in SubpoolIds
  <2>1. \A u \in L : u \in SubpoolIds \X SubpoolRootVals
    BY LatestOf
  <2> QED
    BY <2>1
<1> HIDE DEF L
<1>3. ReplayedRoots = {e \in st.subpoolRoots : \A u \in L : u[1] # e.id}
                        \cup {[id |-> u[1], root |-> u[2]] : u \in L}
  BY <1>1 DEF ReplayedRoots
<1>4. \A e \in ReplayedRoots : \/ e \in st.subpoolRoots /\ \A u \in L : u[1] # e.id
                               \/ \E u \in L : e.id = u[1] /\ e.root = u[2]
  BY <1>3
<1>5. \A e \in ReplayedRoots : e.root # 0 => e.id \in SubpoolIds
  BY <1>0, <1>2, <1>4 DEF RootsKnown
<1>6. ASSUME NEW id \in SubpoolIds, Settled(id, window.to)
      PROVE  /\ \A e \in ReplayedRoots : e.id = id => e.root = subpoolRoots[id]
             /\ subpoolRoots[id] # 0 => \E e \in ReplayedRoots : e.id = id
  <2>1. /\ \A u \in L : u[1] = id => u[2] = subpoolRoots[id]
        /\ (\A u \in L : u[1] # id) => Settled(id, window.from)
    BY <1>0, <1>6, LatestCurrent DEF L
  <2>2. CASE \A u \in L : u[1] # id
    <3>1. KnowsRoot(st, id)
      BY <1>0, <2>1, <2>2 DEF RootsKnown
    <3>2. \A e \in ReplayedRoots : e.id = id => e \in st.subpoolRoots
      BY <1>4, <2>2
    <3>3. \A e \in st.subpoolRoots : e.id = id => e \in ReplayedRoots
      BY <1>3, <2>2
    <3> QED
      BY <3>1, <3>2, <3>3 DEF KnowsRoot
  <2>3. ASSUME NEW u \in L, u[1] = id
        PROVE  /\ \A e \in ReplayedRoots : e.id = id => e.root = subpoolRoots[id]
               /\ \E e \in ReplayedRoots : e.id = id
    <3>1. [id |-> u[1], root |-> u[2]] \in ReplayedRoots /\ [id |-> u[1], root |-> u[2]].id = id
      BY <1>3, <2>3
    <3> QED
      BY <1>4, <2>1, <2>3, <3>1
  <2> QED
    BY <2>2, <2>3
<1> QED
  BY <1>5, <1>6

\* So after UpdateRoots the roots are in step with the end of the window.
LEMMA UpdateConfig ==
    ASSUME TypeOK, SyncTyped, ConfigInv, UNCHANGED chainVars, UpdateRoots
    PROVE  ConfigInv'
<1>0. /\ RootsLogged' /\ AssignmentsLogged' /\ subpoolRoots' = subpoolRoots
      /\ RootsKnown /\ TreeKnown /\ GenesisCounts
  BY ChainKept, LogsKept DEF ConfigInv
<1>1. /\ phase = "roots" /\ phase' = "rebuild" /\ mode' = mode /\ window' = window
      /\ st'.subpoolRoots = IF mode = "genesis" THEN CurrentRoots ELSE ReplayedRoots
      /\ st'.configTree = st.configTree /\ st'.lastSynced = st.lastSynced
  BY RootsSet DEF SyncTyped
<1>2. /\ \A e \in st'.subpoolRoots : e.root # 0 => e.id \in SubpoolIds
      /\ \A id \in SubpoolIds : Settled(id, window.to) =>
           /\ \A e \in st'.subpoolRoots : e.id = id => e.root = subpoolRoots[id]
           /\ subpoolRoots[id] # 0 => \E e \in st'.subpoolRoots : e.id = id
  <2>1. CASE mode = "genesis"
    BY <1>1, <2>1, GenesisRoots
  <2>2. CASE mode # "genesis"
    BY <1>1, <2>2, PolledRoots
  <2> QED
    BY <2>1, <2>2
<1>3. RootsReach' = window.to /\ TreeReach = st.lastSynced /\ TreeReach' = st.lastSynced
  BY <1>1 DEF RootsReach, TreeReach
<1>4. \A id : /\ Settled(id, RootsReach)' <=> Settled(id, window.to)
              /\ Settled(id, TreeReach)' <=> Settled(id, TreeReach)
  <2>1. PICK a, b : a = window.to /\ b = st.lastSynced
    OBVIOUS
  <2>2. \A id : /\ Settled(id, RootsReach)' <=> Settled(id, a)'
                /\ Settled(id, TreeReach)' <=> Settled(id, b)'
    BY <1>3, <2>1 DEF Settled
  <2> QED
    BY <1>3, <2>1, <2>2, SettledKept
<1>5. RootsKnown'
  BY <1>0, <1>2, <1>4 DEF RootsKnown, KnowsRoot
<1>6. TreeKnown'
  BY <1>0, <1>1, <1>4 DEF TreeKnown, OldLeaf
<1>7. GenesisCounts'
  BY <1>0, <1>1 DEF GenesisCounts, Syncing
<1> QED
  BY <1>0, <1>5, <1>6, <1>7 DEF ConfigInv

\* A subpool's leaf is rebuilt from its root.
LEMMA RebuiltLeaf ==
    ASSUME NEW s, IsState(s), NEW t, t = RebuildConfigTree(s)
    PROVE  /\ t.subpoolRoots = s.subpoolRoots /\ t.lastSynced = s.lastSynced
           /\ DOMAIN t.configTree = ConfigPositions
           /\ t.configTree = [pos \in ConfigPositions |-> t.configTree[pos]]
           /\ \A pos \in ConfigPositions :
                \/ (\A e \in s.subpoolRoots : e.id # pos) /\ t.configTree[pos] = ZeroLeaf
                \/ \E e \in s.subpoolRoots : e.id = pos /\
                        t.configTree[pos] = IF e.root = 0 THEN ZeroLeaf ELSE ConfigLeaf(pos, e.root)
<1> DEFINE RootAt(pos) == (CHOOSE e \in s.subpoolRoots : e.id = pos).root
           known == {e.id : e \in s.subpoolRoots}
           tree == [pos \in ConfigPositions |->
                      IF pos \in known /\ RootAt(pos) # 0 THEN ConfigLeaf(pos, RootAt(pos)) ELSE ZeroLeaf]
<1>1. RebuildConfigTree(s) = [s EXCEPT !.configTree = tree]
  BY Zenon DEF RebuildConfigTree
<1>2. /\ DOMAIN tree = ConfigPositions /\ tree = [pos \in ConfigPositions |-> tree[pos]]
      /\ \A pos \in ConfigPositions :
            tree[pos] = IF pos \in known /\ RootAt(pos) # 0 THEN ConfigLeaf(pos, RootAt(pos)) ELSE ZeroLeaf
  OBVIOUS
<1> HIDE DEF tree
<1>3. t.configTree = tree /\ t.subpoolRoots = s.subpoolRoots /\ t.lastSynced = s.lastSynced
  BY <1>1 DEF IsState, NewState
<1>4. ASSUME NEW pos \in ConfigPositions
      PROVE  \/ (\A e \in s.subpoolRoots : e.id # pos) /\ tree[pos] = ZeroLeaf
             \/ \E e \in s.subpoolRoots : e.id = pos /\
                     tree[pos] = IF e.root = 0 THEN ZeroLeaf ELSE ConfigLeaf(pos, e.root)
  <2>1. CASE pos \in known
    <3>1. PICK e \in s.subpoolRoots : e = (CHOOSE f \in s.subpoolRoots : f.id = pos) /\ e.id = pos
      BY <2>1
    <3>2. RootAt(pos) = e.root
      BY <3>1
    <3> QED
      BY <1>2, <2>1, <3>1, <3>2
  <2>2. CASE pos \notin known
    BY <1>2, <2>2
  <2> QED
    BY <2>1, <2>2
<1> QED
  BY <1>2, <1>3, <1>4

\* The tree is rebuilt.
LEMMA RebuildConfig ==
    ASSUME ConfigPlaces, TypeOK, SyncTyped, ConfigInv, UNCHANGED chainVars, RebuildTree
    PROVE  ConfigInv'
<1>0. /\ RootsLogged' /\ AssignmentsLogged' /\ subpoolRoots' = subpoolRoots
      /\ RootsKnown /\ TreeKnown /\ GenesisCounts
  BY ChainKept, LogsKept DEF ConfigInv
<1>1. /\ phase = "rebuild" /\ phase' = "deposits" /\ mode' = mode /\ window' = window
      /\ st' = RebuildConfigTree(st) /\ IsState(st)
  BY DEF RebuildTree, Goto, SyncTyped
<1>2. /\ st'.subpoolRoots = st.subpoolRoots /\ st'.lastSynced = st.lastSynced
      /\ DOMAIN st'.configTree = ConfigPositions
      /\ st'.configTree = [pos \in ConfigPositions |-> st'.configTree[pos]]
      /\ \A pos \in ConfigPositions :
           \/ (\A e \in st.subpoolRoots : e.id # pos) /\ st'.configTree[pos] = ZeroLeaf
           \/ \E e \in st.subpoolRoots : e.id = pos /\
                   st'.configTree[pos] = IF e.root = 0 THEN ZeroLeaf ELSE ConfigLeaf(pos, e.root)
  BY <1>1, RebuiltLeaf
<1>3. RootsReach = window.to /\ RootsReach' = window.to /\ TreeReach' = window.to
  BY <1>1 DEF RootsReach, TreeReach
<1>4. \A id : /\ Settled(id, RootsReach)' <=> Settled(id, RootsReach)
              /\ Settled(id, TreeReach)' <=> Settled(id, RootsReach)
  <2>1. PICK a : a = window.to
    OBVIOUS
  <2>2. \A id : /\ Settled(id, RootsReach)' <=> Settled(id, a)'
                /\ Settled(id, TreeReach)' <=> Settled(id, a)'
    BY <1>3, <2>1 DEF Settled
  <2> QED
    BY <1>3, <2>1, <2>2, SettledKept
<1>5. RootsKnown'
  BY <1>0, <1>2, <1>4 DEF RootsKnown, KnowsRoot
<1>6. TreeKnown'
  <2>1. ASSUME NEW pos \in ConfigPositions, pos \notin SubpoolIds PROVE st'.configTree[pos] = ZeroLeaf
    BY <1>0, <1>2, <2>1 DEF RootsKnown
  <2>2. ASSUME NEW id \in SubpoolIds, Settled(id, RootsReach) PROVE st'.configTree[id] = OldLeaf(id)
    <3>1. KnowsRoot(st, id) /\ id \in ConfigPositions
      BY <1>0, <2>2 DEF RootsKnown, ConfigPlaces
    <3> QED
      BY <1>2, <3>1 DEF KnowsRoot, OldLeaf
  <2>3. \A id \in SubpoolIds : OldLeaf(id)' = OldLeaf(id)
    BY <1>0 DEF OldLeaf
  <2> QED
    BY <1>2, <1>4, <2>1, <2>2, <2>3 DEF TreeKnown
<1>7. GenesisCounts'
  BY <1>0, <1>1, <1>2 DEF GenesisCounts, Syncing
<1> QED
  BY <1>0, <1>5, <1>6, <1>7 DEF ConfigInv

\* The window is synced.
LEMMA SyncedConfig ==
    ASSUME TypeOK, SyncTyped, ConfigInv, UNCHANGED chainVars, SyncDeposits
    PROVE  ConfigInv'
<1>0. /\ RootsLogged' /\ AssignmentsLogged' /\ subpoolRoots' = subpoolRoots
      /\ RootsKnown /\ TreeKnown /\ GenesisCounts
  BY ChainKept, LogsKept DEF ConfigInv
<1>1. phase = "deposits" /\ phase' = "idle" /\ mode' = "poll" /\ IsState(st)
  BY DEF SyncDeposits, Goto, SyncTyped
<1>2. st'.subpoolRoots = st.subpoolRoots /\ st'.configTree = st.configTree /\ st'.lastSynced = window.to
  <2>1. PICK ds : DepositsApplied(st, FromBlock, ToBlock) = [st EXCEPT !.deposits = ds]
    BY DepositsAppliedOnly
  <2>2. st' = [[st EXCEPT !.deposits = ds] EXCEPT !.lastSynced = window.to]
    BY <2>1 DEF SyncDeposits
  <2> QED
    BY <1>1, <2>2 DEF IsState, NewState
<1>3. /\ RootsReach = window.to /\ TreeReach = window.to
      /\ RootsReach' = window.to /\ TreeReach' = window.to
  BY <1>1, <1>2 DEF RootsReach, TreeReach
<1>4. \A id : /\ Settled(id, RootsReach)' <=> Settled(id, RootsReach)
              /\ Settled(id, TreeReach)' <=> Settled(id, TreeReach)
  <2>1. PICK a : a = window.to
    OBVIOUS
  <2>2. \A id : /\ Settled(id, RootsReach)' <=> Settled(id, a)'
                /\ Settled(id, TreeReach)' <=> Settled(id, a)'
    BY <1>3, <2>1 DEF Settled
  <2> QED
    BY <1>3, <2>1, <2>2, SettledKept
<1>5. RootsKnown'
  BY <1>0, <1>2, <1>4 DEF RootsKnown, KnowsRoot
<1>6. TreeKnown'
  BY <1>0, <1>2, <1>4 DEF TreeKnown, OldLeaf
<1>7. GenesisCounts'
  BY <1>1 DEF GenesisCounts, Syncing
<1> QED
  BY <1>0, <1>5, <1>6, <1>7 DEF ConfigInv

\* The other steps of the service leave the config tree alone.
LEMMA OtherConfig ==
    ASSUME TypeOK, SyncTyped, ConfigInv, UNCHANGED chainVars,
           \/ StartPoll \/ ConfirmEntry \/ ConfirmFails
           \/ \E p : ApplySubmission(p)
           \/ TxSubmissionsDone \/ BridgeSubmissionsDone \/ CollectProven \/ ProvenDone
           \/ RpcFailure
    PROVE  ConfigInv'
<1>0. IsState(st) /\ GenesisCounts
  BY DEF SyncTyped, ConfigInv
<1>1. SameConfig(st, st')
  <2>1. CASE st' = st
    BY <2>1 DEF SameConfig
  <2>2. ASSUME NEW p, ApplySubmission(p) PROVE SameConfig(st, st')
    BY <1>0, <2>2, BatchesKeepConfig DEF ApplySubmission
  <2>3. CASE ConfirmEntry
    <3>1. st' = ConfirmBatch(Prepared(NextEntry), NextEntry)
      BY <2>3 DEF ConfirmEntry, Prepared
    <3>2. IsState(Prepared(NextEntry)) /\ SameConfig(st, Prepared(NextEntry))
      <4>1. SameConfig(st, st) /\ IsState(ApplyPreimage(st, NextEntry.pi))
        BY <1>0, ApplyPreimageFields DEF SameConfig
      <4> QED
        BY <1>0, <4>1, BatchesKeepConfig DEF Prepared
    <3>3. SameConfig(Prepared(NextEntry), st')
      BY <3>1, <3>2, BatchesKeepConfig
    <3> QED
      BY <3>2, <3>3 DEF SameConfig
  <2>4. CASE ConfirmFails
    <3>1. st' = st \/ st' = ApplyPreimage(st, NextEntry.pi)
      BY <2>4 DEF ConfirmFails
    <3> QED
      BY <1>0, <2>1, <3>1, BatchesKeepConfig
  <2> QED
    BY <2>1, <2>2, <2>3, <2>4 DEF StartPoll, TxSubmissionsDone, BridgeSubmissionsDone, CollectProven,
          ProvenDone, RpcFailure
<1> DEFINE early == {"txSubs", "bridgeSubs", "collect", "proven", "config"}
<1>2. \/ phase \in early /\ phase' \in early /\ mode' = mode
      \/ phase = "idle" /\ phase' \in early /\ mode' = mode
      \/ phase' = (IF mode = "genesis" THEN "down" ELSE "idle") /\ mode' = mode
  BY DEF StartPoll, ConfirmEntry, ConfirmFails, ApplySubmission, TxSubmissionsDone, BridgeSubmissionsDone,
         CollectProven, ProvenDone, RpcFailure, GiveUp, Goto, Idle
<1>3. phase' # "rebuild" /\ phase' # "deposits" /\ phase' # "roots"
  BY <1>2
<1>4. RootsLogged' /\ AssignmentsLogged' /\ RootsKnown' /\ TreeKnown'
  BY <1>1, <1>3, KeptConfig
<1>5. GenesisCounts'
  BY <1>0, <1>1, <1>2 DEF GenesisCounts, SameConfig, Syncing
<1> QED
  BY <1>4, <1>5 DEF ConfigInv

\* Every step keeps the invariant.
LEMMA NextConfigInv ==
    ASSUME ConfigPlaces
    PROVE  TypeOK /\ SyncTyped /\ ConfigInv /\ [SyncNext]_allVars => ConfigInv'
<1> SUFFICES ASSUME TypeOK, SyncTyped, ConfigInv, [SyncNext]_allVars PROVE ConfigInv'
  OBVIOUS
<1>1. CASE (ChainStep \/ MineBlock) /\ UNCHANGED syncVars
  BY <1>1, ChainConfigInv
<1>2. CASE (SyncStep \/ RpcFailure \/ Crash) /\ UNCHANGED chainVars
  BY <1>2, ServiceMoves, RestartConfig, AssignConfig, UpdateConfig, RebuildConfig, SyncedConfig, OtherConfig
<1>3. CASE UNCHANGED chainVars /\ UNCHANGED syncVars
  <2>1. st' = st /\ phase' = phase /\ window' = window /\ mode' = mode
    BY <1>3 DEF syncVars
  <2>2. log' = log /\ subpoolRoots' = subpoolRoots /\ RootsLogged' /\ AssignmentsLogged'
    BY <1>3, ChainKept, LogsKept DEF ConfigInv
  <2>3. RootsKnown' /\ TreeKnown' /\ GenesisCounts'
    BY <2>1, <2>2 DEF ConfigInv, RootsKnown, TreeKnown, GenesisCounts, RootsReach, TreeReach, KnowsRoot,
          OldLeaf, Settled, Posted, AssignedBy, Syncing
  <2> QED
    BY <2>2, <2>3 DEF ConfigInv
<1> QED
  BY <1>1, <1>2, <1>3, StepCases

\* It holds before anything is logged.
LEMMA InitConfigInv ==
    ASSUME ConfigPlaces
    PROVE  SyncInit => ConfigInv
<1> SUFFICES ASSUME SyncInit PROVE ConfigInv
  OBVIOUS
<1>1. /\ subpoolOwners = [id \in SubpoolIds |-> ZeroAddress] /\ subpoolRoots = [id \in SubpoolIds |-> 0]
      /\ minedRoots = [id \in SubpoolIds |-> 0] /\ log = [b \in 1 .. MaxBlock |-> NoEvents]
      /\ st = NewState /\ phase = "down" /\ mode = "genesis"
  BY DEF SyncInit, Init
<1>2. \A b \in Blocks : log[b].updated = {} /\ log[b].assigned = {}
  BY <1>1 DEF Blocks, NoEvents
<1>3. RootsLogged
  BY <1>1, <1>2 DEF RootsLogged
<1>4. AssignmentsLogged
  BY <1>1, <1>2, FS_EmptySet DEF AssignmentsLogged
<1>5. RootsReach = 0 /\ TreeReach = 0
  BY <1>1, NewConfig DEF RootsReach, TreeReach
<1>6. RootsKnown
  BY <1>1, <1>3, <1>5, FreshConfig, NewConfig DEF RootsKnown
<1>7. TreeKnown
  <2>1. \A pos \in ConfigPositions : st.configTree[pos] = ZeroLeaf
    BY <1>1, NewConfig
  <2>2. DOMAIN st.configTree = ConfigPositions
        /\ st.configTree = [pos \in ConfigPositions |-> st.configTree[pos]]
    BY <1>1, NewConfig
  <2>3. \A id \in SubpoolIds : OldLeaf(id) = ZeroLeaf /\ id \in ConfigPositions
    BY <1>1 DEF OldLeaf, ConfigPlaces
  <2> QED
    BY <2>1, <2>2, <2>3 DEF TreeKnown
<1>8. GenesisCounts
  BY <1>1 DEF GenesisCounts, Syncing
<1> QED
  BY <1>3, <1>4, <1>6, <1>7, <1>8 DEF ConfigInv

\* A tree right about every subpool is the contract's.
LEMMA QuietExact ==
    ASSUME ConfigPlaces, TypeOK, SyncTyped, ConfigInv, ConfigLeavesCurrent
    PROVE  QuietConfigExact
<1> SUFFICES ASSUME Idle, st.lastSynced = HeadBlock, log[blockNumber] = NoEvents
             PROVE  st.configTree = mainPoolConfigRoot
  BY DEF QuietConfigExact
<1>0. RootsLogged /\ TreeKnown
  BY DEF ConfigInv
<1>1. TreeReach = HeadBlock
  BY DEF TreeReach, Idle
<1>2. ASSUME NEW id \in SubpoolIds PROVE Settled(id, TreeReach)
  <2> SUFFICES ASSUME NEW d \in Blocks, d > HeadBlock, Posted(id, d) PROVE FALSE
    BY <1>1 DEF Settled
  <2>1. PICK r \in SubpoolRootVals : <<id, r>> \in log[d].updated
    BY DEF Posted
  <2>2. d <= blockNumber
    BY <1>0, <2>1 DEF RootsLogged
  <2>3. d = blockNumber
    BY <2>2, WindowTyped DEF HeadBlock
  <2> QED
    BY <2>1, <2>3 DEF NoEvents
<1>3. mainPoolConfigRoot = [pos \in ConfigPositions |-> mainPoolConfigRoot[pos]]
      /\ DOMAIN mainPoolConfigRoot = ConfigPositions
  BY DEF TypeOK, ConfigTrees
<1>4. ASSUME NEW pos \in ConfigPositions PROVE st.configTree[pos] = mainPoolConfigRoot[pos]
  <2>1. \A id \in SubpoolIds : Position(id) = id
    BY PlaceOf
  <2>2. CASE pos \notin SubpoolIds
    <3>1. mainPoolConfigRoot[pos] = ZeroLeaf
      BY <2>1, <2>2 DEF ConfigLeavesCurrent
    <3> QED
      BY <1>0, <2>2, <3>1 DEF TreeKnown
  <2>3. CASE pos \in SubpoolIds
    <3>1. st.configTree[pos] = OldLeaf(pos)
      BY <1>0, <1>2, <2>3 DEF TreeKnown
    <3>2. CASE subpoolRoots[pos] # 0
      BY <2>1, <2>3, <3>1, <3>2 DEF ConfigLeavesCurrent, OldLeaf
    <3>3. CASE subpoolRoots[pos] = 0
      <4>1. mainPoolConfigRoot[pos] = ZeroLeaf
        <5> SUFFICES ASSUME NEW id \in SubpoolIds, Position(id) = pos,
                            mainPoolConfigRoot[pos] = ConfigLeaf(id, subpoolRoots[id])
                     PROVE  FALSE
          BY DEF ConfigLeavesCurrent
        <5>1. mainPoolConfigRoot[pos] = <<pos, 0>>
          BY <2>1, <3>3 DEF ConfigLeaf
        <5>2. mainPoolConfigRoot[pos] \in ConfigLeaves
          BY DEF TypeOK, ConfigTrees
        <5> QED
          BY <5>1, <5>2 DEF ConfigLeaves, ConfigPlaces, ZeroLeaf
      <4> QED
        BY <3>1, <3>3, <4>1 DEF OldLeaf
    <3> QED
      BY <3>2, <3>3
  <2> QED
    BY <2>2, <2>3
<1>5. DOMAIN st.configTree = ConfigPositions
      /\ st.configTree = [pos \in ConfigPositions |-> st.configTree[pos]]
  BY <1>0 DEF TreeKnown
<1> QED
  BY <1>3, <1>4, <1>5

\* When the service is idle at the head of a quiet chain its config tree is the contract's,
\* for every number of subpools, posts, failures in any phase, and restarts.  It needs a
\* place in the tree for every subpool, and that none posts the zero root.
THEOREM ConfigMirrorExact ==
    ASSUME ConfigPlaces
    PROVE  SyncSpec => []QuietConfigExact
<1>1. SyncSpec => [](TypeOK /\ ConfigLeavesCurrent)
  BY FollowsContract, TypeInvariant, ConfigCurrent, PTL
<1>2. SyncSpec => []ConfigInv
  BY <1>1, SyncTypes, InitConfigInv, NextConfigInv, PTL DEF SyncSpec
<1>3. TypeOK /\ SyncTyped /\ ConfigInv /\ ConfigLeavesCurrent => QuietConfigExact
  BY QuietExact
<1> QED
  BY <1>1, <1>2, <1>3, SyncTypes, PTL

=============================================================================

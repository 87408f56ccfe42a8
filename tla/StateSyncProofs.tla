-------------------------- MODULE StateSyncProofs --------------------------
(***************************************************************************)
(* What holds of the state-sync service for every chain, every window and  *)
(* every number of failures, retries and restarts.  The chain it follows   *)
(* is the contract, so the theorems about DoxaContract are available here. *)
(***************************************************************************)
EXTENDS StateSync, DoxaContractProofs

-----------------------------------------------------------------------------
(* The chain the service sees *)

\* Batches of both kinds, and the blocks of a run.
Preimages == TxPreimages \cup BridgePreimages
Blocks == 1 .. MaxBlock

\* A TransactionBatchProven or BridgeTxBatchProven event.
Entries == [pi : Preimages, leafIndex : Nat, newTreeRoot : Seq(BatchRoots)]

\* What the log of one block may hold.
Events == [submitted : SUBSET Preimages, proven : SUBSET Entries,
           available : SUBSET NoteComms, validated : SUBSET NoteComms,
           withdrawn : SUBSET NoteComms, assigned : SUBSET SubpoolIds,
           updated : SUBSET ConfigLeaves]

\* A value with the fields of StateSyncState, and no other.
IsState(s) == DOMAIN s = DOMAIN NewState /\ s = [x \in DOMAIN NewState |-> s[x]]

\* Where the service may be; it is syncing between the first call of a poll and the last.
Phases == {"down", "idle", "txSubs", "bridgeSubs", "collect", "proven", "config", "roots",
           "rebuild", "deposits"}
Syncing == phase \notin {"down", "idle"}

\* A window runs from last_synced_block to a mined block.
SyncTyped ==
    /\ log \in [Blocks -> Events]
    /\ IsState(st)
    /\ st.lastSynced \in Nat /\ st.lastSynced <= HeadBlock
    /\ window \in [from : Nat, to : Nat]
    /\ window.from <= window.to /\ window.to <= HeadBlock
    /\ phase \in Phases
    /\ Syncing => st.lastSynced = window.from
    /\ todo \subseteq Entries

-----------------------------------------------------------------------------
(* Confirmed on chain *)

\* An event tells the truth: its batch is confirmed, its root too.
OnChain(e) == e.pi \in Confirmed /\ e.newTreeRoot \in confirmedRoots

\* All events of the log, and those still to be applied, tell the truth.
LogOnChain == \A b \in Blocks : \A e \in log[b].proven : OnChain(e)
TodoOnChain == \A e \in todo : OnChain(e)

\* The two pending maps hold batches of their kind.
KindsApart(s) == /\ \A p \in s.pendingTx : Kind(p) = "tx"
                 /\ \A p \in s.pendingBridge : Kind(p) = "bridge"

\* A pending nullifier is indexed under a batch that spends it.
OwnNullifiers(s) == \A x \in s.pendingNullifiers : x.null \in Nullifiers(x.pi)

\* ConfirmedIsOnChain of any state of the service.
Truthful(s) ==
    /\ s.confirmedTx \subseteq confirmedTxBatches
    /\ s.confirmedBridge \subseteq confirmedBridgeTxBatches
    /\ s.confirmedNullifiers \subseteq nullifiers
    /\ s.confirmedRoots \subseteq confirmedRoots
    /\ \A l \in s.commitments : l.confirmed => l.pi \in Confirmed /\ l.pi \in s.subtrees

\* Commitment locations are records of three fields.
LocationsTyped(s) == \A l \in s.commitments : DOMAIN l = {"comm", "pi", "confirmed"}

\* What the service's state needs for each of its claims to stay true.
Sound(s) == KindsApart(s) /\ OwnNullifiers(s) /\ LocationsTyped(s) /\ Truthful(s)

\* The invariant behind ConfirmedIsOnChain.
ConfirmedInv == LogOnChain /\ TodoOnChain /\ Sound(st) /\ <<>> \in confirmedRoots

-----------------------------------------------------------------------------
(* Deposits *)

\* The events of deposit n agree with its record: it became available in its deposit
\* block and was settled no earlier.
DepositLogged(n) ==
    /\ \A b \in Blocks : n \in log[b].available <=>
        deposits[n].status # "None" /\ b = deposits[n].depositBlock
    /\ deposits[n].status # "None" => deposits[n].depositBlock \in 1 .. blockNumber
    /\ \A b \in Blocks : n \in log[b].validated =>
        deposits[n].status = "Validated" /\ deposits[n].depositBlock <= b
    /\ \A b \in Blocks : n \in log[b].withdrawn =>
        deposits[n].status = "Withdrawn" /\ deposits[n].depositBlock <= b

\* The events of all deposits do.
DepositsLogged == \A n \in NoteComms : DepositLogged(n)

\* The index entry of deposit n with status s, and the index as of block b.
IndexEntry(n, s) ==
    [note |-> n, value |-> deposits[n].value, recipient |-> deposits[n].recipient,
     assetId |-> deposits[n].assetId, status |-> s, block |-> deposits[n].depositBlock]
NotesBy(b) == {n \in NoteComms : DepositStatusBy(n, b) # "None"}
IndexBy(b) == {IndexEntry(n, DepositStatusBy(n, b)) : n \in NotesBy(b)}

\* The invariant behind DepositsExact.
DepositsInv == DepositsLogged /\ st.deposits = IndexBy(st.lastSynced)

-----------------------------------------------------------------------------
(* The mirrored tree *)

\* The log holds one entry per leaf, in the order of the leaves, each after the
\* submission of its batch.
EntriesOrdered ==
    \A b, c \in Blocks : \A e \in log[b].proven, f \in log[c].proven :
        /\ b < c => e.leafIndex < f.leafIndex
        /\ e.leafIndex = f.leafIndex => e = f
        /\ e.pi = f.pi => e = f

\* An event names the leaf its batch has, in a block after its submission.
EntryPlaced(b, e) ==
    /\ b <= blockNumber
    /\ e.leafIndex < Len(leaves)
    /\ leaves[e.leafIndex + 1] = e.pi.body.batchPoseidonRoot
    /\ e.pi \in Submissions(1, b)

\* Events and leaves correspond one to one, and what is pending was submitted.
LeafLog ==
    /\ \A b \in Blocks : \A e \in log[b].proven : EntryPlaced(b, e)
    /\ \A i \in 0 .. Len(leaves) - 1 : \E b \in Blocks : \E e \in log[b].proven : e.leafIndex = i
    /\ EntriesOrdered
    /\ Pending \subseteq Submissions(1, blockNumber)
    /\ Len(leaves) <= 2^TreeDepth

\* The first k leaves are those of the blocks up to b.
LeavesUpTo(k, b) ==
    \A c \in Blocks : \A e \in log[c].proven : e.leafIndex < k <=> c <= b

\* The preimages the service holds.
Held(s) == s.pendingTx \cup s.confirmedTx \cup s.pendingBridge \cup s.confirmedBridge

\* What is confirmed is the batch of a leaf the mirror has.
ConfirmedHasLeaf(s) ==
    \A p \in s.confirmedTx \cup s.confirmedBridge :
        \E b \in Blocks : \E e \in log[b].proven : e.pi = p /\ e.leafIndex < Len(s.leaves)

\* How far the mirror is at each point of a sync.
MirrorProgress ==
    /\ phase \in {"idle", "txSubs", "bridgeSubs", "collect"} =>
        LeavesUpTo(Len(st.leaves), st.lastSynced)
    /\ phase = "proven" =>
        /\ \A c \in Blocks : \A e \in log[c].proven :
            /\ c <= window.from => e.leafIndex < Len(st.leaves)
            /\ e.leafIndex < Len(st.leaves) => c <= window.to
        /\ todo = {e \in Proven(FromBlock, ToBlock) : e.leafIndex >= Len(st.leaves)}
    /\ phase \in {"config", "roots", "rebuild", "deposits"} =>
        LeavesUpTo(Len(st.leaves), window.to)

\* The submissions of the window are held by the time its proofs are applied.
SubmissionsHeld ==
    /\ phase = "bridgeSubs" => Unprocessed("tx") = {}
    /\ phase \in {"collect", "proven"} => Submissions(FromBlock, ToBlock) \subseteq Held(st)

\* The state of the service in the mirror's invariant.
MirrorState ==
    /\ st.leaves \in Seq(BatchRoots) /\ MirrorIsPrefix
    /\ ConfirmedHasLeaf(st)
    /\ MirrorProgress
    /\ SubmissionsHeld

\* The log is one entry per leaf, and the mirror is as far as the phase says.
MirrorInv == LeafLog /\ MirrorState

-----------------------------------------------------------------------------
(* Steps of the chain and steps of the service *)

\* A contract step the service can see is a step of the contract.
LEMMA ChainStepsNext == ChainStep => Next
<1> SUFFICES ASSUME ChainStep PROVE Next
  OBVIOUS
<1> PICK sender \in Addresses :
        \/ \E aid \in AssetIds, t \in Tokens : RegisterAsset(sender, aid, t)
        \/ \E id \in SubpoolIds, owner \in Users : AssignSubpoolOwner(sender, id, owner)
        \/ \E id \in SubpoolIds, r \in SubpoolRootVals : UpdateSubpoolRoot(sender, id, r)
        \/ \E n \in NoteComms, aid \in AssetIds, m \in MaxAmounts, fee \in Fees :
            DepositAndRegister(sender, n, aid, m, fee)
        \/ \E n \in NoteComms : WithdrawPendingDeposit(sender, n)
        \/ \E b \in TxBodies, r \in HeaderRoots, c \in HeaderConfigs :
            Sequenced(Preimage(b, r, c)) /\ SubmitTransactionBatch(sender, Preimage(b, r, c))
        \/ \E b \in BridgeBodies, r \in HeaderRoots, c \in HeaderConfigs :
            Sequenced(Preimage(b, r, c)) /\ SubmitBridgeTxBatch(sender, Preimage(b, r, c))
        \/ \E p \in pendingTxBatches : ProveTransactionBatch(p)
        \/ \E p \in pendingBridgeTxBatches : ProveBridgeTxBatch(p)
  BY DEF ChainStep
<1> QED
  BY DEF Next

\* The service never writes to the chain.
LEMMA ServiceReadsOnly == SyncStep \/ RpcFailure \/ Crash => UNCHANGED chainVars
BY DEF SyncStep, StartGenesis, StartPoll, ApplySubmission, TxSubmissionsDone,
       BridgeSubmissionsDone, CollectProven, ConfirmEntry, ConfirmFails, ProvenDone,
       AssignSubpools, UpdateRoots, RebuildTree, SyncDeposits, RpcFailure, GiveUp, Crash

\* The chain moves and the service waits, or the other way round.
LEMMA StepCases ==
    ASSUME [SyncNext]_allVars
    PROVE  \/ ChainStep /\ UNCHANGED syncVars
           \/ MineBlock /\ UNCHANGED syncVars
           \/ (SyncStep \/ RpcFailure \/ Crash) /\ UNCHANGED chainVars
           \/ UNCHANGED chainVars /\ UNCHANGED syncVars
BY ServiceReadsOnly DEF SyncNext, allVars, ChainStep, MineBlock

\* Every step is a step of the contract, or leaves it alone.
LEMMA StepsOfContract == [SyncNext]_allVars => [Next]_vars
<1> SUFFICES ASSUME [SyncNext]_allVars PROVE [Next]_vars
  OBVIOUS
<1>1. MineBlock => Next
  BY DEF MineBlock, Next
<1> QED
  BY <1>1, StepCases, ChainStepsNext DEF chainVars

\* The chain the service follows is the contract: what is proved of DoxaContract holds
\* whatever the service does.
THEOREM FollowsContract == SyncSpec => Spec
<1>1. SyncInit => Init
  BY DEF SyncInit
<1> QED
  BY <1>1, StepsOfContract, PTL DEF SyncSpec, Spec

-----------------------------------------------------------------------------
(* The fields of the state after each operation on it *)

\* The state of a service that has synced nothing.
LEMMA NewStateFields ==
    /\ IsState(NewState)
    /\ NewState.leaves = <<>> /\ NewState.confirmedRoots = {<<>>}
    /\ NewState.commitments = {} /\ NewState.subtrees = {}
    /\ NewState.pendingTx = {} /\ NewState.pendingBridge = {}
    /\ NewState.confirmedTx = {} /\ NewState.confirmedBridge = {}
    /\ NewState.confirmedNullifiers = {} /\ NewState.pendingNullifiers = {}
    /\ NewState.deposits = {} /\ NewState.lastSynced = 0
BY DEF NewState, IsState

\* What indexing submission p makes of s: it touches the pending side only.
PreimageApplied(s, p, t) ==
    /\ t.leaves = s.leaves /\ t.confirmedRoots = s.confirmedRoots
    /\ t.commitments = {l \in s.commitments : l.comm \notin p.body.outputs}
             \cup {[comm |-> c, pi |-> p, confirmed |-> FALSE] : c \in p.body.outputs}
    /\ t.subtrees = s.subtrees
    /\ t.pendingTx = IF Kind(p) = "tx" THEN s.pendingTx \cup {p} ELSE s.pendingTx
    /\ t.pendingBridge = IF Kind(p) = "bridge" THEN s.pendingBridge \cup {p}
                                               ELSE s.pendingBridge
    /\ t.confirmedTx = s.confirmedTx /\ t.confirmedBridge = s.confirmedBridge
    /\ t.confirmedNullifiers = s.confirmedNullifiers
    /\ t.pendingNullifiers = {e \in s.pendingNullifiers : e.null \notin Nullifiers(p)}
             \cup {[null |-> n, pi |-> p] : n \in Nullifiers(p)}
    /\ t.deposits = s.deposits /\ t.lastSynced = s.lastSynced

\* That is what apply_tx_preimage and apply_bridge_preimage do.
LEMMA ApplyPreimageFields ==
    ASSUME NEW s, IsState(s), NEW p
    PROVE  IsState(ApplyPreimage(s, p)) /\ PreimageApplied(s, p, ApplyPreimage(s, p))
BY DEF PreimageApplied, ApplyPreimage, IsState, NewState

\* The locations with those of p confirmed, and the nullifiers pending under p.
Marked(s, p) == {IF l.pi = p THEN [l EXCEPT !.confirmed = TRUE] ELSE l : l \in s.commitments}
SpentIn(s, p) == {x.null : x \in {y \in s.pendingNullifiers : y.pi = p}}
SpentElsewhere(s, p) == {x \in s.pendingNullifiers : x.pi # p}

\* What confirm_batch makes of s: the batch and its nullifiers are on the confirmed side.
ConfirmedAs(s, p, root, t) ==
    /\ t.leaves = Append(s.leaves, p.body.batchPoseidonRoot)
    /\ t.confirmedRoots = s.confirmedRoots \cup {root}
    /\ t.commitments = Marked(s, p)
    /\ t.subtrees = s.subtrees \cup {p}
    /\ t.pendingTx = s.pendingTx \ {p} /\ t.pendingBridge = s.pendingBridge \ {p}
    /\ t.confirmedTx = IF p \in s.pendingTx THEN s.confirmedTx \cup {p} ELSE s.confirmedTx
    /\ t.confirmedBridge = IF p \in s.pendingBridge \ s.pendingTx
                           THEN s.confirmedBridge \cup {p} ELSE s.confirmedBridge
    /\ t.confirmedNullifiers = s.confirmedNullifiers \cup SpentIn(s, p)
    /\ t.pendingNullifiers = SpentElsewhere(s, p)
    /\ t.deposits = s.deposits /\ t.lastSynced = s.lastSynced

\* confirm_batch, field by field.
LEMMA ConfirmBatchFields ==
    ASSUME NEW s, IsState(s), NEW e
    PROVE  /\ IsState(ConfirmBatch(s, e))
           /\ ConfirmedAs(s, e.pi, e.newTreeRoot, ConfirmBatch(s, e))
<1> DEFINE t == ConfirmBatch(s, e)
           p == e.pi
<1>1. IsState(t)
  BY Zenon DEF ConfirmBatch, IsState
<1> USE DEF ConfirmBatch, IsState, NewState
<1>2. /\ t.leaves = Append(s.leaves, p.body.batchPoseidonRoot)
      /\ t.confirmedRoots = s.confirmedRoots \cup {e.newTreeRoot}
      /\ t.subtrees = s.subtrees \cup {p}
      /\ t.deposits = s.deposits /\ t.lastSynced = s.lastSynced
  OBVIOUS
<1>3. /\ t.pendingTx = s.pendingTx \ {p} /\ t.pendingBridge = s.pendingBridge \ {p}
      /\ t.confirmedTx = IF p \in s.pendingTx THEN s.confirmedTx \cup {p} ELSE s.confirmedTx
      /\ t.confirmedBridge = IF p \in s.pendingBridge \ s.pendingTx
                             THEN s.confirmedBridge \cup {p} ELSE s.confirmedBridge
  OBVIOUS
<1>4. t.commitments = Marked(s, p)
  BY DEF Marked
<1>5. /\ t.confirmedNullifiers = s.confirmedNullifiers \cup SpentIn(s, p)
      /\ t.pendingNullifiers = SpentElsewhere(s, p)
  BY DEF SpentIn, SpentElsewhere
<1> HIDE DEF t, ConfirmBatch, IsState, NewState
<1> QED
  BY <1>1, <1>2, <1>3, <1>4, <1>5 DEF ConfirmedAs, t

\* The batch side of two states is the same.
SameBatches(s, t) ==
    /\ t.leaves = s.leaves /\ t.confirmedRoots = s.confirmedRoots
    /\ t.commitments = s.commitments /\ t.subtrees = s.subtrees
    /\ t.pendingTx = s.pendingTx /\ t.pendingBridge = s.pendingBridge
    /\ t.confirmedTx = s.confirmedTx /\ t.confirmedBridge = s.confirmedBridge
    /\ t.confirmedNullifiers = s.confirmedNullifiers
    /\ t.pendingNullifiers = s.pendingNullifiers

\* sync_config_tree changes neither batches nor deposits.
LEMMA AssignedFields ==
    ASSUME NEW s, IsState(s), NEW ids
    PROVE  LET t == AssignedState(s, ids) IN
           IsState(t) /\ SameBatches(s, t) /\ t.deposits = s.deposits /\ t.lastSynced = s.lastSynced
<1>1. PICK a, b, c : AssignedState(s, ids) =
                        [s EXCEPT !.subpoolRoots = a, !.nextSubpoolId = b, !.buffered = c]
  <2> DEFINE waiting == s.buffered \cup {id \in ids : id >= s.nextSubpoolId}
             next == CHOOSE k \in s.nextSubpoolId .. s.nextSubpoolId + Cardinality(waiting) :
                        /\ \A id \in s.nextSubpoolId .. k - 1 : id \in waiting
                        /\ k \notin waiting
             fresh == {id \in s.nextSubpoolId .. next - 1 : \A e \in s.subpoolRoots : e.id # id}
             added == s.subpoolRoots \cup {[id |-> id, root |-> 0] : id \in fresh}
             kept == {id \in waiting : id > next}
  <2>1. AssignedState(s, ids) =
            [s EXCEPT !.subpoolRoots = added, !.nextSubpoolId = next, !.buffered = kept]
    BY Zenon DEF AssignedState
  <2> HIDE DEF added, next, kept
  <2> QED
    BY <2>1
<1>2. ASSUME NEW t, t = [s EXCEPT !.subpoolRoots = a, !.nextSubpoolId = b, !.buffered = c]
      PROVE  IsState(t) /\ SameBatches(s, t) /\ t.deposits = s.deposits /\ t.lastSynced = s.lastSynced
  BY <1>2 DEF IsState, NewState, SameBatches
<1> QED
  BY <1>1, <1>2

\* Setting the subpool roots changes neither batches nor deposits.
LEMMA RootsFields ==
    ASSUME NEW s, IsState(s), NEW roots
    PROVE  LET t == [s EXCEPT !.subpoolRoots = roots] IN
           IsState(t) /\ SameBatches(s, t) /\ t.deposits = s.deposits /\ t.lastSynced = s.lastSynced
BY DEF IsState, NewState, SameBatches

\* Nor does rebuilding the config tree.
LEMMA RebuildFields ==
    ASSUME NEW s, IsState(s)
    PROVE  LET t == RebuildConfigTree(s) IN
           IsState(t) /\ SameBatches(s, t) /\ t.deposits = s.deposits /\ t.lastSynced = s.lastSynced
<1> DEFINE tree == RebuildConfigTree(s).configTree
<1>1. RebuildConfigTree(s) = [s EXCEPT !.configTree = tree]
  BY DEF RebuildConfigTree, IsState, NewState
<1> QED
  BY <1>1 DEF IsState, NewState, SameBatches

\* sync_deposits changes no batch, and moves last_synced_block.
LEMMA SyncedFields ==
    ASSUME NEW s, IsState(s), NEW ds, NEW b
    PROVE  LET t == [[s EXCEPT !.deposits = ds] EXCEPT !.lastSynced = b] IN
           IsState(t) /\ SameBatches(s, t) /\ t.deposits = ds /\ t.lastSynced = b
BY DEF IsState, NewState, SameBatches

-----------------------------------------------------------------------------
(* Types *)

\* The block an event is logged in.
LEMMA EmitAt ==
    ASSUME Emit, log \in [Blocks -> Events], blockNumber \in Blocks
    PROVE  LET b == blockNumber IN
           /\ DOMAIN log' = Blocks
           /\ log' = [c \in Blocks |-> log'[c]]
           /\ \A c \in Blocks : c # b => log'[c] = log[c]
           /\ DOMAIN log'[b] = DOMAIN NoEvents
           /\ log'[b] = [x \in DOMAIN NoEvents |-> log'[b][x]]
           /\ log'[b].submitted = log[b].submitted \cup (Pending' \ Pending)
           /\ log'[b].proven = log[b].proven \cup
                {[pi |-> p, leafIndex |-> Len(leaves), newTreeRoot |-> leaves'] :
                    p \in Confirmed' \ Confirmed}
           /\ log'[b].available = log[b].available \cup Becomes("Pending")
           /\ log'[b].validated = log[b].validated \cup Becomes("Validated")
           /\ log'[b].withdrawn = log[b].withdrawn \cup Becomes("Withdrawn")
           /\ log'[b].assigned \subseteq log[b].assigned \cup SubpoolIds
           /\ log'[b].updated \subseteq log[b].updated
                \cup {mainPoolConfigRoot'[pos] : pos \in ConfigPositions}
<1> DEFINE b == blockNumber
           posted == {mainPoolConfigRoot'[pos] : pos \in
                       {q \in ConfigPositions : mainPoolConfigRoot'[q] # mainPoolConfigRoot[q]}}
           new == [submitted |-> log[b].submitted \cup (Pending' \ Pending),
             proven    |-> log[b].proven \cup {[pi |-> p, leafIndex |-> Len(leaves),
                                           newTreeRoot |-> leaves'] : p \in Confirmed' \ Confirmed},
             available |-> log[b].available \cup Becomes("Pending"),
             validated |-> log[b].validated \cup Becomes("Validated"),
             withdrawn |-> log[b].withdrawn \cup Becomes("Withdrawn"),
             assigned  |-> log[b].assigned
                            \cup {id \in SubpoolIds : subpoolOwners'[id] # subpoolOwners[id]},
             updated   |-> {u \in log[b].updated : \A l \in posted : l[1] # u[1]} \cup posted]
<1>1. log' = [log EXCEPT ![b] = new]
  BY DEF Emit
<1>2. /\ DOMAIN log' = Blocks /\ log' = [c \in Blocks |-> log'[c]]
      /\ \A c \in Blocks : c # b => log'[c] = log[c]
      /\ log'[b] = new
  <2> HIDE DEF new
  <2> QED
    BY <1>1
<1>3. DOMAIN new = DOMAIN NoEvents /\ new = [x \in DOMAIN NoEvents |-> new[x]]
  BY DEF NoEvents
<1>4. /\ new.submitted = log[b].submitted \cup (Pending' \ Pending)
      /\ new.proven = log[b].proven \cup
                {[pi |-> p, leafIndex |-> Len(leaves), newTreeRoot |-> leaves'] :
                    p \in Confirmed' \ Confirmed}
      /\ new.available = log[b].available \cup Becomes("Pending")
      /\ new.validated = log[b].validated \cup Becomes("Validated")
      /\ new.withdrawn = log[b].withdrawn \cup Becomes("Withdrawn")
  OBVIOUS
<1>5. /\ new.assigned \subseteq log[b].assigned \cup SubpoolIds
      /\ new.updated \subseteq log[b].updated
                \cup {mainPoolConfigRoot'[pos] : pos \in ConfigPositions}
  OBVIOUS
<1> HIDE DEF new
<1> QED
  BY <1>2, <1>3, <1>4, <1>5

\* The batches of the contract are preimages.
LEMMA BatchesTyped == TypeOK => Pending \cup Confirmed \subseteq Preimages
BY DEF TypeOK, Pending, Confirmed, Preimages

\* A contract step logs events of the right type.
LEMMA EmitTyped ==
    ASSUME TypeOK, TypeOK', Emit, log \in [Blocks -> Events]
    PROVE  log' \in [Blocks -> Events]
<1> DEFINE b == blockNumber
<1>0. b \in Blocks
  BY DEF TypeOK, Blocks
<1>1. log[b] \in Events
  BY <1>0
<1>2. /\ (Pending \cup Confirmed)' \subseteq Preimages
      /\ Len(leaves) \in Nat /\ leaves' \in Seq(BatchRoots)
  <2>1. TypeOK' => (Pending \cup Confirmed)' \subseteq Preimages
    BY BatchesTyped DEF TypeOK, Pending, Confirmed, Preimages
  <2> QED
    BY <2>1 DEF TypeOK
<1>3. {mainPoolConfigRoot'[pos] : pos \in ConfigPositions} \subseteq ConfigLeaves
  BY DEF TypeOK, ConfigTrees
<1>4. log'[b].submitted \subseteq Preimages
  BY <1>0, <1>1, <1>2, EmitAt DEF Events
<1>5. log'[b].proven \subseteq Entries
  <2>1. \A p \in Confirmed' \ Confirmed :
            [pi |-> p, leafIndex |-> Len(leaves), newTreeRoot |-> leaves'] \in Entries
    BY <1>2 DEF Entries
  <2>2. log[b].proven \subseteq Entries
    BY <1>1 DEF Events
  <2> QED
    BY <1>0, <2>1, <2>2, EmitAt
<1>6. \A status : Becomes(status) \subseteq NoteComms
  BY DEF Becomes
<1>7. /\ log'[b].available \subseteq NoteComms /\ log'[b].validated \subseteq NoteComms
      /\ log'[b].withdrawn \subseteq NoteComms
  BY <1>0, <1>1, <1>6, EmitAt DEF Events
<1>8. log'[b].assigned \subseteq SubpoolIds /\ log'[b].updated \subseteq ConfigLeaves
  BY <1>0, <1>1, <1>3, EmitAt DEF Events
<1>9. DOMAIN log'[b] = DOMAIN NoEvents /\ log'[b] = [x \in DOMAIN NoEvents |-> log'[b][x]]
  BY <1>0, EmitAt
<1>10. log'[b] \in Events
  <2> DEFINE r == log'[b]
  <2>1. /\ DOMAIN r = DOMAIN NoEvents /\ r = [x \in DOMAIN NoEvents |-> r[x]]
        /\ r.submitted \subseteq Preimages /\ r.proven \subseteq Entries
        /\ r.available \subseteq NoteComms /\ r.validated \subseteq NoteComms
        /\ r.withdrawn \subseteq NoteComms
        /\ r.assigned \subseteq SubpoolIds /\ r.updated \subseteq ConfigLeaves
    BY <1>4, <1>5, <1>7, <1>8, <1>9
  <2> HIDE DEF r
  <2>2. r \in Events
    BY <2>1 DEF Events, NoEvents
  <2> QED
    BY <2>2 DEF r
<1>11. /\ DOMAIN log' = Blocks /\ log' = [c \in Blocks |-> log'[c]]
       /\ \A c \in Blocks : c # b => log'[c] = log[c]
  BY <1>0, EmitAt
<1>12. \A c \in Blocks : log'[c] \in Events
  BY <1>10, <1>11
<1> QED
  BY <1>11, <1>12

\* The proven entries of a range of blocks.
LEMMA ProvenTyped ==
    ASSUME log \in [Blocks -> Events], NEW from \in Nat, NEW to \in Nat, to <= MaxBlock
    PROVE  /\ Proven(from + 1, to) \subseteq Entries
           /\ \A e : e \in Proven(from + 1, to) <=>
                \E b \in Blocks : from < b /\ b <= to /\ e \in log[b].proven
<1>1. \A b : b \in (from + 1) .. to <=> b \in Blocks /\ from < b /\ b <= to
  BY BlockAssumption DEF Blocks
<1>2. \A e : e \in Proven(from + 1, to) <=>
                \E b \in Blocks : from < b /\ b <= to /\ e \in log[b].proven
  BY <1>1 DEF Proven
<1>3. \A b \in Blocks : log[b].proven \subseteq Entries
  BY DEF Events
<1> QED
  BY <1>2, <1>3

\* Before the first sync.
LEMMA InitSyncTyped == SyncInit => SyncTyped
<1> SUFFICES ASSUME SyncInit PROVE SyncTyped
  OBVIOUS
<1>1. blockNumber = 1 /\ HeadBlock = 0
  BY DEF SyncInit, Init, HeadBlock
<1>2. log \in [Blocks -> Events]
  <2>1. NoEvents \in Events
    BY DEF NoEvents, Events
  <2> QED
    BY <2>1 DEF SyncInit, Blocks
<1>3. st = NewState
  BY DEF SyncInit
<1> QED
  BY <1>1, <1>2, <1>3, NewStateFields DEF SyncInit, SyncTyped, Phases, Syncing

\* Contract steps leave the block number to MineBlock.
LEMMA ChainKeepsBlock ==
    ASSUME TypeOK, ChainStep
    PROVE  blockNumber' = blockNumber
BY SMTT(60) DEF ChainStep, RegisterAsset, AssignSubpoolOwner, UpdateSubpoolRoot, DepositAndRegister,
   RegisterDeposit, WithdrawPendingDeposit, SubmitTransactionBatch, SubmitBridgeTxBatch,
   ProveTransactionBatch, ProveBridgeTxBatch

\* Steps of the chain keep the log and the window typed.
LEMMA ChainSyncTyped ==
    ASSUME TypeOK, TypeOK', SyncTyped, ChainStep \/ MineBlock, UNCHANGED syncVars
    PROVE  SyncTyped'
<1>1. blockNumber \in 1 .. MaxBlock /\ MaxBlock \in Nat
  BY BlockAssumption DEF TypeOK
<1>2. log' \in [Blocks -> Events]
  <2>1. CASE MineBlock
    BY <2>1 DEF MineBlock, SyncTyped
  <2>2. CASE ChainStep
    BY <2>2, EmitTyped DEF ChainStep, SyncTyped
  <2> QED
    BY <2>1, <2>2
<1>3. blockNumber' \in Nat /\ blockNumber <= blockNumber'
  <2>1. CASE MineBlock
    BY <1>1, <2>1 DEF MineBlock, NextBlock
  <2>2. CASE ChainStep
    <3>1. blockNumber' = blockNumber
      BY <2>2, ChainKeepsBlock
    <3> QED
      BY <1>1, <3>1
  <2> QED
    BY <2>1, <2>2
<1>4. /\ st' = st /\ phase' = phase /\ window' = window /\ todo' = todo
  BY DEF syncVars
<1>5. HeadBlock <= HeadBlock' /\ HeadBlock \in Int /\ HeadBlock' \in Int
  <2>2. blockNumber \in Nat /\ blockNumber' \in Nat /\ blockNumber <= blockNumber'
    BY <1>1, <1>3
  <2>1. \A x, y \in Nat : x <= y => x - 1 <= y - 1 /\ x - 1 \in Int /\ y - 1 \in Int
    OBVIOUS
  <2>3. blockNumber - 1 <= blockNumber' - 1 /\ blockNumber - 1 \in Int /\ blockNumber' - 1 \in Int
    BY <2>1, <2>2
  <2> QED
    BY <2>3 DEF HeadBlock
<1> QED
  BY <1>2, <1>4, <1>5 DEF SyncTyped, IsState, NewState, Syncing

\* What a step of the service does to its control state, and the one operation on st it is.
\* The phases are those of main, sync_from_genesis and poll_sync.
LEMMA ServiceMoves ==
    ASSUME SyncTyped, SyncStep \/ RpcFailure \/ Crash
    PROVE  \/ StartGenesis \/ StartPoll
           \/ \E p : ApplySubmission(p)
           \/ /\ TxSubmissionsDone \/ BridgeSubmissionsDone \/ CollectProven \/ ProvenDone
              /\ st' = st /\ window' = window
           \/ ConfirmEntry \/ ConfirmFails
           \/ AssignSubpools \/ UpdateRoots \/ RebuildTree \/ SyncDeposits
           \/ RpcFailure /\ st' = st
           \/ Crash
BY DEF SyncStep, TxSubmissionsDone, BridgeSubmissionsDone, CollectProven, ProvenDone, RpcFailure

\* The entry handled next is one of those left.
LEMMA NextEntryFirst ==
    ASSUME NEW T \in SUBSET Entries, T = todo, T # {}
    PROVE  /\ NextEntry \in T
           /\ \A f \in T : NextEntry.leafIndex <= f.leafIndex
<1> DEFINE I == {e.leafIndex : e \in T}
<1>1. I \subseteq Nat /\ I # {}
  BY DEF Entries
<1>2. PICK m \in I : \A i \in I : m <= i
  BY <1>1, LeastNat
<1>3. \E e \in T : \A f \in T : e.leafIndex <= f.leafIndex
  BY <1>2
<1> QED
  BY <1>3 DEF NextEntry

\* The state a confirmation starts from: the preimage is applied first if it is unknown.
Prepared(e) == IF Known(e.pi) THEN st ELSE ApplyPreimage(st, e.pi)

\* Preparing changes only what applying a preimage does.
LEMMA PreparedFields ==
    ASSUME IsState(st), NEW e
    PROVE  /\ IsState(Prepared(e))
           /\ Prepared(e).deposits = st.deposits /\ Prepared(e).lastSynced = st.lastSynced
           /\ Prepared(e).leaves = st.leaves /\ Prepared(e).subtrees = st.subtrees
           /\ Prepared(e).confirmedRoots = st.confirmedRoots
           /\ Prepared(e).confirmedTx = st.confirmedTx
           /\ Prepared(e).confirmedBridge = st.confirmedBridge
           /\ Prepared(e).confirmedNullifiers = st.confirmedNullifiers
<1>1. CASE Known(e.pi)
  BY <1>1 DEF Prepared
<1>2. CASE ~Known(e.pi)
  BY <1>2, ApplyPreimageFields DEF Prepared, PreimageApplied
<1> QED
  BY <1>1, <1>2

\* sync_deposits rewrites the deposit index only.
LEMMA DepositsAppliedOnly ==
    ASSUME NEW s, NEW from, NEW to
    PROVE  \E ds : DepositsApplied(s, from, to) = [s EXCEPT !.deposits = ds]
<1> DEFINE avail == Notes("available", from, to)
           valid == Notes("validated", from, to)
           gone  == Notes("withdrawn", from, to)
           Block(n) == CHOOSE b \in from .. to : n \in log[b].available
           record(n) == [note |-> n, value |-> deposits[n].value, recipient |-> deposits[n].recipient,
                         assetId |-> deposits[n].assetId, status |-> "Pending", block |-> Block(n)]
           inserted == {d \in s.deposits : d.note \notin avail} \cup {record(n) : n \in avail}
           Status(d) == IF d.note \in gone THEN "Withdrawn"
                        ELSE IF d.note \in valid THEN "Validated" ELSE d.status
           ds == {[d EXCEPT !.status = Status(d)] : d \in inserted}
<1>1. DepositsApplied(s, from, to) = [s EXCEPT !.deposits = ds]
  BY Zenon DEF DepositsApplied
<1> HIDE DEF ds
<1> QED
  BY <1>1

\* A step of the service other than SyncDeposits moves neither last_synced_block nor the
\* deposit index, unless it starts from an empty state.
LEMMA ServiceStates ==
    ASSUME SyncTyped, SyncStep \/ RpcFailure \/ Crash
    PROVE  /\ IsState(st')
           /\ \/ SyncDeposits
              \/ st' = NewState /\ (StartGenesis \/ Crash)
              \/ st'.lastSynced = st.lastSynced /\ st'.deposits = st.deposits
<1>0. IsState(st)
  BY DEF SyncTyped
<1> DEFINE Goal == /\ IsState(st')
                   /\ \/ SyncDeposits
                      \/ st' = NewState /\ (StartGenesis \/ Crash)
                      \/ st'.lastSynced = st.lastSynced /\ st'.deposits = st.deposits
<1>1. CASE StartGenesis \/ Crash
  BY <1>1, NewStateFields DEF StartGenesis, Crash
<1>2. CASE st' = st
  BY <1>0, <1>2
<1>3. ASSUME NEW p, ApplySubmission(p) PROVE Goal
  <2>1. st' = ApplyPreimage(st, p)
    BY <1>3 DEF ApplySubmission
  <2> QED
    BY <1>0, <2>1, ApplyPreimageFields DEF PreimageApplied
<1>4. CASE ConfirmEntry
  <2>1. st' = ConfirmBatch(Prepared(NextEntry), NextEntry)
    BY <1>4 DEF ConfirmEntry, Prepared
  <2>2. /\ IsState(Prepared(NextEntry))
        /\ Prepared(NextEntry).deposits = st.deposits
        /\ Prepared(NextEntry).lastSynced = st.lastSynced
    BY <1>0, PreparedFields
  <2>3. ASSUME NEW s, IsState(s), NEW e
        PROVE  /\ IsState(ConfirmBatch(s, e))
               /\ ConfirmBatch(s, e).deposits = s.deposits
               /\ ConfirmBatch(s, e).lastSynced = s.lastSynced
    BY <2>3, ConfirmBatchFields DEF ConfirmedAs
  <2> QED
    BY <2>1, <2>2, <2>3
<1>5. CASE ConfirmFails
  <2>1. st' = st \/ st' = ApplyPreimage(st, NextEntry.pi)
    BY <1>5 DEF ConfirmFails
  <2>2. ASSUME NEW p
        PROVE  /\ IsState(ApplyPreimage(st, p))
               /\ ApplyPreimage(st, p).deposits = st.deposits
               /\ ApplyPreimage(st, p).lastSynced = st.lastSynced
    BY <1>0, ApplyPreimageFields DEF PreimageApplied
  <2> QED
    BY <1>0, <2>1, <2>2
<1>6. CASE AssignSubpools
  BY <1>0, <1>6, AssignedFields DEF AssignSubpools
<1>7. CASE UpdateRoots
  <2>1. PICK roots : st' = [st EXCEPT !.subpoolRoots = roots]
    BY <1>7, Zenon DEF UpdateRoots
  <2> QED
    BY <1>0, <2>1, RootsFields
<1>8. CASE RebuildTree
  BY <1>0, <1>8, RebuildFields DEF RebuildTree
<1>9. CASE SyncDeposits
  <2>1. PICK ds : DepositsApplied(st, FromBlock, ToBlock) = [st EXCEPT !.deposits = ds]
    BY DepositsAppliedOnly
  <2>2. st' = [[st EXCEPT !.deposits = ds] EXCEPT !.lastSynced = window.to]
    BY <1>9, <2>1 DEF SyncDeposits
  <2> QED
    BY <1>0, <1>9, <2>2, SyncedFields
<1>10. CASE StartPoll
  BY <1>0, <1>10 DEF StartPoll
<1> QED
  BY <1>1, <1>2, <1>3, <1>4, <1>5, <1>6, <1>7, <1>8, <1>9, <1>10, ServiceMoves

\* Steps of the service keep its state, its window and what is left to confirm typed.
LEMMA ServiceSyncTyped ==
    ASSUME TypeOK, SyncTyped, SyncStep \/ RpcFailure \/ Crash, UNCHANGED chainVars
    PROVE  SyncTyped'
<1>0. /\ IsState(st') /\ log' = log /\ blockNumber' = blockNumber /\ HeadBlock' = HeadBlock
      /\ log \in [Blocks -> Events]
  BY ServiceStates DEF chainVars, vars, HeadBlock, SyncTyped
<1>1. HeadBlock \in Nat /\ HeadBlock <= MaxBlock /\ MaxBlock \in Nat
  <2>1. \A x \in 1 .. MaxBlock : x - 1 \in Nat /\ x - 1 <= MaxBlock
    BY BlockAssumption
  <2> QED
    BY <2>1, BlockAssumption DEF TypeOK, HeadBlock
<1>2. /\ window' \in [from : Nat, to : Nat] /\ window'.from <= window'.to /\ window'.to <= HeadBlock
  <2>1. CASE StartGenesis
    BY <1>1, <2>1 DEF StartGenesis
  <2>2. CASE StartPoll
    BY <1>1, <2>2 DEF StartPoll, SyncTyped
  <2>3. CASE window' = window
    BY <2>3 DEF SyncTyped
  <2> QED
    BY <2>1, <2>2, <2>3, ServiceMoves DEF ApplySubmission, ConfirmEntry, ConfirmFails,
       AssignSubpools, UpdateRoots, RebuildTree, SyncDeposits, RpcFailure, GiveUp, Crash
<1>3. st'.lastSynced \in Nat /\ st'.lastSynced <= HeadBlock
  <2>1. CASE SyncDeposits
    <3>1. PICK ds : DepositsApplied(st, FromBlock, ToBlock) = [st EXCEPT !.deposits = ds]
      BY DepositsAppliedOnly
    <3>2. st' = [[st EXCEPT !.deposits = ds] EXCEPT !.lastSynced = window.to]
      BY <2>1, <3>1 DEF SyncDeposits
    <3>3. st'.lastSynced = window.to
      <4>1. IsState(st)
        BY DEF SyncTyped
      <4>2. ASSUME NEW b PROVE [[st EXCEPT !.deposits = ds] EXCEPT !.lastSynced = b].lastSynced = b
        BY <4>1 DEF IsState, NewState
      <4> QED
        BY <3>2, <4>2
    <3> QED
      BY <3>3 DEF SyncTyped
  <2>2. CASE st' = NewState
    BY <1>1, <2>2, NewStateFields
  <2>3. CASE st'.lastSynced = st.lastSynced
    BY <2>3 DEF SyncTyped
  <2> QED
    BY <2>1, <2>2, <2>3, ServiceStates
<1>4. phase' \in Phases
  BY ServiceMoves DEF StartGenesis, StartPoll, ApplySubmission, TxSubmissionsDone,
     BridgeSubmissionsDone, CollectProven, ConfirmEntry, ConfirmFails, ProvenDone,
     AssignSubpools, UpdateRoots, RebuildTree, SyncDeposits, RpcFailure, GiveUp, Crash, Goto,
     SyncTyped, Phases
<1>5. Syncing' => st'.lastSynced = window'.from
  <2>1. CASE StartGenesis
    BY <2>1, NewStateFields DEF StartGenesis
  <2>2. CASE StartPoll
    BY <2>2 DEF StartPoll
  <2>3. CASE Crash \/ SyncDeposits \/ ConfirmFails \/ RpcFailure
    BY <2>3 DEF Crash, SyncDeposits, ConfirmFails, RpcFailure, GiveUp, Goto, Syncing
  <2>4. CASE Syncing /\ window' = window /\ st'.lastSynced = st.lastSynced
    BY <2>4 DEF SyncTyped
  <2>5. \/ Syncing /\ window' = window
        \/ StartGenesis \/ StartPoll \/ Crash \/ SyncDeposits \/ ConfirmFails \/ RpcFailure
    BY ServiceMoves DEF ApplySubmission, TxSubmissionsDone,
     BridgeSubmissionsDone, CollectProven, ConfirmEntry, ProvenDone,
     AssignSubpools, UpdateRoots, RebuildTree, Goto, Syncing
  <2> QED
    BY <2>1, <2>2, <2>3, <2>4, <2>5, ServiceStates
<1>6. todo' \subseteq Entries
  <2>1. CASE CollectProven
    <3>1. window.from \in Nat /\ window.to \in Nat /\ window.to <= MaxBlock
      BY <1>1 DEF SyncTyped
    <3> QED
      BY <1>0, <2>1, <3>1, ProvenTyped DEF CollectProven, FromBlock, ToBlock
  <2>2. CASE todo' = todo \/ todo' = {} \/ todo' = todo \ {NextEntry}
    BY <2>2 DEF SyncTyped
  <2> QED
    BY <2>1, <2>2, ServiceMoves DEF StartGenesis, StartPoll, ApplySubmission, TxSubmissionsDone,
     BridgeSubmissionsDone, ConfirmEntry, ConfirmFails, ProvenDone,
     AssignSubpools, UpdateRoots, RebuildTree, SyncDeposits, RpcFailure, GiveUp, Crash
<1> QED
  BY <1>0, <1>2, <1>3, <1>4, <1>5, <1>6 DEF SyncTyped, IsState, NewState, Syncing

\* Every step keeps the service's state typed, and its window between last_synced_block
\* and the head.
LEMMA NextSyncTyped == TypeOK /\ TypeOK' /\ SyncTyped /\ [SyncNext]_allVars => SyncTyped'
<1> SUFFICES ASSUME TypeOK, TypeOK', SyncTyped, [SyncNext]_allVars PROVE SyncTyped'
  OBVIOUS
<1>1. CASE UNCHANGED chainVars /\ UNCHANGED syncVars
  BY <1>1 DEF chainVars, vars, syncVars, SyncTyped, IsState, NewState, Syncing, HeadBlock
<1> QED
  BY <1>1, StepCases, ChainSyncTyped, ServiceSyncTyped

\* The service's state is well typed, and a window never runs past the head of the chain
\* nor starts anywhere but at last_synced_block.
THEOREM SyncTypes == SyncSpec => []SyncTyped
<1>1. SyncSpec => []TypeOK
  BY FollowsContract, TypeInvariant, PTL
<1> QED
  BY <1>1, InitSyncTyped, NextSyncTyped, PTL DEF SyncSpec

-----------------------------------------------------------------------------
(* Nothing is reported confirmed that the contract did not confirm *)

\* A preimage has one kind, that of its batch.
LEMMA KindsOf ==
    ASSUME TypeOK
    PROVE  /\ \A p \in pendingTxBatches \cup confirmedTxBatches : Kind(p) = "tx"
           /\ \A p \in pendingBridgeTxBatches \cup confirmedBridgeTxBatches : Kind(p) = "bridge"
BY KindAssumption DEF TypeOK, TxPreimages, BridgePreimages, Kind

\* What a contract step does to the tree and to the confirmed batches: nothing, or it
\* confirms one pending batch and appends its leaf.
LEMMA ProvingStep ==
    ASSUME TypeOK, BatchesApart, [Next]_vars
    PROVE  \/ /\ UNCHANGED <<leaves, confirmedRoots, confirmedTxBatches, confirmedBridgeTxBatches>>
              /\ Pending \subseteq Pending' /\ Confirmed' = Confirmed
           \/ \E p \in Pending :
                /\ p \notin Confirmed /\ Confirmed' = Confirmed \cup {p}
                /\ Pending' \subseteq Pending
                /\ confirmedTxBatches \subseteq confirmedTxBatches'
                /\ confirmedBridgeTxBatches \subseteq confirmedBridgeTxBatches'
                /\ AppendLeaf(p.body.batchPoseidonRoot)
<1> USE DEF Pending, Confirmed, imtVars, txVars, bridgeVars
<1>1. CASE UNCHANGED <<leaves, confirmedRoots, pendingTxBatches, confirmedTxBatches,
                       pendingBridgeTxBatches, confirmedBridgeTxBatches>>
  BY <1>1
<1>2. ASSUME NEW sender, NEW p, SubmitTransactionBatch(sender, p) \/ SubmitBridgeTxBatch(sender, p)
      PROVE  /\ UNCHANGED <<leaves, confirmedRoots, confirmedTxBatches, confirmedBridgeTxBatches>>
             /\ Pending \subseteq Pending'
  BY <1>2 DEF SubmitTransactionBatch, SubmitBridgeTxBatch
<1>3. ASSUME NEW p \in pendingTxBatches, ProveTransactionBatch(p)
      PROVE  /\ p \notin Confirmed /\ Confirmed' = Confirmed \cup {p}
             /\ Pending' \subseteq Pending
             /\ confirmedTxBatches \subseteq confirmedTxBatches'
             /\ confirmedBridgeTxBatches \subseteq confirmedBridgeTxBatches'
             /\ AppendLeaf(p.body.batchPoseidonRoot)
  <2>1. p \notin Confirmed
    BY KindsOf DEF BatchesApart
  <2> QED
    BY <1>3, <2>1 DEF ProveTransactionBatch
<1>4. ASSUME NEW p \in pendingBridgeTxBatches, ProveBridgeTxBatch(p)
      PROVE  /\ p \notin Confirmed /\ Confirmed' = Confirmed \cup {p}
             /\ Pending' \subseteq Pending
             /\ confirmedTxBatches \subseteq confirmedTxBatches'
             /\ confirmedBridgeTxBatches \subseteq confirmedBridgeTxBatches'
             /\ AppendLeaf(p.body.batchPoseidonRoot)
  <2>1. p \notin Confirmed
    BY KindsOf DEF BatchesApart
  <2> QED
    BY <1>4, <2>1 DEF ProveBridgeTxBatch
<1>5. CASE \E sender, p : SubmitTransactionBatch(sender, p) \/ SubmitBridgeTxBatch(sender, p)
  <2>1. Confirmed' = Confirmed
    BY <1>2, <1>5
  <2> QED
    BY <1>2, <1>5, <2>1
<1> QED
  BY <1>1, <1>3, <1>4, <1>5, OnlyBatchStepsMove

\* Confirmed batches, spent nullifiers and confirmed roots are never taken back.
LEMMA ConfirmedGrows ==
    ASSUME TypeOK, BatchesApart, [Next]_vars
    PROVE  /\ confirmedTxBatches \subseteq confirmedTxBatches'
           /\ confirmedBridgeTxBatches \subseteq confirmedBridgeTxBatches'
           /\ Confirmed \subseteq Confirmed'
           /\ confirmedRoots \subseteq confirmedRoots'
           /\ nullifiers \subseteq nullifiers'
<1>1. nullifiers \subseteq nullifiers'
  BY OnlyProvingConfirms DEF ProveTransactionBatch, ProveBridgeTxBatch
<1> QED
  BY <1>1, ProvingStep DEF AppendLeaf

\* The events of a contract step tell the truth.
LEMMA EmitOnChain ==
    ASSUME TypeOK, BatchesApart, SyncTyped, LogOnChain, ChainStep
    PROVE  LogOnChain'
<1>0. /\ [Next]_vars /\ Emit /\ blockNumber \in Blocks /\ log \in [Blocks -> Events]
  BY ChainStepsNext DEF ChainStep, TypeOK, Blocks, SyncTyped
<1>1. \A b \in Blocks : \A e \in log[b].proven : OnChain(e)'
  BY <1>0, ConfirmedGrows DEF LogOnChain, OnChain
<1> DEFINE new == {[pi |-> p, leafIndex |-> Len(leaves), newTreeRoot |-> leaves'] :
                        p \in Confirmed' \ Confirmed}
<1>2. \A e \in new : e.pi \in Confirmed' /\ e.newTreeRoot \in confirmedRoots'
  <2>1. \A p \in Confirmed' \ Confirmed : leaves' \in confirmedRoots'
    BY <1>0, ProvingStep DEF AppendLeaf
  <2> QED
    BY <2>1
<1>3. /\ \A c \in Blocks : c # blockNumber => log'[c] = log[c]
      /\ log'[blockNumber].proven = log[blockNumber].proven \cup new
  BY <1>0, EmitAt
<1> HIDE DEF new
<1>4. \A b \in Blocks : \A e \in log'[b].proven : OnChain(e)'
  <2> SUFFICES ASSUME NEW b \in Blocks, NEW e, e \in log'[b].proven
               PROVE  e.pi \in Confirmed' /\ e.newTreeRoot \in confirmedRoots'
    BY DEF OnChain
  <2>1. CASE e \in log[b].proven
    BY <1>1, <2>1 DEF OnChain
  <2>2. e \in log[b].proven \/ e \in new
    BY <1>0, <1>3
  <2> QED
    BY <1>2, <2>1, <2>2
<1> QED
  BY <1>4 DEF LogOnChain

\* A contract step leaves a truthful state truthful.
LEMMA TruthKept ==
    ASSUME TypeOK, BatchesApart, [Next]_vars, Sound(st), st' = st
    PROVE  Sound(st)'
<1>1. Truthful(st)'
  BY ConfirmedGrows DEF Sound, Truthful
<1> QED
  BY <1>1 DEF Sound, KindsApart, OwnNullifiers, LocationsTyped

\* Indexing a submission reports nothing as confirmed.
LEMMA ApplyKeepsSound ==
    ASSUME NEW s, IsState(s), Sound(s), NEW p
    PROVE  Sound(ApplyPreimage(s, p))
<1> DEFINE t == ApplyPreimage(s, p)
           new == {[comm |-> c, pi |-> p, confirmed |-> FALSE] : c \in p.body.outputs}
<1>1. PreimageApplied(s, p, t)
  BY ApplyPreimageFields
<1> HIDE DEF t
<1>2. KindsApart(t)
  BY <1>1 DEF Sound, KindsApart, PreimageApplied
<1>3. OwnNullifiers(t)
  BY <1>1 DEF Sound, OwnNullifiers, PreimageApplied
<1>4. LocationsTyped(t)
  BY <1>1 DEF Sound, LocationsTyped, PreimageApplied
<1>5. \A l \in new : ~l.confirmed
  OBVIOUS
<1>6. Truthful(t)
  <2> HIDE DEF new
  <2> QED
    BY <1>1, <1>5 DEF Sound, Truthful, PreimageApplied
<1> QED
  BY <1>2, <1>3, <1>4, <1>6 DEF Sound, t

\* Replaying an event of the chain reports what the chain confirmed.
LEMMA ConfirmKeepsSound ==
    ASSUME TypeOK, NoDoubleSpend, NEW s, IsState(s), Sound(s), NEW e, OnChain(e)
    PROVE  Sound(ConfirmBatch(s, e))
<1> DEFINE t == ConfirmBatch(s, e)
           p == e.pi
<1>1. ConfirmedAs(s, p, e.newTreeRoot, t)
  BY ConfirmBatchFields
<1> HIDE DEF p
<1>2. p \in Confirmed /\ e.newTreeRoot \in confirmedRoots
  BY DEF OnChain, p
<1>3. Nullifiers(p) \subseteq nullifiers
  BY <1>2, ConfirmedSpends, KindsOf DEF Confirmed, Nullifiers
<1> HIDE DEF t
<1>4. KindsApart(t) /\ OwnNullifiers(t)
  BY <1>1 DEF Sound, KindsApart, OwnNullifiers, SpentElsewhere, ConfirmedAs
<1>5. \A k \in s.commitments :
        LET l == [k EXCEPT !.confirmed = TRUE]
        IN  l.pi = k.pi /\ DOMAIN l = {"comm", "pi", "confirmed"}
  BY DEF Sound, LocationsTyped
<1>6. \A l \in t.commitments :
        \/ l \in s.commitments
        \/ l.pi = p /\ DOMAIN l = {"comm", "pi", "confirmed"}
  <2> SUFFICES ASSUME NEW l \in t.commitments, l \notin s.commitments
               PROVE  l.pi = p /\ DOMAIN l = {"comm", "pi", "confirmed"}
    OBVIOUS
  <2>1. PICK k \in s.commitments : l = IF k.pi = p THEN [k EXCEPT !.confirmed = TRUE] ELSE k
    BY <1>1 DEF Marked, ConfirmedAs
  <2> QED
    BY <1>5, <2>1
<1>7. LocationsTyped(t)
  BY <1>6 DEF Sound, LocationsTyped
<1>8. /\ t.confirmedTx \subseteq confirmedTxBatches
      /\ t.confirmedBridge \subseteq confirmedBridgeTxBatches
  BY <1>1, <1>2, KindsOf DEF Sound, Truthful, KindsApart, Confirmed, ConfirmedAs
<1>9. t.confirmedNullifiers \subseteq nullifiers
  BY <1>1, <1>3 DEF Sound, Truthful, OwnNullifiers, SpentIn, ConfirmedAs
<1>10. t.confirmedRoots \subseteq confirmedRoots
  BY <1>1, <1>2 DEF Sound, Truthful, ConfirmedAs
<1>11. \A l \in t.commitments : l.confirmed => l.pi \in Confirmed /\ l.pi \in t.subtrees
  BY <1>1, <1>2, <1>6 DEF Sound, Truthful, ConfirmedAs
<1> QED
  BY <1>4, <1>7, <1>8, <1>9, <1>10, <1>11 DEF Sound, Truthful, t

\* Steps that leave the batches alone leave a truthful state truthful.
LEMMA SameBatchesSound ==
    ASSUME NEW s, NEW t, SameBatches(s, t), Sound(s)
    PROVE  Sound(t)
BY DEF SameBatches, Sound, KindsApart, OwnNullifiers, LocationsTyped, Truthful

\* A service that has synced nothing reports the empty tree only.
LEMMA NewStateSound ==
    ASSUME <<>> \in confirmedRoots
    PROVE  Sound(NewState)
BY NewStateFields DEF Sound, KindsApart, OwnNullifiers, LocationsTyped, Truthful

\* Steps of the service keep its state truthful.
LEMMA ServiceKeepsSound ==
    ASSUME TypeOK, NoDoubleSpend, SyncTyped, ConfirmedInv, SyncStep \/ RpcFailure \/ Crash,
           UNCHANGED chainVars
    PROVE  Sound(st')
<1>0. IsState(st) /\ Sound(st) /\ todo \subseteq Entries
  BY DEF SyncTyped, ConfirmedInv
<1>1. CASE StartGenesis \/ Crash
  BY <1>1, NewStateSound DEF StartGenesis, Crash, ConfirmedInv
<1>2. CASE st' = st
  BY <1>0, <1>2
<1>3. ASSUME NEW p, ApplySubmission(p) PROVE Sound(st')
  BY <1>0, <1>3, ApplyKeepsSound DEF ApplySubmission
<1>4. CASE ConfirmEntry
  <2>1. st' = ConfirmBatch(Prepared(NextEntry), NextEntry) /\ todo # {}
    BY <1>4 DEF ConfirmEntry, Prepared
  <2>2. IsState(Prepared(NextEntry)) /\ Sound(Prepared(NextEntry))
    BY <1>0, PreparedFields, ApplyKeepsSound DEF Prepared
  <2>3. OnChain(NextEntry)
    BY <1>0, <2>1, NextEntryFirst DEF ConfirmedInv, TodoOnChain
  <2> QED
    BY <2>1, <2>2, <2>3, ConfirmKeepsSound
<1>5. CASE ConfirmFails
  <2>1. st' = st \/ st' = ApplyPreimage(st, NextEntry.pi)
    BY <1>5 DEF ConfirmFails
  <2> QED
    BY <1>0, <2>1, ApplyKeepsSound
<1>6. CASE AssignSubpools
  BY <1>0, <1>6, AssignedFields, SameBatchesSound DEF AssignSubpools
<1>7. CASE UpdateRoots
  <2>1. PICK roots : st' = [st EXCEPT !.subpoolRoots = roots]
    BY <1>7, Zenon DEF UpdateRoots
  <2> QED
    BY <1>0, <2>1, RootsFields, SameBatchesSound
<1>8. CASE RebuildTree
  BY <1>0, <1>8, RebuildFields, SameBatchesSound DEF RebuildTree
<1>9. CASE SyncDeposits
  <2>1. PICK ds : DepositsApplied(st, FromBlock, ToBlock) = [st EXCEPT !.deposits = ds]
    BY DepositsAppliedOnly
  <2>2. st' = [[st EXCEPT !.deposits = ds] EXCEPT !.lastSynced = window.to]
    BY <1>9, <2>1 DEF SyncDeposits
  <2>3. SameBatches(st, st')
    BY <1>0, <2>2, SyncedFields
  <2> QED
    BY <1>0, <2>3, SameBatchesSound
<1>10. CASE StartPoll
  BY <1>0, <1>10 DEF StartPoll
<1> QED
  BY <1>1, <1>2, <1>3, <1>4, <1>5, <1>6, <1>7, <1>8, <1>9, <1>10, ServiceMoves

\* Events of mined blocks are collected, nothing else.
LEMMA ServiceKeepsTodo ==
    ASSUME TypeOK, SyncTyped, LogOnChain, TodoOnChain, SyncStep \/ RpcFailure \/ Crash,
           UNCHANGED chainVars
    PROVE  \A e \in todo' : OnChain(e)
<1>1. CASE CollectProven
  <2>1. window.from \in Nat /\ window.to \in Nat /\ window.to <= MaxBlock
    <3>1. HeadBlock <= MaxBlock /\ HeadBlock \in Int /\ MaxBlock \in Int
      <4>1. \A x \in 1 .. MaxBlock : x - 1 \in Int /\ x - 1 <= MaxBlock
        BY BlockAssumption
      <4> QED
        BY <4>1, BlockAssumption DEF TypeOK, HeadBlock
    <3> QED
      BY <3>1 DEF SyncTyped
  <2>2. log \in [Blocks -> Events]
    BY DEF SyncTyped
  <2>3. todo' = Proven(window.from + 1, window.to)
    BY <1>1 DEF CollectProven, FromBlock, ToBlock
  <2>4. \A e \in todo' : \E b \in Blocks : e \in log[b].proven
    BY <2>1, <2>2, <2>3, ProvenTyped
  <2> QED
    BY <2>4 DEF LogOnChain
<1>2. CASE todo' \subseteq todo
  BY <1>2 DEF TodoOnChain
<1> QED
  BY <1>1, <1>2, ServiceMoves DEF StartGenesis, StartPoll, ApplySubmission, TxSubmissionsDone,
     BridgeSubmissionsDone, ConfirmEntry, ConfirmFails, ProvenDone,
     AssignSubpools, UpdateRoots, RebuildTree, SyncDeposits, RpcFailure, GiveUp, Crash

\* Every step keeps the service truthful.
LEMMA NextConfirmedInv ==
    TypeOK /\ BatchesApart /\ NoDoubleSpend /\ SyncTyped /\ ConfirmedInv /\ [SyncNext]_allVars
        => ConfirmedInv'
<1> SUFFICES ASSUME TypeOK, BatchesApart, NoDoubleSpend, SyncTyped, ConfirmedInv,
                    [SyncNext]_allVars
             PROVE  ConfirmedInv'
  OBVIOUS
<1>0. [Next]_vars
  BY StepsOfContract
<1>1. (<<>> \in confirmedRoots)'
  BY <1>0, ConfirmedGrows DEF ConfirmedInv
<1>2. CASE (ChainStep \/ MineBlock) /\ UNCHANGED syncVars
  <2>1. st' = st /\ todo' = todo
    BY <1>2 DEF syncVars
  <2>2. Sound(st)'
    BY <1>0, <2>1, TruthKept DEF ConfirmedInv
  <2>3. LogOnChain'
    <3>1. CASE ChainStep
      BY <3>1, EmitOnChain DEF ConfirmedInv
    <3>2. CASE MineBlock
      <4>1. log' = log
        BY <3>2 DEF MineBlock
      <4> QED
        BY <1>0, <4>1, ConfirmedGrows DEF ConfirmedInv, LogOnChain, OnChain
    <3> QED
      BY <1>2, <3>1, <3>2
  <2>4. TodoOnChain'
    BY <1>0, <2>1, ConfirmedGrows DEF ConfirmedInv, TodoOnChain, OnChain
  <2> QED
    BY <1>1, <2>2, <2>3, <2>4 DEF ConfirmedInv
<1>3. CASE UNCHANGED chainVars
  <2>0. /\ log' = log /\ confirmedRoots' = confirmedRoots /\ Confirmed' = Confirmed
        /\ confirmedTxBatches' = confirmedTxBatches
        /\ confirmedBridgeTxBatches' = confirmedBridgeTxBatches
        /\ nullifiers' = nullifiers
    BY <1>3 DEF chainVars, vars, imtVars, txVars, bridgeVars, Confirmed
  <2>1. Sound(st') /\ \A e \in todo' : OnChain(e)
    <3>1. CASE UNCHANGED syncVars
      BY <3>1 DEF syncVars, ConfirmedInv, TodoOnChain
    <3>2. CASE SyncStep \/ RpcFailure \/ Crash
      BY <1>3, <3>2, ServiceKeepsSound, ServiceKeepsTodo DEF ConfirmedInv
    <3>3. CASE ChainStep \/ MineBlock
      BY <3>3 DEF ChainStep, MineBlock, syncVars, ConfirmedInv, TodoOnChain
    <3> QED
      BY <3>1, <3>2, <3>3, StepCases
  <2>2. Sound(st)'
    BY <2>0, <2>1 DEF Sound, KindsApart, OwnNullifiers, LocationsTyped, Truthful
  <2>3. LogOnChain' /\ TodoOnChain'
    BY <2>0, <2>1 DEF ConfirmedInv, LogOnChain, TodoOnChain, OnChain
  <2> QED
    BY <1>1, <2>2, <2>3 DEF ConfirmedInv
<1> QED
  BY <1>2, <1>3, StepCases

\* Before the first sync nothing is reported.
LEMMA InitConfirmedInv == SyncInit => ConfirmedInv
<1> SUFFICES ASSUME SyncInit PROVE ConfirmedInv
  OBVIOUS
<1>1. <<>> \in confirmedRoots /\ st = NewState /\ todo = {}
  BY DEF SyncInit, Init
<1>2. \A b \in Blocks : log[b].proven = {}
  BY DEF SyncInit, NoEvents, Blocks
<1> QED
  BY <1>1, <1>2, NewStateSound DEF ConfirmedInv, LogOnChain, TodoOnChain

\* Whatever calls fail, however often a window is retried and the service restarted, it
\* reports nothing confirmed that the contract did not confirm: no batch, no spent
\* nullifier, no root, no output.
THEOREM ReportsOnlyConfirmed == SyncSpec => []ConfirmedIsOnChain
<1>1. SyncSpec => [](TypeOK /\ BatchesApart /\ NoDoubleSpend)
  BY FollowsContract, TypeInvariant, Apart, SpendsOnce, PTL
<1>2. SyncSpec => []ConfirmedInv
  BY <1>1, SyncTypes, InitConfirmedInv, NextConfirmedInv, PTL DEF SyncSpec
<1>3. ConfirmedInv => ConfirmedIsOnChain
  BY DEF ConfirmedInv, Sound, Truthful, ConfirmedIsOnChain
<1> QED
  BY <1>2, <1>3, PTL

-----------------------------------------------------------------------------
(* The deposit index *)

\* Which notes a range of blocks has an event for.
LEMMA NotesIn ==
    ASSUME NEW ev, NEW from \in Nat, NEW to \in Nat, to <= MaxBlock
    PROVE  /\ \A n : n \in Notes(ev, from + 1, to) <=>
                \E b \in Blocks : from < b /\ b <= to /\ n \in log[b][ev]
           /\ \A n : n \in Notes(ev, 1, to) <=> \E b \in Blocks : b <= to /\ n \in log[b][ev]
<1>1. \A b : b \in (from + 1) .. to <=> b \in Blocks /\ from < b /\ b <= to
  BY BlockAssumption DEF Blocks
<1>2. \A b : b \in 1 .. to <=> b \in Blocks /\ b <= to
  BY BlockAssumption DEF Blocks
<1> QED
  BY <1>1, <1>2 DEF Notes

\* A deposit's status as of block b, from its events.
LEMMA StatusBy ==
    ASSUME NEW n, NEW b \in Nat, b <= MaxBlock
    PROVE  LET Seen(ev) == \E c \in Blocks : c <= b /\ n \in log[c][ev] IN
           DepositStatusBy(n, b) = IF Seen("withdrawn") THEN "Withdrawn"
                                   ELSE IF Seen("validated") THEN "Validated"
                                   ELSE IF Seen("available") THEN "Pending" ELSE "None"
<1>1. \A ev : n \in Notes(ev, 1, b) <=> \E c \in Blocks : c <= b /\ n \in log[c][ev]
  BY NotesIn
<1> QED
  BY <1>1 DEF DepositStatusBy

\* A deposit is known by block b iff it was registered by then.
LEMMA KnownBy ==
    ASSUME NEW n \in NoteComms, DepositLogged(n), NEW b \in Nat, b <= MaxBlock,
           blockNumber \in Blocks, deposits[n].depositBlock \in Int
    PROVE  DepositStatusBy(n, b) # "None" <=>
                deposits[n].status # "None" /\ deposits[n].depositBlock <= b
<1>0. MaxBlock \in Nat /\ Blocks = 1 .. MaxBlock
  BY BlockAssumption DEF Blocks
<1>1. ASSUME deposits[n].status # "None", deposits[n].depositBlock <= b
      PROVE  \E c \in Blocks : c <= b /\ n \in log[c].available
  <2>1. deposits[n].depositBlock \in Blocks
    BY <1>0, <1>1 DEF DepositLogged
  <2> QED
    BY <1>1, <2>1 DEF DepositLogged
<1>2. ASSUME NEW c \in Blocks, c <= b,
             n \in log[c].available \/ n \in log[c].validated \/ n \in log[c].withdrawn
      PROVE  deposits[n].status # "None" /\ deposits[n].depositBlock <= b
  <2>1. deposits[n].status # "None" /\ deposits[n].depositBlock <= c
    BY <1>0, <1>2 DEF DepositLogged
  <2> QED
    BY <1>0, <1>2, <2>1
<1> QED
  BY <1>1, <1>2, StatusBy

\* Contract steps log what they do to deposits.
LEMMA EmitDeposits ==
    ASSUME TypeOK, TypeOK', SyncTyped, DepositsLogged, ChainStep, blockNumber' = blockNumber
    PROVE  DepositsLogged'
<1> SUFFICES ASSUME NEW n \in NoteComms
             PROVE  DepositLogged(n)'
  BY DEF DepositsLogged
<1>0. /\ [Next]_vars /\ Emit /\ blockNumber \in Blocks /\ log \in [Blocks -> Events]
  BY ChainStepsNext DEF ChainStep, TypeOK, Blocks, SyncTyped
<1>1. DepositMoves(n) /\ DepositLogged(n)
  BY <1>0, DepositsMove DEF DepositsLogged
<1>2. /\ \A c \in Blocks : c # blockNumber => log'[c] = log[c]
      /\ log'[blockNumber].available = log[blockNumber].available \cup Becomes("Pending")
      /\ log'[blockNumber].validated = log[blockNumber].validated \cup Becomes("Validated")
      /\ log'[blockNumber].withdrawn = log[blockNumber].withdrawn \cup Becomes("Withdrawn")
  BY <1>0, EmitAt
<1>3. \A s : n \in Becomes(s) <=> deposits[n].status # s /\ deposits'[n].status = s
  BY DEF Becomes
<1>4. /\ Blocks = 1 .. MaxBlock /\ MaxBlock \in Nat /\ blockNumber \in Nat
      /\ deposits[n] \in DepositRecords /\ deposits'[n] \in DepositRecords
  BY <1>0, BlockAssumption DEF Blocks, TypeOK
<1>5. CASE deposits'[n] = deposits[n]
  <2>1. \A c \in Blocks : /\ n \in log'[c].available <=> n \in log[c].available
                          /\ n \in log'[c].validated <=> n \in log[c].validated
                          /\ n \in log'[c].withdrawn <=> n \in log[c].withdrawn
    BY <1>2, <1>3, <1>5
  <2> QED
    BY <1>1, <1>5, <2>1 DEF DepositLogged
<1>6. CASE /\ deposits[n].status = "None"
           /\ deposits'[n].status = "Pending" /\ deposits'[n].depositBlock = blockNumber
  <2>1. \A c \in Blocks : n \notin log[c].available \cup log[c].validated \cup log[c].withdrawn
    BY <1>1, <1>6 DEF DepositLogged
  <2>2. \A c \in Blocks : /\ n \in log'[c].available <=> c = blockNumber
                          /\ n \notin log'[c].validated \cup log'[c].withdrawn
    BY <1>2, <1>3, <1>6, <2>1
  <2>3. blockNumber' \in 1 .. blockNumber'
    BY <1>0, <1>4
  <2> QED
    BY <1>6, <2>2, <2>3 DEF DepositLogged
<1>7. ASSUME deposits[n].status = "Pending", NEW s \in {"Validated", "Withdrawn"},
             deposits'[n] = [deposits[n] EXCEPT !.status = s]
      PROVE  DepositLogged(n)'
  <2>1. deposits'[n].status = s /\ deposits'[n].depositBlock = deposits[n].depositBlock
    BY <1>4, <1>7 DEF DepositRecords
  <2>2. /\ deposits[n].depositBlock \in 1 .. blockNumber
        /\ \A c \in Blocks : n \notin log[c].validated \cup log[c].withdrawn
        /\ \A c \in Blocks : n \in log[c].available <=> c = deposits[n].depositBlock
    BY <1>1, <1>7 DEF DepositLogged
  <2>3. \A c \in Blocks : /\ n \in log'[c].available <=> c = deposits[n].depositBlock
                          /\ n \in log'[c].validated => c = blockNumber /\ s = "Validated"
                          /\ n \in log'[c].withdrawn => c = blockNumber /\ s = "Withdrawn"
    BY <1>2, <1>3, <1>7, <2>1, <2>2
  <2>4. deposits[n].depositBlock <= blockNumber
    BY <1>4, <2>2
  <2> QED
    BY <2>1, <2>2, <2>3, <2>4 DEF DepositLogged
<1> QED
  BY <1>1, <1>5, <1>6, <1>7 DEF DepositMoves

\* The index as of a mined block does not change.
LEMMA IndexKept ==
    ASSUME TypeOK, TypeOK', SyncTyped, DepositsLogged, DepositsLogged', ChainStep \/ MineBlock,
           NEW b \in Nat, b <= HeadBlock
    PROVE  IndexBy(b)' = IndexBy(b)
<1>0. /\ [Next]_vars /\ blockNumber \in Blocks /\ log \in [Blocks -> Events]
      /\ b < blockNumber /\ b <= MaxBlock
  <2>1. MineBlock => Next
    BY DEF MineBlock, Next
  <2>2. \A x \in 1 .. MaxBlock : b <= x - 1 => b < x /\ b <= MaxBlock
    BY BlockAssumption
  <2> QED
    BY <2>1, <2>2, ChainStepsNext DEF TypeOK, Blocks, SyncTyped, HeadBlock
<1>1. \A c \in Blocks : c <= b => log'[c] = log[c]
  <2>1. CASE MineBlock
    BY <2>1 DEF MineBlock
  <2>2. CASE ChainStep
    <3>1. \A c \in Blocks : c # blockNumber => log'[c] = log[c]
      BY <1>0, <2>2, EmitAt DEF ChainStep
    <3>2. \A c \in Blocks : c <= b => c # blockNumber
      BY <1>0, BlockAssumption DEF Blocks
    <3> QED
      BY <3>1, <3>2
  <2> QED
    BY <2>1, <2>2
<1>2. ASSUME NEW n PROVE DepositStatusBy(n, b)' = DepositStatusBy(n, b)
  <2>1. \A c \in 1 .. b : c \in Blocks /\ c <= b
    BY <1>0, BlockAssumption DEF Blocks
  <2>2. \A c \in 1 .. b : log'[c] = log[c]
    BY <1>1, <2>1
  <2>3. \A ev : Notes(ev, 1, b)' = Notes(ev, 1, b)
    BY <2>2 DEF Notes
  <2> QED
    BY <2>3 DEF DepositStatusBy
<1>3. NotesBy(b)' = NotesBy(b)
  BY <1>2 DEF NotesBy
<1>4. ASSUME NEW n \in NotesBy(b), NEW s PROVE IndexEntry(n, s)' = IndexEntry(n, s)
  <2>1. n \in NoteComms /\ DepositStatusBy(n, b) # "None" /\ DepositLogged(n)
    BY DEF NotesBy, DepositsLogged
  <2>2. deposits[n] \in DepositRecords /\ deposits[n].depositBlock \in Int
    <3>1. deposits[n] \in DepositRecords
      BY <2>1 DEF TypeOK
    <3> QED
      BY <3>1, BlockAssumption DEF DepositRecords
  <2>3. deposits[n].status # "None"
    BY <1>0, <2>1, <2>2, KnownBy
  <2>4. deposits'[n] = deposits[n] \/ \E x : deposits'[n] = [deposits[n] EXCEPT !.status = x]
    BY <1>0, <2>1, <2>3, DepositsMove DEF DepositMoves
  <2>5. /\ deposits'[n].value = deposits[n].value /\ deposits'[n].recipient = deposits[n].recipient
        /\ deposits'[n].assetId = deposits[n].assetId
        /\ deposits'[n].depositBlock = deposits[n].depositBlock
    BY <2>2, <2>4 DEF DepositRecords
  <2> QED
    BY <2>5 DEF IndexEntry
<1>5. IndexBy(b)' = {IndexEntry(n, DepositStatusBy(n, b))' : n \in NotesBy(b)'}
  BY DEF IndexBy
<1>6. \A n \in NotesBy(b) : IndexEntry(n, DepositStatusBy(n, b))' = IndexEntry(n, DepositStatusBy(n, b))
  <2> TAKE n \in NotesBy(b)
  <2>1. PICK s : s = DepositStatusBy(n, b)
    OBVIOUS
  <2>2. DepositStatusBy(n, b)' = s
    BY <1>2, <2>1
  <2>3. IndexEntry(n, s)' = IndexEntry(n, s)
    BY <1>4
  <2>4. IndexEntry(n, DepositStatusBy(n, b))' = IndexEntry(n, s)'
    BY <2>2 DEF IndexEntry
  <2> QED
    BY <2>1, <2>3, <2>4
<1> QED
  BY <1>3, <1>5, <1>6 DEF IndexBy

\* Applying the events of a window takes the index from its start to its end: a deposit
\* is in the window's Available events iff it was registered there, and then only there.
LEMMA DepositsAppliedIndex ==
    ASSUME TypeOK, SyncTyped, DepositsLogged, st.deposits = IndexBy(window.from),
           NEW ds, DepositsApplied(st, FromBlock, ToBlock) = [st EXCEPT !.deposits = ds]
    PROVE  ds = IndexBy(window.to)
<1> DEFINE from == window.from
           to == window.to
           avail == Notes("available", from + 1, to)
           valid == Notes("validated", from + 1, to)
           gone  == Notes("withdrawn", from + 1, to)
           Block(n) == CHOOSE b \in from + 1 .. to : n \in log[b].available
           record(n) == [note |-> n, value |-> deposits[n].value, recipient |-> deposits[n].recipient,
                         assetId |-> deposits[n].assetId, status |-> "Pending", block |-> Block(n)]
           inserted == {d \in st.deposits : d.note \notin avail} \cup {record(n) : n \in avail}
           Status(d) == IF d.note \in gone THEN "Withdrawn"
                        ELSE IF d.note \in valid THEN "Validated" ELSE d.status
           out == {[d EXCEPT !.status = Status(d)] : d \in inserted}
<1>1. DepositsApplied(st, FromBlock, ToBlock) = [st EXCEPT !.deposits = out]
  BY Zenon DEF DepositsApplied, FromBlock, ToBlock
<1>2. ds = out
  <2> HIDE DEF out
  <2>1. [st EXCEPT !.deposits = ds] = [st EXCEPT !.deposits = out] /\ IsState(st)
    BY <1>1 DEF SyncTyped
  <2>2. ASSUME NEW x PROVE [st EXCEPT !.deposits = x].deposits = x
    BY <2>1 DEF IsState, NewState
  <2>3. [st EXCEPT !.deposits = ds].deposits = ds /\ [st EXCEPT !.deposits = out].deposits = out
    BY <2>2
  <2> QED
    BY <2>1, <2>3, Zenon
<1>3. /\ from \in Nat /\ to \in Nat /\ from <= to /\ to <= MaxBlock /\ from <= MaxBlock
      /\ blockNumber \in Blocks /\ Blocks = 1 .. MaxBlock /\ MaxBlock \in Nat
  <2>1. \A x \in 1 .. MaxBlock : \A f, t \in Nat : f <= t /\ t <= x - 1 => t <= MaxBlock /\ f <= MaxBlock
    BY BlockAssumption
  <2>2. window.from \in Nat /\ window.to \in Nat
    BY DEF SyncTyped
  <2>3. window.from <= window.to /\ window.to <= blockNumber - 1 /\ blockNumber \in 1 .. MaxBlock
    BY DEF SyncTyped, HeadBlock, TypeOK
  <2> QED
    BY <2>1, <2>2, <2>3, BlockAssumption DEF Blocks
<1> HIDE DEF from, to
<1>4. ASSUME NEW n \in NoteComms
      PROVE  /\ n \in avail <=> deposits[n].status # "None"
                    /\ from < deposits[n].depositBlock /\ deposits[n].depositBlock <= to
             /\ deposits[n].depositBlock \in Int
             /\ n \in avail => Block(n) = deposits[n].depositBlock
  <2>0. DepositLogged(n) /\ deposits[n].depositBlock \in Int
    <3>1. deposits[n] \in DepositRecords
      BY DEF TypeOK
    <3> QED
      BY <3>1, BlockAssumption DEF DepositsLogged, DepositRecords
  <2>1. n \in avail <=> \E b \in Blocks : from < b /\ b <= to /\ n \in log[b].available
    BY <1>3, NotesIn
  <2>2. \A b \in Blocks : n \in log[b].available <=>
            deposits[n].status # "None" /\ b = deposits[n].depositBlock
    BY <2>0 DEF DepositLogged
  <2>3. deposits[n].status # "None" => deposits[n].depositBlock \in Blocks
    BY <1>3, <2>0 DEF DepositLogged
  <2>4. ASSUME n \in avail PROVE Block(n) = deposits[n].depositBlock
    <3>1. PICK b \in Blocks : from < b /\ b <= to /\ n \in log[b].available
      BY <2>1, <2>4
    <3>2. b \in from + 1 .. to
      BY <1>3, <3>1
    <3>3. \A c \in from + 1 .. to : c \in Blocks
      BY <1>3
    <3>4. \A c \in from + 1 .. to : n \in log[c].available => c = deposits[n].depositBlock
      BY <2>2, <3>3
    <3> QED
      BY <3>1, <3>2, <3>4
  <2> QED
    BY <2>0, <2>1, <2>2, <2>3, <2>4
<1>5. avail \subseteq NoteComms
  <2>1. \A b \in Blocks : log[b].available \subseteq NoteComms
    BY DEF SyncTyped, Events
  <2> QED
    BY <1>3, <2>1, NotesIn
<1>6. ASSUME NEW n \in NoteComms, NEW b \in {from, to}
      PROVE  DepositStatusBy(n, b) # "None" <=>
                deposits[n].status # "None" /\ deposits[n].depositBlock <= b
  BY <1>3, <1>4, KnownBy DEF DepositsLogged
<1>7. NotesBy(to) = NotesBy(from) \cup avail /\ NotesBy(from) \cap avail = {}
  BY <1>3, <1>4, <1>5, <1>6 DEF NotesBy
<1> HIDE DEF avail
<1> DEFINE Old(n) == IF n \in avail THEN "Pending" ELSE DepositStatusBy(n, from)
           New(n) == IF n \in gone THEN "Withdrawn"
                     ELSE IF n \in valid THEN "Validated" ELSE Old(n)
<1>8. \A n \in avail : record(n) = IndexEntry(n, "Pending")
  BY <1>4, <1>5, Zenon DEF IndexEntry
<1>9. ASSUME NEW n \in NotesBy(to) PROVE New(n) = DepositStatusBy(n, to)
  <2>0. n \in NoteComms /\ DepositLogged(n)
    BY DEF NotesBy, DepositsLogged
  <2>1. \A c \in Blocks : c <= to <=> c <= from \/ (from < c /\ c <= to)
    BY <1>3
  <2> DEFINE In(ev) == \E c \in Blocks : from < c /\ c <= to /\ n \in log[c][ev]
             By(ev, b) == \E c \in Blocks : c <= b /\ n \in log[c][ev]
  <2>2. \A ev : By(ev, to) <=> By(ev, from) \/ In(ev)
    BY <2>1
  <2>3. (n \in gone <=> In("withdrawn")) /\ (n \in valid <=> In("validated"))
        /\ (n \in avail <=> In("available"))
    BY <1>3, NotesIn DEF avail
  <2>4. /\ DepositStatusBy(n, to) = IF By("withdrawn", to) THEN "Withdrawn"
                                    ELSE IF By("validated", to) THEN "Validated"
                                    ELSE IF By("available", to) THEN "Pending" ELSE "None"
        /\ DepositStatusBy(n, from) = IF By("withdrawn", from) THEN "Withdrawn"
                                    ELSE IF By("validated", from) THEN "Validated"
                                    ELSE IF By("available", from) THEN "Pending" ELSE "None"
    BY <1>3, StatusBy
  <2>5. ~(By("withdrawn", to) /\ By("validated", to))
    BY <2>0 DEF DepositLogged
  <2>6. n \in avail => DepositStatusBy(n, from) = "None"
    BY <1>7, <2>0 DEF NotesBy
  <2> HIDE DEF In, By, gone, valid
  <2> QED
    BY <2>2, <2>3, <2>4, <2>5, <2>6
<1>10. inserted = {IndexEntry(n, Old(n)) : n \in NotesBy(to)}
  <2>1. \A n \in NotesBy(from) : IndexEntry(n, DepositStatusBy(n, from)).note \notin avail
    BY <1>7 DEF IndexEntry
  <2>2. {d \in st.deposits : d.note \notin avail} = IndexBy(from)
    BY <2>1 DEF IndexBy, from
  <2>3. {record(n) : n \in avail} = {IndexEntry(n, Old(n)) : n \in avail}
    BY <1>8
  <2>4. IndexBy(from) = {IndexEntry(n, Old(n)) : n \in NotesBy(from)}
    BY <1>7 DEF IndexBy
  <2> QED
    BY <1>7, <2>2, <2>3, <2>4
<1>11. ASSUME NEW n, NEW s, NEW x
       PROVE  /\ [IndexEntry(n, s) EXCEPT !.status = x] = IndexEntry(n, x)
              /\ IndexEntry(n, s).note = n /\ IndexEntry(n, s).status = s
  BY DEF IndexEntry
<1> HIDE DEF inserted, gone, valid
<1>12. \A n : Status(IndexEntry(n, Old(n))) = New(n)
  BY <1>11
<1>13. out = {[IndexEntry(n, Old(n)) EXCEPT !.status = Status(IndexEntry(n, Old(n)))] :
                n \in NotesBy(to)}
  BY <1>10
<1> HIDE DEF Status, Old, New
<1>14. \A n \in NotesBy(to) :
        [IndexEntry(n, Old(n)) EXCEPT !.status = Status(IndexEntry(n, Old(n)))]
            = IndexEntry(n, DepositStatusBy(n, to))
  BY <1>9, <1>11, <1>12
<1> HIDE DEF out
<1>15. {[IndexEntry(n, Old(n)) EXCEPT !.status = Status(IndexEntry(n, Old(n)))] : n \in NotesBy(to)}
            = {IndexEntry(n, DepositStatusBy(n, to)) : n \in NotesBy(to)}
  BY <1>14
<1> QED
  BY <1>2, <1>13, <1>15, Zenon DEF IndexBy, to

\* Nothing is known by block 0.
LEMMA IndexEmpty == IndexBy(0) = {}
<1>1. \A n, ev : n \notin Notes(ev, 1, 0)
  BY DEF Notes
<1>2. \A n : DepositStatusBy(n, 0) = "None"
  BY <1>1 DEF DepositStatusBy
<1> QED
  BY <1>2 DEF IndexBy, NotesBy

\* Every step keeps the deposit index that of last_synced_block.
LEMMA NextDepositsInv ==
    TypeOK /\ TypeOK' /\ SyncTyped /\ DepositsInv /\ [SyncNext]_allVars => DepositsInv'
<1> SUFFICES ASSUME TypeOK, TypeOK', SyncTyped, DepositsInv, [SyncNext]_allVars
             PROVE  DepositsInv'
  OBVIOUS
<1>0. DepositsLogged /\ st.deposits = IndexBy(st.lastSynced) /\ st.lastSynced \in Nat
      /\ st.lastSynced <= HeadBlock
  BY DEF DepositsInv, SyncTyped
<1>1. CASE (ChainStep \/ MineBlock) /\ UNCHANGED syncVars
  <2>1. st' = st
    BY <1>1 DEF syncVars
  <2>2. DepositsLogged'
    <3>1. CASE ChainStep
      BY <1>0, <3>1, EmitDeposits, ChainKeepsBlock
    <3>2. CASE MineBlock
      <4>1. /\ log' = log /\ deposits' = deposits /\ blockNumber' = blockNumber + 1
            /\ blockNumber \in Nat
        BY <3>2, BlockAssumption DEF MineBlock, NextBlock, valueVars, TypeOK
      <4>2. \A x \in 1 .. blockNumber : x \in 1 .. blockNumber'
        BY <4>1
      <4> QED
        BY <1>0, <4>1, <4>2 DEF DepositsLogged, DepositLogged
    <3> QED
      BY <1>1, <3>1, <3>2
  <2>3. PICK b \in Nat : b = st.lastSynced
    BY <1>0
  <2>4. IndexBy(b)' = IndexBy(b)
    BY <1>0, <1>1, <2>2, <2>3, IndexKept
  <2>5. (st.deposits = IndexBy(st.lastSynced))'
    <3>1. st'.deposits = IndexBy(b) /\ st'.lastSynced = b
      BY <1>0, <2>1, <2>3
    <3> QED
      BY <2>4, <3>1
  <2> QED
    BY <2>2, <2>5 DEF DepositsInv
<1>2. ASSUME UNCHANGED chainVars, st'.deposits = IndexBy(st'.lastSynced)
      PROVE  DepositsInv'
  <2>1. log' = log /\ deposits' = deposits /\ blockNumber' = blockNumber
    BY <1>2 DEF chainVars, vars, valueVars
  <2>2. DepositsLogged'
    BY <1>0, <2>1 DEF DepositsLogged, DepositLogged
  <2>3. (st.deposits = IndexBy(st.lastSynced))'
    BY <1>2, <2>1 DEF IndexBy, IndexEntry, NotesBy, DepositStatusBy, Notes
  <2> QED
    BY <2>2, <2>3 DEF DepositsInv
<1>3. CASE UNCHANGED chainVars /\ UNCHANGED syncVars
  BY <1>0, <1>2, <1>3 DEF syncVars
<1>4. CASE (SyncStep \/ RpcFailure \/ Crash) /\ UNCHANGED chainVars
  <2>1. CASE SyncDeposits
    <3>1. PICK ds : DepositsApplied(st, FromBlock, ToBlock) = [st EXCEPT !.deposits = ds]
      BY DepositsAppliedOnly
    <3>2. st' = [[st EXCEPT !.deposits = ds] EXCEPT !.lastSynced = window.to]
      BY <2>1, <3>1 DEF SyncDeposits
    <3>3. st'.deposits = ds /\ st'.lastSynced = window.to
      <4>1. IsState(st)
        BY DEF SyncTyped
      <4>2. ASSUME NEW b
            PROVE  LET t == [[st EXCEPT !.deposits = ds] EXCEPT !.lastSynced = b]
                   IN  t.lastSynced = b /\ t.deposits = ds
        BY <4>1 DEF IsState, NewState
      <4> QED
        BY <3>2, <4>2
    <3>4. st.deposits = IndexBy(window.from)
      BY <1>0, <2>1 DEF SyncDeposits, Goto, SyncTyped, Syncing
    <3>5. ds = IndexBy(window.to)
      BY <1>0, <3>1, <3>4, DepositsAppliedIndex
    <3> QED
      BY <1>2, <1>4, <3>3, <3>5
  <2>2. CASE st' = NewState
    BY <1>2, <1>4, <2>2, NewStateFields, IndexEmpty
  <2>3. CASE st'.lastSynced = st.lastSynced /\ st'.deposits = st.deposits
    BY <1>0, <1>2, <1>4, <2>3
  <2> QED
    BY <1>4, <2>1, <2>2, <2>3, ServiceStates
<1> QED
  BY <1>1, <1>3, <1>4, StepCases

\* At first there is no deposit and no event.
LEMMA InitDepositsInv == SyncInit => DepositsInv
<1> SUFFICES ASSUME SyncInit PROVE DepositsInv
  OBVIOUS
<1>1. st = NewState /\ \A n \in NoteComms : deposits[n].status = "None"
  BY DEF SyncInit, Init, NoDeposit
<1>2. \A b \in Blocks : log[b].available = {} /\ log[b].validated = {} /\ log[b].withdrawn = {}
  BY DEF SyncInit, NoEvents, Blocks
<1>3. DepositsLogged
  BY <1>1, <1>2 DEF DepositsLogged, DepositLogged
<1> QED
  BY <1>1, <1>3, NewStateFields, IndexEmpty DEF DepositsInv

\* The index of a block says of every deposit what the contract's record says.
LEMMA IndexExact ==
    ASSUME TypeOK, st.deposits = IndexBy(st.lastSynced)
    PROVE  DepositsExact
<1> DEFINE b == st.lastSynced
<1>1. ASSUME NEW n, NEW s
      PROVE  LET d == IndexEntry(n, s) IN
             /\ d.note = n /\ d.status = s /\ d.value = deposits[n].value
             /\ d.recipient = deposits[n].recipient /\ d.assetId = deposits[n].assetId
             /\ d.block = deposits[n].depositBlock
  BY DEF IndexEntry
<1>2. {d.note : d \in st.deposits} = NotesBy(b)
  BY <1>1 DEF IndexBy
<1>3. ASSUME NEW d \in st.deposits
      PROVE  /\ d.status = DepositStatusBy(d.note, b)
             /\ [deposits[d.note] EXCEPT !.status = d.status] =
                 [value |-> d.value, recipient |-> d.recipient, status |-> d.status,
                  depositBlock |-> d.block, assetId |-> d.assetId]
  <2>1. PICK n \in NotesBy(b) : d = IndexEntry(n, DepositStatusBy(n, b))
    BY DEF IndexBy
  <2>2. /\ d.note = n /\ d.status = DepositStatusBy(n, b) /\ d.value = deposits[n].value
        /\ d.recipient = deposits[n].recipient /\ d.assetId = deposits[n].assetId
        /\ d.block = deposits[n].depositBlock
    BY <1>1, <2>1
  <2>3. deposits[n] \in DepositRecords
    BY <2>1 DEF NotesBy, TypeOK
  <2>4. ASSUME NEW s
        PROVE  [deposits[n] EXCEPT !.status = s] =
                 [value |-> deposits[n].value, recipient |-> deposits[n].recipient, status |-> s,
                  depositBlock |-> deposits[n].depositBlock, assetId |-> deposits[n].assetId]
    BY <2>3 DEF DepositRecords
  <2> QED
    BY <2>2, <2>4
<1> QED
  BY <1>2, <1>3 DEF DepositsExact, NotesBy

\* The deposit index is exactly the chain's as of last_synced_block: which deposits there
\* are, their status, block and amounts, whatever calls fail and are retried.
THEOREM DepositIndexExact == SyncSpec => []DepositsExact
<1>1. SyncSpec => []TypeOK
  BY FollowsContract, TypeInvariant, PTL
<1>2. SyncSpec => []DepositsInv
  BY <1>1, SyncTypes, InitDepositsInv, NextDepositsInv, PTL DEF SyncSpec
<1>3. TypeOK /\ DepositsInv => DepositsExact
  BY IndexExact DEF DepositsInv
<1> QED
  BY <1>1, <1>2, <1>3, PTL

-----------------------------------------------------------------------------
(* The mirrored tree.  A call that fails after a batch of the window was     *)
(* confirmed makes the retry confirm it again, so this part assumes that     *)
(* calls fail only before the first confirmation of a window.                *)

\* Calls fail, if they do, before the first confirmation of a window.
FailsEarly == FailPhases \subseteq {"txSubs", "bridgeSubs", "collect"}

\* A prefix, leaf by leaf.
LEMMA PrefixLeaves ==
    ASSUME NEW S, NEW s \in Seq(S), NEW t \in Seq(S)
    PROVE  IsPrefix(s, t) <=> Len(s) <= Len(t) /\ \A i \in 1 .. Len(s) : s[i] = t[i]
<1>1. ASSUME Len(s) <= Len(t)
      PROVE  SubSeq(s, 1, Len(s)) = SubSeq(t, 1, Len(s)) <=> \A i \in 1 .. Len(s) : s[i] = t[i]
  <2>1. SubSeq(s, 1, Len(s)) = s
    OBVIOUS
  <2>2. /\ SubSeq(t, 1, Len(s)) \in Seq(S) /\ Len(SubSeq(t, 1, Len(s))) = Len(s)
        /\ \A i \in 1 .. Len(s) : SubSeq(t, 1, Len(s))[i] = t[i]
    BY <1>1
  <2>3. ASSUME \A i \in 1 .. Len(s) : s[i] = t[i] PROVE s = SubSeq(t, 1, Len(s))
    BY <2>2, <2>3
  <2>4. ASSUME s = SubSeq(t, 1, Len(s)), NEW i \in 1 .. Len(s) PROVE s[i] = t[i]
    BY <2>2, <2>4
  <2> QED
    BY <2>1, <2>3, <2>4
<1> QED
  BY <1>1 DEF IsPrefix

\* The empty tree is a prefix of every tree.
LEMMA EmptyPrefix ==
    ASSUME NEW S, NEW t \in Seq(S)
    PROVE  IsPrefix(<<>>, t)
<1>1. ASSUME NEW s \in Seq(S), Len(s) = 0 PROVE IsPrefix(s, t)
  <2>1. Len(s) <= Len(t) /\ \A i \in 1 .. Len(s) : s[i] = t[i]
    BY <1>1
  <2> QED
    BY <2>1, PrefixLeaves
<1>2. <<>> \in Seq(S) /\ Len(<<>>) = 0
  OBVIOUS
<1> QED
  BY <1>1, <1>2

\* Which batches a range of blocks submitted.
LEMMA SubmissionsIn ==
    ASSUME NEW from \in Nat, NEW to \in Nat, to <= MaxBlock
    PROVE  /\ \A p : p \in Submissions(from + 1, to) <=>
                \E b \in Blocks : from < b /\ b <= to /\ p \in log[b].submitted
           /\ \A p : p \in Submissions(1, to) <=>
                \E b \in Blocks : b <= to /\ p \in log[b].submitted
<1>1. \A b : b \in (from + 1) .. to <=> b \in Blocks /\ from < b /\ b <= to
  BY BlockAssumption DEF Blocks
<1>2. \A b : b \in 1 .. to <=> b \in Blocks /\ b <= to
  BY BlockAssumption DEF Blocks
<1> QED
  BY <1>1, <1>2 DEF Submissions

\* The window's bounds are blocks.
LEMMA WindowTyped ==
    ASSUME TypeOK, SyncTyped
    PROVE  /\ window.from \in Nat /\ window.to \in Nat /\ window.from <= window.to
           /\ window.from <= MaxBlock /\ window.to <= MaxBlock
           /\ window.to < blockNumber /\ st.lastSynced \in Nat /\ st.lastSynced < blockNumber
           /\ st.lastSynced <= MaxBlock
           /\ blockNumber \in Blocks /\ Blocks = 1 .. MaxBlock /\ MaxBlock \in Nat
<1>1. \A x \in 1 .. MaxBlock : \A f, t \in Nat : f <= t /\ t <= x - 1 =>
            t <= MaxBlock /\ f <= MaxBlock /\ t < x /\ f < x
  BY BlockAssumption
<1>2. window.from \in Nat /\ window.to \in Nat /\ st.lastSynced \in Nat
  BY DEF SyncTyped
<1>3. /\ window.from <= window.to /\ window.to <= blockNumber - 1
      /\ st.lastSynced <= blockNumber - 1 /\ blockNumber \in 1 .. MaxBlock
  BY DEF SyncTyped, HeadBlock, TypeOK
<1>4. st.lastSynced <= st.lastSynced
  BY <1>2
<1> QED
  BY <1>1, <1>2, <1>3, <1>4, BlockAssumption DEF Blocks

\* What a step of the chain adds to the log: events of the current block, and at most one
\* entry, for the leaf it appends.
LEMMA LogGrows ==
    ASSUME TypeOK, BatchesApart, SyncTyped, ChainStep \/ MineBlock
    PROVE  /\ \A c \in Blocks : c < blockNumber => log'[c] = log[c]
           /\ \A c \in Blocks : log[c].proven \subseteq log'[c].proven
           /\ \A c \in Blocks : log[c].submitted \subseteq log'[c].submitted
           /\ \A c \in Blocks : \A e \in log'[c].proven : e \notin log[c].proven =>
                /\ c = blockNumber /\ e.leafIndex = Len(leaves)
                /\ e.pi \in Pending /\ e.pi \notin Confirmed
                /\ AppendLeaf(e.pi.body.batchPoseidonRoot)
           /\ \A c \in Blocks : \A e, f \in log'[c].proven :
                e \notin log[c].proven /\ f \notin log[c].proven => e = f
           /\ leaves' = leaves
              \/ \E e \in log'[blockNumber].proven : e.leafIndex = Len(leaves)
                    /\ AppendLeaf(e.pi.body.batchPoseidonRoot)
           /\ Pending' \ Pending \subseteq log'[blockNumber].submitted
<1>0. blockNumber \in Blocks /\ log \in [Blocks -> Events] /\ \A c \in Blocks : c < blockNumber => c # blockNumber
  <2>1. \A c \in Blocks : c < blockNumber => c # blockNumber
    BY WindowTyped
  <2> QED
    BY <2>1, WindowTyped DEF SyncTyped
<1>1. CASE MineBlock
  BY <1>0, <1>1 DEF MineBlock, NextBlock, imtVars, Pending, txVars, bridgeVars
<1>2. CASE ChainStep
  <2> DEFINE new == {[pi |-> p, leafIndex |-> Len(leaves), newTreeRoot |-> leaves'] :
                        p \in Confirmed' \ Confirmed}
  <2>1. /\ \A c \in Blocks : c # blockNumber => log'[c] = log[c]
        /\ log'[blockNumber].submitted = log[blockNumber].submitted \cup (Pending' \ Pending)
        /\ log'[blockNumber].proven = log[blockNumber].proven \cup new
    BY <1>0, <1>2, EmitAt DEF ChainStep
  <2>2. \/ leaves' = leaves /\ Confirmed' = Confirmed
        \/ \E p \in Pending : /\ p \notin Confirmed /\ Confirmed' = Confirmed \cup {p}
                              /\ AppendLeaf(p.body.batchPoseidonRoot)
    BY <1>2, ChainStepsNext, ProvingStep
  <2>3. CASE leaves' = leaves /\ Confirmed' = Confirmed
    <3>1. new = {}
      BY <2>3
    <3> HIDE DEF new
    <3> QED
      BY <1>0, <2>1, <2>3, <3>1
  <2>4. ASSUME NEW p \in Pending, p \notin Confirmed, Confirmed' = Confirmed \cup {p},
               AppendLeaf(p.body.batchPoseidonRoot)
        PROVE  /\ \A e \in new : /\ e.leafIndex = Len(leaves) /\ e.pi = p
               /\ \E e \in new : e.leafIndex = Len(leaves) /\ e.pi = p
               /\ \A e, f \in new : e = f
    <3>1. new = {[pi |-> p, leafIndex |-> Len(leaves), newTreeRoot |-> leaves']}
      BY <2>4
    <3> HIDE DEF new
    <3> QED
      BY <3>1
  <2>5. ASSUME NEW p \in Pending, p \notin Confirmed, Confirmed' = Confirmed \cup {p},
               AppendLeaf(p.body.batchPoseidonRoot),
               /\ \A e \in new : e.leafIndex = Len(leaves) /\ e.pi = p
               /\ \E e \in new : e.leafIndex = Len(leaves) /\ e.pi = p
               /\ \A e, f \in new : e = f
        PROVE  /\ \A c \in Blocks : c < blockNumber => log'[c] = log[c]
               /\ \A c \in Blocks : log[c].proven \subseteq log'[c].proven
               /\ \A c \in Blocks : log[c].submitted \subseteq log'[c].submitted
               /\ \A c \in Blocks : \A e \in log'[c].proven : e \notin log[c].proven =>
                    /\ c = blockNumber /\ e.leafIndex = Len(leaves)
                    /\ e.pi \in Pending /\ e.pi \notin Confirmed
                    /\ AppendLeaf(e.pi.body.batchPoseidonRoot)
               /\ \A c \in Blocks : \A e, f \in log'[c].proven :
                    e \notin log[c].proven /\ f \notin log[c].proven => e = f
               /\ \E e \in log'[blockNumber].proven : e.leafIndex = Len(leaves)
                        /\ AppendLeaf(e.pi.body.batchPoseidonRoot)
               /\ Pending' \ Pending \subseteq log'[blockNumber].submitted
    <3> HIDE DEF new
    <3> QED
      BY <1>0, <2>1, <2>5
  <2> QED
    BY <2>2, <2>3, <2>4, <2>5
<1> QED
  BY <1>1, <1>2

\* Contract steps keep the log one entry per leaf, in order.
LEMMA NextLeafLog ==
    ASSUME TypeOK, TypeOK', BatchesApart, SyncTyped, LogOnChain, LeafLog, ChainStep \/ MineBlock
    PROVE  LeafLog'
<1> DEFINE bn == blockNumber
<1>0. /\ bn \in Blocks /\ Blocks = 1 .. MaxBlock /\ MaxBlock \in Nat /\ bn \in Nat
      /\ blockNumber' \in Nat /\ bn <= blockNumber' /\ blockNumber' <= MaxBlock
      /\ leaves \in Seq(BatchRoots) /\ leaves' \in Seq(BatchRoots) /\ 2^TreeDepth \in Nat
      /\ Len(leaves) \in Nat
  <2>1. blockNumber' = bn \/ blockNumber' = bn + 1
    BY ChainKeepsBlock DEF MineBlock, NextBlock
  <2>2. bn \in 1 .. MaxBlock /\ blockNumber' \in 1 .. MaxBlock
    BY DEF TypeOK
  <2>3. leaves \in Seq(BatchRoots) /\ leaves' \in Seq(BatchRoots)
    BY DEF TypeOK
  <2> QED
    BY <2>1, <2>2, <2>3, WidthAssumption, BlockAssumption DEF Blocks
<1>1. \A c \in Blocks : \A e \in log[c].proven : e \in Entries /\ e.leafIndex \in Nat
  <2>1. \A c \in Blocks : log[c].proven \subseteq Entries
    BY DEF SyncTyped, Events
  <2> QED
    BY <2>1 DEF Entries
<1>2. ASSUME NEW c \in Blocks, NEW p, p \in Submissions(1, c)
      PROVE  p \in Submissions(1, c)'
  <2>1. c \in Nat /\ c <= MaxBlock
    BY <1>0
  <2>2. PICK b \in Blocks : b <= c /\ p \in log[b].submitted
    BY <1>2, <2>1, SubmissionsIn
  <2>3. p \in log'[b].submitted /\ b \in 1 .. c
    BY <1>0, <2>1, <2>2, LogGrows
  <2> QED
    BY <2>3 DEF Submissions
<1>3. \/ leaves' = leaves
      \/ \E x : AppendLeaf(x) /\ x \in BatchRoots
  <2>1. ASSUME NEW e, e \in log'[bn].proven, AppendLeaf(e.pi.body.batchPoseidonRoot)
        PROVE  e.pi.body.batchPoseidonRoot \in BatchRoots
    BY <1>0, <2>1 DEF AppendLeaf
  <2> QED
    BY <2>1, LogGrows
<1>4. /\ Len(leaves) <= Len(leaves') /\ \A i \in 1 .. Len(leaves) : leaves'[i] = leaves[i]
      /\ Len(leaves') <= 2^TreeDepth
  <2>1. ASSUME NEW x \in BatchRoots, AppendLeaf(x)
        PROVE  /\ Len(leaves) <= Len(leaves') /\ \A i \in 1 .. Len(leaves) : leaves'[i] = leaves[i]
               /\ Len(leaves') <= 2^TreeDepth
    BY <1>0, <2>1 DEF AppendLeaf
  <2> QED
    BY <1>0, <1>3, <2>1 DEF LeafLog
<1>5. ASSUME NEW c \in Blocks, NEW e \in log[c].proven
      PROVE  EntryPlaced(c, e)'
  <2>1. EntryPlaced(c, e)
    BY DEF LeafLog
  <2>2. c <= blockNumber' /\ e.leafIndex < Len(leaves')
    BY <1>0, <1>1, <1>4, <2>1 DEF EntryPlaced
  <2>3. leaves'[e.leafIndex + 1] = leaves[e.leafIndex + 1]
    <3>1. e.leafIndex + 1 \in 1 .. Len(leaves)
      BY <1>0, <1>1, <2>1 DEF EntryPlaced
    <3> QED
      BY <1>4, <3>1
  <2>4. e.pi \in Submissions(1, c)'
    BY <1>2, <2>1 DEF EntryPlaced
  <2> QED
    BY <2>1, <2>2, <2>3, <2>4 DEF EntryPlaced
<1>6. ASSUME NEW c \in Blocks, NEW e \in log'[c].proven, e \notin log[c].proven
      PROVE  EntryPlaced(c, e)'
  <2>1. /\ c = bn /\ e.leafIndex = Len(leaves) /\ e.pi \in Pending
        /\ AppendLeaf(e.pi.body.batchPoseidonRoot)
    BY <1>6, LogGrows
  <2>2. /\ Len(leaves') = Len(leaves) + 1
        /\ leaves'[Len(leaves) + 1] = e.pi.body.batchPoseidonRoot
    BY <1>0, <2>1 DEF AppendLeaf
  <2>3. e.pi \in Submissions(1, c)'
    BY <1>2, <2>1 DEF LeafLog
  <2> QED
    BY <1>0, <2>1, <2>2, <2>3 DEF EntryPlaced
<1>7. \A c \in Blocks : \A e \in log'[c].proven : EntryPlaced(c, e)'
  BY <1>5, <1>6
<1>8. ASSUME NEW i \in 0 .. Len(leaves') - 1
      PROVE  \E b \in Blocks : \E e \in log'[b].proven : e.leafIndex = i
  <2>1. CASE i \in 0 .. Len(leaves) - 1
    <3>1. PICK b \in Blocks : \E e \in log[b].proven : e.leafIndex = i
      BY <2>1 DEF LeafLog
    <3> QED
      BY <3>1, LogGrows
  <2>2. CASE i \notin 0 .. Len(leaves) - 1
    <3>1. leaves' # leaves
      BY <2>2
    <3>2. PICK e \in log'[bn].proven : e.leafIndex = Len(leaves)
                                       /\ AppendLeaf(e.pi.body.batchPoseidonRoot)
      BY <3>1, LogGrows
    <3>3. i = Len(leaves)
      BY <1>0, <2>2, <3>2 DEF AppendLeaf
    <3> QED
      BY <1>0, <3>2, <3>3
  <2> QED
    BY <2>1, <2>2
<1>9. ASSUME NEW b \in Blocks, NEW c \in Blocks, NEW e \in log'[b].proven, NEW f \in log'[c].proven
      PROVE  /\ b < c => e.leafIndex < f.leafIndex
             /\ e.leafIndex = f.leafIndex => e = f
             /\ e.pi = f.pi => e = f
  <2>1. CASE e \in log[b].proven /\ f \in log[c].proven
    BY <2>1 DEF LeafLog, EntriesOrdered
  <2>2. ASSUME NEW x \in Blocks, NEW y \in Blocks, NEW g \in log[x].proven, NEW h \in log'[y].proven, h \notin log[y].proven
        PROVE  g.leafIndex < h.leafIndex /\ x <= y /\ g.pi # h.pi /\ g.leafIndex # h.leafIndex
    <3>1. y = bn /\ h.leafIndex = Len(leaves) /\ h.pi \notin Confirmed
      BY <2>2, LogGrows
    <3>2. g.leafIndex < Len(leaves) /\ x <= bn /\ g.pi \in Confirmed
      BY DEF LeafLog, EntryPlaced, LogOnChain, OnChain
    <3> QED
      BY <1>0, <1>1, <3>1, <3>2
  <2>3. CASE e \in log[b].proven /\ f \notin log[c].proven
    BY <1>0, <2>2, <2>3
  <2>4. CASE e \notin log[b].proven /\ f \in log[c].proven
    <3>1. f.leafIndex < e.leafIndex /\ c <= b /\ f.pi # e.pi /\ f.leafIndex # e.leafIndex
      BY <2>2, <2>4
    <3>2. ~(b < c)
      BY <1>0, <3>1
    <3> QED
      BY <3>1, <3>2
  <2>5. CASE e \notin log[b].proven /\ f \notin log[c].proven
    <3>1. b = bn /\ c = bn
      BY <2>5, LogGrows
    <3>2. e = f
      BY <2>5, <3>1, LogGrows
    <3>3. ~(b < c)
      BY <1>0, <3>1
    <3> QED
      BY <3>2, <3>3
  <2> QED
    BY <2>1, <2>3, <2>4, <2>5
<1>10. (Pending \subseteq Submissions(1, blockNumber))'
  <2>1. ASSUME NEW p \in Pending' PROVE \E b \in Blocks : b <= bn /\ p \in log'[b].submitted
    <3>1. CASE p \in Pending
      <4>1. p \in Submissions(1, bn)
        BY <3>1 DEF LeafLog
      <4>2. PICK b \in Blocks : b <= bn /\ p \in log[b].submitted
        BY <1>0, <4>1, SubmissionsIn
      <4> QED
        BY <4>2, LogGrows
    <3>2. CASE p \notin Pending
      BY <1>0, <3>2, LogGrows
    <3> QED
      BY <3>1, <3>2
  <2>2. \A b \in Blocks : b <= bn => b \in 1 .. blockNumber'
    BY <1>0
  <2> QED
    BY <2>1, <2>2 DEF Submissions
<1>11. EntriesOrdered'
  BY <1>9 DEF EntriesOrdered
<1> QED
  BY <1>4, <1>7, <1>8, <1>10, <1>11 DEF LeafLog

\* A step of the chain only adds leaves beyond the mirror, in blocks beyond the window.
LEMMA ChainMirrorState ==
    ASSUME TypeOK, TypeOK', BatchesApart, SyncTyped, LeafLog, MirrorState,
           ChainStep \/ MineBlock, UNCHANGED syncVars
    PROVE  MirrorState'
<1>0. /\ st' = st /\ phase' = phase /\ mode' = mode /\ window' = window /\ todo' = todo
      /\ leaves \in Seq(BatchRoots) /\ leaves' \in Seq(BatchRoots)
      /\ st.leaves \in Seq(BatchRoots) /\ Len(st.leaves) \in Nat /\ Len(leaves) \in Nat
  <2>1. st' = st /\ phase' = phase /\ mode' = mode /\ window' = window /\ todo' = todo
    BY DEF syncVars
  <2>2. leaves \in Seq(BatchRoots) /\ leaves' \in Seq(BatchRoots) /\ st.leaves \in Seq(BatchRoots)
    BY DEF TypeOK, MirrorState
  <2> QED
    BY <2>1, <2>2
<1> DEFINE k == Len(st.leaves)
<1>1. k <= Len(leaves) /\ \A i \in 1 .. k : st.leaves[i] = leaves[i]
  BY <1>0, PrefixLeaves DEF MirrorState, MirrorIsPrefix
<1>2. Len(leaves) <= Len(leaves') /\ \A i \in 1 .. Len(leaves) : leaves'[i] = leaves[i]
  <2>1. CASE leaves' = leaves
    BY <1>0, <2>1
  <2>2. ASSUME NEW x, AppendLeaf(x)
        PROVE  Len(leaves) <= Len(leaves') /\ \A i \in 1 .. Len(leaves) : leaves'[i] = leaves[i]
    BY <1>0, <2>2 DEF AppendLeaf
  <2> QED
    BY <2>1, <2>2, LogGrows
<1>3. MirrorIsPrefix'
  <2>1. k <= Len(leaves') /\ \A i \in 1 .. k : st.leaves[i] = leaves'[i]
    BY <1>0, <1>1, <1>2
  <2>2. IsPrefix(st.leaves, leaves')
    BY <1>0, <2>1, PrefixLeaves
  <2> QED
    BY <1>0, <2>2 DEF MirrorIsPrefix
<1>4. ConfirmedHasLeaf(st)'
  <2>1. \A b \in Blocks : \A e \in log[b].proven : e \in log'[b].proven
    BY LogGrows
  <2> QED
    BY <1>0, <2>1 DEF MirrorState, ConfirmedHasLeaf
<1>5. \A c \in Blocks : \A e \in log'[c].proven :
        e \in log[c].proven \/ (c = blockNumber /\ ~(e.leafIndex < k))
  BY <1>0, <1>1, LogGrows
<1>6. \A c \in Blocks : \A e \in log[c].proven : e \in log'[c].proven
  BY LogGrows
<1>7. ASSUME NEW b \in Nat, b < blockNumber, LeavesUpTo(k, b) PROVE LeavesUpTo(k, b)'
  <2>1. ~(blockNumber <= b)
    BY <1>7, WindowTyped
  <2>2. \A c \in Blocks : \A e \in log'[c].proven : e.leafIndex < k <=> c <= b
    BY <1>5, <1>7, <2>1 DEF LeavesUpTo
  <2> QED
    BY <1>0, <2>2 DEF LeavesUpTo
<1>8. /\ Proven(FromBlock, ToBlock)' = Proven(FromBlock, ToBlock)
      /\ Submissions(FromBlock, ToBlock)' = Submissions(FromBlock, ToBlock)
  <2>1. \A c \in window.from + 1 .. window.to : log'[c] = log[c]
    <3>1. \A c \in window.from + 1 .. window.to : c \in Blocks /\ c < blockNumber
      BY WindowTyped
    <3> QED
      BY <3>1, LogGrows
  <2>2. window' = window
    BY <1>0
  <2>3. Proven(FromBlock, ToBlock)' = Proven(FromBlock, ToBlock)
    BY <2>1, <2>2 DEF Proven, FromBlock, ToBlock
  <2> QED
    BY <2>1, <2>2, <2>3 DEF Submissions, FromBlock, ToBlock
<1>9. MirrorProgress'
  <2>1. ASSUME phase \in {"idle", "txSubs", "bridgeSubs", "collect"}
        PROVE  LeavesUpTo(Len(st.leaves), st.lastSynced)'
    <3>1. PICK b \in Nat : b = st.lastSynced /\ b < blockNumber
      BY WindowTyped
    <3>2. LeavesUpTo(k, b)'
      BY <1>7, <2>1, <3>1 DEF MirrorState, MirrorProgress
    <3> QED
      BY <1>0, <3>1, <3>2
  <2>2. ASSUME phase \in {"config", "roots", "rebuild", "deposits"}
        PROVE  LeavesUpTo(Len(st.leaves), window.to)'
    <3>1. PICK b \in Nat : b = window.to /\ b < blockNumber
      BY WindowTyped
    <3>2. LeavesUpTo(k, b)'
      BY <1>7, <2>2, <3>1 DEF MirrorState, MirrorProgress
    <3> QED
      BY <1>0, <3>1, <3>2
  <2>3. ASSUME phase = "proven"
        PROVE  (/\ \A c \in Blocks : \A e \in log[c].proven :
                    /\ c <= window.from => e.leafIndex < Len(st.leaves)
                    /\ e.leafIndex < Len(st.leaves) => c <= window.to
                /\ todo = {e \in Proven(FromBlock, ToBlock) : e.leafIndex >= Len(st.leaves)})'
    <3>1. ~(blockNumber <= window.from)
      BY WindowTyped
    <3>2. /\ \A c \in Blocks : \A e \in log[c].proven :
                    /\ c <= window.from => e.leafIndex < k
                    /\ e.leafIndex < k => c <= window.to
          /\ todo = {e \in Proven(FromBlock, ToBlock) : e.leafIndex >= k}
      BY <2>3 DEF MirrorState, MirrorProgress
    <3>3. \A c \in Blocks : \A e \in log'[c].proven :
                    /\ c <= window.from => e.leafIndex < k
                    /\ e.leafIndex < k => c <= window.to
      BY <1>5, <3>1, <3>2
    <3> QED
      BY <1>0, <1>8, <3>2, <3>3
  <2> QED
    BY <1>0, <2>1, <2>2, <2>3 DEF MirrorProgress
<1>10. SubmissionsHeld'
  BY <1>0, <1>8 DEF MirrorState, SubmissionsHeld, Unprocessed, Held
<1> QED
  BY <1>0, <1>3, <1>4, <1>9, <1>10 DEF MirrorState

\* What the entry replayed next is, when the mirror has been a prefix so far: the entry of
\* the mirror's next leaf, of a batch not confirmed before, whose preimage can be had.
LEMMA NextEntryMirror ==
    ASSUME TypeOK, SyncTyped, LeafLog, MirrorState, phase = "proven", todo # {}
    PROVE  /\ NextEntry \in todo /\ NextEntry \in Entries
           /\ NextEntry.leafIndex = Len(st.leaves)
           /\ \E c \in Blocks : window.from < c /\ c <= window.to /\ NextEntry \in log[c].proven
           /\ NextEntry.pi \notin st.confirmedTx \cup st.confirmedBridge
           /\ Retrievable(NextEntry.pi) /\ ~TreeFull(st)
<1> DEFINE k == Len(st.leaves)
           e == NextEntry
<1>0. /\ leaves \in Seq(BatchRoots) /\ st.leaves \in Seq(BatchRoots)
      /\ Len(leaves) \in Nat /\ k \in Nat /\ k <= Len(leaves) /\ 2^TreeDepth \in Nat
      /\ Len(leaves) <= 2^TreeDepth
  <2>1. leaves \in Seq(BatchRoots) /\ st.leaves \in Seq(BatchRoots)
    BY DEF TypeOK, MirrorState
  <2> QED
    BY <2>1, WidthAssumption DEF MirrorState, MirrorIsPrefix, IsPrefix, LeafLog
<1>1. /\ \A c \in Blocks : \A f \in log[c].proven :
                /\ c <= window.from => f.leafIndex < k
                /\ f.leafIndex < k => c <= window.to
      /\ todo = {f \in Proven(FromBlock, ToBlock) : f.leafIndex >= k}
      /\ log \in [Blocks -> Events] /\ todo \subseteq Entries
  BY DEF MirrorState, MirrorProgress, SyncTyped
<1>2. /\ window.from \in Nat /\ window.to \in Nat /\ window.to <= MaxBlock
      /\ Blocks = 1 .. MaxBlock /\ MaxBlock \in Nat /\ window.from <= window.to
      /\ window.from <= MaxBlock
  BY WindowTyped
<1>3. e \in todo /\ \A f \in todo : e.leafIndex <= f.leafIndex
  BY <1>1, NextEntryFirst
<1>4. e \in Entries /\ e.leafIndex \in Nat /\ e.leafIndex >= k /\ e \in Proven(FromBlock, ToBlock)
  BY <1>1, <1>3 DEF Entries
<1>5. PICK c \in Blocks : window.from < c /\ c <= window.to /\ e \in log[c].proven
  BY <1>1, <1>2, <1>4, ProvenTyped DEF FromBlock, ToBlock
<1>6. EntryPlaced(c, e)
  BY <1>5 DEF LeafLog
<1>7. k < Len(leaves)
  BY <1>0, <1>4, <1>6 DEF EntryPlaced
<1>8. e.leafIndex = k
  <2>1. k \in 0 .. Len(leaves) - 1
    BY <1>0, <1>7
  <2>2. PICK b \in Blocks : \E f \in log[b].proven : f.leafIndex = k
    BY <2>1 DEF LeafLog
  <2>3. PICK f \in log[b].proven : f.leafIndex = k
    BY <2>2
  <2>4. ~(b <= window.from)
    BY <1>0, <1>1, <2>3
  <2>5. ~(c < b)
    <3>1. c < b => e.leafIndex < f.leafIndex
      BY <1>5 DEF LeafLog, EntriesOrdered
    <3> QED
      BY <1>0, <1>4, <2>3, <3>1
  <2>6. window.from < b /\ b <= window.to
    BY <1>2, <1>5, <2>4, <2>5
  <2>7. f \in Proven(FromBlock, ToBlock)
    BY <1>1, <1>2, <2>6, ProvenTyped DEF FromBlock, ToBlock
  <2>8. f \in todo
    BY <1>0, <1>1, <2>3, <2>7
  <2> QED
    BY <1>0, <1>3, <1>4, <2>3, <2>8
<1>9. e.pi \notin st.confirmedTx \cup st.confirmedBridge
  <2> SUFFICES ASSUME e.pi \in st.confirmedTx \cup st.confirmedBridge PROVE FALSE
    OBVIOUS
  <2>1. PICK b \in Blocks : \E f \in log[b].proven : f.pi = e.pi /\ f.leafIndex < k
    BY DEF MirrorState, ConfirmedHasLeaf
  <2>2. PICK f \in log[b].proven : f.pi = e.pi /\ f.leafIndex < k
    BY <2>1
  <2>3. f = e
    BY <1>5, <2>2 DEF LeafLog, EntriesOrdered
  <2> QED
    BY <1>0, <1>8, <2>2, <2>3
<1>10. Retrievable(e.pi)
  <2> SUFFICES ASSUME ~Known(e.pi) PROVE e.pi \in Submissions(1, FallbackTo)
    BY DEF Retrievable
  <2>1. e.pi \notin Held(st)
    BY <1>9 DEF Known, Held
  <2>2. PICK b \in Blocks : b <= c /\ e.pi \in log[b].submitted
    <3>1. c \in Nat /\ c <= MaxBlock
      BY <1>2
    <3> QED
      BY <1>6, <3>1, SubmissionsIn DEF EntryPlaced
  <2>3. ~(window.from < b)
    <3> SUFFICES ASSUME window.from < b PROVE FALSE
      OBVIOUS
    <3>1. b <= window.to
      BY <1>2, <1>5, <2>2
    <3>2. e.pi \in Submissions(FromBlock, ToBlock)
      BY <1>2, <2>2, <3>1, SubmissionsIn DEF FromBlock, ToBlock
    <3> QED
      BY <2>1, <3>2 DEF MirrorState, SubmissionsHeld
  <2>4. b <= window.from /\ b <= window.to
    BY <1>2, <2>3
  <2>5. e.pi \in Submissions(1, window.from) /\ e.pi \in Submissions(1, window.to)
    BY <1>2, <2>2, <2>4, SubmissionsIn
  <2> QED
    BY <2>5 DEF FallbackTo
<1>11. ~TreeFull(st)
  BY <1>0, <1>7 DEF TreeFull
<1> QED
  BY <1>3, <1>4, <1>5, <1>8, <1>9, <1>10, <1>11

\* A preimage that is applied or confirmed is held, and what was held stays held.
LEMMA HeldGrows ==
    ASSUME NEW s, IsState(s), NEW p, NEW e
    PROVE  /\ Held(s) \subseteq Held(ApplyPreimage(s, p))
           /\ Held(s) \subseteq Held(ConfirmBatch(s, e))
<1>1. Held(s) \subseteq Held(ApplyPreimage(s, p))
  <2>1. ASSUME NEW t, t = ApplyPreimage(s, p)
        PROVE  /\ s.pendingTx \subseteq t.pendingTx /\ s.pendingBridge \subseteq t.pendingBridge
               /\ t.confirmedTx = s.confirmedTx /\ t.confirmedBridge = s.confirmedBridge
    <3>1. PreimageApplied(s, p, t)
      BY <2>1, ApplyPreimageFields
    <3> QED
      BY <3>1 DEF PreimageApplied
  <2> QED
    BY <2>1 DEF Held
<1>2. ConfirmedAs(s, e.pi, e.newTreeRoot, ConfirmBatch(s, e))
  BY ConfirmBatchFields
<1>3. Held(s) \subseteq Held(ConfirmBatch(s, e))
  BY <1>2 DEF ConfirmedAs, Held
<1> QED
  BY <1>1, <1>3

\* Confirming the next entry extends the mirror by the contract's next leaf.
LEMMA ConfirmMirror ==
    ASSUME TypeOK, SyncTyped, LeafLog, MirrorState, ConfirmEntry
    PROVE  LET t == st'
               k == Len(st.leaves)
           IN
           /\ t.leaves \in Seq(BatchRoots) /\ Len(t.leaves) = k + 1 /\ IsPrefix(t.leaves, leaves)
           /\ ConfirmedHasLeaf(t) /\ Held(st) \subseteq Held(t)
           /\ \A c \in Blocks : \A f \in log[c].proven :
                /\ c <= window.from => f.leafIndex < k + 1
                /\ f.leafIndex < k + 1 => c <= window.to
           /\ todo' = {f \in Proven(FromBlock, ToBlock) : f.leafIndex >= k + 1}
<1> DEFINE e == NextEntry
           k == Len(st.leaves)
           s == Prepared(NextEntry)
           x == NextEntry.pi.body.batchPoseidonRoot
<1>0. /\ leaves \in Seq(BatchRoots) /\ st.leaves \in Seq(BatchRoots) /\ IsState(st)
      /\ Len(leaves) \in Nat /\ k \in Nat /\ k <= Len(leaves)
      /\ \A i \in 1 .. k : st.leaves[i] = leaves[i]
      /\ log \in [Blocks -> Events] /\ todo \subseteq Entries
  <2>1. leaves \in Seq(BatchRoots) /\ st.leaves \in Seq(BatchRoots) /\ IsState(st)
        /\ log \in [Blocks -> Events] /\ todo \subseteq Entries
    BY DEF TypeOK, MirrorState, SyncTyped
  <2> QED
    BY <2>1, PrefixLeaves DEF MirrorState, MirrorIsPrefix
<1>1. phase = "proven" /\ todo # {} /\ st' = ConfirmBatch(s, e) /\ todo' = todo \ {e}
  BY DEF ConfirmEntry, Prepared
<1>2. /\ e \in todo /\ e \in Entries /\ e.leafIndex = k
      /\ e.pi \notin st.confirmedTx \cup st.confirmedBridge
  BY <1>1, NextEntryMirror
<1>3. PICK c \in Blocks : window.from < c /\ c <= window.to /\ e \in log[c].proven
  BY <1>1, NextEntryMirror
<1>4. k < Len(leaves) /\ leaves[k + 1] = x /\ x \in BatchRoots
  <2>1. EntryPlaced(c, e)
    BY <1>3 DEF LeafLog
  <2>2. k < Len(leaves) /\ leaves[k + 1] = x
    BY <1>2, <2>1 DEF EntryPlaced
  <2>3. k + 1 \in 1 .. Len(leaves)
    BY <1>0, <2>2
  <2> QED
    BY <1>0, <2>2, <2>3
<1>5. IsState(s) /\ s.leaves = st.leaves /\ s.confirmedTx = st.confirmedTx
      /\ s.confirmedBridge = st.confirmedBridge
  BY <1>0, PreparedFields
<1>6. ConfirmedAs(s, e.pi, e.newTreeRoot, st')
  BY <1>1, <1>5, ConfirmBatchFields
<1>7. /\ st'.leaves = Append(st.leaves, x)
      /\ st'.confirmedTx \cup st'.confirmedBridge \subseteq
            st.confirmedTx \cup st.confirmedBridge \cup {e.pi}
  BY <1>5, <1>6 DEF ConfirmedAs
<1>8. /\ st'.leaves \in Seq(BatchRoots) /\ Len(st'.leaves) = k + 1
      /\ \A i \in 1 .. k : st'.leaves[i] = st.leaves[i]
      /\ st'.leaves[k + 1] = x
  BY <1>0, <1>4, <1>7
<1>9. IsPrefix(st'.leaves, leaves)
  <2>0. \A i \in 1 .. k + 1 : i \in 1 .. k \/ i = k + 1
    BY <1>0
  <2>1. k + 1 <= Len(leaves) /\ \A i \in 1 .. k + 1 : st'.leaves[i] = leaves[i]
    BY <1>0, <1>4, <1>8, <2>0
  <2> QED
    BY <1>0, <1>8, <2>1, PrefixLeaves
<1>10. \A b \in Blocks : \A f \in log[b].proven : f.leafIndex \in Nat
  <2>1. \A b \in Blocks : log[b].proven \subseteq Entries
    BY <1>0 DEF Events
  <2> QED
    BY <2>1 DEF Entries
<1>11. ConfirmedHasLeaf(st')
  <2> SUFFICES ASSUME NEW p \in st'.confirmedTx \cup st'.confirmedBridge
               PROVE  \E b \in Blocks : \E f \in log[b].proven :
                        f.pi = p /\ f.leafIndex < Len(st'.leaves)
    BY DEF ConfirmedHasLeaf
  <2>1. CASE p = e.pi
    BY <1>0, <1>2, <1>3, <1>8, <2>1
  <2>2. CASE p \in st.confirmedTx \cup st.confirmedBridge
    <3>1. PICK b \in Blocks : \E f \in log[b].proven : f.pi = p /\ f.leafIndex < k
      BY <2>2 DEF MirrorState, ConfirmedHasLeaf
    <3>2. PICK f \in log[b].proven : f.pi = p /\ f.leafIndex < k
      BY <3>1
    <3>3. f.leafIndex < Len(st'.leaves)
      BY <1>0, <1>8, <1>10, <3>2
    <3> QED
      BY <3>2, <3>3
  <2> QED
    BY <1>7, <2>1, <2>2
<1>12. Held(st) \subseteq Held(st')
  <2>1. Held(st) \subseteq Held(s)
    BY <1>0, HeldGrows DEF Prepared
  <2>2. Held(s) \subseteq Held(st')
    BY <1>1, <1>5, HeldGrows
  <2> QED
    BY <2>1, <2>2
<1>13. /\ \A b \in Blocks : \A f \in log[b].proven :
                /\ b <= window.from => f.leafIndex < k
                /\ f.leafIndex < k => b <= window.to
       /\ todo = {f \in Proven(FromBlock, ToBlock) : f.leafIndex >= k}
  BY <1>1 DEF MirrorState, MirrorProgress
<1>14. ASSUME NEW b \in Blocks, NEW f \in log[b].proven
       PROVE  /\ b <= window.from => f.leafIndex < k + 1
              /\ f.leafIndex < k + 1 => b <= window.to
  <2>1. f.leafIndex = k => b <= window.to
    <3> SUFFICES ASSUME f.leafIndex = k PROVE b <= window.to
      OBVIOUS
    <3>1. ~(c < b)
      <4>1. c < b => e.leafIndex < f.leafIndex
        BY <1>3 DEF LeafLog, EntriesOrdered
      <4> QED
        BY <1>0, <1>2, <4>1
    <3> QED
      BY <1>3, <3>1, WindowTyped
  <2> QED
    BY <1>0, <1>10, <1>13, <2>1
<1>15. todo' = {f \in Proven(FromBlock, ToBlock) : f.leafIndex >= k + 1}
  <2>0. /\ window.from \in Nat /\ window.to \in Nat /\ window.to <= MaxBlock
    BY WindowTyped
  <2>1. ASSUME NEW f \in Proven(FromBlock, ToBlock)
        PROVE  f.leafIndex \in Nat /\ (f.leafIndex = k => f = e)
    <3>1. PICK b \in Blocks : f \in log[b].proven
      BY <1>0, <2>0, ProvenTyped DEF FromBlock, ToBlock
    <3> QED
      BY <1>2, <1>3, <1>10, <3>1 DEF LeafLog, EntriesOrdered
  <2> QED
    BY <1>0, <1>1, <1>2, <1>13, <2>1
<1> QED
  BY <1>8, <1>9, <1>11, <1>12, <1>14, <1>15


\* Steps of the service keep the mirror a prefix, provided calls fail early.
LEMMA ServiceMirrorState ==
    ASSUME TypeOK, SyncTyped, LeafLog, MirrorState, FailsEarly,
           SyncStep \/ RpcFailure \/ Crash, UNCHANGED chainVars
    PROVE  MirrorState'
<1> DEFINE Early == {"idle", "txSubs", "bridgeSubs", "collect"}
           Late == {"config", "roots", "rebuild", "deposits"}
           Prefix == /\ st'.leaves \in Seq(BatchRoots) /\ IsPrefix(st'.leaves, leaves)
                     /\ ConfirmedHasLeaf(st')
           Progress ==
               /\ phase' \in Early => LeavesUpTo(Len(st'.leaves), st'.lastSynced)
               /\ phase' = "proven" =>
                   /\ \A c \in Blocks : \A e \in log[c].proven :
                       /\ c <= window'.from => e.leafIndex < Len(st'.leaves)
                       /\ e.leafIndex < Len(st'.leaves) => c <= window'.to
                   /\ todo' = {e \in Proven(window'.from + 1, window'.to) :
                                e.leafIndex >= Len(st'.leaves)}
               /\ phase' \in Late => LeavesUpTo(Len(st'.leaves), window'.to)
           InWindow == Submissions(window'.from + 1, window'.to)
           Holds == /\ phase' = "bridgeSubs" => {p \in InWindow : Kind(p) = "tx"} \ Held(st') = {}
                    /\ phase' \in {"collect", "proven"} => InWindow \subseteq Held(st')
<1>0. /\ log' = log /\ leaves' = leaves /\ IsState(st) /\ leaves \in Seq(BatchRoots)
      /\ st.leaves \in Seq(BatchRoots) /\ IsPrefix(st.leaves, leaves) /\ ConfirmedHasLeaf(st)
  BY DEF chainVars, vars, imtVars, SyncTyped, TypeOK, MirrorState, MirrorIsPrefix
<1>1. ASSUME Prefix, Progress, Holds PROVE MirrorState'
  <2>1. (st.leaves \in Seq(BatchRoots) /\ MirrorIsPrefix)' /\ ConfirmedHasLeaf(st)'
    BY <1>0, <1>1 DEF MirrorIsPrefix, ConfirmedHasLeaf
  <2>2. MirrorProgress'
    BY <1>0, <1>1 DEF MirrorProgress, LeavesUpTo, Proven, FromBlock, ToBlock
  <2>3. SubmissionsHeld'
    BY <1>0, <1>1 DEF SubmissionsHeld, Unprocessed, Held, Submissions, FromBlock, ToBlock
  <2> QED
    BY <2>1, <2>2, <2>3 DEF MirrorState
<1>2. /\ phase \in Early => LeavesUpTo(Len(st.leaves), st.lastSynced)
      /\ phase \in Late => LeavesUpTo(Len(st.leaves), window.to)
      /\ phase = "bridgeSubs" =>
            {p \in Submissions(window.from + 1, window.to) : Kind(p) = "tx"} \ Held(st) = {}
      /\ phase \in {"collect", "proven"} =>
            Submissions(window.from + 1, window.to) \subseteq Held(st)
  BY DEF MirrorState, MirrorProgress, SubmissionsHeld, Unprocessed, Held, FromBlock, ToBlock
<1> HIDE DEF Prefix, Progress, Holds
<1>3. CASE StartGenesis \/ Crash
  <2>1. st' = NewState /\ phase' \in {"down", "txSubs"}
    BY <1>3 DEF StartGenesis, Crash
  <2>2. /\ st'.leaves = <<>> /\ st'.lastSynced = 0
        /\ st'.confirmedTx = {} /\ st'.confirmedBridge = {}
    BY <2>1, NewStateFields
  <2>3. Prefix
    <3>1. <<>> \in Seq(BatchRoots) /\ Len(<<>>) = 0 /\ Len(leaves) \in Nat
      BY <1>0
    <3>2. IsPrefix(<<>>, leaves)
      BY <1>0, EmptyPrefix
    <3> QED
      BY <2>2, <3>1, <3>2 DEF Prefix, ConfirmedHasLeaf
  <2>4. LeavesUpTo(0, 0)
    <3>1. \A c \in Blocks : ~(c <= 0)
      BY WindowTyped
    <3>2. \A c \in Blocks : \A e \in log[c].proven : e.leafIndex \in Nat
      <4>1. \A c \in Blocks : log[c].proven \subseteq Entries
        BY DEF SyncTyped, Events
      <4> QED
        BY <4>1 DEF Entries
    <3> QED
      BY <3>1, <3>2 DEF LeavesUpTo
  <2>5. Progress /\ Holds
    BY <2>1, <2>2, <2>4 DEF Progress, Holds
  <2> QED
    BY <1>1, <2>3, <2>5
<1>4. ASSUME SameBatches(st, st') PROVE Prefix /\ Held(st') = Held(st)
  BY <1>0, <1>4 DEF SameBatches, Prefix, ConfirmedHasLeaf, Held
<1>5. ASSUME st' = st PROVE Prefix /\ Held(st') = Held(st)
  BY <1>0, <1>5 DEF Prefix
<1>6. CASE StartPoll
  <2>1. st' = st /\ phase = "idle" /\ phase' = "txSubs"
    BY <1>6 DEF StartPoll, Idle
  <2>2. Progress /\ Holds
    BY <1>2, <2>1 DEF Progress, Holds
  <2> QED
    BY <1>1, <1>5, <2>1, <2>2
<1>7. ASSUME NEW p, ApplySubmission(p) PROVE MirrorState'
  <2>1. /\ st' = ApplyPreimage(st, p) /\ phase' = phase /\ window' = window
        /\ phase \in {"txSubs", "bridgeSubs"}
    BY <1>7 DEF ApplySubmission
  <2>2. /\ st'.leaves = st.leaves /\ st'.confirmedTx = st.confirmedTx
        /\ st'.confirmedBridge = st.confirmedBridge /\ st'.lastSynced = st.lastSynced
    BY <1>0, <2>1, ApplyPreimageFields DEF PreimageApplied
  <2>3. Held(st) \subseteq Held(st')
    BY <1>0, <2>1, HeldGrows
  <2>4. Prefix
    BY <1>0, <2>2 DEF Prefix, ConfirmedHasLeaf
  <2>5. Progress /\ Holds
    BY <1>2, <2>1, <2>2, <2>3 DEF Progress, Holds
  <2> QED
    BY <1>1, <2>4, <2>5
<1>8. CASE TxSubmissionsDone
  <2>1. st' = st /\ window' = window /\ phase = "txSubs" /\ phase' = "bridgeSubs"
        /\ {p \in Submissions(window.from + 1, window.to) : Kind(p) = "tx"} \ Held(st) = {}
    BY <1>8 DEF TxSubmissionsDone, Goto, Unprocessed, Held, FromBlock, ToBlock
  <2>2. Progress /\ Holds
    BY <1>2, <2>1 DEF Progress, Holds
  <2> QED
    BY <1>1, <1>5, <2>1, <2>2
<1>9. CASE BridgeSubmissionsDone
  <2>1. st' = st /\ window' = window /\ phase = "bridgeSubs" /\ phase' = "collect"
        /\ {p \in Submissions(window.from + 1, window.to) : Kind(p) = "bridge"} \ Held(st) = {}
    BY <1>9 DEF BridgeSubmissionsDone, Goto, Unprocessed, Held, FromBlock, ToBlock
  <2>2. \A p : Kind(p) \in {"tx", "bridge"}
    BY DEF Kind
  <2>3. Submissions(window.from + 1, window.to) \subseteq Held(st)
    BY <1>2, <2>1, <2>2
  <2>4. Progress /\ Holds
    BY <1>2, <2>1, <2>3 DEF Progress, Holds
  <2> QED
    BY <1>1, <1>5, <2>1, <2>4
<1>10. CASE CollectProven
  <2>1. /\ st' = st /\ window' = window /\ phase = "collect" /\ phase' = "proven"
        /\ todo' = Proven(window.from + 1, window.to) /\ st.lastSynced = window.from
    BY <1>10 DEF CollectProven, Goto, FromBlock, ToBlock, SyncTyped, Syncing
  <2>2. LeavesUpTo(Len(st.leaves), window.from)
    BY <1>2, <2>1
  <2>3. \A c \in Blocks : \A e \in log[c].proven :
            /\ c <= window.from => e.leafIndex < Len(st.leaves)
            /\ e.leafIndex < Len(st.leaves) => c <= window.to
    BY <2>2, WindowTyped DEF LeavesUpTo
  <2>4. ASSUME NEW e \in Proven(window.from + 1, window.to)
        PROVE  e.leafIndex >= Len(st.leaves)
    <3>1. PICK c \in Blocks : window.from < c /\ c <= window.to /\ e \in log[c].proven
      BY WindowTyped, ProvenTyped DEF SyncTyped
    <3>2. ~(c <= window.from)
      BY <3>1, WindowTyped
    <3>3. ~(e.leafIndex < Len(st.leaves))
      BY <2>2, <3>1, <3>2 DEF LeavesUpTo
    <3>4. e.leafIndex \in Nat /\ Len(st.leaves) \in Nat
      BY <1>0, <3>1 DEF SyncTyped, Events, Entries
    <3> QED
      BY <3>3, <3>4
  <2>5. Progress /\ Holds
    BY <1>2, <2>1, <2>3, <2>4 DEF Progress, Holds
  <2> QED
    BY <1>1, <1>5, <2>1, <2>5
<1>11. CASE ConfirmEntry
  <2>1. phase = "proven" /\ phase' = phase /\ window' = window
    BY <1>11 DEF ConfirmEntry
  <2>2. /\ st'.leaves \in Seq(BatchRoots) /\ Len(st'.leaves) = Len(st.leaves) + 1
        /\ IsPrefix(st'.leaves, leaves) /\ ConfirmedHasLeaf(st') /\ Held(st) \subseteq Held(st')
        /\ \A c \in Blocks : \A f \in log[c].proven :
                /\ c <= window.from => f.leafIndex < Len(st.leaves) + 1
                /\ f.leafIndex < Len(st.leaves) + 1 => c <= window.to
        /\ todo' = {f \in Proven(window.from + 1, window.to) : f.leafIndex >= Len(st.leaves) + 1}
    BY <1>11, ConfirmMirror DEF FromBlock, ToBlock
  <2>3. Prefix /\ Progress /\ Holds
    BY <1>2, <2>1, <2>2 DEF Prefix, Progress, Holds
  <2> QED
    BY <1>1, <2>3
<1>12. CASE ConfirmFails
  BY <1>12, NextEntryMirror DEF ConfirmFails
<1>13. CASE ProvenDone
  <2>1. /\ st' = st /\ window' = window /\ phase = "proven" /\ phase' = "config" /\ todo = {}
    BY <1>13 DEF ProvenDone, Goto
  <2>2. /\ \A c \in Blocks : \A e \in log[c].proven :
                /\ c <= window.from => e.leafIndex < Len(st.leaves)
                /\ e.leafIndex < Len(st.leaves) => c <= window.to
        /\ {e \in Proven(window.from + 1, window.to) : e.leafIndex >= Len(st.leaves)} = {}
    BY <2>1 DEF MirrorState, MirrorProgress, FromBlock, ToBlock
  <2>3. ASSUME NEW c \in Blocks, NEW e \in log[c].proven, c <= window.to
        PROVE  e.leafIndex < Len(st.leaves)
    <3>1. CASE c <= window.from
      BY <2>2, <3>1
    <3>2. CASE ~(c <= window.from)
      <4>1. window.from < c
        BY <3>2, WindowTyped
      <4>2. e \in Proven(window.from + 1, window.to)
        BY <2>3, <4>1, WindowTyped, ProvenTyped DEF SyncTyped
      <4>3. e.leafIndex \in Nat /\ Len(st.leaves) \in Nat
        BY <1>0 DEF SyncTyped, Events, Entries
      <4> QED
        BY <2>2, <4>2, <4>3
    <3> QED
      BY <3>1, <3>2
  <2>4. LeavesUpTo(Len(st.leaves), window.to)
    BY <2>2, <2>3 DEF LeavesUpTo
  <2>5. Progress /\ Holds
    BY <2>1, <2>4 DEF Progress, Holds
  <2> QED
    BY <1>1, <1>5, <2>1, <2>5
<1>14. CASE AssignSubpools \/ UpdateRoots \/ RebuildTree
  <2>1. SameBatches(st, st')
    <3>1. CASE AssignSubpools
      BY <1>0, <3>1, AssignedFields DEF AssignSubpools
    <3>2. CASE UpdateRoots
      <4>1. PICK roots : st' = [st EXCEPT !.subpoolRoots = roots]
        BY <3>2, Zenon DEF UpdateRoots
      <4> QED
        BY <1>0, <4>1, RootsFields
    <3>3. CASE RebuildTree
      BY <1>0, <3>3, RebuildFields DEF RebuildTree
    <3> QED
      BY <1>14, <3>1, <3>2, <3>3
  <2>2. phase \in Late /\ phase' \in Late /\ window' = window /\ st'.leaves = st.leaves
    BY <1>14, <2>1 DEF AssignSubpools, UpdateRoots, RebuildTree, Goto, SameBatches
  <2>3. Progress /\ Holds
    BY <1>2, <2>2 DEF Progress, Holds
  <2> QED
    BY <1>1, <1>4, <2>1, <2>3
<1>15. CASE SyncDeposits
  <2>1. PICK ds : DepositsApplied(st, FromBlock, ToBlock) = [st EXCEPT !.deposits = ds]
    BY DepositsAppliedOnly
  <2>2. st' = [[st EXCEPT !.deposits = ds] EXCEPT !.lastSynced = window.to]
    BY <1>15, <2>1 DEF SyncDeposits
  <2>3. SameBatches(st, st') /\ st'.lastSynced = window.to
    <3>1. ASSUME NEW t, NEW b, t = [[st EXCEPT !.deposits = ds] EXCEPT !.lastSynced = b]
          PROVE  SameBatches(st, t) /\ t.lastSynced = b
      BY <1>0, <3>1 DEF IsState, NewState, SameBatches
    <3> QED
      BY <2>2, <3>1
  <2>4. phase = "deposits" /\ phase' = "idle" /\ st'.leaves = st.leaves
    BY <1>15, <2>3 DEF SyncDeposits, Goto, SameBatches
  <2>5. Progress /\ Holds
    BY <1>2, <2>3, <2>4 DEF Progress, Holds
  <2> QED
    BY <1>1, <1>4, <2>3, <2>5
<1>16. CASE RpcFailure
  <2>1. st' = st /\ phase' \in {"down", "idle"} /\ phase \in Early
    BY <1>16 DEF RpcFailure, GiveUp, FailsEarly
  <2>2. Progress /\ Holds
    BY <1>2, <2>1 DEF Progress, Holds
  <2> QED
    BY <1>1, <1>5, <2>1, <2>2
<1> QED
  BY <1>3, <1>6, <1>7, <1>8, <1>9, <1>10, <1>11, <1>12, <1>13, <1>14, <1>15, <1>16, ServiceMoves

\* Every step keeps the log one entry per leaf and the mirror a prefix.
LEMMA NextMirrorInv ==
    ASSUME FailsEarly
    PROVE  /\ TypeOK /\ TypeOK' /\ BatchesApart /\ SyncTyped /\ ConfirmedInv
           /\ MirrorInv /\ [SyncNext]_allVars
           => MirrorInv'
<1> SUFFICES ASSUME TypeOK, TypeOK', BatchesApart, SyncTyped, ConfirmedInv, MirrorInv,
                    [SyncNext]_allVars
             PROVE  MirrorInv'
  OBVIOUS
<1>0. LeafLog /\ MirrorState /\ LogOnChain
  BY DEF MirrorInv, ConfirmedInv
<1>1. CASE (ChainStep \/ MineBlock) /\ UNCHANGED syncVars
  BY <1>0, <1>1, NextLeafLog, ChainMirrorState DEF MirrorInv
<1>2. ASSUME UNCHANGED chainVars PROVE LeafLog'
  BY <1>0, <1>2 DEF chainVars, vars, imtVars, txVars, bridgeVars, LeafLog, EntryPlaced,
     EntriesOrdered, Submissions, Pending
<1>3. CASE (SyncStep \/ RpcFailure \/ Crash) /\ UNCHANGED chainVars
  BY <1>0, <1>2, <1>3, ServiceMirrorState DEF MirrorInv
<1>4. CASE UNCHANGED chainVars /\ UNCHANGED syncVars
  <2>1. MirrorState'
    BY <1>0, <1>4 DEF chainVars, vars, imtVars, syncVars, MirrorState, MirrorIsPrefix,
       ConfirmedHasLeaf, MirrorProgress, LeavesUpTo, SubmissionsHeld, Unprocessed, Held,
       Submissions, Proven, FromBlock, ToBlock
  <2> QED
    BY <1>2, <1>4, <2>1 DEF MirrorInv
<1> QED
  BY <1>1, <1>3, <1>4, StepCases

\* At first there is no leaf, no event and nothing mirrored.
LEMMA InitMirrorInv == SyncInit => MirrorInv
<1> SUFFICES ASSUME SyncInit PROVE MirrorInv
  OBVIOUS
<1>1. /\ st = NewState /\ phase = "down" /\ leaves = <<>> /\ Pending = {}
      /\ \A b \in Blocks : log[b].proven = {}
  BY DEF SyncInit, Init, Pending, NoEvents, Blocks
<1>2. /\ leaves \in Seq(BatchRoots) /\ Len(leaves) = 0 /\ 2^TreeDepth \in Nat
      /\ 0 .. Len(leaves) - 1 = {}
  BY <1>1, WidthAssumption
<1>3. LeafLog
  BY <1>1, <1>2 DEF LeafLog, EntriesOrdered
<1>4. st.leaves = <<>> /\ st.confirmedTx = {} /\ st.confirmedBridge = {}
  BY <1>1, NewStateFields
<1>5. MirrorIsPrefix
  BY <1>2, <1>4, EmptyPrefix DEF MirrorIsPrefix
<1>6. MirrorState
  BY <1>1, <1>2, <1>4, <1>5 DEF MirrorState, ConfirmedHasLeaf, MirrorProgress, SubmissionsHeld
<1> QED
  BY <1>3, <1>6 DEF MirrorInv

\* Unless a call fails after the first confirmation of a window, the leaves the service
\* mirrors are a prefix of the contract's at every moment: through submissions that arrive
\* late, retries, restarts and a chain that grows while a window is replayed.
THEOREM MirrorStaysPrefix ==
    ASSUME FailsEarly
    PROVE  SyncSpec => []MirrorIsPrefix
<1>1. SyncSpec => [](TypeOK /\ BatchesApart /\ NoDoubleSpend)
  BY FollowsContract, TypeInvariant, Apart, SpendsOnce, PTL
<1>2. SyncSpec => []ConfirmedInv
  BY <1>1, SyncTypes, InitConfirmedInv, NextConfirmedInv, PTL DEF SyncSpec
<1>3. SyncSpec => []MirrorInv
  BY <1>1, <1>2, SyncTypes, InitMirrorInv, NextMirrorInv, PTL DEF SyncSpec
<1>4. MirrorInv => MirrorIsPrefix
  BY DEF MirrorInv, MirrorState
<1> QED
  BY <1>3, <1>4, PTL

=============================================================================

----------------------------- MODULE StateSync -----------------------------
(***************************************************************************)
(* The state-sync service (doxa-state-sync) mirroring the contract from    *)
(* its event log: genesis sync, the poll loop, RPC failures and retries,   *)
(* crashes and restarts.  The chain is DoxaContract; a block is visible to *)
(* the service once it is mined, and mined blocks do not change.           *)
(*                                                                         *)
(* Bodies carry one more field here, outputs: the account and note         *)
(* commitments under batchPoseidonRoot (all slots, padding included).      *)
(***************************************************************************)
EXTENDS DoxaContract, SequencesExt

CONSTANTS
    Rebatching,         \* whether two submitted batches may spend the same nullifier
    FailPhases,         \* phases in which an RPC call may fail
    MaxFailures,        \* bound: RPC failures
    MaxRestarts         \* bound: crashes of the service

\* The two kinds of preimage have different layouts.
ASSUME KindAssumption == TxBodies \cap BridgeBodies = {}

VARIABLES
    log,            \* block number -> events emitted in that block
    minedRoots,     \* subpoolRoots as of the last mined block
    st,             \* StateSyncState, behind the RwLock
    phase,          \* where the sync task is; "down" before genesis sync
    mode,           \* "genesis" or "poll"
    window,         \* [from, to]: blocks from+1 .. to are being synced
    todo,           \* proven entries still to confirm
    failures, restarts

chainVars == <<vars, log, minedRoots>>
syncVars  == <<st, phase, mode, window, todo, failures, restarts>>
allVars   == <<chainVars, syncVars>>

-----------------------------------------------------------------------------
(* The chain, with the events its steps emit *)

Pending == pendingTxBatches \cup pendingBridgeTxBatches
Confirmed == confirmedTxBatches \cup confirmedBridgeTxBatches

NoEvents == [submitted |-> {}, proven |-> {}, available |-> {}, validated |-> {},
             withdrawn |-> {}, assigned |-> {}, updated |-> {}]

\* Notes whose deposit moves to status st in this step.
Becomes(status) == {n \in NoteComms : /\ deposits[n].status # status
                                      /\ deposits'[n].status = status}

\* The events the contract emits in a step, read off what the step changes.  Of the
\* roots posted for a subpool in one block only the last is kept: blocks are synced
\* whole and later roots overwrite earlier ones.
Emit ==
    LET b == log[blockNumber]
        posted == {mainPoolConfigRoot'[pos] : pos \in
                    {q \in ConfigPositions : mainPoolConfigRoot'[q] # mainPoolConfigRoot[q]}}
    IN  log' = [log EXCEPT ![blockNumber] =
            [submitted |-> b.submitted \cup (Pending' \ Pending),
             proven    |-> b.proven \cup {[pi |-> p, leafIndex |-> Len(leaves),
                                           newTreeRoot |-> leaves'] : p \in Confirmed' \ Confirmed},
             available |-> b.available \cup Becomes("Pending"),
             validated |-> b.validated \cup Becomes("Validated"),
             withdrawn |-> b.withdrawn \cup Becomes("Withdrawn"),
             assigned  |-> b.assigned \cup {id \in SubpoolIds : subpoolOwners'[id] # subpoolOwners[id]},
             updated   |-> {u \in b.updated : \A l \in posted : l[1] # u[1]} \cup posted]]

Kind(p) == IF p.body \in TxBodies THEN "tx" ELSE "bridge"
Nullifiers(p) == IF Kind(p) = "tx" THEN TxNullifiers(p.body) ELSE BridgeNullifiers(p.body)

\* What the sequencer hands to the operator, unless it batches a transaction again.
Sequenced(p) == Rebatching \/ \A q \in Submitted : Nullifiers(q) \cap Nullifiers(p) = {}

\* Contract steps the service can see.  Roles, pausing and flushing emit no event
\* it reads and enable no step that is disabled without them.
ChainStep ==
    /\ \E sender \in Addresses :
        \/ \E aid \in AssetIds, t \in Tokens : RegisterAsset(sender, aid, t)
        \/ \E id \in SubpoolIds, owner \in Users : AssignSubpoolOwner(sender, id, owner)
        \/ \E id \in SubpoolIds, r \in SubpoolRootVals : UpdateSubpoolRoot(sender, id, r)
        \/ \E n \in NoteComms, aid \in AssetIds, m \in MaxAmounts, fee \in Fees :
            DepositAndRegister(sender, n, aid, m, fee)
        \/ \E n \in NoteComms : WithdrawPendingDeposit(sender, n)
        \/ \E b \in TxBodies, r \in HeaderRoots, c \in HeaderConfigs :
            Sequenced(Preimage(b, r, c)) /\ SubmitTransactionBatch(sender, Preimage(b, r, c))
        \/ \E b \in BridgeBodies, r \in HeaderRoots, c \in HeaderConfigs :
            Sequenced(Preimage(b, r, c)) /\ SubmitBridgeTxBatch(sender, Preimage(b, r, c))
        \/ \E p \in pendingTxBatches : ProveTransactionBatch(p)
        \/ \E p \in pendingBridgeTxBatches : ProveBridgeTxBatch(p)
    /\ Emit
    /\ UNCHANGED <<minedRoots, syncVars>>

MineBlock == NextBlock /\ minedRoots' = subpoolRoots /\ UNCHANGED <<log, syncVars>>

\* eth_blockNumber and eth_getLogs.
HeadBlock == blockNumber - 1
Submissions(from, to) == UNION {log[b].submitted : b \in from .. to}
Proven(from, to) == UNION {log[b].proven : b \in from .. to}
Notes(event, from, to) == UNION {log[b][event] : b \in from .. to}

-----------------------------------------------------------------------------
(* StateSyncState and its operations *)

\* StateSyncState::new.  Maps that are only overwritten per key are sets of pairs.
NewState ==
    [leaves |-> <<>>, confirmedRoots |-> {<<>>}, commitments |-> {}, subtrees |-> {},
     pendingTx |-> {}, pendingBridge |-> {}, confirmedTx |-> {}, confirmedBridge |-> {},
     confirmedNullifiers |-> {}, pendingNullifiers |-> {},
     subpoolRoots |-> {}, configTree |-> [pos \in ConfigPositions |-> ZeroLeaf],
     nextSubpoolId |-> 1, buffered |-> {}, deposits |-> {}, lastSynced |-> 0]

\* Mutant: outputs are indexed as confirmed at submission.
ApplyPreimage_Confirmed(s, p) ==
    LET ns == Nullifiers(p) IN
    [s EXCEPT
        !.commitments = {l \in @ : l.comm \notin p.body.outputs}
                        \cup {[comm |-> c, pi |-> p, confirmed |-> TRUE] : c \in p.body.outputs},
        !.pendingNullifiers = {e \in @ : e.null \notin ns} \cup {[null |-> n, pi |-> p] : n \in ns},
        !.pendingTx = IF Kind(p) = "tx" THEN @ \cup {p} ELSE @,
        !.pendingBridge = IF Kind(p) = "bridge" THEN @ \cup {p} ELSE @]

\* apply_tx_preimage / apply_bridge_preimage: index the outputs and nullifiers under
\* p, overwriting what another batch had put there, and store the preimage.
ApplyPreimage(s, p) ==
    LET ns == Nullifiers(p) IN
    [s EXCEPT
        !.commitments = {l \in @ : l.comm \notin p.body.outputs}
                        \cup {[comm |-> c, pi |-> p, confirmed |-> FALSE] : c \in p.body.outputs},
        !.pendingNullifiers = {e \in @ : e.null \notin ns} \cup {[null |-> n, pi |-> p] : n \in ns},
        !.pendingTx = IF Kind(p) = "tx" THEN @ \cup {p} ELSE @,
        !.pendingBridge = IF Kind(p) = "bridge" THEN @ \cup {p} ELSE @]

\* Mutant: confirmed nullifiers stay in the pending map, and only there.
ConfirmBatch_KeepsNullifiers(s, e) ==
    LET p == e.pi
    IN  [s EXCEPT
            !.leaves = Append(@, p.body.batchPoseidonRoot),
            !.subtrees = @ \cup {p},
            !.commitments = {IF l.pi = p THEN [l EXCEPT !.confirmed = TRUE] ELSE l : l \in @},
            !.confirmedTx = IF p \in s.pendingTx THEN @ \cup {p} ELSE @,
            !.pendingTx = @ \ {p},
            !.confirmedBridge = IF p \in s.pendingBridge \ s.pendingTx THEN @ \cup {p} ELSE @,
            !.pendingBridge = @ \ {p},
            !.confirmedRoots = @ \cup {e.newTreeRoot}]

\* StateSyncState::confirm_batch.
ConfirmBatch(s, e) ==
    LET p == e.pi
        mine == {x \in s.pendingNullifiers : x.pi = p}
    IN  [s EXCEPT
            !.leaves = Append(@, p.body.batchPoseidonRoot),
            !.subtrees = @ \cup {p},
            !.commitments = {IF l.pi = p THEN [l EXCEPT !.confirmed = TRUE] ELSE l : l \in @},
            !.confirmedTx = IF p \in s.pendingTx THEN @ \cup {p} ELSE @,
            !.pendingTx = @ \ {p},
            !.confirmedBridge = IF p \in s.pendingBridge \ s.pendingTx THEN @ \cup {p} ELSE @,
            !.pendingBridge = @ \ {p},
            !.confirmedNullifiers = @ \cup {x.null : x \in mine},
            !.pendingNullifiers = @ \ mine,
            !.confirmedRoots = @ \cup {e.newTreeRoot}]

\* Assigned ids enter in order; an id ahead of its turn is buffered.
AssignedState(s, ids) ==
    LET waiting == s.buffered \cup {id \in ids : id >= s.nextSubpoolId}
        next == CHOOSE k \in s.nextSubpoolId .. s.nextSubpoolId + Cardinality(waiting) :
                    /\ \A id \in s.nextSubpoolId .. k - 1 : id \in waiting
                    /\ k \notin waiting
        fresh == {id \in s.nextSubpoolId .. next - 1 : \A e \in s.subpoolRoots : e.id # id}
    IN  [s EXCEPT !.subpoolRoots = @ \cup {[id |-> id, root |-> 0] : id \in fresh},
                  !.nextSubpoolId = next,
                  !.buffered = {id \in waiting : id > next}]

\* MainPoolConfigTree rebuilt from the indexed roots, ids 1, 2, ... in order; a zero
\* root keeps the zero leaf.
RebuildConfigTree(s) ==
    LET RootAt(pos) == (CHOOSE e \in s.subpoolRoots : e.id = pos).root
        known == {e.id : e \in s.subpoolRoots}
    IN  [s EXCEPT
            !.configTree = [pos \in ConfigPositions |->
                IF pos \in known /\ RootAt(pos) # 0 THEN ConfigLeaf(pos, RootAt(pos)) ELSE ZeroLeaf]]

\* Mutant: Available events are applied after the others.
DepositsApplied_AvailableLast(s, from, to) ==
    LET avail == Notes("available", from, to)
        valid == Notes("validated", from, to)
        gone  == Notes("withdrawn", from, to)
        Block(n) == CHOOSE b \in from .. to : n \in log[b].available
        record(n) == [note |-> n, value |-> deposits[n].value, recipient |-> deposits[n].recipient,
                      assetId |-> deposits[n].assetId, status |-> "Pending", block |-> Block(n)]
        inserted == {d \in s.deposits : d.note \notin avail} \cup {record(n) : n \in avail}
        Status(d) == IF d.note \in avail THEN "Pending"
                     ELSE IF d.note \in gone THEN "Withdrawn"
                     ELSE IF d.note \in valid THEN "Validated" ELSE d.status
    IN  [s EXCEPT !.deposits = {[d EXCEPT !.status = Status(d)] : d \in inserted}]

\* sync_deposits: all Available events, then Validated, then Withdrawn.
DepositsApplied(s, from, to) ==
    LET avail == Notes("available", from, to)
        valid == Notes("validated", from, to)
        gone  == Notes("withdrawn", from, to)
        Block(n) == CHOOSE b \in from .. to : n \in log[b].available
        record(n) == [note |-> n, value |-> deposits[n].value, recipient |-> deposits[n].recipient,
                      assetId |-> deposits[n].assetId, status |-> "Pending", block |-> Block(n)]
        inserted == {d \in s.deposits : d.note \notin avail} \cup {record(n) : n \in avail}
        Status(d) == IF d.note \in gone THEN "Withdrawn"
                     ELSE IF d.note \in valid THEN "Validated" ELSE d.status
    IN  [s EXCEPT !.deposits = {[d EXCEPT !.status = Status(d)] : d \in inserted}]

-----------------------------------------------------------------------------
(* The sync task: main, sync_from_genesis, poll_sync *)

Goto(next) == phase = next[1] /\ phase' = next[2]
FromBlock == window.from + 1
ToBlock == window.to
Idle == phase = "idle"

\* main: genesis sync starts from an empty state.
StartGenesis ==
    /\ phase = "down"
    /\ st' = NewState /\ mode' = "genesis" /\ phase' = "txSubs"
    /\ window' = [from |-> 0, to |-> HeadBlock]
    /\ UNCHANGED <<chainVars, todo, failures, restarts>>

\* Mutant: the first block after the last synced one is skipped.
StartPoll_SkipsBlock ==
    /\ Idle
    /\ HeadBlock > st.lastSynced
    /\ window' = [from |-> st.lastSynced + 1, to |-> HeadBlock] /\ phase' = "txSubs"
    /\ UNCHANGED <<chainVars, st, mode, todo, failures, restarts>>

\* poll_sync: nothing to do unless the head moved.
StartPoll ==
    /\ Idle
    /\ HeadBlock > st.lastSynced
    /\ window' = [from |-> st.lastSynced, to |-> HeadBlock] /\ phase' = "txSubs"
    /\ UNCHANGED <<chainVars, st, mode, todo, failures, restarts>>

Known(p) == p \in st.pendingTx \cup st.pendingBridge
Unprocessed(kind) == {p \in Submissions(FromBlock, ToBlock) : Kind(p) = kind}
                        \ (st.pendingTx \cup st.confirmedTx \cup st.pendingBridge \cup st.confirmedBridge)

\* process_new_submissions: hash-map order within each kind, private batches first.
ApplySubmission(p) ==
    /\ phase \in {"txSubs", "bridgeSubs"}
    /\ p \in Unprocessed(IF phase = "txSubs" THEN "tx" ELSE "bridge")
    /\ st' = ApplyPreimage(st, p)
    /\ UNCHANGED <<chainVars, phase, mode, window, todo, failures, restarts>>

TxSubmissionsDone ==
    /\ Goto(<<"txSubs", "bridgeSubs">>)
    /\ Unprocessed("tx") = {}
    /\ UNCHANGED <<chainVars, st, mode, window, todo, failures, restarts>>

BridgeSubmissionsDone ==
    /\ Goto(<<"bridgeSubs", "collect">>)
    /\ Unprocessed("bridge") = {}
    /\ UNCHANGED <<chainVars, st, mode, window, todo, failures, restarts>>

\* collect_proven_batches.
CollectProven ==
    /\ Goto(<<"collect", "proven">>)
    /\ todo' = Proven(FromBlock, ToBlock)
    /\ UNCHANGED <<chainVars, st, mode, window, failures, restarts>>

\* Mutant: entries are replayed newest first.
NextEntry_Newest == CHOOSE e \in todo : \A f \in todo : e.leafIndex >= f.leafIndex

\* The collected entries are replayed sorted by leaf index.
NextEntry == CHOOSE e \in todo : \A f \in todo : e.leafIndex <= f.leafIndex

\* Where find_submission_tx_hash looks for a preimage the state does not hold.
FallbackTo == IF mode = "genesis" THEN window.to ELSE window.from
Retrievable(p) == Known(p) \/ p \in Submissions(1, FallbackTo)

TreeFull(s) == Len(s.leaves) >= 2^TreeDepth

ConfirmEntry ==
    /\ phase = "proven" /\ todo # {}
    /\ LET e == NextEntry
           s == IF Known(e.pi) THEN st ELSE ApplyPreimage(st, e.pi)
       IN  Retrievable(e.pi) /\ ~TreeFull(s) /\ st' = ConfirmBatch(s, e)
    /\ todo' = todo \ {NextEntry}
    /\ UNCHANGED <<chainVars, phase, mode, window, failures, restarts>>

ProvenDone ==
    /\ Goto(<<"proven", "config">>)
    /\ todo = {}
    /\ UNCHANGED <<chainVars, st, mode, window, todo, failures, restarts>>

\* sync_config_tree: three critical sections after the logs are fetched.
AssignSubpools ==
    /\ Goto(<<"config", "roots">>)
    /\ st' = AssignedState(st, UNION {log[b].assigned : b \in FromBlock .. ToBlock})
    /\ UNCHANGED <<chainVars, mode, window, todo, failures, restarts>>

\* Mutant: polling applies no root event.
UpdateRoots_GenesisOnly ==
    LET current == {[id |-> id, root |-> minedRoots[id]] : id \in 1 .. st.nextSubpoolId - 1}
    IN  /\ Goto(<<"roots", "rebuild">>)
        /\ st' = [st EXCEPT !.subpoolRoots = IF mode = "genesis" THEN current ELSE @]
        /\ UNCHANGED <<chainVars, mode, window, todo, failures, restarts>>

\* Genesis sync reads the roots at the head of the chain, polling replays the events.
UpdateRoots ==
    LET posted == {q \in (FromBlock .. ToBlock) \X (SubpoolIds \X SubpoolRootVals) :
                        q[2] \in log[q[1]].updated}
        latest == {p[2] : p \in {q \in posted : \A r \in posted : r[2][1] = q[2][1] => r[1] <= q[1]}}
        replayed == {e \in st.subpoolRoots : \A u \in latest : u[1] # e.id}
                        \cup {[id |-> u[1], root |-> u[2]] : u \in latest}
        current == {[id |-> id, root |-> minedRoots[id]] : id \in 1 .. st.nextSubpoolId - 1}
    IN  /\ Goto(<<"roots", "rebuild">>)
        /\ st' = [st EXCEPT !.subpoolRoots = IF mode = "genesis" THEN current ELSE replayed]
        /\ UNCHANGED <<chainVars, mode, window, todo, failures, restarts>>

RebuildTree ==
    /\ Goto(<<"rebuild", "deposits">>)
    /\ st' = RebuildConfigTree(st)
    /\ UNCHANGED <<chainVars, mode, window, todo, failures, restarts>>

\* Mutant: last_synced_block is not advanced.
SyncDeposits_NoAdvance ==
    /\ Goto(<<"deposits", "idle">>)
    /\ st' = DepositsApplied(st, FromBlock, ToBlock)
    /\ mode' = "poll"
    /\ UNCHANGED <<chainVars, window, todo, failures, restarts>>

\* sync_deposits, then last_synced_block = to_block.
SyncDeposits ==
    /\ Goto(<<"deposits", "idle">>)
    /\ st' = [DepositsApplied(st, FromBlock, ToBlock) EXCEPT !.lastSynced = window.to]
    /\ mode' = "poll"
    /\ UNCHANGED <<chainVars, window, todo, failures, restarts>>

\* An error ends the poll, to be retried at the next tick with the same from_block;
\* during genesis sync it ends the process, which is restarted.
GiveUp ==
    /\ phase' = IF mode = "genesis" THEN "down" ELSE "idle"
    /\ todo' = {}
    /\ UNCHANGED <<chainVars, mode, window, restarts>>

\* An RPC call fails.  Confirming entries calls the RPC only for an unknown preimage,
\* root updates only during genesis sync.
RpcFailure ==
    /\ phase \in FailPhases /\ failures < MaxFailures
    /\ phase = "proven" => todo # {} /\ ~Known(NextEntry.pi)
    /\ phase = "roots" => mode = "genesis"
    /\ failures' = failures + 1
    /\ st' = st
    /\ GiveUp

\* The search comes back empty, or the local tree has no room for another leaf.
ConfirmFails ==
    /\ phase = "proven" /\ todo # {}
    /\ ~Retrievable(NextEntry.pi) \/ TreeFull(st)
    /\ st' = IF Known(NextEntry.pi) \/ ~Retrievable(NextEntry.pi)
             THEN st ELSE ApplyPreimage(st, NextEntry.pi)
    /\ failures' = failures
    /\ GiveUp

\* All state is in memory.
Crash ==
    /\ phase # "down" /\ restarts < MaxRestarts
    /\ restarts' = restarts + 1
    /\ phase' = "down" /\ mode' = "genesis" /\ todo' = {} /\ st' = NewState
    /\ UNCHANGED <<chainVars, window, failures>>

SyncStep ==
    \/ StartGenesis \/ StartPoll
    \/ \E p \in Submissions(1, HeadBlock) : ApplySubmission(p)
    \/ TxSubmissionsDone \/ BridgeSubmissionsDone
    \/ CollectProven \/ ConfirmEntry \/ ConfirmFails \/ ProvenDone
    \/ AssignSubpools \/ UpdateRoots \/ RebuildTree \/ SyncDeposits

SyncInit ==
    /\ Init
    /\ log = [b \in 1 .. MaxBlock |-> NoEvents]
    /\ minedRoots = [id \in SubpoolIds |-> 0]
    /\ st = NewState /\ phase = "down" /\ mode = "genesis"
    /\ window = [from |-> 0, to |-> 0] /\ todo = {}
    /\ failures = 0 /\ restarts = 0

SyncNext == ChainStep \/ MineBlock \/ SyncStep \/ RpcFailure \/ Crash

SyncSpec == SyncInit /\ [][SyncNext]_allVars

\* The poll loop keeps ticking and RPC calls return; nothing is asked of the chain.
FairSyncSpec == SyncSpec /\ WF_allVars(SyncStep)

-----------------------------------------------------------------------------
(* Properties *)

\* Every root and path the service hands out belongs to the on-chain tree: its leaves
\* are a prefix of the contract's, in the same order, at every moment.
MirrorIsPrefix == IsPrefix(st.leaves, leaves)

\* Nothing is reported confirmed that the contract did not confirm: batches, spent
\* nullifiers, outputs and roots, after any failures, retries and restarts.
ConfirmedIsOnChain ==
    /\ st.confirmedTx \subseteq confirmedTxBatches
    /\ st.confirmedBridge \subseteq confirmedBridgeTxBatches
    /\ st.confirmedNullifiers \subseteq nullifiers
    /\ st.confirmedRoots \subseteq confirmedRoots
    /\ \A l \in st.commitments : l.confirmed => l.pi \in Confirmed /\ l.pi \in st.subtrees

\* What the chain's events say up to block b.
ProvenBy(b) == {e.pi : e \in Proven(1, b)}
SpentBy(b) == UNION {Nullifiers(p) : p \in ProvenBy(b)}
DepositStatusBy(n, b) ==
    IF n \in Notes("withdrawn", 1, b) THEN "Withdrawn"
    ELSE IF n \in Notes("validated", 1, b) THEN "Validated"
    ELSE IF n \in Notes("available", 1, b) THEN "Pending" ELSE "None"

\* Between polls the batch index is the chain's as of last_synced_block: what it holds
\* confirmed is exactly what was proven by then, with the tree's leaves and a path for
\* every output, and every batch submitted by then and not proven is pending.  Only
\* submissions of a window that failed may be ahead of it.
IdleBatchesExact ==
    Idle => LET b == st.lastSynced IN
        /\ st.confirmedTx \cup st.confirmedBridge = ProvenBy(b)
        /\ Submissions(1, b) \ ProvenBy(b) \subseteq st.pendingTx \cup st.pendingBridge
        /\ st.pendingTx \cup st.pendingBridge \subseteq Submissions(1, HeadBlock) \ ProvenBy(b)
        /\ Len(st.leaves) = Cardinality(ProvenBy(b))
        /\ \A p \in ProvenBy(b) : \A c \in p.body.outputs :
            \E l \in st.commitments : l.comm = c /\ l.pi = p /\ l.confirmed

\* Between polls a nullifier is reported confirmed iff a batch proven by
\* last_synced_block spent it, and pending only while a pending batch would spend it.
IdleNullifiersExact ==
    Idle => /\ st.confirmedNullifiers = SpentBy(st.lastSynced)
            /\ \A e \in st.pendingNullifiers : e.pi \in st.pendingTx \cup st.pendingBridge

\* The deposit index is the chain's as of last_synced_block, whatever calls fail and
\* however often a window is retried: status, block and the recorded amounts.
DepositsExact ==
    /\ {d.note : d \in st.deposits} = {n \in NoteComms : DepositStatusBy(n, st.lastSynced) # "None"}
    /\ \A d \in st.deposits :
        /\ d.status = DepositStatusBy(d.note, st.lastSynced)
        /\ [deposits[d.note] EXCEPT !.status = d.status] =
            [value |-> d.value, recipient |-> d.recipient, status |-> d.status,
             depositBlock |-> d.block, assetId |-> d.assetId]

\* After the chain goes quiet the mirrored config tree is the contract's.
QuietConfigExact ==
    Idle /\ st.lastSynced = HeadBlock /\ log[blockNumber] = NoEvents =>
        st.configTree = mainPoolConfigRoot

\* Once RPC failures, restarts and new blocks stop, the service ends up idle with the
\* head of the chain synced.
CatchesUp == <>[](Idle /\ st.lastSynced = HeadBlock)

=============================================================================

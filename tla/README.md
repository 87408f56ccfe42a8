# Doxa in TLA+

Doxa is a privacy layer for ERC20 tokens. Value lives in private *accounts* and *notes*
grouped into *subpools*; a subpool operator collects the requests of its users, a sequencer
packs them into batches, a proving server turns a batch into one Groth16 proof, and a
contract checks the proof, records what was spent and appends the batch root to an on-chain
Merkle tree. A state-sync service mirrors that tree for everybody else.

This directory holds TLA+ modules for the parts of that system with state and control of
their own, TLC runs over small instances, and TLAPS proofs, for arbitrary constants, of most of
the safety properties that the runs check: of the contract, the state-sync service, the
subpool operators and the client's transactions.

    tlc -workers 2 -config ContractSpends.cfg MCDoxaContract     # any run of PROJECT.json
    tlapm DoxaContractProofs.tla                                 # the proofs of one module

## Inventory of the system

| Component | Code | State | Operations | Modelled in |
|---|---|---|---|---|
| Contract | `doxa-solidity/src/DoxaContract.sol` | roles, assets, subpool registry, config root, IMT, nullifiers, deposits, queue of withdrawals, pending and confirmed batches | every external mutating function | `DoxaContract` |
| On-chain tree | `doxa-solidity/src/IMTLib.sol` | leaf count, one cached sibling per level, confirmed roots | `init`, `appendLeaf` | `IMTLib` |
| Rust tree | `doxa-trees` | leaves and every node above them, level by level | `insert`, `insert_batch`, `update_leaf`, paths, proofs | `MerkleTree` |
| State-sync service | `doxa-state-sync` | mirrored tree, commitments, nullifiers, batches, config tree, deposits, `last_synced_block` | genesis sync, poll, HTTP queries | `StateSync` |
| Account balances | `doxa-client/src/account.rs` | per-account asset tree and asset map | insert, update, save, load | `AssetTree`, `AccountStateTree` |
| Private-transaction builders | `doxa-client/src/plonky2_gadgets/priv_tx/builder` | a builder under construction, its signatures and paths | every `SpendTxBuilder` and `FreshAccTxBuilder` method, `prove`, padding | `PrivTx` |
| Private-transaction circuit | `doxa-client/src/plonky2_gadgets/priv_tx` | none; a relation over witnesses | its assertions and public inputs | `TxCircuits` |
| Subpool database | `doxa-subpool-database` | requests, accounts, input and output notes of a subpool's users | registration, deposit and spend requests, balance queries, the operator's statements | `SubpoolDatabase`, `AccountStateTree` |
| Subpool operator | `doxa-subpool-operator` | where its tick stands; the database, a sequencer and a chain it calls | fresh accounts, deposits, spends, incoming notes | `SubpoolOperator` |
| Deposit and withdraw circuits | `doxa-client/src/plonky2_gadgets/{deposit,withdraw}_tx` | none; relations over witnesses | their assertions and public inputs | `BridgeCircuits` |
| Deposit and withdraw builders | the same directories, `builder.rs` | a builder under construction | every builder method, `prove`, padding | `BridgeTx` |
| Aggregation and proving server | `doxa-server` | the open batch, loaded circuits | add, finalize, aggregate, wrap | `BatchAggregation`, `ProofBatch`, `ProverService` |
| Setup tools and Groth16 wrapper | `doxa-server/src/bin`, `doxa-utils/src/groth/wrapper.rs`, `doxa-utils/ffi` | artifact directories, process-wide Groth16 globals | the stages of a setup, `init`, `prove` | `ArtifactSetup`, `ProverService` |
| Cryptography | `doxa-utils`, generated verifiers | none | field, curve, hash arithmetic | not modelled |

**How they interact.** The contract is driven by transactions: the operator submits batches,
anybody proves them, users deposit and take deposits back. It speaks to the rest only through
its event log and storage reads. State-sync reads logs over an RPC that may fail, keeps
everything in memory under one lock, and answers queries between its critical sections.
Clients take roots and paths from it. Subpool operators post transactions, deposits and notes to
a sequencer that is not in this repository, broadcast their users' deposits, and keep their users' accounts in PostgreSQL. The Rust tree is used
on both sides of that: to mirror the on-chain tree and to hold account balances and subpool
membership.

**What is hard.** Two-phase batches: what was checked at submission is stale at proof time,
and batches that conflict wait side by side. Deposits that two parties may claim. Trees kept
incrementally in two languages that must agree on every root. A mirror built from separately
fetched logs, retried after partial failures. Transactions whose paths, signatures and keys are
collected over several calls while the ledger moves, laid out once natively and once in a
circuit. A database, a sequencer and a chain updated one after the
other with crashes in between. One batch layout written down natively, in two circuits, in the
contract and in state-sync. Artifacts built file by file over hours and recognised by their
names. PROJECT.json lists these under `hazards`, each at its
line.

## Modules

**`DoxaContract`.** One action per external function; an EVM transaction is atomic and a
revert changes nothing, so each revert condition is a guard. Hashes stand for what they commit
to: a `piCommitment` is the batch preimage (`Preimage(body, root, cfg)`), an IMT root is the
sequence of leaves under it, the config root is the function from leaf position to leaf.
A caller can therefore produce siblings for `oldLeaf` exactly when `oldLeaf` is the leaf at
the position selected by the low bits of the id, which is the guard of `UpdateSubpoolRoot`.
`IMTLib` and `MerkleTree` check that the hash-level algorithms justify this reading. Integers
keep their width where the code drops it: `GLU64` is `_cdGLU64`, which keeps one u32 limb of
an asset id. Two variables are not in the contract's storage: `balance` belongs to the token
and `shielded` is what the circuits hold in accounts; a valid proof (`Provable`, `Funded`)
withdraws only what accounts hold. A fee-on-transfer token is the parameter `fee`.

**`StateSync`** extends `DoxaContract` with the event log and the service. `ChainStep` takes
the contract's actions and records what they emit (`Emit`); role changes, pausing and flushing
are left out because they emit nothing the service reads and enable nothing that is disabled
without them. A block becomes visible when the next one starts. The sync task is a sequence of
phases, one per critical section of the code: the submissions of each kind, collecting proven
batches, confirming them one at a time, the three sections of `sync_config_tree`, deposits, and
finally `last_synced_block`. An RPC failure (`RpcFailure`) or an unretrievable preimage
(`ConfirmFails`) ends the poll and keeps what was applied, as the code does; during genesis
sync it ends the process. A crash loses everything. The proven batches collected for a window
are the set `todo`; the code sorts them by leaf index and walks the list, the model takes the
entry with the least index each time (`NextEntry`).

**`VectorCommitment`** is the abstract specification of a tree: a vector of leaves that grows
on the right and whose root is the root of the padded vector. **`IMTLib`** and **`MerkleTree`**
implement it from cached siblings and from stored layers, and are checked to refine it.
**`Trees`** puts both side by side, as contract and mirror, and has the Rust tree used alone.

**`AssetTree`** holds an account's asset map and the tree it mirrors as operators;
**`AccountStateTree`** is their round trip through the `ast` column of the database.

**`TxCircuits`** is what a private transaction commits to and what `priv_tx_circuit` asserts:
a hash is the tuple it hashes under a tag, the circuit is the conjunction of its assertions
over a record of witness values, 256-bit sums wrap at `Modulus`. A state root is named by the
length of the append-only tree and a config root by the approval key it commits the subpool to.

**`PrivTx`** is a client that builds, signs, proves and publishes. Each builder method is an
action; a method takes the builder by value, so an error or a panic loses it (`Returns`).
`Witness` is what `set_witness` writes into the circuit, `Proves` whether `prove` returns a
proof. Others append leaves and rotate the approval key between any two calls. Two transactions
can be open on one account state, because `Prove` frees the builder before `Publish` moves the
account. Signers are honest and `FillDinotes` samples fresh seeds; callers may use the builder
in any order the types allow. The ledger keeps of the contract what concerns one transaction:
a known root, the current configuration and new nullifiers (`Accepts`). The sequencer, which
is not in the repository, additionally refuses a nullifier that repeats within a batch
(`Sequenced`, from the reasons listed in `doxa-server/src/prover_service/priv_tx/validation.rs`).
Publication appends account and output leaves in `output_commitments` order. The
incoming notes of `Init` are placed in the tree directly, as the circuit's own tests do,
because no published transaction of this code can put one there (see `PrivTxOutputs`).

**`BridgeCircuits`** and **`BridgeTx`** do the same for deposits and withdrawals. A withdrawal's
slots are chained: slot *i* opens the asset tree that slot *i - 1* left, so the circuit carries
intermediate roots and the builder recomputes them (`compute_withdrawal_slots`, once in `build` and
again in `prove`). Where the code panics the builder is lost; `add_withdrawal` borrows it and
does not lose it. The contract is reduced to what `DoxaContract` enforces of one slot, with
deposits registered for a note the contract cannot read, possibly for another value than the
note says, cancelled at any time, and settled.

**`SubpoolDatabase`** holds the tables, one action per handler that inserts a request, and the
operator's statements as operators on tables; `ON CONFLICT DO NOTHING` and `UNIQUE` are kept
because properties depend on them. **`SubpoolOperator`** runs one process per subpool. A tick
runs its four jobs in order; a job selects its rows once, and every external call and every
database transaction of a row is a step. Faults are a crash between two steps, a call that
fails, and an answer lost after the other side acted. A panic is not a fault: overflowing `U256`
arithmetic and `insert_or_update_asset`, which unwraps for the default asset (`DefaultAsset`) and
for a new asset of an account whose tree (`AstDepth`) is full, end the process, and it starts over
with the same rows. Which assets have a leaf follows from the requests that were committed
(`HeldAssets`), because every commit sets the leaf of its asset. `AccountLoads` keeps the failure found by
`AccountReload` out of the way: loading a stored account may succeed or fail, so that the
properties hold for the code as it is and once loading is repaired. The sequencer is external;
it is modelled from the requests the operator makes and the answers it looks for.
**`MCSubpoolOperator`** names the requests of its run and sorts them into two scenarios.

**`BatchAggregation`** is the path of one batch as operators: public inputs of the leaf
circuits, `add_proof` and `finalize` with padding, the aggregation tree, the pair-leaf and super
circuits by what they assert and expose, the subtree root, the preimage in words, and the
readers of that preimage: the contract's, at the offsets it derives from `NOTE_BATCH`, and
state-sync's, at the literals of its own `constants.rs`. A field element
is named by the value and limb it carries, so that a reader at a wrong offset sees something
else. **`ProofBatch`** is the batch that takes proofs, repeated ones included since `add_proof`
compares roots only, and is finalized. **`ArtifactSetup`** is `priv_tx_setup` and `bridge_tx_setup`: each stage writes its files
one at a time and recognises the files of an earlier run the way the code does, by name.
**`ProverService`** composes them: batches are filled, and services load artifacts, replace the
Groth16 globals of their process and serve proofs of finalized batches while setups are run,
interrupted, repeated, deleted and upgraded.

**`MCDoxaContract`**, **`MCStateSync`** name the batches the runs use.

**`DoxaContractProofs`**, **`StateSyncProofs`**, **`SyncIndexProofs`**, **`SubpoolOperatorProofs`**,
**`BridgeTxProofs`** and **`PrivTxProofs`** hold the theorems about the modules they are named after
(`SyncIndexProofs` those about the batch index and the config tree of `StateSync`). **`AssetTreeProofs`** has the facts
about an account's balances, **`SumTheorems`** those about sums and recursion that the library
does not state.

Definitions whose name has a suffix after an underscore and whose comment begins with
"Mutant" are not part of the models: each is the named definition with a plausible mistake,
and replacing one by the other makes a property fail.

## Runs

| Run | Question | Bounds and why they suffice |
|---|---|---|
| `ContractSpends` | can conflicting batches, private or bridge, spend a nullifier twice; does a batch only build on earlier leaves; does the config tree follow the registry while owners, verifiers and pause change | five bodies that share accounts and notes pairwise, two submissions under any known header, a tree of two leaves so that it fills up; three subpool ids over two leaf positions, so ids 1 and 3 share one, with roots 0 and 7; two verifiers of which one rejects everything; one operator, because who holds the role is looked at by guards only |
| `ContractEscrow` | is a deposit credited or returned at most once; do token balances back all claims | eight bridge bodies over two deposits and two assets, one wider than a limb (`LimbBase` 4 instead of 2^32), fees, delay 1, two blocks |
| `SyncBatches` | is the mirror a prefix of the on-chain tree, are the indexes exact between polls, does the service catch up | two batches, four blocks, one RPC failure before a confirmation, one crash |
| `SyncFailures` | what stays true whatever call fails; does the mirrored config tree converge | a bridge batch that may be rebatched, a deposit that may be withdrawn, a subpool that posts a root, two failures in any phase, one crash; a tree of two leaves, so the mirror's tree can fill up |
| `Trees` | do both trees implement the vector commitment; do they agree when one lags; do paths bind and update in Rust and in the contract | depth 3: every combination of left and right children on three levels, all histories that fill the tree, batches of 0 to 4 leaves; after a batch that does not fit, which takes six leaves and three more, the tree is left alone |
| `PrivTx` | does the circuit prove exactly what the builders intend; is one account state live; does value leave only in notes and under the owner's signatures | three note slots, up to four notes in the first transaction and one in the second, so that input, output and rejected notes meet in one batch, a batch fills up and one note more is refused; sums wrap at 3, an account before activation and active ones with and without an own consume key, two incoming notes, one foreign leaf or key rotation at any point |
| `BridgeTx` | do deposit and withdraw circuits prove exactly what their builders intend; is a deposit credited once and for what was paid in; does the owner sign every movement | two slots, three assets over an account tree of three free leaves, so that it is full after one deposit; sums wrap at 4; amounts 0 and 1 against balances 1 and 2, so that assets are emptied and slots repeat one; two transactions, one deposit, one foreign leaf or key rotation |
| `Operator` | do database, sequencer and chain stay in agreement whatever is interrupted; are notes accounted for, and waiting ones delivered | two subpools, three addresses of which one has no account, three-bit amounts, one fault anywhere. Users ask either for requests that interfere: two deposits over one signed transaction, local and foreign notes, a repeated input under a wrong asset, a colliding identifier, two spends that compete for one account state; or for requests that bring an operator down: a deposit of the default asset, a spend that overflows, a second asset for an account tree with room for one, beside requests that are fine |
| `Prover` | do circuits, native code, contract and state-sync read one batch; does a served proof verify; does running a setup again complete it | seven notes per slot as in the code, 2 private slots or 8 + 8 bridge slots (arity 2), so that strides, in-slot order, levels of aggregation and both halves matter; every fill level, two config roots, one repeated proof; one crash at any file or of a service, deletions, one upgrade at any time, two served proofs, so that both kinds are loaded, replaced and served in one process |
| `SyncRetry` | (violation) is the mirror a prefix when a call fails after a confirmation | one batch, one failure |
| `AccountReload` | (violation) does a stored account load again | two assets |
| `PrivTxOutputs` | (violation) do the public inputs carry the commitments of the output notes | one transaction |

Deadlock is checked in the contract runs and in `Operator`. It is not where the bounded system
ends: the sync runs (bounded chain), `Trees` (a full contract tree takes no more leaves), `PrivTx`
and `BridgeTx` (the client stops after its last transaction),
`Prover` (the artifacts are complete and the last batch is served).

Some bounds deserve a reason. In `Prover`, a loaded service reads the disk no more and the two
tools write to different directories, so setup steps commute with each other and with those of
a batch being proven: the model runs one tool at a time and only between batches. What a batch
holds depends on no artifact, and `FinalizedBatchProves` says that aggregation takes whatever is
finalized: so batches are filled in every way before the first setup, and a batch given to prove
on any later artifacts is its kind. In `Operator` the two sets of requests are not mixed, so that
its liveness property can be checked over all behaviours of each. `BridgeTx` registers one
deposit because deposits meet only through the account, which two transactions cover.

**Fairness.** Three liveness properties need it.

* `CatchesUp`: weak fairness of the sync task (`SyncStep`). The interval loop in `main.rs` calls
  `poll_sync` for ever and ignores its errors. Failures, restarts and blocks are bounded, which
  is "eventually the RPC answers"; nothing is assumed of the chain.
* `MailboxDrains`: weak fairness of each operator's tick. Its `main.rs` is an interval loop that
  logs the error of a job and goes on; a process that panicked is started again. Faults are
  bounded, users owe nothing.
* `SetupCompletesOrSticks`: weak fairness of a running tool, and a tool that did not report
  success is run again (strong fairness, because an open batch or the other tool keeps it waiting in
  the model; no batch stays open for ever). Nobody is assumed to delete a directory: errors about a
  circuit or wrapper file that does not deserialize name that remedy (`artifacts.rs:179`,
  `wrapper.rs:592`), those of the Groth16 stage do not (`wrapper.rs:95`), so deletion may happen
  and need not.

## What the runs show

*Contract.* Any order of submissions and proofs keeps nullifiers unique, deposits credited at
most once, the tree append-only under every batch, and escrow equal to claims. Asset ids that
differ by a multiple of 2^32 are safe because `SlotMatchesDeposit` compares the truncated id
with the *registered* id and accounts are credited under the wide one: a withdrawal of the
wide id is paid from the same token.

*State-sync.* The mirror is exact as long as no call fails between the first confirmation of a
window and its end. When one does, the next poll starts from the same block, finds the batch
no longer pending, fetches its preimage again and appends its root a second time (`SyncRetry`;
`sync.rs:224`). What survives even then is that nothing is reported confirmed that the
contract did not confirm, and that the deposit index is exact.

*Private transactions.* Whatever the order of calls, a transaction that `into_priv_tx` accepts
is proven unless one of four things happened, each of which no builder call reports: the batch
is full (`built_priv_tx.rs:404` compares with `>=`), notes were added after the dummies, the
paths were taken from different roots, or a signature is missing or made with a key the pool
configuration did not have (`ProvesUnlessExplained`). Everything else the builders derive
natively (hashes, nullifier positions, slot layout, tree updates, sums) matches the circuit.
Two transactions from one state cannot both land, a note spent before cannot be credited again,
and the owner's signature covers every debit. But the circuit registers the dummy commitments of all slots as its public output commitments
(`circuit.rs:279`), so a sent note never enters the tree (`PrivTxOutputs`).

*Deposits and withdrawals.* What `into_deposit_tx` accepts is proven unless the approval key
changed between signature and subpool proof. What `into_withdraw_tx` accepts is not proven in three
more cases, none of which a builder call reports: a slot takes all there is of an asset, because
the circuit then expects the default leaf and the account keeps a leaf with amount 0
(`targets.rs:232`; a TODO there plans to change it); a slot is left free over a full account
tree, because the padding opens a leaf past the end (`targets.rs:238`); the spend signature was
made with another key. Slots that repeat an asset are proven, or refused by `build` when they
take too much together. The escrow is always the balance plus what is pending: a deposit
registered for another value than its note says cannot be credited and can be taken back.

*Trees.* Both implement the vector commitment. But `insert_batch` extends the leaves before it finds
that the batch does not fit (`tree.rs:278`); the error leaves them in place, and `update_leaf` then
writes nodes out of order, against the assertion at `tree.rs:216`. Of a batch that is refused
`RootIsVectorRoot` says only that the root stays as it was, and `PathsBindAndUpdate` excepts such a
tree. `insert_batch` has no caller outside `tree.rs`.

*Operators.* Whichever fault occurs, no account state is spent by two approved requests, and
each such state is spent by a transaction the sequencer has. That transaction is the request's own
as long as no fault occurred. After a lost answer it may be that of another request of the
account: the conflict is taken as the answer to an earlier POST (`spend_txs.rs:225`), and the second
request is approved although it was never submitted, which is the exception `SpentStatesAreSequenced`
makes after a fault. A deposit transaction
is credited once, and a redelivered note is not credited again. Value is conserved except for what `LedgerBalances` names:
the operator adds inputs up as listed, so a note listed twice, or one of another asset than the
request states, is counted as stated (`spend_txs.rs:176` has a TODO; the check it refers to in
`submit_spend_tx_handler` covers outputs only). The operator posts
nullifiers and commitments with a placeholder in the proof's place, so no circuit stands behind
this step. `SentNotesAccountedFor` names the ways in which a sent note ends: one whose forwarding
failed is given up, because its request is already APPROVED (`spend_txs.rs:337`), and one whose
identifier the recipient's subpool already knows is dropped (`db.rs:106`).

*Proving.* Circuits, native code, contract and state-sync agree on every batch, each at its own
offsets; a proof added twice stands in two slots of the batch and is read twice. The Groth16 keys are
process-wide: of a private and a bridge service in one process only the one loaded last can
serve, and the other fails rather than hand out a proof under the wrong key
(`ServedProofsVerify`). A variant of the FFI with one key set per label exists and is not used.

*Setup.* The tools say that re-running them is idempotent. A tool that died
in the trusted setup leaves a directory that makes every re-run skip stage 3 and fail
(`priv_tx_setup.rs:95`), so the claim at `priv_tx_setup.rs:21` and `bridge_tx_setup.rs:22` is wrong for
it. `SetupCompletesOrSticks` says how far the claim goes: an
interruption anywhere else is repaired by running the tool again. What is not (`Stuck`) is a stage whose files
are all found but do not load, because the last of them is torn or because they are of older
circuits. A ready line is no proof of the contrary: stage 2 looks at names only, so a torn wrapper file
is noticed by the service, and `bridge_tx_setup` does not read its `Verifier.sol`.

*Accounts.* The asset map and the tree agree through any sequence of transactions, but a saved
map contains the default asset 0, which `new_from_asset_map` refuses to insert: every load of
a stored account fails (`AccountReload`; `account.rs:270`).

Further observations made while modelling, which no run is devoted to:

* In the retry described above, a batch that was submitted inside the retried window is
  searched for only up to `from_block` (`sync.rs:247`): the search fails, and every later poll
  starts from the same block.
* Of two pending batches that spend one nullifier the later overwrites the earlier in
  `pending_nullifiers` (`state.rs:219`); when the earlier is proven its nullifier is not
  reported confirmed. `IdleNullifiersExact` is checked with `Rebatching = FALSE` for this
  reason.
* `sync_config_tree` updates the roots entry by entry and rebuilds the tree in a later
  critical section; a query in between finds no proof for an assigned subpool.
* `updateSubpoolRoot` accepts root 0 although the comment at `DoxaContract.sol:186` gives 0
  the meaning "never updated"; the subpool cannot post again, because the zero leaf is then
  checked against a tree that holds `compress(id, 0)`.
* `flushPendingWithdrawals` runs while the contract is paused; `submitBridgeTxBatch` does not
  look at deposits, although the comment above it says they must be `Pending`;
  `withdrawalDelay` counts from the deposit, not from the batch that includes it, so an old
  deposit can be withdrawn right after it was included.
* `required_signatures` (`spend_builder.rs:510`) does not count rejected notes: for a
  transaction that only rejects it says that no consume signature is needed, and the circuit
  asks for one when the owner has a consume key.
* A note added twice to one transaction is counted twice by builder and circuit, and the
  contract compares nullifiers with storage only. `ValueLeavesOnlyByNotes` therefore rests on
  the sequencer's check within a batch (`DuplicateNnInBatch`), which this repository names but
  does not contain.
* `is_fresh` (`account.rs:534`) asks for an empty asset tree although a new one holds the
  default leaf; nothing in the builders calls it. `FreshAccTxBuilder::new` checks the nonce only.
* After a crash between the broadcast of a deposit and the UPDATE that stores its hash
  (`deposits.rs:178`) the transaction is on chain and every later broadcast is refused: the
  request stays PENDING. No value is lost on chain, where the deposit can be taken back.
* A spend whose sums overflow passes the wrapping check of `submit_spend_tx_handler` and panics in
  the operator on every tick; so does a deposit or spend of the default asset, or one that brings a new
  asset to an account whose tree is full (`account.rs:340`). Jobs after it, incoming notes among
  them, are then never reached. This is the exception `Poisoned` of `MailboxDrains`.
* The comment at `deposits.rs:230` says that an input note is inserted with the approval of a
  deposit; the code inserts none and credits the account directly.
* A torn key file makes the Go side of `Groth16Wrapper::init` return a null string, which ends
  the process with the services already loaded in it (`wrapper.rs:108`, `LoadDies`).

## Proofs

Eight modules prove, with TLAPS, properties of the runs for every value of the constants: any
number of batches, deposits, blocks, failures, subpools, requests, note slots and assets. The
proofs take the assumptions that the modules state on their constants, and TLC evaluates every
one of these on the runs. They say what type a constant has, that sets of ids and requests are
finite, that "absent" values (`None`, `NoRow`) are no values, and, in the contract, that
the slots of one batch differ (`SlotAssumption`) and that a body names assets which may be registered
(`BodyAssumption`). `WidthAssumption` and `AstWidthAssumption` (`2^d` is a natural) are arithmetic
that the provers lack. On the client's side a withdrawal names amounts that fit the field
(`WithdrawAssumption`), the account a run starts with fits its tree (`FundedAssumption`), and a key
is not the absent key (`KeyAssumption`). Conditions that are not on the constants' types are hypotheses
of the theorems that need them and are named below.

**`DoxaContractProofs`.**

* `TypeInvariant`: `TypeOK` is inductive. Its one non-trivial conjunct types the withdrawal
  queue by origin: every entry belongs to a real withdraw slot of a confirmed batch.
* `SpendsOnce`: `NoDoubleSpend` is inductive as stated because it says that `nullifiers` is
  *exactly* what confirmed batches spent; disjointness alone is not inductive, since the
  pre-check of a proof compares with `nullifiers` and not with the batches.
* `CreditedOnce`: `DepositCreditedOnce` is inductive relative to `TypeOK`. The equivalence
  "Validated iff some confirmed batch credited it" carries the induction: a batch that passes
  the pre-check finds its notes Pending, hence not credited before. The third conjunct (slots
  repeat the record) needs that a record never changes except for its status.
* `Lifecycle`: the action property, from `TypeOK`.
* `ConfigCurrent`: `ConfigLeavesCurrent` is inductive relative to `TypeOK`. The path check is
  what makes it so: an id that shares a position with another one cannot name the other's
  leaf as its own old leaf.
* `OldRootsArePrefixes` and `LeafAfterRoot`: every confirmed root is a prefix of the leaves, a
  pending batch names a confirmed root, and the leaves only grow; so the leaf a batch gets when
  it is proven lies after the root it was built on, however many batches overtook it. That
  every confirmed batch has a leaf is a count, which needs that a batch is never both pending
  and confirmed (`Apart`).
* `EscrowBacked`: `EscrowBacksClaims` with the registry facts that make it inductive
  (`EscrowInv`): a token stands behind one asset id, a deposit is pending for a registered asset,
  and a token nobody registered has no balance. Each step moves value between two of
  the three sums (pending deposits, accounts, queue) or between a sum and the balance; crediting
  many deposits at once and flushing the queue move sums over sets (`SumTheorems`).

**`StateSyncProofs`, `SyncIndexProofs`.** The first result is a refinement: `FollowsContract`, the chain
the service watches is a behaviour of `DoxaContract`. All the above therefore holds of it.
`SyncTypes` types the service and bounds its window.

* `ReportsOnlyConfirmed` holds whatever fails. `ConfirmedInv` says that every event of the log,
  every collected entry and every claim of the service's state is about something confirmed on
  chain, and that a pending nullifier or commitment belongs to the batch it is filed under.
* `DepositIndexExact` also holds whatever fails: the index equals a function of the log and of
  `last_synced_block` (`IndexBy`). Applying the deposit events of a window again
  gives the same index, because statuses only advance.
* `MirrorStaysPrefix`: `MirrorInv` says that log entries and leaves correspond one to one and in
  order, and how far the mirror is in each phase. It assumes `FailsEarly`: calls fail only
  before the first confirmation of a window. Without it the statement is false, as the run
  `SyncRetry` shows (`sync.rs:224`).
* `BatchIndexExact` and `NullifierIndexExact` assume two things more. `BatchedOnce` (no batch is
  submitted that spends what a submitted batch spends) is needed because a later pending batch
  overwrites `pending_nullifiers` (`state.rs:219`). `OutputsFollowInputs` says that batches
  with different inputs have different outputs: an output commitment binds the nullifier of the account
  that made it. The run `SyncBatches` satisfies all three conditions.
* `ConfigMirrorExact` (`ConfigInv`): at the head of a quiet chain the mirrored config tree is the
  contract's, whatever failed and restarted on the way. The mirror is wrong most of the time:
  a root is read while later blocks already post another one. The invariant therefore speaks of
  *settled* subpools only: what the service holds of a subpool is right as long as no later block
  posts a root for it (`RootsKnown`, `TreeKnown`). The log must allow that (`RootsLogged`,
  `AssignmentsLogged`), and genesis sync must have counted every subpool assigned in its window before
  it reads the roots of those it counted (`GenesisCounts`). The hypothesis `ConfigPlaces` says that
  every subpool has a leaf of its own and that none posts the zero root, which the contract hashes
  into a leaf and the mirror leaves out.

**`SubpoolOperatorProofs`.** The invariants say what each step of a row knows, since the
operator's knowledge between two calls is where it stands.

* `OperatorTypes`: an operator's rows are rows of the table its job selects from.
* `OneCreditPerTransaction` (`DepositInv`): a request *owns* its transaction from the broadcast
  on, whether or not the hash is saved yet; a transaction has one owner; only owners
  are credited. A crash between broadcast and save loses the ownership and nobody gains it.
* `NoNoteVanishes` (`SentInv`): a note of an approved spend has its row, is in a mailbox, is carried
  by an operator that stands at "forward", or is in `lost`; polled notes stay in the list of the tick
  until each has its row.
* `StatesSpentOnce` (`StatesInv`): an operator about to commit a spend has the nullifier of the current
  nonce sequenced, and an approved spend took a smaller nonce than the account's. The
  second half is what keeps two spends apart: each commit raises the nonce. Whose transaction it
  is needs more (`PostsInv`): a nullifier is posted once, by the account's registration at nonce 0
  or by a spend of that account, and a post for the current nonce by a request that is not about to commit
  it is left behind only by a fault.
* `LedgerBalanced` (`BookInv`): value is conserved in every asset. Four facts carry it besides the
  above. `OutputsOwn`: the outputs of a submitted request are of its asset and their
  identifiers are its own within the subpool (the unique column of `output_notes`). `RowsOpen`: an
  operator holds a request at most once and none that is already approved, except the one it is forwarding;
  so no commit counts a deposit or a spend twice. `NotesSent`: every row of
  `input_notes` and every note in a mailbox or a list is a note of an approved spend, and identifiers are unique in
  a table; so an insert moves value that was under way and adds none. `InputsConsumed`: the rows an
  approved spend took stay, consumed; so its gain never changes. `LedgerInv` is the
  equation with accounts and notes apart, and each of its four steps (fresh account, deposit, spend,
  incoming note) moves the same amount on both sides. The hypothesis `NotesDiffer` says that no two
  subpools are asked for notes that agree in identifier, asset, amount and recipient. Identifiers
  are drawn at random (`note.rs:119`), and no table spans two subpools; without it the second of
  two such notes would count as delivered with the first. The run `Operator` satisfies it.

**`PrivTxProofs`** with **`AssetTreeProofs`**. `PrivInv` has four parts: the transaction
under construction starts from a state of the account that is current or spent, carries the
owner's signatures if any, and leads to an account whose funds are those of the old one with the
inputs and without the outputs; the same of every proof, whose nullifiers are those of notes at named slots;
account leaves on the tree are the current state or spent, and spent nonces are smaller than the
current one; notes have amounts.

* `OneAccountState`, from the last two parts and the nullifier check: a proof built on an old
  state names a nullifier that is recorded.
* `MapAndTreeAgree`: `AstOK` is kept by every operation on balances, for any number of assets.
* `ValueConserved`: an action property. `build` refuses sums that would wrap, so the equation of
  a built transaction is one of naturals; it is carried through the proof's slots to the notes
  that publication spends. The sums run over slots, over notes and over assets.
* `OwnerSigns`: what the circuit asks to be signed and what the builder signs are the same hash.
* `PaddingProven`: the padding witness meets every assertion of the circuit, for any number of
  slots and any depth of the account's tree.
* `PrivCircuitAgrees`: `prove` refuses a transaction that `into_priv_tx` let through exactly for one of
  the reasons `ProvesUnlessExplained` lists. `AgreeInv` keeps what the builder knows in step with
  what the circuit asserts: the notes a client found are at the positions where it found them,
  accounts fit their trees, and each stage of the builder has the slots, paths and signatures its
  calls gave it. Both directions are proved: every assertion of the circuit follows from the
  invariant or is one of the reasons, and each reason breaks an assertion.

**`BridgeTxProofs`.** `OneBridgeState` as above (`AccountInv`). `BridgeAuthorised`: a published
withdrawal carries the owner's signature over its slots and its address, and over the nullifier
of the state it spends; because that state must be the current one, an old signature is useless.

* `EscrowBacksBalance` (`ValueInv`): the contract's escrow of an asset is the client's balance and
  what is pending. A transaction under way, and every proof, records what it will move (`TxValue`,
  `ProofsValue`) relative to the account it starts from; publication then finds that
  account current. For a withdrawal this is an induction over its slots, which may repeat an asset.
* `BridgePaddingProven`: as for private transactions, for both padding builders.
* `BridgeCircuitsAgree`: as `PrivCircuitAgrees`. The hard part is the withdrawal: the trees that
  `compute_withdrawal_slots` goes through one slot at a time are the ones whose roots the circuit
  chains, whatever the slots repeat, and an insertion finds the room the circuit assumes.

**Induction.** The library's induction theorems take an operator, which the installed provers do not
instantiate. `SumTheorems` therefore argues about smallest counterexamples: a well-founded
relation has minimal elements (`WFMin`), which is a first-order statement about sets. From it
follow induction over subsets of a finite set and over an interval, that recursive
functions over an interval exist and are unique, and the lemmas about sums (splitting off one
element, disjoint unions, exchanging double sums, reindexing).

**Only model-checked.**

* Liveness (`CatchesUp`, `MailboxDrains`, `SetupCompletesOrSticks`): out of the prover's reach.
* `Trees`: both refinements of `VectorCommitment`, `RootsNeverRepeat`, `MirrorRootConfirmed`,
  `PathsBindAndUpdate`. They recurse over levels and compare hash terms of unbounded depth.
* The layout properties of `ProofBatch`, `ServedProofsVerify` of `ProverService` (folds over batches, fixed offsets)
  and the round trip of `AccountStateTree`.

## Assumptions and what is not modelled

* Hashes are collision free; verifiers accept only what the circuits allow. Poseidon,
  signatures, the STARK and Groth16 layers and the generated verifiers are not modelled.
* Within one batch the real slots name different accounts and deposits (`SlotAssumption`): the
  contract compares slots with storage, never with each other.
* No chain reorganisation: the service has no code for one.
* The config root of a batch is compared at submission only. The code does so on purpose and
  the model follows it.
* Encodings. A posted root with a limb above the Goldilocks prime is accepted by the contract
  and refused by `u256_le_to_hash`; model values cannot show that.
* In the operator's world: the faucet, the admin and the read-only routes of the database, the
  confirmation job that is commented out (`main.rs:87`), HTTP and JSON encodings, and the
  sequencer beyond its answers. A handler is one step, because what it checks is either checked
  again by a constraint at the insert or by the operator.
* In the proving server: the recursion inside the aggregation circuits (a proof is its public
  inputs), proving times and memory, the labelled FFI variants.
* In `PrivTx` and `BridgeTx` the prover is the repository's own `prove`; what another prover
  could put into the witness is not asked. `UpdateAuth` and `REJECT` kinds have flags but no builder.
* Panics: `.expect("config tree rebuild")` on non-contiguous subpool ids and `verify()` of an
  empty Rust tree. They change no state that survives.
* Genesis sync reads the roots of all subpools in one step (`UpdateRoots`); the code makes one call
  per id (`sync.rs:485`). Each root goes to the leaf of its own subpool and the rest of the section
  reads none of them, so what a read made later or earlier can change is the value of a subpool
  that posts meanwhile, which the next poll replays.

## Plan

1. *Done*: contract, trees, state-sync, account balances, private transactions, first proofs.
2. *Done*: deposits and withdrawals, subpool database and operators, batch layout and
   aggregation, setup and proving service.
3. *Done*: proofs of the contract, of state-sync with its config tree, of the operators with their
   ledger, and of the client's transactions with the agreement of builders and circuits.
4. Proofs still worth having: that the roots of `Trees` never repeat and that the mirror's root was
   confirmed, which need an account of Merkle terms that TLAPS can follow level by level; and the
   batch layout of `ProofBatch`, whose offsets are fixed per circuit.
5. An abstract ledger that the contract, with the circuits, implements.

--------------------------- MODULE SubpoolOperator --------------------------
(***************************************************************************)
(* The operators of the subpools (doxa-subpool-operator), one process per  *)
(* subpool over the subpool's database, with the sequencer and the chain   *)
(* they talk to.                                                           *)
(*                                                                         *)
(* A tick of an operator runs four jobs in a fixed order: fresh accounts,  *)
(* deposits, spends, incoming notes.  A job selects the PENDING rows once  *)
(* and handles them one by one; an error of a row is logged and the row    *)
(* stays PENDING for the next tick.  Only the operator writes accounts and *)
(* input notes, so what it read before a POST is still there after it.     *)
(*                                                                         *)
(* Faults (at most MaxFaults): the process dies between two steps, a query *)
(* or a request fails, an answer is lost after the other side acted.  A    *)
(* panic is no fault: overflowing U256 arithmetic, or an asset the account *)
(* tree refuses, brings the process down and ends the tick.                *)
(*                                                                         *)
(* The sequencer is not in the repository.  It accepts one transaction for *)
(* an account nullifier, answers a second one for the current batch with   *)
(* the conflict the operator looks for, refuses any later one, and relays  *)
(* notes between subpools until they are acknowledged.                     *)
(***************************************************************************)
EXTENDS SubpoolDatabase

CONSTANTS
    MaxFaults,    \* bound on faults
    DefaultAsset, \* asset id 0
    AstDepth      \* depth of the tree of an account's assets (ACC_AST_DEPTH)

ASSUME FaultAssumption == MaxFaults \in Nat /\ AstDepth \in Nat

VARIABLES
    op,       \* of a subpool: [at, rows, notes], where its operator stands
    posted,   \* transactions the sequencer accepted: [an, by]
    batch,    \* account nullifiers of its current batch
    mailbox,  \* notes it holds for a subpool
    mined,    \* deposit transactions on chain
    faults,   \* faults so far
    lost      \* notes whose forwarding was given up

seqVars == <<posted, batch, mailbox, mined>>
vars == <<dbVars, op, seqVars, faults, lost>>

Idle == [at |-> "idle", rows |-> <<>>, notes |-> <<>>]

OpInit ==
    /\ op = [p \in Pools |-> Idle]
    /\ posted = {} /\ batch = {} /\ mined = {} /\ lost = {}
    /\ mailbox = [p \in Pools |-> {}]
    /\ faults = 0

Init == DbInit /\ OpInit
-----------------------------------------------------------------------------
(* Control.                                                                *)

At(p, label) == op[p].at = label
Row(p) == Head(op[p].rows)
Goto(p, label) == op' = [op EXCEPT ![p].at = label]

\* The job a step belongs to, and going on with its next row.
Job(label) ==
    CASE label \in {"fresh", "freshCommit"} -> "fresh"
      [] label \in {"deposit", "depositSave", "depositPost", "depositCommit"} -> "deposit"
      [] label \in {"spend", "spendCommit", "forward"} -> "spend"
      [] OTHER -> "idle"
NextRow(p) == op' = [op EXCEPT ![p] = [at |-> Job(@.at), rows |-> Tail(@.rows), notes |-> <<>>]]

Fault == faults < MaxFaults /\ faults' = faults + 1

\* What the SELECT of each job, and GET /pending_notes, return.  Only the order of spend
\* requests matters: the rows of the other jobs do not depend on each other.
PendingFresh(p) ==
    SetToSeq({a \in Accounts : Home[a] = p /\ freshacc_requests[a] = "PENDING"})
PendingDeposits(p) ==
    SetToSeq({d \in Deposits : /\ d.pool = p /\ deposit_tx_requests[d] # NoRow
                               /\ deposit_tx_requests[d].status = "PENDING"})
PendingSpends(p) ==
    Kept(created[p], {r \in ToSet(created[p]) : spend_tx_requests[r].status = "PENDING"})
PendingNotes(p) == SetToSeq(mailbox[p])

\* The loop of main.rs.  A job with no rows returns at once, so a step goes from one job to
\* the next that has rows.
Jobs == <<"fresh", "deposit", "spend", "insert">>
Selected(p) == <<PendingFresh(p), PendingDeposits(p), PendingSpends(p), PendingNotes(p)>>
JobsDone(p) == IF At(p, "idle") THEN 0 ELSE CHOOSE j \in 1..3 : Jobs[j] = op[p].at
BetweenJobs(p) == At(p, "idle") \/ (op[p].rows = <<>> /\ op[p].at \in {"fresh", "deposit", "spend"})

StartJob(p) ==
    /\ BetweenJobs(p)
    /\ \E i \in (JobsDone(p) + 1)..4 :
         /\ Selected(p)[i] # <<>>
         /\ \A j \in (JobsDone(p) + 1)..(i - 1) : Selected(p)[j] = <<>>
         /\ op' = [op EXCEPT ![p] = [at |-> Jobs[i], rows |-> Selected(p)[i],
                                     notes |-> IF i = 4 THEN Selected(p)[i] ELSE <<>>]]
    /\ UNCHANGED <<dbVars, seqVars, faults, lost>>

EndTick(p) ==
    /\ BetweenJobs(p)
    /\ \A j \in (JobsDone(p) + 1)..4 : Selected(p)[j] = <<>>
    /\ op' = [op EXCEPT ![p] = Idle]
    /\ UNCHANGED <<dbVars, seqVars, faults, lost>>
-----------------------------------------------------------------------------
(* The assets of an account.                                               *)

Approved(r) == spend_tx_requests[r] # NoRow /\ spend_tx_requests[r].status = "APPROVED"
Credited(d) == deposit_tx_requests[d] # NoRow /\ deposit_tx_requests[d].status = "APPROVED"

\* The assets with a leaf in the account's tree, next to the one of the default asset: those
\* its deposits and spends have set, a balance of zero included.
HeldAssets(a) ==
    {d.asset : d \in {e \in Deposits : Credited(e) /\ e.to = a}}
        \cup {r.asset : r \in {s \in Spends : Approved(s) /\ s.from = a}}

\* insert_or_update_asset panics: the default asset can be neither updated nor inserted, and
\* a new asset finds no leaf in a full tree.
AstRefuses(a, x) ==
    \/ x = DefaultAsset
    \/ x \notin HeldAssets(a) /\ Cardinality(HeldAssets(a)) + 1 >= 2^AstDepth
-----------------------------------------------------------------------------
(* The sequencer's /transaction.                                           *)

Nullifier(a, nonce) == [acc |-> a, nonce |-> nonce]

Answer(an) ==
    IF \A t \in posted : t.an # an THEN "accepted"
    ELSE IF an \in batch THEN "in current batch"
    ELSE "refused"

Accept(an, by) ==
    IF Answer(an) = "accepted"
    THEN posted' = posted \cup {[an |-> an, by |-> by]} /\ batch' = batch \cup {an}
    ELSE UNCHANGED <<posted, batch>>

\* A POST whose answer arrives, and one whose answer does not.
Post(an, by, p, good, next) ==
    /\ Accept(an, by)
    /\ \/ /\ Answer(an) \in good /\ Goto(p, next) /\ UNCHANGED faults
       \/ /\ Answer(an) \notin good /\ NextRow(p) /\ UNCHANGED faults
       \/ /\ Answer(an) \in good /\ NextRow(p) /\ Fault

SealBatch ==
    /\ batch # {}
    /\ batch' = {}
    /\ UNCHANGED <<dbVars, op, posted, mailbox, mined, faults, lost>>
-----------------------------------------------------------------------------
(* Fresh accounts: process_one of operator.rs.                             *)

PostFresh(p) ==
    /\ At(p, "fresh") /\ op[p].rows # <<>>
    /\ Post(Nullifier(Row(p), 0), Row(p), p, {"accepted"}, "freshCommit")
    /\ UNCHANGED <<dbVars, mailbox, mined, lost>>

CommitFresh(p) ==
    /\ At(p, "freshCommit")
    /\ freshacc_requests' = [freshacc_requests EXCEPT ![Row(p)] = "APPROVED"]
    /\ UpdateAccount(Row(p), FreshAccount)
    /\ NextRow(p)
    /\ UNCHANGED <<deposit_tx_requests, spend_tx_requests, created, input_notes,
                   output_notes, seqVars, faults, lost>>
-----------------------------------------------------------------------------
(* Deposits: process_one_deposit.                                          *)

\* Mutant: a transaction the chain already knows counts as broadcast.
Broadcast_KnownIsFine(p) ==
    /\ At(p, "deposit") /\ op[p].rows # <<>>
    /\ ~deposit_tx_requests[Row(p)].hash
    /\ mined' = mined \cup {Row(p).tx}
    /\ Goto(p, "depositSave")
    /\ UNCHANGED <<dbVars, posted, batch, mailbox, faults, lost>>

\* broadcast_deposit_tx: a transaction is mined once; sending it again fails.
Broadcast(p) ==
    /\ At(p, "deposit") /\ op[p].rows # <<>>
    /\ ~deposit_tx_requests[Row(p)].hash
    /\ \/ /\ Row(p).tx \notin mined
          /\ mined' = mined \cup {Row(p).tx}
          /\ Goto(p, "depositSave")
       \/ /\ Row(p).tx \in mined
          /\ NextRow(p)
          /\ UNCHANGED mined
    /\ UNCHANGED <<dbVars, posted, batch, mailbox, faults, lost>>

SaveHash(p) ==
    /\ At(p, "depositSave")
    /\ deposit_tx_requests' = [deposit_tx_requests EXCEPT ![Row(p)].hash = TRUE]
    /\ Goto(p, "depositPost")
    /\ UNCHANGED <<freshacc_requests, accounts, spend_tx_requests, created, input_notes,
                   output_notes, seqVars, faults, lost>>

ReuseHash(p) ==
    /\ At(p, "deposit") /\ op[p].rows # <<>>
    /\ deposit_tx_requests[Row(p)].hash
    /\ Goto(p, "depositPost")
    /\ UNCHANGED <<dbVars, seqVars, faults, lost>>

\* The recipient's account is looked up, and refused, only now.
DepositAccount(p, d) == HasRow(p, d.to)
DepositBalance(d) == AccountBalance(d.to, d.asset) + d.amt
DepositPanics(d) == DepositBalance(d) > MaxValue \/ AstRefuses(d.to, d.asset)

PostDeposit(p) ==
    /\ At(p, "depositPost")
    /\ \E loads \in AccountLoads :
         \/ /\ ~(DepositAccount(p, Row(p)) /\ loads)
            /\ NextRow(p)
         \/ /\ DepositAccount(p, Row(p)) /\ loads
            /\ IF DepositPanics(Row(p))
               THEN op' = [op EXCEPT ![p] = Idle]
               ELSE Goto(p, "depositCommit")
    /\ UNCHANGED <<dbVars, seqVars, faults, lost>>

CommitDeposit(p) ==
    LET d == Row(p) IN
    /\ At(p, "depositCommit")
    /\ deposit_tx_requests' = [deposit_tx_requests EXCEPT ![d].status = "APPROVED"]
    /\ UpdateAccount(d.to, NextAccount(accounts[d.to], d.asset, DepositBalance(d)))
    /\ NextRow(p)
    /\ UNCHANGED <<freshacc_requests, spend_tx_requests, created, input_notes,
                   output_notes, seqVars, faults, lost>>
-----------------------------------------------------------------------------
(* Spends: process_one_spend_tx.                                           *)

Available(r) == AccountBalance(r.from, r.asset) + Total(Inputs(r))

\* U256 addition panics; the sums of inputs, of outputs, and with the balance are formed.
Overflows(r) == Available(r) > MaxValue \/ Total(r.outs) > MaxValue

SpendCovered(r) == Available(r) >= Total(r.outs) /\ r.padded

\* The sums are formed first; the tree is updated for a request that passes every check.
SpendPanics(r) == Overflows(r) \/ (SpendCovered(r) /\ AstRefuses(r.from, r.asset))

SpendChecks(p, r) ==
    /\ HasRow(p, r.from)
    /\ InputsUsable(r)
    /\ r.outs # <<>>

\* "AN leaf already in current batch" is taken as the answer to an earlier POST of this
\* request.
SpendGood == {"accepted", "in current batch"}

PostSpend(p) ==
    LET r == Row(p) IN
    /\ At(p, "spend") /\ op[p].rows # <<>>
    /\ \E loads \in AccountLoads :
         \/ /\ ~(SpendChecks(p, r) /\ loads)
            /\ NextRow(p)
            /\ UNCHANGED <<posted, batch, faults>>
         \/ /\ SpendChecks(p, r) /\ loads /\ SpendPanics(r)
            /\ op' = [op EXCEPT ![p] = Idle]
            /\ UNCHANGED <<posted, batch, faults>>
         \/ /\ SpendChecks(p, r) /\ loads /\ ~Overflows(r)
            /\ ~SpendCovered(r)
            /\ NextRow(p)
            /\ UNCHANGED <<posted, batch, faults>>
         \/ /\ SpendChecks(p, r) /\ loads /\ ~SpendPanics(r)
            /\ SpendCovered(r)
            /\ Post(Nullifier(r.from, accounts[r.from].nonce), r, p, SpendGood, "spendCommit")
    /\ UNCHANGED <<dbVars, mailbox, mined, lost>>

\* One database transaction: consume, approve, update the account, hand notes to local
\* recipients; the others are forwarded afterwards.  The approval signature kept in the
\* row is over the transaction, hence over the nullifier of the account's old state.
Local(p, notes) == Kept(notes, {n \in ToSet(notes) : HasRow(p, n.to)})
\* Mutant: only notes for other subpools are forwarded.
Foreign_OtherPools(p, notes) == Kept(notes, {n \in ToSet(notes) : Home[n.to] # p})
Foreign(p, notes) == Kept(notes, {n \in ToSet(notes) : ~HasRow(p, n.to)})

CommitSpend(p) ==
    LET r == Row(p)
        acc == accounts[r.from]
    IN /\ At(p, "spendCommit")
       /\ input_notes' = [input_notes EXCEPT ![p] =
              WithInputNotes(Consume(@, ToSet(r.ins)), Local(p, r.outs))]
       /\ spend_tx_requests' = [spend_tx_requests EXCEPT ![r] =
              [status |-> "APPROVED", tx |-> Nullifier(r.from, acc.nonce)]]
       /\ UpdateAccount(r.from, NextAccount(acc, r.asset, Available(r) - Total(r.outs)))
       /\ op' = [op EXCEPT ![p] = [at |-> "forward", rows |-> @.rows, notes |-> Foreign(p, r.outs)]]
       /\ UNCHANGED <<freshacc_requests, deposit_tx_requests, created, output_notes,
                      seqVars, faults, lost>>

ForwardNote(p) ==
    /\ At(p, "forward") /\ op[p].notes # <<>>
    /\ LET n == Head(op[p].notes)
       IN mailbox' = [mailbox EXCEPT ![Home[n.to]] = @ \cup {n}]
    /\ op' = [op EXCEPT ![p].notes = Tail(@)]
    /\ UNCHANGED <<dbVars, posted, batch, mined, faults, lost>>

\* A forward that fails ends the row; the request is APPROVED and not tried again.
ForwardFails(p) ==
    /\ At(p, "forward") /\ op[p].notes # <<>>
    /\ Fault
    /\ lost' = lost \cup ToSet(op[p].notes)
    /\ NextRow(p)
    /\ UNCHANGED <<dbVars, seqVars>>

SpendDone(p) ==
    /\ At(p, "forward") /\ op[p].notes = <<>>
    /\ NextRow(p)
    /\ UNCHANGED <<dbVars, seqVars, faults, lost>>
-----------------------------------------------------------------------------
(* Incoming notes: poll_incoming_notes.                                    *)

InsertIncoming(p) ==
    /\ At(p, "insert") /\ op[p].rows # <<>>
    /\ input_notes' = [input_notes EXCEPT ![p] = WithInputNote(@, Row(p))]
    /\ op' = [op EXCEPT ![p].rows = Tail(@)]
    /\ UNCHANGED <<freshacc_requests, accounts, deposit_tx_requests, spend_tx_requests,
                   created, output_notes, seqVars, faults, lost>>

\* Mutant: the list of acknowledged identifiers is built from the notes left to insert.
AckNotes_RemainingIds(p) ==
    /\ At(p, "insert") /\ op[p].rows = <<>>
    /\ LET ids == {n.id : n \in ToSet(op[p].rows)}
       IN mailbox' = [mailbox EXCEPT ![p] = {n \in @ : n.id \notin ids}]
    /\ op' = [op EXCEPT ![p] = Idle]
    /\ UNCHANGED <<dbVars, posted, batch, mined, faults, lost>>

\* The sequencer drops the notes with the acknowledged identifiers.
AckNotes(p) ==
    /\ At(p, "insert") /\ op[p].rows = <<>>
    /\ LET ids == {n.id : n \in ToSet(op[p].notes)}
       IN mailbox' = [mailbox EXCEPT ![p] = {n \in @ : n.id \notin ids}]
    /\ op' = [op EXCEPT ![p] = Idle]
    /\ UNCHANGED <<dbVars, posted, batch, mined, faults, lost>>
-----------------------------------------------------------------------------
(* Faults.                                                                 *)

\* A query or a request of a row fails with nothing changed; in poll_incoming_notes it ends
\* the job before the acknowledgement.
StepFails(p) ==
    /\ op[p].rows # <<>> \/ At(p, "insert")
    /\ ~At(p, "forward")
    /\ Fault
    /\ IF At(p, "insert") THEN op' = [op EXCEPT ![p] = Idle] ELSE NextRow(p)
    /\ UNCHANGED <<dbVars, seqVars, lost>>

Crash(p) ==
    /\ ~At(p, "idle")
    /\ Fault
    /\ op' = [op EXCEPT ![p] = Idle]
    /\ lost' = IF At(p, "forward") THEN lost \cup ToSet(op[p].notes) ELSE lost
    /\ UNCHANGED <<dbVars, seqVars>>
-----------------------------------------------------------------------------
Client(A) == A /\ UNCHANGED <<op, seqVars, faults, lost>>

Requests ==
    \/ \E a \in Accounts : Client(Register(a))
    \/ \E d \in Deposits : Client(SubmitDeposit(d))
    \/ \E r \in Spends : Client(SubmitSpend(r))

Tick(p) ==
    \/ StartJob(p) \/ EndTick(p)
    \/ PostFresh(p) \/ CommitFresh(p)
    \/ Broadcast(p) \/ SaveHash(p) \/ ReuseHash(p) \/ PostDeposit(p) \/ CommitDeposit(p)
    \/ PostSpend(p) \/ CommitSpend(p) \/ ForwardNote(p) \/ SpendDone(p)
    \/ InsertIncoming(p) \/ AckNotes(p)

Next ==
    \/ Requests
    \/ SealBatch
    \/ \E p \in Pools : Tick(p) \/ ForwardFails(p) \/ StepFails(p) \/ Crash(p)

Spec == Init /\ [][Next]_vars
Fairness == \A p \in Pools : WF_vars(Tick(p))

-----------------------------------------------------------------------------
(* Properties.                                                             *)

SumOver(S, f(_)) == SumFunction([e \in S |-> f(e)])
OfAsset(notes, x) == {n \in notes : n.asset = x}

\* A note is in the input notes of its recipient's subpool.
Delivered(n) ==
    \E m \in InputRow(Home[n.to], n.id) : m.asset = n.asset /\ m.amt = n.amt /\ m.to = n.to
Collided(n) == InputRow(Home[n.to], n.id) # {} /\ ~Delivered(n)

SentNotes == UNION {ToSet(r.outs) : r \in {s \in Spends : Approved(s)}}

\* What the API shows as holdings of an asset, with the notes still under way.
Holdings(x) ==
    SumOver(Accounts, LAMBDA a : AccountBalance(a, x) + NotesBalance(Home[a], a, x))
        + TotalSet(OfAsset({n \in SentNotes : ~Delivered(n)}, x))

\* What an approved spend took in: as the operator added it up, and as the notes it consumed.
CountedIn(r, x) == IF r.asset = x THEN Total(Inputs(r)) ELSE 0
ConsumedIn(r, x) == TotalSet(OfAsset(ToSet(Inputs(r)), x))

\* Value is conserved in every asset across deposits, spends, crashes, lost answers and
\* redelivered notes: holdings are the credited deposits, except for what a spend gains by
\* listing a note twice or a note of another asset.
LedgerBalances ==
    \A x \in Assets :
        Holdings(x) =
            SumOver({d \in Deposits : Credited(d) /\ d.asset = x}, LAMBDA d : d.amt)
          + SumOver({r \in Spends : Approved(r)}, LAMBDA r : CountedIn(r, x) - ConsumedIn(r, x))

\* An approved spend took a state of its account that no other approved spend took, and the
\* transaction that spends this state is with the sequencer: the request's own or, only
\* after a fault, one of another request of the account, whose conflict was taken as its own.
SpentStatesAreSequenced ==
    \A r \in Spends : Approved(r) =>
        /\ \E t \in posted :
              /\ t.an = spend_tx_requests[r].tx
              /\ t.by = r \/ (faults > 0 /\ t.by \in Spends /\ t.by.from = r.from)
        /\ \A s \in Spends : Approved(s) /\ spend_tx_requests[s].tx = spend_tx_requests[r].tx => s = r

\* A credited deposit has a transaction on chain that no other credited deposit has.
CreditsHaveOwnTx ==
    \A d \in Deposits : Credited(d) =>
        /\ d.tx \in mined
        /\ \A e \in Deposits : Credited(e) /\ e.tx = d.tx => e = d

\* A note of an approved spend is delivered, waits at the operator or at the sequencer, was
\* given up when forwarding failed, or met another note with its identifier.
SentNotesAccountedFor ==
    \A n \in SentNotes :
        \/ Delivered(n) \/ Collided(n) \/ n \in lost
        \/ n \in mailbox[Home[n.to]]
        \/ \E p \in Pools : At(p, "forward") /\ n \in ToSet(op[p].notes)

\* A pending request that brings the operator of a subpool down whenever it is reached.
Poisoned(p) ==
    \/ \E r \in ToSet(PendingSpends(p)) : SpendChecks(p, r) /\ SpendPanics(r)
    \/ \E d \in Deposits : /\ d.pool = p /\ deposit_tx_requests[d] # NoRow /\ ~Credited(d)
                           /\ deposit_tx_requests[d].hash \/ d.tx \notin mined
                           /\ DepositAccount(p, d) /\ DepositPanics(d)

\* The notes the sequencer holds for a subpool are all fetched and acknowledged, unless a
\* request whose sums overflow, or whose asset the account's tree refuses, keeps that
\* operator from ever polling.
MailboxDrains ==
    \A p \in Pools : mailbox[p] # {} ~> (mailbox[p] = {} \/ Poisoned(p))
=============================================================================

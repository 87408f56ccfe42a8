--------------------------- MODULE SubpoolDatabase --------------------------
(***************************************************************************)
(* The database of a subpool and the HTTP API in front of it               *)
(* (doxa-subpool-database): the tables, the handlers that insert requests, *)
(* the statements the operator runs, and the two queries a wallet shows as *)
(* a balance.  Every subpool has its own schema, so every table is kept    *)
(* per subpool or keyed by what lives in one subpool only.                 *)
(*                                                                         *)
(* A handler checks and then inserts.  It is one step here: what it reads  *)
(* is either re-checked by a UNIQUE constraint at the insert or checked    *)
(* again by the operator, and a row may go stale right after the insert    *)
(* just as it may right before.                                            *)
(*                                                                         *)
(* A request is described by what its author put in it (Fresh, Deposits,   *)
(* Spends are the sets of descriptions); a note is [id, asset, amt, to].   *)
(***************************************************************************)
EXTENDS Integers, Sequences, FiniteSets, Functions, SequencesExt

CONSTANTS
    Pools,      \* subpools, one schema each
    Accounts,   \* account addresses
    Registrants, \* the addresses that ask for an account (bound)
    Home,       \* the subpool an address belongs to
    Assets,     \* asset ids
    Deposits,   \* deposit requests: [pool, id, to, asset, amt, tx]
    Spends,     \* spend requests: [pool, no, from, ins, asset, outs, padded]
    ValueBits,  \* width of an amount (256 in the code)
    AccountLoads, \* outcomes of account_from_row
    NoRow       \* the absent row

ASSUME DatabaseAssumption ==
    /\ Home \in [Accounts -> Pools]
    /\ Registrants \subseteq Accounts
    /\ ValueBits \in Nat
    /\ AccountLoads \in SUBSET BOOLEAN

MaxValue == 2^ValueBits - 1

\* Every note a request creates.
Notes == UNION {ToSet(r.outs) : r \in Spends}

\* There are finitely many requests; they name subpools, addresses, assets and amounts.
ASSUME RequestAssumption ==
    /\ IsFiniteSet(Accounts) /\ IsFiniteSet(Deposits) /\ IsFiniteSet(Spends)
    /\ \A d \in Deposits : /\ d.pool \in Pools /\ d.to \in Accounts
                           /\ d.asset \in Assets /\ d.amt \in Nat
    /\ \A r \in Spends : /\ r.pool \in Pools /\ r.from \in Accounts /\ r.asset \in Assets
                         /\ r.outs \in Seq(Notes)
                         /\ Len(r.ins) \in Nat /\ DOMAIN r.ins = 1..Len(r.ins)
    /\ \A n \in Notes : n.to \in Accounts /\ n.asset \in Assets /\ n.amt \in Nat

\* The absent row is no row.
ASSUME NoRowAssumption ==
    /\ NoRow \notin [nonce : Nat, ast : [Assets -> Int]]
    /\ NoRow \notin [status : {"PENDING", "APPROVED"}, hash : BOOLEAN]
    /\ NoRow \notin [status : {"PENDING", "APPROVED"}, tx : [acc : Accounts, nonce : Nat] \cup {NoRow}]

VARIABLES
    freshacc_requests,   \* status of the request of an address, or NoRow
    accounts,            \* [nonce, ast] of an address, or NoRow
    deposit_tx_requests, \* [status, hash] of a deposit request, or NoRow
    spend_tx_requests,   \* [status, tx] of a spend request, or NoRow
    created,             \* spend requests of a subpool by created_at
    input_notes,         \* rows of a subpool: note with its flag consume
    output_notes         \* notes of a subpool, identifiers unique

dbVars == <<freshacc_requests, accounts, deposit_tx_requests, spend_tx_requests,
            created, input_notes, output_notes>>

DbInit ==
    /\ freshacc_requests = [a \in Accounts |-> NoRow]
    /\ accounts = [a \in Accounts |-> NoRow]
    /\ deposit_tx_requests = [d \in Deposits |-> NoRow]
    /\ spend_tx_requests = [r \in Spends |-> NoRow]
    /\ created = [p \in Pools |-> <<>>]
    /\ input_notes = [p \in Pools |-> {}]
    /\ output_notes = [p \in Pools |-> {}]
-----------------------------------------------------------------------------
(* Queries.                                                                *)

Total(notes) == SumFunction([i \in DOMAIN notes |-> notes[i].amt])
TotalSet(notes) == SumFunction([n \in notes |-> n.amt])

\* The elements of a sequence that are in S, in their order.
Kept(s, S) ==
    LET kept[i \in 0..Len(s)] ==
            IF i = 0 THEN <<>>
            ELSE IF s[i] \in S THEN Append(kept[i - 1], s[i]) ELSE kept[i - 1]
    IN  kept[Len(s)]

\* The row of a note identifier; identifiers are unique in the table.
InputRow(p, id) == {n \in input_notes[p] : n.id = id}
HasRow(p, a) == Home[a] = p /\ accounts[a] # NoRow

\* get_input_notes_handler: what a wallet offers for spending.
Unconsumed(p, a) == {n \in input_notes[p] : n.to = a /\ ~n.consume}

\* get_unconsumed_asset_notes_handler, and the balance in get_account_handler.
NotesBalance(p, a, x) == TotalSet({n \in Unconsumed(p, a) : n.asset = x})
AccountBalance(a, x) == IF accounts[a] = NoRow THEN 0 ELSE accounts[a].ast[x]

\* get_inotes: every listed note exists, is unconsumed, and is the sender's.
InputsUsable(r) ==
    \A i \in 1..Len(r.ins) :
        \E n \in InputRow(r.pool, r.ins[i]) : ~n.consume /\ n.to = r.from
Inputs(r) == [i \in 1..Len(r.ins) |-> CHOOSE n \in InputRow(r.pool, r.ins[i]) : TRUE]

u256_add(a, b) == (a + b) % 2^ValueBits
-----------------------------------------------------------------------------
(* Handlers.                                                               *)

\* register_handler: the user row and the request are inserted together.
Register(a) ==
    /\ a \in Registrants
    /\ freshacc_requests[a] = NoRow
    /\ freshacc_requests' = [freshacc_requests EXCEPT ![a] = "PENDING"]
    /\ UNCHANGED <<accounts, deposit_tx_requests, spend_tx_requests, created,
                   input_notes, output_notes>>

\* submit_deposit_handler: the note identifier is new; neither the recipient nor what the
\* signed transaction does is looked at.
SubmitDeposit(d) ==
    /\ \A e \in Deposits :
           e.pool = d.pool /\ e.id = d.id => deposit_tx_requests[e] = NoRow
    /\ deposit_tx_requests' = [deposit_tx_requests EXCEPT ![d] = [status |-> "PENDING", hash |-> FALSE]]
    /\ UNCHANGED <<freshacc_requests, accounts, spend_tx_requests, created,
                   input_notes, output_notes>>

\* The balance check of submit_spend_tx_handler, in wrapping arithmetic.
SubmitCovers(r) ==
    u256_add(AccountBalance(r.from, r.asset), Total(Inputs(r)) % 2^ValueBits)
        >= Total(r.outs) % 2^ValueBits

\* What submit_spend_tx_handler checks before it writes.  The asset of the inputs is the
\* one the request states.
SubmitAccepts(r) ==
    /\ HasRow(r.pool, r.from)
    /\ TRUE \in AccountLoads
    /\ InputsUsable(r)
    /\ Len(r.ins) + Len(r.outs) > 0
    /\ \A i \in 1..Len(r.outs) : r.outs[i].asset = r.asset
    /\ SubmitCovers(r)

\* submit_spend_tx_handler.  A repeated output identifier rolls the whole insert back.
SubmitSpend(r) ==
    /\ spend_tx_requests[r] = NoRow
    /\ SubmitAccepts(r)
    /\ \A i \in 1..Len(r.outs) :
           /\ \A n \in output_notes[r.pool] : n.id # r.outs[i].id
           /\ \A j \in 1..(i - 1) : r.outs[j].id # r.outs[i].id
    /\ spend_tx_requests' = [spend_tx_requests EXCEPT ![r] = [status |-> "PENDING", tx |-> NoRow]]
    /\ created' = [created EXCEPT ![r.pool] = Append(@, r)]
    /\ output_notes' = [output_notes EXCEPT ![r.pool] = @ \cup ToSet(r.outs)]
    /\ UNCHANGED <<freshacc_requests, accounts, deposit_tx_requests, input_notes>>
-----------------------------------------------------------------------------
(* Statements of the operator.                                             *)

\* Mutant: the insert does not look for the identifier.
WithInputNote_Again(rows, n) ==
    rows \cup {[id |-> n.id, asset |-> n.asset, amt |-> n.amt, to |-> n.to, consume |-> FALSE]}

\* insert_approved_input_note: ON CONFLICT (identifier) DO NOTHING.
WithInputNote(rows, n) ==
    IF \E m \in rows : m.id = n.id THEN rows
    ELSE rows \cup {[id |-> n.id, asset |-> n.asset, amt |-> n.amt, to |-> n.to, consume |-> FALSE]}

WithInputNotes(rows, notes) ==
    LET table[i \in 0..Len(notes)] == IF i = 0 THEN rows ELSE WithInputNote(table[i - 1], notes[i])
    IN  table[Len(notes)]

\* UPDATE input_notes SET consume = true.
Consume(rows, ids) ==
    {IF n.id \in ids THEN [n EXCEPT !.consume = TRUE] ELSE n : n \in rows}

\* update_account, with the state the operator computed for the account.
UpdateAccount(a, acc) == accounts' = [accounts EXCEPT ![a] = acc]

\* The account a fresh account transaction creates: nonce 1 and no balance.
FreshAccount == [nonce |-> 1, ast |-> [x \in Assets |-> 0]]

\* Mutant: the balance is set on a copy with the old nonce.
NextAccount_KeepsNonce(acc, x, balance) == [nonce |-> acc.nonce, ast |-> [acc.ast EXCEPT ![x] = balance]]

\* The account after a transaction that sets the balance of one asset.
NextAccount(acc, x, balance) == [nonce |-> acc.nonce + 1, ast |-> [acc.ast EXCEPT ![x] = balance]]
=============================================================================

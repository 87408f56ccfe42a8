-------------------------- MODULE DoxaContractProofs ------------------------
(***************************************************************************)
(* Theorems about DoxaContract, for every set of users, assets, subpools,  *)
(* batches and notes, and every bound.                                     *)
(***************************************************************************)
EXTENDS DoxaContract, SumTheorems

\* A record of the set of preimages has the fields Preimage gave it.
LEMMA PreimageTyped ==
    ASSUME NEW B, NEW b \in B, NEW r \in Seq(BatchRoots), NEW c \in ConfigTrees
    PROVE  Preimage(b, r, c) \in [body : B, root : Seq(BatchRoots), cfg : ConfigTrees]
BY DEF Preimage

\* appendLeaf keeps the leaves and the confirmed roots typed.
LEMMA AppendLeafTyped ==
    ASSUME NEW leaf \in BatchRoots, AppendLeaf(leaf),
           leaves \in Seq(BatchRoots), confirmedRoots \subseteq Seq(BatchRoots)
    PROVE  leaves' \in Seq(BatchRoots) /\ confirmedRoots' \subseteq Seq(BatchRoots)
<1>1. Append(leaves, leaf) \in Seq(BatchRoots)
  OBVIOUS
<1> QED
  BY <1>1 DEF AppendLeaf

\* Validating deposits keeps the deposit records typed.
LEMMA ValidatedTyped ==
    ASSUME NEW d \in DepositRecords
    PROVE  [d EXCEPT !.status = "Validated"] \in DepositRecords
BY DEF DepositRecords, Statuses

\* What one withdraw slot pays of an asset is a natural number.
LEMMA LineTotalNat ==
    ASSUME NEW w, IsFiniteSet(DOMAIN w.assetIds),
           \A j \in DOMAIN w.assetIds : w.amounts[j] \in Nat, NEW aid
    PROVE  LineTotal(w, aid) \in Nat
<1> DEFINE D == DOMAIN w.assetIds
           f == [j \in D |-> IF w.assetIds[j] = aid THEN w.amounts[j] ELSE 0]
<1>1. LineTotal(w, aid) = SumFunctionOnSet(f, D)
  BY DEF LineTotal, SumFunction
<1>2. \A j \in D : f[j] \in Nat
  OBVIOUS
<1> HIDE DEF f
<1> QED
  BY <1>1, <1>2, SumNat

\* What a batch takes from accounts, and gives them, are natural numbers.
LEMMA BatchTotalsNat ==
    ASSUME NEW b \in BridgeBodies, NEW aid
    PROVE  /\ \A s \in Real(b.withdraws) : LineTotal(b.withdraws[s], aid) \in Nat
           /\ WithdrawnFromAccounts(b, aid) \in Nat
           /\ CreditedToAccounts(b, aid) \in Nat
<1> DEFINE f == [s \in Real(b.withdraws) |-> LineTotal(b.withdraws[s], aid)]
           g == [s \in Real(b.deposits) |-> IF b.deposits[s].assetId = aid
                                             THEN b.deposits[s].amount ELSE 0]
<1>1. \A s \in Real(b.withdraws) : LineTotal(b.withdraws[s], aid) \in Nat
  BY BodyAssumption, LineTotalNat
<1>2. IsFiniteSet(Real(b.withdraws)) /\ IsFiniteSet(Real(b.deposits))
  BY BodyAssumption
<1>3. /\ WithdrawnFromAccounts(b, aid) = SumFunctionOnSet(f, Real(b.withdraws))
      /\ CreditedToAccounts(b, aid) = SumFunctionOnSet(g, Real(b.deposits))
  BY DEF WithdrawnFromAccounts, CreditedToAccounts, SumFunction
<1>4. /\ \A s \in Real(b.withdraws) : f[s] \in Nat
      /\ \A s \in Real(b.deposits) : g[s] \in Nat
  BY <1>1, BodyAssumption
<1> HIDE DEF f, g
<1> QED
  BY <1>1, <1>2, <1>3, <1>4, SumNat

\* A queue entry repeats the amounts of its slot, under truncated asset ids.
LEMMA EntryTotalNat ==
    ASSUME NEW p, p.body \in BridgeBodies, NEW e \in WithdrawalEntries(p), NEW aid
    PROVE  LineTotal(e, aid) \in Nat
<1>1. PICK s \in Real(p.body.withdraws) :
        /\ e.assetIds = [j \in DOMAIN p.body.withdraws[s].assetIds |->
                            GLU64(p.body.withdraws[s].assetIds[j])]
        /\ e.amounts = p.body.withdraws[s].amounts
  BY DEF WithdrawalEntries
<1>2. /\ IsFiniteSet(DOMAIN e.assetIds)
      /\ \A j \in DOMAIN e.assetIds : e.amounts[j] \in Nat
  BY <1>1, BodyAssumption
<1> QED
  BY <1>2, LineTotalNat

\* What the queue owes of an asset, and what a flush pays of a token, are natural numbers.
LEMMA OwedNat ==
    ASSUME TypeOK
    PROVE  /\ \A e \in pendingWithdrawals, aid \in AssetIds : LineTotal(e, aid) \in Nat
           /\ \A aid \in AssetIds : Owed(pendingWithdrawals, aid) \in Nat
           /\ \A t \in Tokens : Payout(t) \in Nat
<1>1. ASSUME NEW e \in pendingWithdrawals, NEW aid \in AssetIds PROVE LineTotal(e, aid) \in Nat
  <2>1. PICK p \in confirmedBridgeTxBatches : e \in WithdrawalEntries(p)
    BY DEF TypeOK
  <2> QED
    BY <2>1, EntryTotalNat DEF TypeOK, BridgePreimages
<1>2. ASSUME NEW aid \in AssetIds PROVE Owed(pendingWithdrawals, aid) \in Nat
  <2> DEFINE f == [e \in pendingWithdrawals |-> LineTotal(e, aid)]
  <2>1. Owed(pendingWithdrawals, aid) = SumFunctionOnSet(f, pendingWithdrawals)
    BY DEF Owed, SumFunction
  <2>2. \A e \in pendingWithdrawals : f[e] \in Nat
    BY <1>1
  <2>3. IsFiniteSet(pendingWithdrawals)
    BY DEF TypeOK
  <2> HIDE DEF f
  <2> QED
    BY <2>1, <2>2, <2>3, SumNat
<1>3. ASSUME NEW t \in Tokens PROVE Payout(t) \in Nat
  <2> DEFINE f == [a \in AssetIds |-> IF assetMap[a] = t THEN Owed(pendingWithdrawals, a) ELSE 0]
  <2>1. Payout(t) = SumFunctionOnSet(f, AssetIds)
    BY DEF Payout, SumFunction
  <2>2. \A a \in AssetIds : f[a] \in Nat
    BY <1>2
  <2> HIDE DEF f
  <2> QED
    BY <2>1, <2>2, FiniteAssumption, SumNat
<1> QED
  BY <1>1, <1>2, <1>3

\* A proven batch queues finitely many entries.
LEMMA EntriesFinite ==
    ASSUME NEW p, p.body \in BridgeBodies
    PROVE  IsFiniteSet(WithdrawalEntries(p))
<1> DEFINE m == [s \in Real(p.body.withdraws) |->
                   [pi |-> p, slot |-> s,
                    recipient |-> p.body.withdraws[s].recipient,
                    assetIds |-> [j \in DOMAIN p.body.withdraws[s].assetIds |->
                                     GLU64(p.body.withdraws[s].assetIds[j])],
                    amounts |-> p.body.withdraws[s].amounts]]
<1>1. WithdrawalEntries(p) = {m[s] : s \in Real(p.body.withdraws)}
  BY DEF WithdrawalEntries
<1>2. IsFiniteSet(Real(p.body.withdraws))
  BY BodyAssumption
<1> HIDE DEF m
<1> QED
  BY <1>1, <1>2, FiniteImage

\* Init establishes the types of the contract's storage (constructor).
LEMMA InitTyped == Init => TypeOK
<1> SUFFICES ASSUME Init PROVE TypeOK
    OBVIOUS
<1>1. deposits \in [NoteComms -> DepositRecords]
  BY BlockAssumption DEF Init, NoDeposit, DepositRecords, Statuses
<1>2. mainPoolConfigRoot \in ConfigTrees
  BY DEF Init, ConfigTrees, ConfigLeaves
<1>3. leaves \in Seq(BatchRoots) /\ confirmedRoots \subseteq Seq(BatchRoots)
  BY DEF Init
<1>4. blockNumber \in 1 .. MaxBlock
  BY BlockAssumption DEF Init
<1>5. IsFiniteSet(pendingWithdrawals)
  BY FS_EmptySet DEF Init
<1> QED
  BY <1>1, <1>2, <1>3, <1>4, <1>5 DEF Init, TypeOK

-----------------------------------------------------------------------------
(* Type correctness *)

\* A record that is withdrawn is a record.
LEMMA WithdrawnTyped == \A d \in DepositRecords : [d EXCEPT !.status = "Withdrawn"] \in DepositRecords
BY DEF DepositRecords, Statuses

\* Every external function of the contract keeps its storage typed.
LEMMA NextTyped == TypeOK /\ [Next]_vars => TypeOK'
<1> SUFFICES ASSUME TypeOK, [Next]_vars PROVE TypeOK'
    OBVIOUS
<1> USE DEF TypeOK, adminVars, configVars, imtVars, txVars, bridgeVars, valueVars
<1>1. ASSUME NEW sender \in Addresses, NEW v \in Verifiers,
             SetTxVerifier(sender, v) \/ SetBridgeTxVerifier(sender, v)
      PROVE  TypeOK'
  BY <1>1 DEF SetTxVerifier, SetBridgeTxVerifier
<1>2. ASSUME NEW sender \in Addresses, NEW o \in Operators, SetOperator(sender, o)
      PROVE  TypeOK'
  BY <1>2 DEF SetOperator
<1>3. ASSUME NEW sender \in Addresses, NEW b \in BOOLEAN, SetPaused(sender, b)
      PROVE  TypeOK'
  BY <1>3 DEF SetPaused
<1>4. ASSUME NEW sender \in Addresses, NEW d \in Delays, SetWithdrawalDelay(sender, d)
      PROVE  TypeOK'
  BY <1>4 DEF SetWithdrawalDelay
<1>5. ASSUME NEW sender \in Addresses, NEW aid \in AssetIds, NEW t \in Tokens,
             RegisterAsset(sender, aid, t)
      PROVE  TypeOK'
  BY <1>5 DEF RegisterAsset
<1>6. ASSUME NEW sender \in Addresses, NEW id \in SubpoolIds, NEW owner \in Users,
             AssignSubpoolOwner(sender, id, owner)
      PROVE  TypeOK'
  BY <1>6 DEF AssignSubpoolOwner
<1>7. ASSUME NEW sender \in Addresses, NEW id \in SubpoolIds, NEW r \in SubpoolRootVals,
             UpdateSubpoolRoot(sender, id, r)
      PROVE  TypeOK'
  <2>1. mainPoolConfigRoot' \in ConfigTrees
    BY <1>7 DEF UpdateSubpoolRoot, ConfigTrees, ConfigLeaves, ConfigLeaf
  <2> QED
    BY <1>7, <2>1 DEF UpdateSubpoolRoot
<1>8. ASSUME NEW n \in NoteComms, NEW payer \in Addresses, NEW aid \in AssetIds,
             NEW m \in MaxAmounts, NEW fee \in Fees, RegisterDeposit(n, payer, aid, m, fee)
      PROVE  TypeOK'
  <2>1. deposits' \in [NoteComms -> DepositRecords]
    BY <1>8, AmountAssumption, BlockAssumption
       DEF RegisterDeposit, DepositRecords, Statuses
  <2>2. balance' \in [Tokens -> Nat]
    BY <1>8, AmountAssumption DEF RegisterDeposit
  <2> QED
    BY <1>8, <2>1, <2>2 DEF RegisterDeposit
<1>9. ASSUME NEW sender \in Addresses, NEW n \in NoteComms, WithdrawPendingDeposit(sender, n)
      PROVE  TypeOK'
  <2>1. deposits' \in [NoteComms -> DepositRecords]
    <3>1. deposits' = [deposits EXCEPT ![n].status = "Withdrawn"]
      BY <1>9 DEF WithdrawPendingDeposit
    <3> QED
      BY <3>1, WithdrawnTyped
  <2>2. balance' \in [Tokens -> Nat]
    <3>1. deposits[n].value \in Nat
      BY DEF DepositRecords
    <3> DEFINE token == assetMap[deposits[n].assetId]
    <3>2. /\ balance[token] >= deposits[n].value
          /\ balance' = [balance EXCEPT ![token] = @ - deposits[n].value]
      BY <1>9 DEF WithdrawPendingDeposit
    <3> HIDE DEF token
    <3>3. token \in Tokens => balance[token] - deposits[n].value \in Nat
      BY <3>1, <3>2
    <3> QED
      BY <3>2, <3>3
  <2> QED
    BY <1>9, <2>1, <2>2 DEF WithdrawPendingDeposit
<1>10. ASSUME NEW sender \in Addresses, NEW b \in TxBodies, NEW r \in HeaderRoots,
              NEW c \in HeaderConfigs, SubmitTransactionBatch(sender, Preimage(b, r, c))
       PROVE  TypeOK'
  <2>1. r \in Seq(BatchRoots) /\ c \in ConfigTrees
    BY <1>10 DEF SubmitTransactionBatch, HeaderCurrent, Preimage
  <2>2. Preimage(b, r, c) \in TxPreimages
    BY <2>1, PreimageTyped DEF TxPreimages
  <2> QED
    BY <1>10, <2>2 DEF SubmitTransactionBatch
<1>11. ASSUME NEW sender \in Addresses, NEW b \in BridgeBodies, NEW r \in HeaderRoots,
              NEW c \in HeaderConfigs, SubmitBridgeTxBatch(sender, Preimage(b, r, c))
       PROVE  TypeOK'
  <2>1. r \in Seq(BatchRoots) /\ c \in ConfigTrees
    BY <1>11 DEF SubmitBridgeTxBatch, HeaderCurrent, Preimage
  <2>2. Preimage(b, r, c) \in BridgePreimages
    BY <2>1, PreimageTyped DEF BridgePreimages
  <2> QED
    BY <1>11, <2>2 DEF SubmitBridgeTxBatch
<1>12. ASSUME NEW p \in pendingTxBatches, ProveTransactionBatch(p)
       PROVE  TypeOK'
  <2>1. p.body.batchPoseidonRoot \in BatchRoots
    BY DEF TxPreimages, BatchRoots
  <2>2. leaves' \in Seq(BatchRoots) /\ confirmedRoots' \subseteq Seq(BatchRoots)
    BY <1>12, <2>1, AppendLeafTyped DEF ProveTransactionBatch
  <2> QED
    BY <1>12, <2>2 DEF ProveTransactionBatch
<1>13. ASSUME NEW p \in pendingBridgeTxBatches, ProveBridgeTxBatch(p)
       PROVE  TypeOK'
  <2>1. p.body.batchPoseidonRoot \in BatchRoots
    BY DEF BridgePreimages, BatchRoots
  <2>2. leaves' \in Seq(BatchRoots) /\ confirmedRoots' \subseteq Seq(BatchRoots)
    BY <1>13, <2>1, AppendLeafTyped DEF ProveBridgeTxBatch
  <2>3. deposits' \in [NoteComms -> DepositRecords]
    BY <1>13, ValidatedTyped DEF ProveBridgeTxBatch
  <2>4. pendingWithdrawals' \subseteq UNION {WithdrawalEntries(q) : q \in confirmedBridgeTxBatches'}
    BY <1>13 DEF ProveBridgeTxBatch
  <2>5. p.body \in BridgeBodies
    BY DEF BridgePreimages
  <2>6. IsFiniteSet(pendingWithdrawals')
    BY <1>13, <2>5, EntriesFinite, FS_Union DEF ProveBridgeTxBatch
  <2>7. shielded' \in [AssetIds -> Nat]
    <3>1. ASSUME NEW a \in AssetIds
          PROVE  shielded[a] - WithdrawnFromAccounts(p.body, a)
                             + CreditedToAccounts(p.body, a) \in Nat
      BY <1>13, <2>5, BatchTotalsNat DEF ProveBridgeTxBatch, Funded
    <3> QED
      BY <1>13, <3>1 DEF ProveBridgeTxBatch
  <2> QED
    BY <1>13, <2>2, <2>3, <2>4, <2>6, <2>7 DEF ProveBridgeTxBatch
<1>14. CASE FlushPendingWithdrawals
  <2>1. balance' \in [Tokens -> Nat]
    <3>1. \A t \in Tokens : balance[t] - Payout(t) \in Nat
      BY <1>14, OwedNat DEF FlushPendingWithdrawals
    <3> QED
      BY <1>14, <3>1 DEF FlushPendingWithdrawals
  <2>2. IsFiniteSet(pendingWithdrawals')
    BY <1>14, FS_EmptySet DEF FlushPendingWithdrawals
  <2> QED
    BY <1>14, <2>1, <2>2 DEF FlushPendingWithdrawals
<1>15. CASE NextBlock
  BY <1>15, BlockAssumption DEF NextBlock
<1>16. CASE UNCHANGED vars
  BY <1>16 DEF vars
<1> QED
  BY <1>1, <1>2, <1>3, <1>4, <1>5, <1>6, <1>7, <1>8, <1>9, <1>10, <1>11, <1>12, <1>13, <1>14,
     <1>15, <1>16 DEF Next, DepositAndRegister, DepositAndRegisterFor, Addresses

\* The contract's storage stays typed, and every queued withdrawal comes from a real
\* withdraw slot of a batch proveBridgeTxBatch confirmed.
THEOREM TypeInvariant == Spec => []TypeOK
  BY InitTyped, NextTyped, PTL DEF Spec

-----------------------------------------------------------------------------
(* No double spend.  NoDoubleSpend is inductive as it stands: a batch that   *)
(* passes the pre-check spends nothing in nullifiers, and nullifiers holds   *)
(* everything the confirmed batches spent.                                   *)

\* Only the two prove functions touch the nullifier set and the confirmed batches.
LEMMA OnlyProvingConfirms ==
    ASSUME [Next]_vars
    PROVE  \/ UNCHANGED <<nullifiers, confirmedTxBatches, confirmedBridgeTxBatches>>
           \/ \E p \in pendingTxBatches : ProveTransactionBatch(p)
           \/ \E p \in pendingBridgeTxBatches : ProveBridgeTxBatch(p)
<1> DEFINE Still == UNCHANGED <<nullifiers, confirmedTxBatches, confirmedBridgeTxBatches>>
<1> USE DEF txVars, bridgeVars
<1>1. CASE UNCHANGED vars
  BY <1>1 DEF vars
<1>2. ASSUME NEW sender, NEW x, \/ SetTxVerifier(sender, x) \/ SetBridgeTxVerifier(sender, x)
                                \/ SetOperator(sender, x) \/ SetPaused(sender, x)
                                \/ SetWithdrawalDelay(sender, x)
      PROVE  Still
  BY <1>2 DEF SetTxVerifier, SetBridgeTxVerifier, SetOperator, SetPaused, SetWithdrawalDelay
<1>3. ASSUME NEW sender, NEW x, NEW y, \/ RegisterAsset(sender, x, y)
                                       \/ AssignSubpoolOwner(sender, x, y)
                                       \/ UpdateSubpoolRoot(sender, x, y)
      PROVE  Still
  BY <1>3 DEF RegisterAsset, AssignSubpoolOwner, UpdateSubpoolRoot
<1>4. ASSUME NEW n, NEW payer, NEW aid, NEW m, NEW fee, RegisterDeposit(n, payer, aid, m, fee)
      PROVE  Still
  BY <1>4 DEF RegisterDeposit
<1>5. ASSUME NEW sender, NEW x, \/ WithdrawPendingDeposit(sender, x)
                                \/ SubmitTransactionBatch(sender, x)
                                \/ SubmitBridgeTxBatch(sender, x)
      PROVE  Still
  BY <1>5 DEF WithdrawPendingDeposit, SubmitTransactionBatch, SubmitBridgeTxBatch
<1>6. CASE FlushPendingWithdrawals \/ NextBlock
  BY <1>6 DEF FlushPendingWithdrawals, NextBlock
<1> QED
  BY <1>1, <1>2, <1>3, <1>4, <1>5, <1>6 DEF Next, DepositAndRegister, DepositAndRegisterFor

\* Confirming a private batch adds its nullifiers to what is spent.
LEMMA TxSpentGrows ==
    ASSUME NEW p, confirmedTxBatches' = confirmedTxBatches \cup {p}
    PROVE  TxSpent' = TxSpent \cup TxNullifiers(p.body)
BY DEF TxSpent

\* Confirming a bridge batch adds its nullifiers to what is spent.
LEMMA BridgeSpentGrows ==
    ASSUME NEW p, confirmedBridgeTxBatches' = confirmedBridgeTxBatches \cup {p}
    PROVE  BridgeSpent' = BridgeSpent \cup BridgeNullifiers(p.body)
BY DEF BridgeSpent

\* Every nullifier a confirmed batch spent is in the nullifier set.
LEMMA ConfirmedSpends ==
    ASSUME NoDoubleSpend
    PROVE  /\ nullifiers = TxSpent \cup BridgeSpent
           /\ \A q \in confirmedTxBatches : TxNullifiers(q.body) \subseteq nullifiers
           /\ \A q \in confirmedBridgeTxBatches : BridgeNullifiers(q.body) \subseteq nullifiers
<1>1. nullifiers = TxSpent \cup BridgeSpent
  BY DEF NoDoubleSpend
<1>2. \A q \in confirmedTxBatches : TxNullifiers(q.body) \subseteq TxSpent
  BY DEF TxSpent
<1>3. \A q \in confirmedBridgeTxBatches : BridgeNullifiers(q.body) \subseteq BridgeSpent
  BY DEF BridgeSpent
<1> QED
  BY <1>1, <1>2, <1>3

\* Every step keeps spent nullifiers unique to their batch.
LEMMA NextSpendsOnce == NoDoubleSpend /\ [Next]_vars => NoDoubleSpend'
<1> SUFFICES ASSUME NoDoubleSpend, [Next]_vars PROVE NoDoubleSpend'
    OBVIOUS
<1>1. CASE UNCHANGED <<nullifiers, confirmedTxBatches, confirmedBridgeTxBatches>>
  BY <1>1 DEF NoDoubleSpend, TxSpent, BridgeSpent
<1>2. ASSUME NEW p \in pendingTxBatches, ProveTransactionBatch(p)
      PROVE  NoDoubleSpend'
  <2>1. /\ TxNullifiers(p.body) \cap nullifiers = {}
        /\ confirmedTxBatches' = confirmedTxBatches \cup {p}
        /\ confirmedBridgeTxBatches' = confirmedBridgeTxBatches
        /\ nullifiers' = nullifiers \cup TxNullifiers(p.body)
    BY <1>2 DEF ProveTransactionBatch, NullifiersUnused, bridgeVars
  <2>2. BridgeSpent' = BridgeSpent
    BY <2>1 DEF BridgeSpent
  <2>3. TxSpent' = TxSpent \cup TxNullifiers(p.body)
    BY <2>1, TxSpentGrows
  <2> QED
    BY <2>1, <2>2, <2>3, ConfirmedSpends DEF NoDoubleSpend
<1>3. ASSUME NEW p \in pendingBridgeTxBatches, ProveBridgeTxBatch(p)
      PROVE  NoDoubleSpend'
  <2>1. /\ BridgeNullifiers(p.body) \cap nullifiers = {}
        /\ confirmedTxBatches' = confirmedTxBatches
        /\ confirmedBridgeTxBatches' = confirmedBridgeTxBatches \cup {p}
        /\ nullifiers' = nullifiers \cup BridgeNullifiers(p.body)
    BY <1>3 DEF ProveBridgeTxBatch, NullifiersUnused, txVars
  <2>2. TxSpent' = TxSpent
    BY <2>1 DEF TxSpent
  <2>3. BridgeSpent' = BridgeSpent \cup BridgeNullifiers(p.body)
    BY <2>1, BridgeSpentGrows
  <2> QED
    BY <2>1, <2>2, <2>3, ConfirmedSpends DEF NoDoubleSpend
<1> QED
  BY <1>1, <1>2, <1>3, OnlyProvingConfirms

\* No nullifier is spent by two batches, whatever batches are submitted and in
\* whatever order they are proven.
THEOREM SpendsOnce == Spec => []NoDoubleSpend
<1>1. Init => NoDoubleSpend
  BY DEF Init, NoDoubleSpend, TxSpent, BridgeSpent
<1> QED
  BY <1>1, NextSpendsOnce, PTL DEF Spec

-----------------------------------------------------------------------------
(* Deposits.  With the type invariant, DepositCreditedOnce is inductive: a   *)
(* note a confirmed batch credited is Validated, and the three functions     *)
(* that write a deposit only touch one that is None or Pending.              *)

\* Only registering, taking back and proving change a deposit.
LEMMA OnlyDepositStepsMove ==
    ASSUME [Next]_vars
    PROVE  \/ UNCHANGED <<deposits, confirmedBridgeTxBatches>>
           \/ \E n \in NoteComms, payer \in Addresses, aid \in AssetIds, m \in MaxAmounts, fee \in Fees :
                RegisterDeposit(n, payer, aid, m, fee)
           \/ \E sender \in Addresses, n \in NoteComms : WithdrawPendingDeposit(sender, n)
           \/ \E p \in pendingBridgeTxBatches : ProveBridgeTxBatch(p)
<1> USE DEF adminVars, configVars, imtVars, txVars, bridgeVars, valueVars
<1>1. CASE UNCHANGED vars
  BY <1>1 DEF vars
<1>2. CASE Next
  BY <1>2, SMTT(60) DEF Next, SetTxVerifier, SetBridgeTxVerifier, SetOperator, SetPaused,
     SetWithdrawalDelay, RegisterAsset, AssignSubpoolOwner, UpdateSubpoolRoot,
     DepositAndRegister, DepositAndRegisterFor, SubmitTransactionBatch, SubmitBridgeTxBatch,
     ProveTransactionBatch, FlushPendingWithdrawals, NextBlock, Addresses
<1> QED
  BY <1>1, <1>2

\* A note a confirmed batch credits is a known note, and Validated.
LEMMA CreditedIsValidated ==
    ASSUME TypeOK, DepositCreditedOnce, NEW p \in confirmedBridgeTxBatches,
           NEW n \in DepositNotes(p.body)
    PROVE  n \in NoteComms /\ deposits[n].status = "Validated"
<1>1. p.body \in BridgeBodies
  BY DEF TypeOK, BridgePreimages
<1>2. n \in NoteComms
  BY <1>1, NoteAssumption
<1> QED
  BY <1>2 DEF DepositCreditedOnce

\* The notes of a batch are those its real deposit slots name.
LEMMA SlotNote ==
    ASSUME NEW body, NEW s \in Real(body.deposits)
    PROVE  body.deposits[s].noteComm \in DepositNotes(body)
BY DEF DepositNotes

\* A step that confirms no bridge batch and writes one deposit, before and after which
\* that deposit is not Validated, keeps deposits credited once.
LEMMA UncreditedWriteKeeps ==
    ASSUME TypeOK, DepositCreditedOnce, confirmedBridgeTxBatches' = confirmedBridgeTxBatches,
           NEW n \in NoteComms,
           \A k \in NoteComms : k # n => deposits'[k] = deposits[k],
           deposits[n].status # "Validated", deposits'[n].status # "Validated"
    PROVE  DepositCreditedOnce'
<1>1. \A p \in confirmedBridgeTxBatches : \A s \in Real(p.body.deposits) :
        deposits'[p.body.deposits[s].noteComm] = deposits[p.body.deposits[s].noteComm]
  BY CreditedIsValidated, SlotNote
<1>2. \A p \in confirmedBridgeTxBatches : \A s \in Real(p.body.deposits) :
        SlotMatchesDeposit(p.body.deposits[s])'
  BY <1>1 DEF DepositCreditedOnce, SlotMatchesDeposit
<1> QED
  BY <1>2 DEF DepositCreditedOnce

\* Every step keeps deposits credited at most once, and as recorded.
LEMMA NextCreditsOnce == TypeOK /\ DepositCreditedOnce /\ [Next]_vars => DepositCreditedOnce'
<1> SUFFICES ASSUME TypeOK, DepositCreditedOnce, [Next]_vars PROVE DepositCreditedOnce'
    OBVIOUS
<1> USE DEF bridgeVars
<1>0. deposits \in [NoteComms -> DepositRecords]
  BY DEF TypeOK
<1>1. CASE UNCHANGED <<deposits, confirmedBridgeTxBatches>>
  BY <1>1 DEF DepositCreditedOnce, SlotMatchesDeposit
<1>2. ASSUME NEW n \in NoteComms, NEW payer \in Addresses, NEW aid \in AssetIds,
             NEW m \in MaxAmounts, NEW fee \in Fees, RegisterDeposit(n, payer, aid, m, fee)
      PROVE  DepositCreditedOnce'
  <2>1. /\ confirmedBridgeTxBatches' = confirmedBridgeTxBatches
        /\ \A k \in NoteComms : k # n => deposits'[k] = deposits[k]
        /\ deposits[n].status = "None" /\ deposits'[n].status = "Pending"
    BY <1>0, <1>2 DEF RegisterDeposit
  <2> QED
    BY <2>1, UncreditedWriteKeeps
<1>3. ASSUME NEW sender \in Addresses, NEW n \in NoteComms, WithdrawPendingDeposit(sender, n)
      PROVE  DepositCreditedOnce'
  <2>1. /\ confirmedBridgeTxBatches' = confirmedBridgeTxBatches
        /\ \A k \in NoteComms : k # n => deposits'[k] = deposits[k]
        /\ deposits[n].status = "Pending" /\ deposits'[n].status = "Withdrawn"
    BY <1>0, <1>3 DEF WithdrawPendingDeposit, DepositRecords
  <2> QED
    BY <2>1, UncreditedWriteKeeps
<1>4. ASSUME NEW p \in pendingBridgeTxBatches, ProveBridgeTxBatch(p)
      PROVE  DepositCreditedOnce'
  <2>1. /\ confirmedBridgeTxBatches' = confirmedBridgeTxBatches \cup {p}
        /\ \A n \in DepositNotes(p.body) : deposits[n].status = "Pending"
        /\ \A s \in Real(p.body.deposits) : SlotMatchesDeposit(p.body.deposits[s])
        /\ deposits' = [n \in NoteComms |-> IF n \in DepositNotes(p.body)
                                            THEN [deposits[n] EXCEPT !.status = "Validated"]
                                            ELSE deposits[n]]
    BY <1>4 DEF ProveBridgeTxBatch, DepositsPending
  <2>2. p.body \in BridgeBodies /\ DepositNotes(p.body) \subseteq NoteComms
    BY NoteAssumption DEF TypeOK, BridgePreimages
  <2>3. \A n \in NoteComms : /\ deposits'[n].value = deposits[n].value
                             /\ deposits'[n].recipient = deposits[n].recipient
                             /\ deposits'[n].assetId = deposits[n].assetId
    BY <1>0, <2>1 DEF DepositRecords
  <2>4. \A q \in confirmedBridgeTxBatches \cup {p} : \A s \in Real(q.body.deposits) :
            /\ q.body.deposits[s].noteComm \in NoteComms
            /\ SlotMatchesDeposit(q.body.deposits[s])
    <3>1. ASSUME NEW s \in Real(p.body.deposits)
          PROVE  /\ p.body.deposits[s].noteComm \in NoteComms
                 /\ SlotMatchesDeposit(p.body.deposits[s])
      BY <2>1, <2>2, SlotNote
    <3>2. ASSUME NEW q \in confirmedBridgeTxBatches, NEW s \in Real(q.body.deposits)
          PROVE  /\ q.body.deposits[s].noteComm \in NoteComms
                 /\ SlotMatchesDeposit(q.body.deposits[s])
      <4>1. q.body.deposits[s].noteComm \in NoteComms
        BY SlotNote, CreditedIsValidated
      <4> QED
        BY <4>1 DEF DepositCreditedOnce
    <3> QED
      BY <3>1, <3>2
  <2>5. \A q \in confirmedBridgeTxBatches \cup {p} : \A s \in Real(q.body.deposits) :
            SlotMatchesDeposit(q.body.deposits[s])'
    BY <2>3, <2>4 DEF SlotMatchesDeposit
  <2>6. \A n \in NoteComms : deposits'[n].status = "Validated" <=>
            n \in DepositNotes(p.body) \/ deposits[n].status = "Validated"
    BY <1>0, <2>1 DEF DepositRecords
  <2>7. \A q \in confirmedBridgeTxBatches : DepositNotes(q.body) \cap DepositNotes(p.body) = {}
    BY <2>1, CreditedIsValidated
  <2>8. \A n \in NoteComms : deposits'[n].status = "Validated" <=>
            \E q \in confirmedBridgeTxBatches' : n \in DepositNotes(q.body)
    BY <2>1, <2>6 DEF DepositCreditedOnce
  <2>9. \A q, r \in confirmedBridgeTxBatches' :
            q # r => DepositNotes(q.body) \cap DepositNotes(r.body) = {}
    BY <2>1, <2>7 DEF DepositCreditedOnce
  <2> QED
    BY <2>1, <2>5, <2>8, <2>9 DEF DepositCreditedOnce
<1> QED
  BY <1>1, <1>2, <1>3, <1>4, OnlyDepositStepsMove

\* A deposit is credited by at most one batch, exactly when it is Validated, with the
\* recorded recipient, value and asset; one taken back is never credited.
THEOREM CreditedOnce == Spec => []DepositCreditedOnce
<1>1. Init => DepositCreditedOnce
  BY DEF Init, DepositCreditedOnce, NoDeposit
<1> QED
  BY <1>1, NextCreditsOnce, TypeInvariant, PTL DEF Spec

\* What a step may do to one deposit record: register it in the current block, or settle
\* it, Pending to Validated or Withdrawn, with the rest of the record kept.
DepositMoves(n) ==
    \/ deposits'[n] = deposits[n]
    \/ /\ deposits[n].status = "None"
       /\ deposits'[n].status = "Pending" /\ deposits'[n].depositBlock = blockNumber
    \/ /\ deposits[n].status = "Pending"
       /\ \E st \in {"Validated", "Withdrawn"} : deposits'[n] = [deposits[n] EXCEPT !.status = st]

\* Every step moves every deposit in one of these ways.
LEMMA DepositsMove ==
    ASSUME TypeOK, [Next]_vars
    PROVE  \A n \in NoteComms : DepositMoves(n)
<1> USE DEF DepositMoves
<1>0. deposits \in [NoteComms -> DepositRecords]
  BY DEF TypeOK
<1>1. CASE UNCHANGED <<deposits, confirmedBridgeTxBatches>>
  BY <1>1
<1>2. ASSUME NEW n \in NoteComms, NEW payer \in Addresses, NEW aid \in AssetIds,
             NEW m \in MaxAmounts, NEW fee \in Fees, RegisterDeposit(n, payer, aid, m, fee)
      PROVE  \A k \in NoteComms : DepositMoves(k)
  BY <1>0, <1>2 DEF RegisterDeposit
<1>3. ASSUME NEW sender \in Addresses, NEW n \in NoteComms, WithdrawPendingDeposit(sender, n)
      PROVE  \A k \in NoteComms : DepositMoves(k)
  BY <1>0, <1>3 DEF WithdrawPendingDeposit
<1>4. ASSUME NEW p \in pendingBridgeTxBatches, ProveBridgeTxBatch(p)
      PROVE  \A k \in NoteComms : DepositMoves(k)
  BY <1>0, <1>4 DEF ProveBridgeTxBatch, DepositsPending
<1> QED
  BY <1>1, <1>2, <1>3, <1>4, OnlyDepositStepsMove

\* A deposit record, once written, only moves from Pending to Validated or Withdrawn.
THEOREM Lifecycle == Spec => DepositLifecycle
<1> DEFINE Moves == \A n \in NoteComms :
              deposits[n].status # "None" /\ deposits'[n] # deposits[n] =>
                /\ deposits[n].status = "Pending"
                /\ \E st \in {"Validated", "Withdrawn"} :
                    deposits'[n] = [deposits[n] EXCEPT !.status = st]
<1>1. TypeOK /\ [Next]_vars => [Moves]_vars
  BY DepositsMove DEF DepositMoves
<1> QED
  BY <1>1, TypeInvariant, PTL DEF Spec, DepositLifecycle

-----------------------------------------------------------------------------
(* Subpool registry *)

\* Only the two registry functions touch owners, roots and the config tree.
LEMMA OnlyRegistryMoves ==
    ASSUME [Next]_vars
    PROVE  \/ UNCHANGED configVars
           \/ \E sender \in Addresses, id \in SubpoolIds, owner \in Users :
                AssignSubpoolOwner(sender, id, owner)
           \/ \E sender \in Addresses, id \in SubpoolIds, r \in SubpoolRootVals :
                UpdateSubpoolRoot(sender, id, r)
<1>1. CASE UNCHANGED vars
  BY <1>1 DEF vars, configVars
<1>2. ASSUME NEW sender, NEW v, SetTxVerifier(sender, v) \/ SetBridgeTxVerifier(sender, v)
      PROVE  UNCHANGED configVars
  BY <1>2 DEF SetTxVerifier, SetBridgeTxVerifier
<1>3. ASSUME NEW sender, NEW x, \/ SetOperator(sender, x) \/ SetPaused(sender, x)
                                \/ SetWithdrawalDelay(sender, x)
      PROVE  UNCHANGED configVars
  BY <1>3 DEF SetOperator, SetPaused, SetWithdrawalDelay
<1>4. ASSUME NEW sender, NEW aid, NEW t, RegisterAsset(sender, aid, t)
      PROVE  UNCHANGED configVars
  BY <1>4 DEF RegisterAsset
<1>5. ASSUME NEW sender, NEW n, NEW aid, NEW m, NEW fee,
             DepositAndRegister(sender, n, aid, m, fee)
      PROVE  UNCHANGED configVars
  BY <1>5 DEF DepositAndRegister, RegisterDeposit
<1>6. ASSUME NEW sender, NEW n, NEW payer, NEW aid, NEW m, NEW fee,
             DepositAndRegisterFor(sender, n, payer, aid, m, fee)
      PROVE  UNCHANGED configVars
  BY <1>6 DEF DepositAndRegisterFor, RegisterDeposit
<1>7. ASSUME NEW sender, NEW n, WithdrawPendingDeposit(sender, n)
      PROVE  UNCHANGED configVars
  BY <1>7 DEF WithdrawPendingDeposit
<1>8. ASSUME NEW sender, NEW p, SubmitTransactionBatch(sender, p) \/ SubmitBridgeTxBatch(sender, p)
      PROVE  UNCHANGED configVars
  BY <1>8 DEF SubmitTransactionBatch, SubmitBridgeTxBatch
<1>9. ASSUME NEW p, ProveTransactionBatch(p) \/ ProveBridgeTxBatch(p)
      PROVE  UNCHANGED configVars
  BY <1>9 DEF ProveTransactionBatch, ProveBridgeTxBatch
<1>10. CASE FlushPendingWithdrawals \/ NextBlock
  BY <1>10 DEF FlushPendingWithdrawals, NextBlock
<1> QED
  BY <1>1, <1>2, <1>3, <1>4, <1>5, <1>6, <1>7, <1>8, <1>9, <1>10 DEF Next

\* A subpool id selects a position of the config tree.
LEMMA PositionTyped == \A id \in SubpoolIds : Position(id) \in ConfigPositions
BY WidthAssumption, SubpoolAssumption DEF Position, ConfigPositions

\* Posting a root displaces no other subpool's: updateSubpoolRoot only succeeds when
\* the position holds the caller's own leaf or the zero leaf.
LEMMA UpdateKeepsLeaves ==
    ASSUME TypeOK, ConfigLeavesCurrent, NEW sender, NEW id \in SubpoolIds,
           NEW r \in SubpoolRootVals, UpdateSubpoolRoot(sender, id, r)
    PROVE  ConfigLeavesCurrent'
<1> DEFINE pos == Position(id)
<1>1. /\ subpoolRoots' = [subpoolRoots EXCEPT ![id] = r]
      /\ mainPoolConfigRoot' = [mainPoolConfigRoot EXCEPT ![pos] = ConfigLeaf(id, r)]
      /\ subpoolOwners' = subpoolOwners /\ subpoolOwners[id] # ZeroAddress
      /\ mainPoolConfigRoot[pos] = OldLeaf(id)
  BY DEF UpdateSubpoolRoot
<1>2. /\ pos \in ConfigPositions
      /\ DOMAIN subpoolRoots = SubpoolIds /\ DOMAIN mainPoolConfigRoot = ConfigPositions
  BY PositionTyped DEF TypeOK, ConfigTrees
<1>3. ASSUME NEW k \in SubpoolIds, subpoolRoots'[k] # 0
      PROVE  mainPoolConfigRoot'[Position(k)] = ConfigLeaf(k, subpoolRoots'[k])
  <2>1. CASE k = id
    BY <1>1, <1>2, <2>1
  <2>2. CASE k # id
    <3>1. /\ subpoolRoots'[k] = subpoolRoots[k]
          /\ mainPoolConfigRoot[Position(k)] = ConfigLeaf(k, subpoolRoots[k])
      BY <1>1, <1>2, <1>3, <2>2 DEF ConfigLeavesCurrent
    <3>2. Position(k) # pos
      BY <1>1, <2>2, <3>1 DEF OldLeaf, ZeroLeaf, ConfigLeaf
    <3> QED
      BY <1>1, <1>2, <3>1, <3>2, PositionTyped
  <2> QED
    BY <2>1, <2>2
<1>4. ASSUME NEW q \in ConfigPositions, mainPoolConfigRoot'[q] # ZeroLeaf
      PROVE  \E k \in SubpoolIds : /\ Position(k) = q
                                   /\ subpoolOwners'[k] # ZeroAddress
                                   /\ mainPoolConfigRoot'[q] = ConfigLeaf(k, subpoolRoots'[k])
  <2>1. CASE q = pos
    BY <1>1, <1>2, <2>1
  <2>2. CASE q # pos
    <3>1. mainPoolConfigRoot'[q] = mainPoolConfigRoot[q]
      BY <1>1, <1>2, <2>2
    <3>2. PICK k \in SubpoolIds : /\ Position(k) = q
                                  /\ subpoolOwners[k] # ZeroAddress
                                  /\ mainPoolConfigRoot[q] = ConfigLeaf(k, subpoolRoots[k])
      BY <1>4, <3>1 DEF ConfigLeavesCurrent
    <3>3. subpoolRoots'[k] = subpoolRoots[k]
      BY <1>1, <1>2, <2>2, <3>2
    <3> QED
      BY <1>1, <3>1, <3>2, <3>3
  <2> QED
    BY <2>1, <2>2
<1> QED
  BY <1>3, <1>4 DEF ConfigLeavesCurrent

\* The config tree holds exactly the currently posted roots of assigned subpools.
THEOREM ConfigCurrent == Spec => []ConfigLeavesCurrent
<1>1. Init => ConfigLeavesCurrent
  BY DEF Init, ConfigLeavesCurrent
<1>2. ASSUME TypeOK, ConfigLeavesCurrent, [Next]_vars PROVE ConfigLeavesCurrent'
  <2>1. CASE UNCHANGED configVars
    BY <1>2, <2>1 DEF configVars, ConfigLeavesCurrent
  <2>2. ASSUME NEW sender \in Addresses, NEW id \in SubpoolIds, NEW owner \in Users,
               AssignSubpoolOwner(sender, id, owner)
        PROVE  ConfigLeavesCurrent'
    <3>1. \A k \in SubpoolIds : subpoolOwners[k] # ZeroAddress => subpoolOwners'[k] # ZeroAddress
      BY <1>2, <2>2, AddressAssumption DEF TypeOK, AssignSubpoolOwner
    <3>2. UNCHANGED <<subpoolRoots, mainPoolConfigRoot>>
      BY <2>2 DEF AssignSubpoolOwner
    <3> QED
      BY <1>2, <3>1, <3>2 DEF ConfigLeavesCurrent
  <2> QED
    BY <1>2, <2>1, <2>2, OnlyRegistryMoves, UpdateKeepsLeaves
<1> QED
  BY <1>1, <1>2, TypeInvariant, PTL DEF Spec

-----------------------------------------------------------------------------
(* The tree of batches.  LeafFollowsItsRoot needs to know why the root a     *)
(* pending batch names is older than its leaf: every confirmed root is a     *)
(* prefix of the leaves, and a batch is submitted against a confirmed root.  *)

\* A batch is not pending once confirmed, and finitely many batches are confirmed.
BatchesApart ==
    /\ pendingTxBatches \cap confirmedTxBatches = {}
    /\ pendingBridgeTxBatches \cap confirmedBridgeTxBatches = {}
    /\ IsFiniteSet(confirmedTxBatches) /\ IsFiniteSet(confirmedBridgeTxBatches)

\* Confirmed roots are prefixes of the leaves, and pending batches name confirmed roots.
RootsArePrefixes ==
    /\ \A r \in confirmedRoots : Len(r) <= Len(leaves) /\ r = SubSeq(leaves, 1, Len(r))
    /\ \A p \in pendingTxBatches \cup pendingBridgeTxBatches : p.root \in confirmedRoots

\* Only submitting and proving touch the tree and the batches.
LEMMA OnlyBatchStepsMove ==
    ASSUME [Next]_vars
    PROVE  \/ UNCHANGED <<leaves, confirmedRoots, pendingTxBatches, confirmedTxBatches,
                          pendingBridgeTxBatches, confirmedBridgeTxBatches>>
           \/ \E sender, p : SubmitTransactionBatch(sender, p) \/ SubmitBridgeTxBatch(sender, p)
           \/ \E p \in pendingTxBatches : ProveTransactionBatch(p)
           \/ \E p \in pendingBridgeTxBatches : ProveBridgeTxBatch(p)
<1> DEFINE Still == UNCHANGED <<leaves, confirmedRoots, pendingTxBatches, confirmedTxBatches,
                                pendingBridgeTxBatches, confirmedBridgeTxBatches>>
<1> USE DEF imtVars, txVars, bridgeVars
<1>1. CASE UNCHANGED vars
  BY <1>1 DEF vars
<1>2. ASSUME NEW sender, NEW v, SetTxVerifier(sender, v) \/ SetBridgeTxVerifier(sender, v)
      PROVE  Still
  BY <1>2 DEF SetTxVerifier, SetBridgeTxVerifier
<1>3. ASSUME NEW sender, NEW x, \/ SetOperator(sender, x) \/ SetPaused(sender, x)
                                \/ SetWithdrawalDelay(sender, x)
      PROVE  Still
  BY <1>3 DEF SetOperator, SetPaused, SetWithdrawalDelay
<1>4. ASSUME NEW sender, NEW x, NEW y, \/ RegisterAsset(sender, x, y)
                                       \/ AssignSubpoolOwner(sender, x, y)
                                       \/ UpdateSubpoolRoot(sender, x, y)
      PROVE  Still
  BY <1>4 DEF RegisterAsset, AssignSubpoolOwner, UpdateSubpoolRoot
<1>5. ASSUME NEW n, NEW payer, NEW aid, NEW m, NEW fee, RegisterDeposit(n, payer, aid, m, fee)
      PROVE  Still
  BY <1>5 DEF RegisterDeposit
<1>6. ASSUME NEW sender, NEW n, WithdrawPendingDeposit(sender, n)
      PROVE  Still
  BY <1>6 DEF WithdrawPendingDeposit
<1>7. CASE FlushPendingWithdrawals \/ NextBlock
  BY <1>7 DEF FlushPendingWithdrawals, NextBlock
<1> QED
  BY <1>1, <1>2, <1>3, <1>4, <1>5, <1>6, <1>7 DEF Next, DepositAndRegister, DepositAndRegisterFor

\* Every step keeps pending and confirmed batches apart.
LEMMA NextApart == BatchesApart /\ [Next]_vars => BatchesApart'
<1> SUFFICES ASSUME BatchesApart, [Next]_vars PROVE BatchesApart'
  OBVIOUS
<1> USE DEF BatchesApart, txVars, bridgeVars
<1>1. CASE UNCHANGED <<leaves, confirmedRoots, pendingTxBatches, confirmedTxBatches,
                       pendingBridgeTxBatches, confirmedBridgeTxBatches>>
  BY <1>1
<1>2. ASSUME NEW sender, NEW p, SubmitTransactionBatch(sender, p) \/ SubmitBridgeTxBatch(sender, p)
      PROVE  BatchesApart'
  BY <1>2 DEF SubmitTransactionBatch, SubmitBridgeTxBatch
<1>3. ASSUME NEW p \in pendingTxBatches, ProveTransactionBatch(p)
      PROVE  BatchesApart'
  BY <1>3, FS_AddElement DEF ProveTransactionBatch
<1>4. ASSUME NEW p \in pendingBridgeTxBatches, ProveBridgeTxBatch(p)
      PROVE  BatchesApart'
  BY <1>4, FS_AddElement DEF ProveBridgeTxBatch
<1> QED
  BY <1>1, <1>2, <1>3, <1>4, OnlyBatchStepsMove

\* A confirmed batch is never pending again, and only finitely many are confirmed.
THEOREM Apart == Spec => []BatchesApart
<1>1. Init => BatchesApart
  BY FS_EmptySet DEF Init, BatchesApart
<1> QED
  BY <1>1, NextApart, PTL DEF Spec

\* Appending a leaf keeps every earlier prefix.
LEMMA PrefixKept ==
    ASSUME NEW S, NEW ls \in Seq(S), NEW x \in S, NEW r \in Seq(S),
           Len(r) <= Len(ls), r = SubSeq(ls, 1, Len(r))
    PROVE  r = SubSeq(Append(ls, x), 1, Len(r))
OBVIOUS

\* appendLeaf keeps confirmed roots prefixes of the leaves.
LEMMA AppendKeepsPrefixes ==
    ASSUME NEW leaf \in BatchRoots, AppendLeaf(leaf),
           leaves \in Seq(BatchRoots), confirmedRoots \subseteq Seq(BatchRoots),
           \A r \in confirmedRoots : Len(r) <= Len(leaves) /\ r = SubSeq(leaves, 1, Len(r))
    PROVE  \A r \in confirmedRoots' : Len(r) <= Len(leaves') /\ r = SubSeq(leaves', 1, Len(r))
<1>1. /\ leaves' = Append(leaves, leaf) /\ leaves' \in Seq(BatchRoots)
      /\ Len(leaves') = Len(leaves) + 1
      /\ confirmedRoots' = confirmedRoots \cup {leaves'}
  BY DEF AppendLeaf
<1>2. leaves' = SubSeq(leaves', 1, Len(leaves'))
  BY <1>1
<1>3. ASSUME NEW r \in confirmedRoots
      PROVE  Len(r) <= Len(leaves') /\ r = SubSeq(leaves', 1, Len(r))
  BY <1>1, PrefixKept
<1> QED
  BY <1>1, <1>2, <1>3

\* Every step keeps confirmed roots prefixes, and pending batches on confirmed roots.
LEMMA NextPrefixes == TypeOK /\ RootsArePrefixes /\ [Next]_vars => RootsArePrefixes'
<1> SUFFICES ASSUME TypeOK, RootsArePrefixes, [Next]_vars PROVE RootsArePrefixes'
  OBVIOUS
<1>0. leaves \in Seq(BatchRoots) /\ confirmedRoots \subseteq Seq(BatchRoots)
  BY DEF TypeOK
<1>1. CASE UNCHANGED <<leaves, confirmedRoots, pendingTxBatches, confirmedTxBatches,
                       pendingBridgeTxBatches, confirmedBridgeTxBatches>>
  BY <1>1 DEF RootsArePrefixes
<1>2. ASSUME NEW sender, NEW p, SubmitTransactionBatch(sender, p) \/ SubmitBridgeTxBatch(sender, p)
      PROVE  RootsArePrefixes'
  BY <1>2 DEF SubmitTransactionBatch, SubmitBridgeTxBatch, HeaderCurrent, RootsArePrefixes,
              imtVars, txVars, bridgeVars
<1>3. ASSUME NEW p \in pendingTxBatches, ProveTransactionBatch(p)
      PROVE  RootsArePrefixes'
  <2>1. p.body.batchPoseidonRoot \in BatchRoots
    BY DEF TypeOK, TxPreimages, BatchRoots
  <2>2. /\ AppendLeaf(p.body.batchPoseidonRoot)
        /\ pendingTxBatches' \cup pendingBridgeTxBatches'
             \subseteq pendingTxBatches \cup pendingBridgeTxBatches
        /\ confirmedRoots \subseteq confirmedRoots'
    BY <1>3 DEF ProveTransactionBatch, bridgeVars, AppendLeaf
  <2>3. \A r \in confirmedRoots' : Len(r) <= Len(leaves') /\ r = SubSeq(leaves', 1, Len(r))
    BY <1>0, <2>1, <2>2, AppendKeepsPrefixes DEF RootsArePrefixes
  <2> QED
    BY <2>2, <2>3 DEF RootsArePrefixes
<1>4. ASSUME NEW p \in pendingBridgeTxBatches, ProveBridgeTxBatch(p)
      PROVE  RootsArePrefixes'
  <2>1. p.body.batchPoseidonRoot \in BatchRoots
    BY DEF TypeOK, BridgePreimages, BatchRoots
  <2>2. /\ AppendLeaf(p.body.batchPoseidonRoot)
        /\ pendingTxBatches' \cup pendingBridgeTxBatches'
             \subseteq pendingTxBatches \cup pendingBridgeTxBatches
        /\ confirmedRoots \subseteq confirmedRoots'
    BY <1>4 DEF ProveBridgeTxBatch, txVars, AppendLeaf
  <2>3. \A r \in confirmedRoots' : Len(r) <= Len(leaves') /\ r = SubSeq(leaves', 1, Len(r))
    BY <1>0, <2>1, <2>2, AppendKeepsPrefixes DEF RootsArePrefixes
  <2> QED
    BY <2>2, <2>3 DEF RootsArePrefixes
<1> QED
  BY <1>1, <1>2, <1>3, <1>4, OnlyBatchStepsMove

\* Every confirmed root is a prefix of the leaves, so a batch proven against an old root
\* was built on a tree that the current one extends.
THEOREM OldRootsArePrefixes == Spec => []RootsArePrefixes
<1>1. Init => RootsArePrefixes
  BY DEF Init, RootsArePrefixes
<1> QED
  BY <1>1, NextPrefixes, TypeInvariant, PTL DEF Spec

\* Where the leaf of a confirmed batch stands.
FollowsRoot(p) ==
    \E i \in DOMAIN leaves : /\ leaves[i] = p.body.batchPoseidonRoot
                             /\ Len(p.root) < i
                             /\ p.root = SubSeq(leaves, 1, Len(p.root))

\* A step that appends the leaf of p and confirms p keeps every leaf after its root.
LEMMA ConfirmedFollow ==
    ASSUME TypeOK, RootsArePrefixes, NEW p, p.root \in confirmedRoots,
           p.body.batchPoseidonRoot \in BatchRoots, AppendLeaf(p.body.batchPoseidonRoot)
    PROVE  /\ Len(leaves') = Len(leaves) + 1
           /\ FollowsRoot(p)'
           /\ \A q \in confirmedTxBatches \cup confirmedBridgeTxBatches :
                FollowsRoot(q) => FollowsRoot(q)'
<1> DEFINE x == p.body.batchPoseidonRoot
<1>1. /\ leaves \in Seq(BatchRoots) /\ confirmedRoots \subseteq Seq(BatchRoots)
      /\ leaves' = Append(leaves, x)
  BY DEF TypeOK, AppendLeaf
<1>2. /\ Len(leaves') = Len(leaves) + 1 /\ DOMAIN leaves' = 1 .. (Len(leaves) + 1)
      /\ DOMAIN leaves = 1 .. Len(leaves)
      /\ leaves'[Len(leaves) + 1] = x /\ \A i \in DOMAIN leaves : leaves'[i] = leaves[i]
  BY <1>1
<1>3. FollowsRoot(p)'
  <2>1. p.root \in Seq(BatchRoots) /\ Len(p.root) <= Len(leaves)
        /\ p.root = SubSeq(leaves, 1, Len(p.root))
    BY <1>1 DEF RootsArePrefixes
  <2>2. p.root = SubSeq(leaves', 1, Len(p.root))
    BY <1>1, <2>1, PrefixKept
  <2>3. Len(p.root) < Len(leaves) + 1 /\ Len(leaves) + 1 \in DOMAIN leaves'
    BY <1>1, <1>2, <2>1
  <2> QED
    BY <1>2, <2>2, <2>3 DEF FollowsRoot
<1>4. ASSUME NEW q \in confirmedTxBatches \cup confirmedBridgeTxBatches, FollowsRoot(q)
      PROVE  FollowsRoot(q)'
  <2>1. q.root \in Seq(BatchRoots)
    BY DEF TypeOK, TxPreimages, BridgePreimages
  <2>2. PICK i \in DOMAIN leaves : /\ leaves[i] = q.body.batchPoseidonRoot
                                   /\ Len(q.root) < i
                                   /\ q.root = SubSeq(leaves, 1, Len(q.root))
    BY <1>4 DEF FollowsRoot
  <2>3. Len(q.root) <= Len(leaves) /\ i \in DOMAIN leaves'
    BY <1>1, <1>2, <2>1, <2>2
  <2>4. q.root = SubSeq(leaves', 1, Len(q.root))
    BY <1>1, <2>1, <2>2, <2>3, PrefixKept
  <2> QED
    BY <1>2, <2>2, <2>3, <2>4 DEF FollowsRoot
<1> QED
  BY <1>2, <1>3, <1>4

\* The tree holds one leaf per confirmed batch, after every leaf under its root.
THEOREM LeafAfterRoot == Spec => []LeafFollowsItsRoot
<1>1. Init => LeafFollowsItsRoot
  BY FS_EmptySet DEF Init, LeafFollowsItsRoot
<1>2. ASSUME TypeOK, BatchesApart, RootsArePrefixes, LeafFollowsItsRoot, [Next]_vars
      PROVE  LeafFollowsItsRoot'
  <2>0. /\ Len(leaves) = Cardinality(confirmedTxBatches) + Cardinality(confirmedBridgeTxBatches)
        /\ \A q \in confirmedTxBatches \cup confirmedBridgeTxBatches : FollowsRoot(q)
        /\ Cardinality(confirmedTxBatches) \in Nat /\ Cardinality(confirmedBridgeTxBatches) \in Nat
    BY <1>2, FS_CardinalityType DEF LeafFollowsItsRoot, FollowsRoot, BatchesApart
  <2>1. CASE UNCHANGED <<leaves, confirmedRoots, pendingTxBatches, confirmedTxBatches,
                         pendingBridgeTxBatches, confirmedBridgeTxBatches>>
    BY <1>2, <2>1 DEF LeafFollowsItsRoot
  <2>2. ASSUME NEW sender, NEW p, SubmitTransactionBatch(sender, p) \/ SubmitBridgeTxBatch(sender, p)
        PROVE  LeafFollowsItsRoot'
    <3>1. UNCHANGED <<leaves, confirmedTxBatches, confirmedBridgeTxBatches>>
      BY <2>2 DEF SubmitTransactionBatch, SubmitBridgeTxBatch, imtVars, txVars, bridgeVars
    <3> QED
      BY <1>2, <3>1 DEF LeafFollowsItsRoot
  <2>3. ASSUME NEW p \in pendingTxBatches, ProveTransactionBatch(p)
        PROVE  LeafFollowsItsRoot'
    <3>1. /\ confirmedTxBatches' = confirmedTxBatches \cup {p}
          /\ confirmedBridgeTxBatches' = confirmedBridgeTxBatches
          /\ AppendLeaf(p.body.batchPoseidonRoot)
      BY <2>3 DEF ProveTransactionBatch, bridgeVars
    <3>2. p.body.batchPoseidonRoot \in BatchRoots /\ p.root \in confirmedRoots
      BY <1>2 DEF TypeOK, TxPreimages, BatchRoots, RootsArePrefixes
    <3>3. Cardinality(confirmedTxBatches') = Cardinality(confirmedTxBatches) + 1
      BY <1>2, <3>1, FS_AddElement DEF BatchesApart
    <3>4. /\ Len(leaves') = Len(leaves) + 1
          /\ \A q \in confirmedTxBatches' \cup confirmedBridgeTxBatches' : FollowsRoot(q)'
      BY <1>2, <2>0, <3>1, <3>2, ConfirmedFollow
    <3> QED
      BY <2>0, <3>1, <3>3, <3>4, SMTT(30) DEF LeafFollowsItsRoot, FollowsRoot
  <2>4. ASSUME NEW p \in pendingBridgeTxBatches, ProveBridgeTxBatch(p)
        PROVE  LeafFollowsItsRoot'
    <3>1. /\ confirmedTxBatches' = confirmedTxBatches
          /\ confirmedBridgeTxBatches' = confirmedBridgeTxBatches \cup {p}
          /\ AppendLeaf(p.body.batchPoseidonRoot)
      BY <2>4 DEF ProveBridgeTxBatch, txVars
    <3>2. p.body.batchPoseidonRoot \in BatchRoots /\ p.root \in confirmedRoots
      BY <1>2 DEF TypeOK, BridgePreimages, BatchRoots, RootsArePrefixes
    <3>3. Cardinality(confirmedBridgeTxBatches') = Cardinality(confirmedBridgeTxBatches) + 1
      BY <1>2, <3>1, FS_AddElement DEF BatchesApart
    <3>4. /\ Len(leaves') = Len(leaves) + 1
          /\ \A q \in confirmedTxBatches' \cup confirmedBridgeTxBatches' : FollowsRoot(q)'
      BY <1>2, <2>0, <3>1, <3>2, ConfirmedFollow
    <3> QED
      BY <2>0, <3>1, <3>3, <3>4 DEF LeafFollowsItsRoot, FollowsRoot
  <2> QED
    BY <1>2, <2>1, <2>2, <2>3, <2>4, OnlyBatchStepsMove
<1> QED
  BY <1>1, <1>2, TypeInvariant, Apart, OldRootsArePrefixes, PTL DEF Spec

-----------------------------------------------------------------------------
(***************************************************************************)
(* Escrow: the contract's token balances back, exactly, the claims on      *)
(* them, for every set of assets, notes and batches.  Sums over deposits,  *)
(* accounts and queued withdrawals are compared with the lemmas of         *)
(* SumTheorems.                                                            *)
(***************************************************************************)

\* The asset ids that the contract reads as aid once a u64 is cut to its low limb.
Aliases(aid) == {a \in AssetIds : GLU64(a) = aid}

\* There are finitely many of them.
LEMMA AliasesFinite == \A aid : IsFiniteSet(Aliases(aid))
BY FiniteAssumption, FS_Subset DEF Aliases

-----------------------------------------------------------------------------
(* Withdrawals: what a proven batch queues is what it takes from accounts.   *)

\* The lines of an entry that pay aid are the lines of its slot that name an alias of it.
LEMMA LinesTruncated ==
    ASSUME NEW w, IsFiniteSet(DOMAIN w.assetIds),
           \A j \in DOMAIN w.assetIds : /\ w.amounts[j] \in Nat
                                        /\ w.amounts[j] # 0 => w.assetIds[j] \in AssetIds,
           NEW e, e.assetIds = [j \in DOMAIN w.assetIds |-> GLU64(w.assetIds[j])],
           e.amounts = w.amounts, NEW aid
    PROVE  LineTotal(e, aid) = SumFunctionOnSet([a \in Aliases(aid) |-> LineTotal(w, a)], Aliases(aid))
<1> DEFINE D == DOMAIN w.assetIds
           P == Aliases(aid)
           h == [a \in P |-> [j \in D |-> IF w.assetIds[j] = a THEN w.amounts[j] ELSE 0]]
           E == [j \in D |-> IF GLU64(w.assetIds[j]) = aid THEN w.amounts[j] ELSE 0]
           byLine == [j \in D |-> SumFunctionOnSet([a \in P |-> h[a][j]], P)]
           byAsset == [a \in P |-> SumFunctionOnSet([j \in D |-> h[a][j]], D)]
<1>1. IsFiniteSet(P) /\ IsFiniteSet(D)
  BY AliasesFinite
<1>2. \A a \in P, j \in D : h[a][j] \in Int
  OBVIOUS
<1>3. SumFunctionOnSet(byAsset, P) = SumFunctionOnSet(byLine, D)
  <2> HIDE DEF h, P, D
  <2> QED
    BY <1>1, <1>2, SumSwap
<1>4. byAsset = [a \in P |-> LineTotal(w, a)]
  <2>1. ASSUME NEW a \in P PROVE SumFunctionOnSet([j \in D |-> h[a][j]], D) = LineTotal(w, a)
    <3>1. [j \in D |-> h[a][j]] = [j \in DOMAIN w.assetIds |->
                                     IF w.assetIds[j] = a THEN w.amounts[j] ELSE 0]
      OBVIOUS
    <3> QED
      BY <3>1 DEF LineTotal, SumFunction
  <2> QED
    BY <2>1
<1>5. ASSUME NEW j \in D PROVE byLine[j] = E[j] /\ byLine[j] \in Int
  <2> DEFINE u == [a \in P |-> h[a][j]]
  <2>1. /\ \A a \in P : u[a] = IF w.assetIds[j] = a THEN w.amounts[j] ELSE 0
        /\ byLine[j] = SumFunctionOnSet(u, P)
        /\ E[j] = IF GLU64(w.assetIds[j]) = aid THEN w.amounts[j] ELSE 0
        /\ w.amounts[j] \in Nat /\ (w.amounts[j] # 0 => w.assetIds[j] \in AssetIds)
    OBVIOUS
  <2> HIDE DEF u, byLine, E
  <2>2. CASE w.assetIds[j] \in P
    <3>1. /\ u[w.assetIds[j]] = w.amounts[j] /\ \A a \in P \ {w.assetIds[j]} : u[a] = 0
          /\ GLU64(w.assetIds[j]) = aid
      BY <2>1, <2>2 DEF Aliases
    <3>2. u[w.assetIds[j]] \in Int
      BY <2>1, <3>1
    <3> HIDE DEF P
    <3>3. SumFunctionOnSet(u, P) = u[w.assetIds[j]]
      BY <1>1, <2>2, <3>1, <3>2, SumSingle
    <3> QED
      BY <2>1, <3>1, <3>2, <3>3
  <2>3. CASE w.assetIds[j] \notin P
    <3>1. (\A a \in P : u[a] = 0) /\ E[j] = 0
      BY <2>1, <2>3 DEF Aliases
    <3> HIDE DEF P
    <3>2. SumFunctionOnSet(u, P) = 0
      BY <1>1, <3>1, SumZero
    <3> QED
      BY <2>1, <3>1, <3>2
  <2> QED
    BY <2>2, <2>3
<1>6. SumFunctionOnSet(byLine, D) = SumFunctionOnSet(E, D)
  <2> HIDE DEF byLine, E, D
  <2> QED
    BY <1>1, <1>5, SumCongruence
<1>7. LineTotal(e, aid) = SumFunctionOnSet(E, D)
  <2>1. [j \in DOMAIN e.assetIds |-> IF e.assetIds[j] = aid THEN e.amounts[j] ELSE 0] = E
    OBVIOUS
  <2> HIDE DEF E
  <2> QED
    BY <2>1 DEF LineTotal, SumFunction
<1> QED
  BY <1>3, <1>4, <1>6, <1>7

\* A proven batch queues, of each asset, what it takes from accounts under that asset's aliases.
LEMMA QueuedIsWithdrawn ==
    ASSUME NEW p, p.body \in BridgeBodies, NEW aid
    PROVE  Owed(WithdrawalEntries(p), aid)
             = SumFunctionOnSet([a \in Aliases(aid) |-> WithdrawnFromAccounts(p.body, a)], Aliases(aid))
<1> DEFINE R == Real(p.body.withdraws)
           P == Aliases(aid)
           W == WithdrawalEntries(p)
           m == [s \in R |-> [pi |-> p, slot |-> s,
                              recipient |-> p.body.withdraws[s].recipient,
                              assetIds |-> [j \in DOMAIN p.body.withdraws[s].assetIds |->
                                               GLU64(p.body.withdraws[s].assetIds[j])],
                              amounts |-> p.body.withdraws[s].amounts]]
           f == [e \in W |-> LineTotal(e, aid)]
           h == [s \in R |-> [a \in P |-> LineTotal(p.body.withdraws[s], a)]]
           bySlot == [s \in R |-> SumFunctionOnSet([a \in P |-> h[s][a]], P)]
           byAsset == [a \in P |-> SumFunctionOnSet([s \in R |-> h[s][a]], R)]
<1>1. IsFiniteSet(P) /\ IsFiniteSet(R)
  BY AliasesFinite, BodyAssumption
<1>2. W = {m[s] : s \in R}
  BY DEF WithdrawalEntries
<1>3. \A s, t \in R : m[s] = m[t] => s = t
  <2>1. \A s \in R : m[s].slot = s
    OBVIOUS
  <2> HIDE DEF m
  <2> QED
    BY <2>1
<1>4. \A s \in R, a \in P : h[s][a] \in Int
  <2>1. ASSUME NEW s \in R, NEW a \in P PROVE LineTotal(p.body.withdraws[s], a) \in Int
    <3>1. LineTotal(p.body.withdraws[s], a) \in Nat
      BY BatchTotalsNat
    <3> QED
      BY <3>1
  <2> HIDE DEF R, P
  <2> QED
    BY <2>1
<1>5. ASSUME NEW s \in R PROVE f[m[s]] = bySlot[s] /\ f[m[s]] \in Int
  <2>1. /\ m[s].assetIds = [j \in DOMAIN p.body.withdraws[s].assetIds |->
                               GLU64(p.body.withdraws[s].assetIds[j])]
        /\ m[s].amounts = p.body.withdraws[s].amounts
    OBVIOUS
  <2>2. m[s] \in W /\ f[m[s]] = LineTotal(m[s], aid)
    <3>1. m[s] \in W
      BY <1>2
    <3> HIDE DEF m
    <3> QED
      BY <3>1
  <2>3. bySlot[s] = SumFunctionOnSet([a \in P |-> LineTotal(p.body.withdraws[s], a)], P)
    <3>1. [a \in P |-> h[s][a]] = [a \in P |-> LineTotal(p.body.withdraws[s], a)]
      OBVIOUS
    <3> QED
      BY <3>1
  <2> DEFINE w == p.body.withdraws[s]
  <2>4. IsFiniteSet(DOMAIN w.assetIds) /\
        \A j \in DOMAIN w.assetIds : /\ w.amounts[j] \in Nat
                                     /\ w.amounts[j] # 0 => w.assetIds[j] \in AssetIds
    BY BodyAssumption
  <2>5. LineTotal(m[s], aid) \in Int
    <3> HIDE DEF m, f
    <3> QED
      BY <2>2, EntryTotalNat
  <2> HIDE DEF m, f, bySlot, w
  <2>6. LineTotal(m[s], aid) = SumFunctionOnSet([a \in P |-> LineTotal(w, a)], P)
    BY <2>1, <2>4, LinesTruncated DEF w
  <2> QED
    BY <2>2, <2>3, <2>5, <2>6 DEF w
<1>6. Owed(W, aid) = SumFunctionOnSet(f, W)
  BY DEF Owed, SumFunction
<1>7. SumFunctionOnSet(f, W) = SumFunctionOnSet([s \in R |-> f[m[s]]], R)
  <2> HIDE DEF W, m, f, R, bySlot
  <2> QED
    BY <1>1, <1>2, <1>3, <1>5, SumReindex
<1>8. [s \in R |-> f[m[s]]] = bySlot
  <2> HIDE DEF m, f
  <2> QED
    BY <1>5
<1>9. SumFunctionOnSet(bySlot, R) = SumFunctionOnSet(byAsset, P)
  <2> HIDE DEF h, P, R
  <2> QED
    BY <1>1, <1>4, SumSwap
<1>10. byAsset = [a \in P |-> WithdrawnFromAccounts(p.body, a)]
  <2>1. ASSUME NEW a \in P
        PROVE  SumFunctionOnSet([s \in R |-> h[s][a]], R) = WithdrawnFromAccounts(p.body, a)
    <3>1. [s \in R |-> h[s][a]] = [s \in R |-> LineTotal(p.body.withdraws[s], a)]
      OBVIOUS
    <3> QED
      BY <3>1 DEF WithdrawnFromAccounts, SumFunction
  <2> QED
    BY <2>1
<1> QED
  BY <1>6, <1>7, <1>8, <1>9, <1>10

-----------------------------------------------------------------------------
(* Deposits: what a proven batch credits is what the deposits it validates   *)
(* were recorded with.                                                       *)

\* What a batch credits to the aliases of aid, slot by slot.
SlotCredits(b, aid) ==
    [s \in Real(b.deposits) |-> IF GLU64(b.deposits[s].assetId) = aid
                                THEN b.deposits[s].amount ELSE 0]

\* Summed over the aliases of aid, the credits are those of the slots that name one.
LEMMA CreditsGrouped ==
    ASSUME NEW b \in BridgeBodies, NEW aid
    PROVE  SumFunctionOnSet([a \in Aliases(aid) |-> CreditedToAccounts(b, a)], Aliases(aid))
             = SumFunctionOnSet(SlotCredits(b, aid), Real(b.deposits))
<1> DEFINE R == Real(b.deposits)
           P == Aliases(aid)
           h == [s \in R |-> [a \in P |-> IF b.deposits[s].assetId = a
                                          THEN b.deposits[s].amount ELSE 0]]
           bySlot == [s \in R |-> SumFunctionOnSet([a \in P |-> h[s][a]], P)]
           byAsset == [a \in P |-> SumFunctionOnSet([s \in R |-> h[s][a]], R)]
           E == SlotCredits(b, aid)
<1>1. IsFiniteSet(P) /\ IsFiniteSet(R)
  BY AliasesFinite, BodyAssumption
<1>2. \A s \in R : b.deposits[s].amount \in Nat /\ b.deposits[s].assetId \in AssetIds
  BY BodyAssumption
<1>3. \A s \in R, a \in P : h[s][a] \in Int
  BY <1>2
<1>4. SumFunctionOnSet(bySlot, R) = SumFunctionOnSet(byAsset, P)
  <2> HIDE DEF h, P, R
  <2> QED
    BY <1>1, <1>3, SumSwap
<1>5. byAsset = [a \in P |-> CreditedToAccounts(b, a)]
  <2>1. ASSUME NEW a \in P
        PROVE  SumFunctionOnSet([s \in R |-> h[s][a]], R) = CreditedToAccounts(b, a)
    <3>1. [s \in R |-> h[s][a]] = [s \in R |-> IF b.deposits[s].assetId = a
                                               THEN b.deposits[s].amount ELSE 0]
      OBVIOUS
    <3> QED
      BY <3>1 DEF CreditedToAccounts, SumFunction
  <2> QED
    BY <2>1
<1>6. ASSUME NEW s \in R PROVE bySlot[s] = E[s] /\ bySlot[s] \in Int
  <2> DEFINE u == [a \in P |-> h[s][a]]
             k == b.deposits[s].assetId
  <2>1. /\ \A a \in P : u[a] = IF k = a THEN b.deposits[s].amount ELSE 0
        /\ bySlot[s] = SumFunctionOnSet(u, P)
        /\ E[s] = IF k \in P THEN b.deposits[s].amount ELSE 0
    BY <1>2 DEF SlotCredits, Aliases
  <2>2. b.deposits[s].amount \in Nat
    BY <1>2
  <2> HIDE DEF u, k, P, bySlot, E
  <2>3. CASE k \in P
    <3>1. u[k] = b.deposits[s].amount /\ u[k] \in Int /\ \A a \in P \ {k} : u[a] = 0
      BY <2>1, <2>2, <2>3
    <3>2. SumFunctionOnSet(u, P) = u[k]
      BY <1>1, <2>3, <3>1, SumSingle
    <3> QED
      BY <2>1, <2>3, <3>1, <3>2
  <2>4. CASE k \notin P
    <3>1. \A a \in P : u[a] = 0
      BY <2>1, <2>4
    <3>2. SumFunctionOnSet(u, P) = 0
      BY <1>1, <3>1, SumZero
    <3> QED
      BY <2>1, <2>4, <3>2
  <2> QED
    BY <2>3, <2>4
<1>7. SumFunctionOnSet(bySlot, R) = SumFunctionOnSet(E, R)
  <2> HIDE DEF bySlot, E, R
  <2> QED
    BY <1>1, <1>6, SumCongruence
<1> QED
  BY <1>4, <1>5, <1>7

\* What each note adds to PendingValue(aid).
Parts(aid) ==
    [n \in NoteComms |-> IF deposits[n].status = "Pending" /\ deposits[n].assetId = aid
                         THEN deposits[n].value ELSE 0]

\* PendingValue is the sum of natural parts.
PendingIsSum ==
    \A aid \in AssetIds : /\ \A n \in NoteComms : Parts(aid)[n] \in Nat
                          /\ PendingValue(aid) = SumFunctionOnSet(Parts(aid), NoteComms)
                          /\ PendingValue(aid) \in Nat

\* Typed deposits have natural parts.
LEMMA PendingParts == TypeOK => PendingIsSum
<1> SUFFICES ASSUME TypeOK, NEW aid \in AssetIds
             PROVE  /\ \A n \in NoteComms : Parts(aid)[n] \in Nat
                    /\ PendingValue(aid) = SumFunctionOnSet(Parts(aid), NoteComms)
                    /\ PendingValue(aid) \in Nat
  BY DEF PendingIsSum
<1>1. \A n \in NoteComms : Parts(aid)[n] \in Nat
  <2>1. \A n \in NoteComms : deposits[n].value \in Nat
    BY DEF TypeOK, DepositRecords
  <2> QED
    BY <2>1 DEF Parts
<1>2. PendingValue(aid) = SumFunctionOnSet(Parts(aid), NoteComms)
  BY DEF PendingValue, SumFunction, Parts
<1> QED
  BY <1>1, <1>2, FiniteAssumption, SumNat

\* A step that writes one deposit changes PendingValue by the change of its part.
LEMMA OneDepositMoves ==
    ASSUME TypeOK, TypeOK', NEW n \in NoteComms,
           \A k \in NoteComms : k # n => deposits'[k] = deposits[k], NEW aid \in AssetIds
    PROVE  PendingValue(aid)' + Parts(aid)[n] = PendingValue(aid) + Parts(aid)'[n]
<1> DEFINE f == Parts(aid)
           g == Parts(aid)'
           T == NoteComms \ {n}
<1>0. PendingIsSum /\ PendingIsSum'
  BY PendingParts, PTL
<1>1. /\ \A k \in NoteComms : f[k] \in Nat /\ g[k] \in Nat
      /\ PendingValue(aid) = SumFunctionOnSet(f, NoteComms)
      /\ PendingValue(aid)' = SumFunctionOnSet(g, NoteComms)
  BY <1>0 DEF PendingIsSum
<1>2. \A k \in T : f[k] = g[k]
  BY DEF Parts
<1> HIDE DEF f, g
<1>3. IsFiniteSet(T) /\ IsFiniteSet(NoteComms)
  BY FiniteAssumption, FS_Subset
<1>4. SumFunctionOnSet(f, T) = SumFunctionOnSet(g, T) /\ SumFunctionOnSet(f, T) \in Nat
  BY <1>1, <1>2, <1>3, SumCongruence, SumNat
<1>5. /\ SumFunctionOnSet(f, NoteComms) = f[n] + SumFunctionOnSet(f, T)
      /\ SumFunctionOnSet(g, NoteComms) = g[n] + SumFunctionOnSet(g, T)
  BY <1>1, <1>3, SumRemove
<1>6. (g[n] + SumFunctionOnSet(g, T)) + f[n] = (f[n] + SumFunctionOnSet(f, T)) + g[n]
  BY <1>1, <1>4
<1> QED
  BY <1>1, <1>5, <1>6 DEF f, g

\* The parts of the deposits a proven batch validates are what its slots credit, and go.
LEMMA ValidatedParts ==
    ASSUME TypeOK, TypeOK', NEW p \in pendingBridgeTxBatches, ProveBridgeTxBatch(p),
           NEW aid \in AssetIds
    PROVE  PendingValue(aid)
             = PendingValue(aid)' + SumFunctionOnSet(SlotCredits(p.body, aid), Real(p.body.deposits))
<1> DEFINE b == p.body
           R == Real(b.deposits)
           N == DepositNotes(b)
           f == Parts(aid)
           g == Parts(aid)'
           m == [s \in R |-> b.deposits[s].noteComm]
<1>1. b \in BridgeBodies /\ N \subseteq NoteComms /\ IsFiniteSet(R)
  BY NoteAssumption, BodyAssumption DEF TypeOK, BridgePreimages
<1>2. PendingIsSum /\ PendingIsSum'
  BY PendingParts, PTL
<1>3. /\ \A k \in NoteComms : f[k] \in Nat /\ g[k] \in Nat
      /\ PendingValue(aid) = SumFunctionOnSet(f, NoteComms)
      /\ PendingValue(aid)' = SumFunctionOnSet(g, NoteComms)
  BY <1>2 DEF PendingIsSum
<1>4. /\ \A n \in N : deposits[n].status = "Pending"
      /\ \A s \in R : SlotMatchesDeposit(b.deposits[s])
      /\ deposits' = [n \in NoteComms |-> IF n \in N THEN [deposits[n] EXCEPT !.status = "Validated"]
                                          ELSE deposits[n]]
  BY DEF ProveBridgeTxBatch, DepositsPending
<1>5. /\ \A k \in N : g[k] = 0
      /\ \A k \in NoteComms \ N : g[k] = f[k]
  <2>1. \A k \in N : deposits'[k].status = "Validated"
    BY <1>1, <1>4 DEF TypeOK, DepositRecords
  <2>2. \A k \in NoteComms \ N : deposits'[k] = deposits[k]
    BY <1>4
  <2> QED
    BY <1>1, <2>1, <2>2 DEF Parts
<1>6. ASSUME NEW s \in R PROVE m[s] \in N /\ f[m[s]] = SlotCredits(b, aid)[s]
  <2>1. b.deposits[s].noteComm \in N
    BY SlotNote
  <2> QED
    BY <1>1, <1>4, <2>1 DEF Parts, SlotCredits, SlotMatchesDeposit
<1>7. N = {m[s] : s \in R}
  BY DEF DepositNotes
<1>8. \A s, t \in R : m[s] = m[t] => s = t
  BY <1>1, SlotAssumption
<1>9. [s \in R |-> f[m[s]]] = SlotCredits(b, aid)
  BY <1>6 DEF SlotCredits
<1> HIDE DEF b, R, N, f, g, m
<1>10. IsFiniteSet(N) /\ IsFiniteSet(NoteComms \ N) /\ IsFiniteSet(NoteComms)
  BY <1>1, FiniteAssumption, FS_Subset
<1>11. SumFunctionOnSet(f, N) = SumFunctionOnSet(SlotCredits(b, aid), R)
  <2>1. \A s \in R : f[m[s]] \in Int
    BY <1>1, <1>3, <1>6
  <2>2. SumFunctionOnSet(f, N) = SumFunctionOnSet([s \in R |-> f[m[s]]], R)
    BY <1>1, <1>7, <1>8, <2>1, SumReindex
  <2> QED
    BY <1>9, <2>2
<1>12. SumFunctionOnSet(g, N) = 0
  BY <1>5, <1>10, SumZero
<1>13. SumFunctionOnSet(g, NoteComms \ N) = SumFunctionOnSet(f, NoteComms \ N)
  <2>1. \A k \in NoteComms \ N : g[k] = f[k] /\ g[k] \in Int
    BY <1>3, <1>5
  <2> QED
    BY <1>10, <2>1, SumCongruence
<1>14. /\ SumFunctionOnSet(f, NoteComms)
            = SumFunctionOnSet(f, NoteComms \ N) + SumFunctionOnSet(f, N)
       /\ SumFunctionOnSet(g, NoteComms)
            = SumFunctionOnSet(g, NoteComms \ N) + SumFunctionOnSet(g, N)
  <2>1. (NoteComms \ N) \cup N = NoteComms /\ (NoteComms \ N) \cap N = {}
    BY <1>1
  <2>2. \A k \in NoteComms : f[k] \in Int /\ g[k] \in Int
    BY <1>3
  <2> QED
    BY <1>10, <2>1, <2>2, SumUnion
<1>15. SumFunctionOnSet(f, NoteComms \ N) \in Nat /\ SumFunctionOnSet(f, N) \in Nat
  BY <1>1, <1>3, <1>10, SumNat
<1> QED
  BY <1>3, <1>11, <1>12, <1>13, <1>14, <1>15 DEF b, R

-----------------------------------------------------------------------------
(* Accounts *)

\* ShieldedAs is the sum of what the aliases of aid hold.
ShieldedIsSum ==
    \A aid \in AssetIds : /\ ShieldedAs(aid) = SumFunctionOnSet(shielded, Aliases(aid))
                          /\ ShieldedAs(aid) \in Nat

\* Typed accounts make it one.
LEMMA ShieldedShares == TypeOK => ShieldedIsSum
<1> SUFFICES ASSUME TypeOK, NEW aid \in AssetIds
             PROVE  /\ ShieldedAs(aid) = SumFunctionOnSet(shielded, Aliases(aid))
                    /\ ShieldedAs(aid) \in Nat
  BY DEF ShieldedIsSum
<1> DEFINE P == Aliases(aid)
           F == [a \in AssetIds |-> IF GLU64(a) = aid THEN shielded[a] ELSE 0]
<1>1. /\ P \subseteq AssetIds /\ \A a \in P : shielded[a] \in Nat
      /\ \A a \in AssetIds : F[a] = IF a \in P THEN shielded[a] ELSE 0
  BY DEF TypeOK, Aliases
<1>2. ShieldedAs(aid) = SumFunctionOnSet(F, AssetIds)
  BY DEF ShieldedAs, SumFunction
<1>3. IsFiniteSet(P) /\ IsFiniteSet(AssetIds)
  BY AliasesFinite, FiniteAssumption
<1> HIDE DEF P, F
<1>4. SumFunctionOnSet(F, AssetIds) = SumFunctionOnSet(shielded, P)
  BY <1>1, <1>3, SumSelect
<1>5. SumFunctionOnSet(shielded, P) \in Nat
  BY <1>1, <1>3, SumNat
<1> QED
  BY <1>2, <1>4, <1>5 DEF P

\* A proven batch moves account value by what it credits and what it takes.
LEMMA ShieldedMoves ==
    ASSUME TypeOK, TypeOK', NEW b \in BridgeBodies, NEW aid \in AssetIds,
           shielded' = [a \in AssetIds |-> shielded[a] - WithdrawnFromAccounts(b, a)
                                                       + CreditedToAccounts(b, a)]
    PROVE  ShieldedAs(aid)'
             + SumFunctionOnSet([a \in Aliases(aid) |-> WithdrawnFromAccounts(b, a)], Aliases(aid))
           = ShieldedAs(aid)
             + SumFunctionOnSet([a \in Aliases(aid) |-> CreditedToAccounts(b, a)], Aliases(aid))
<1> DEFINE P == Aliases(aid)
           W == [a \in P |-> WithdrawnFromAccounts(b, a)]
           C == [a \in P |-> CreditedToAccounts(b, a)]
           k == [a \in P |-> shielded[a] + CreditedToAccounts(b, a)]
           new == shielded'
<1>1. ShieldedIsSum /\ ShieldedIsSum'
  BY ShieldedShares, PTL
<1>2. /\ ShieldedAs(aid) = SumFunctionOnSet(shielded, P)
      /\ ShieldedAs(aid)' = SumFunctionOnSet(new, P)
  BY <1>1 DEF ShieldedIsSum, Aliases, GLU64
<1>3. ASSUME NEW a \in P
      PROVE  /\ shielded[a] \in Int /\ new[a] \in Int /\ W[a] \in Int /\ C[a] \in Int
             /\ k[a] = new[a] + W[a] /\ k[a] = shielded[a] + C[a]
  <2>1. /\ WithdrawnFromAccounts(b, a) \in Nat /\ CreditedToAccounts(b, a) \in Nat
        /\ shielded[a] \in Nat /\ a \in AssetIds
    BY BatchTotalsNat DEF TypeOK, Aliases
  <2>2. new[a] = shielded[a] - WithdrawnFromAccounts(b, a) + CreditedToAccounts(b, a)
    BY <2>1
  <2> HIDE DEF P, new
  <2> QED
    BY <2>1, <2>2
<1>4. IsFiniteSet(P)
  BY AliasesFinite
<1> HIDE DEF P, W, C, k, new
<1>5. SumFunctionOnSet(k, P) = SumFunctionOnSet(new, P) + SumFunctionOnSet(W, P)
  BY <1>3, <1>4, SumPlus
<1>6. SumFunctionOnSet(k, P) = SumFunctionOnSet(shielded, P) + SumFunctionOnSet(C, P)
  BY <1>3, <1>4, SumPlus
<1> QED
  BY <1>2, <1>5, <1>6 DEF P, W, C

-----------------------------------------------------------------------------
(* The queue *)

\* What Owed is when entries are counted one by one.
LEMMA OwedIsSum ==
    ASSUME NEW Q, NEW aid
    PROVE  Owed(Q, aid) = SumFunctionOnSet([e \in Q |-> LineTotal(e, aid)], Q)
BY DEF Owed, SumFunction

\* A batch proven for the first time adds its entries to the queue: nothing is merged.
LEMMA QueueGrows ==
    ASSUME TypeOK, BatchesApart, NEW p \in pendingBridgeTxBatches, NEW aid \in AssetIds
    PROVE  Owed(pendingWithdrawals \cup WithdrawalEntries(p), aid)
             = Owed(pendingWithdrawals, aid) + Owed(WithdrawalEntries(p), aid)
<1> DEFINE Q == pendingWithdrawals
           W == WithdrawalEntries(p)
           f == [e \in Q \cup W |-> LineTotal(e, aid)]
           fQ == [e \in Q |-> LineTotal(e, aid)]
           fW == [e \in W |-> LineTotal(e, aid)]
<1>1. p.body \in BridgeBodies /\ p \notin confirmedBridgeTxBatches
  BY DEF TypeOK, BridgePreimages, BatchesApart
<1>2. Q \cap W = {}
  <2>1. \A e \in W : e.pi = p
    BY DEF WithdrawalEntries
  <2>2. ASSUME NEW e \in Q PROVE e.pi \in confirmedBridgeTxBatches
    <3>1. PICK q \in confirmedBridgeTxBatches : e \in WithdrawalEntries(q)
      BY <2>2 DEF TypeOK
    <3>2. e.pi = q
      BY <3>1 DEF WithdrawalEntries
    <3> QED
      BY <3>1, <3>2
  <2> QED
    BY <1>1, <2>1, <2>2
<1>3. IsFiniteSet(Q) /\ IsFiniteSet(W)
  BY <1>1, EntriesFinite DEF TypeOK
<1>4. /\ \A e \in Q : LineTotal(e, aid) \in Nat
      /\ \A e \in W : LineTotal(e, aid) \in Nat
  BY <1>1, OwedNat, EntryTotalNat
<1>5. /\ Owed(Q \cup W, aid) = SumFunctionOnSet(f, Q \cup W)
      /\ Owed(Q, aid) = SumFunctionOnSet(fQ, Q)
      /\ Owed(W, aid) = SumFunctionOnSet(fW, W)
  BY OwedIsSum
<1>6. /\ \A e \in Q : f[e] = fQ[e] /\ f[e] \in Int
      /\ \A e \in W : f[e] = fW[e] /\ f[e] \in Int
  <2> HIDE DEF Q, W
  <2> QED
    BY <1>4
<1> HIDE DEF Q, W, f, fQ, fW
<1>7. SumFunctionOnSet(f, Q \cup W) = SumFunctionOnSet(f, Q) + SumFunctionOnSet(f, W)
  <2>1. \A e \in Q \cup W : f[e] \in Int
    BY <1>6
  <2> QED
    BY <1>2, <1>3, <2>1, SumUnion
<1>8. SumFunctionOnSet(f, Q) = SumFunctionOnSet(fQ, Q)
  BY <1>3, <1>6, SumCongruence
<1>9. SumFunctionOnSet(f, W) = SumFunctionOnSet(fW, W)
  BY <1>3, <1>6, SumCongruence
<1> QED
  BY <1>5, <1>7, <1>8, <1>9 DEF Q, W

\* The emptied queue owes nothing.
LEMMA NothingOwed == \A aid : Owed({}, aid) = 0
BY OwedIsSum, SumEmpty

-----------------------------------------------------------------------------
(* The registry *)

\* A token stands behind one asset id only.
OneAssetPerToken ==
    \A a, b \in AssetIds : assetMap[a] = assetMap[b] /\ assetMap[a] # ZeroAddress => a = b

\* A deposit is pending for a registered asset.
PendingRegistered ==
    \A n \in NoteComms : deposits[n].status = "Pending" =>
        deposits[n].assetId \in AssetIds /\ assetMap[deposits[n].assetId] # ZeroAddress

\* The contract holds nothing of a token that no asset id names.
UnlistedEmpty == \A t \in Tokens : (\A a \in AssetIds : assetMap[a] # t) => balance[t] = 0

\* The inductive invariant behind EscrowBacksClaims.
EscrowInv == OneAssetPerToken /\ PendingRegistered /\ UnlistedEmpty /\ EscrowBacksClaims

\* A flush pays, in each listed token, what the queue owes of its asset, and in no other token.
LEMMA PayoutIsOwed ==
    ASSUME TypeOK, OneAssetPerToken
    PROVE  /\ \A aid \in AssetIds : assetMap[aid] # ZeroAddress =>
                Payout(assetMap[aid]) = Owed(pendingWithdrawals, aid)
           /\ \A t \in Tokens : (\A a \in AssetIds : assetMap[a] # t) => Payout(t) = 0
<1> DEFINE F(t) == [a \in AssetIds |-> IF assetMap[a] = t THEN Owed(pendingWithdrawals, a) ELSE 0]
<1>1. \A t : Payout(t) = SumFunctionOnSet(F(t), AssetIds)
  BY DEF Payout, SumFunction
<1>2. \A a \in AssetIds : Owed(pendingWithdrawals, a) \in Nat
  BY OwedNat
<1>3. ASSUME NEW aid \in AssetIds, assetMap[aid] # ZeroAddress
      PROVE  Payout(assetMap[aid]) = Owed(pendingWithdrawals, aid)
  <2> DEFINE f == F(assetMap[aid])
  <2>1. /\ f[aid] = Owed(pendingWithdrawals, aid) /\ f[aid] \in Int
        /\ \A a \in AssetIds \ {aid} : f[a] = 0
    BY <1>2, <1>3 DEF OneAssetPerToken
  <2>2. Payout(assetMap[aid]) = SumFunctionOnSet(f, AssetIds)
    BY <1>1
  <2> HIDE DEF f
  <2>3. SumFunctionOnSet(f, AssetIds) = f[aid]
    BY <2>1, FiniteAssumption, SumSingle
  <2> QED
    BY <2>1, <2>2, <2>3
<1>4. ASSUME NEW t \in Tokens, \A a \in AssetIds : assetMap[a] # t PROVE Payout(t) = 0
  <2> DEFINE f == F(t)
  <2>1. \A a \in AssetIds : f[a] = 0
    BY <1>4
  <2>2. Payout(t) = SumFunctionOnSet(f, AssetIds)
    BY <1>1
  <2> HIDE DEF f
  <2> QED
    BY <2>1, <2>2, FiniteAssumption, SumZero
<1> QED
  BY <1>3, <1>4

-----------------------------------------------------------------------------
(* Steps *)

\* Only these steps touch the asset registry, the deposits, the queue or any balance.
LEMMA OnlyValueStepsMove ==
    ASSUME [Next]_vars
    PROVE  \/ UNCHANGED <<assetMap, valueVars>>
           \/ \E sender \in Addresses, aid \in AssetIds, t \in Tokens : RegisterAsset(sender, aid, t)
           \/ \E n \in NoteComms, payer \in Addresses, aid \in AssetIds, m \in MaxAmounts, fee \in Fees :
                RegisterDeposit(n, payer, aid, m, fee)
           \/ \E sender \in Addresses, n \in NoteComms : WithdrawPendingDeposit(sender, n)
           \/ \E p \in pendingBridgeTxBatches : ProveBridgeTxBatch(p)
           \/ FlushPendingWithdrawals
<1> DEFINE Still == UNCHANGED <<assetMap, valueVars>>
<1>1. CASE UNCHANGED vars
  BY <1>1 DEF vars
<1>2. ASSUME NEW sender, NEW v, SetTxVerifier(sender, v) \/ SetBridgeTxVerifier(sender, v)
      PROVE  Still
  BY <1>2 DEF SetTxVerifier, SetBridgeTxVerifier
<1>3. ASSUME NEW sender, NEW x, \/ SetOperator(sender, x) \/ SetPaused(sender, x)
                                \/ SetWithdrawalDelay(sender, x)
      PROVE  Still
  BY <1>3 DEF SetOperator, SetPaused, SetWithdrawalDelay
<1>4. ASSUME NEW sender, NEW x, NEW y, AssignSubpoolOwner(sender, x, y)
                                       \/ UpdateSubpoolRoot(sender, x, y)
      PROVE  Still
  BY <1>4 DEF AssignSubpoolOwner, UpdateSubpoolRoot
<1>5. ASSUME NEW sender, NEW p, SubmitTransactionBatch(sender, p) \/ SubmitBridgeTxBatch(sender, p)
      PROVE  Still
  BY <1>5 DEF SubmitTransactionBatch, SubmitBridgeTxBatch
<1>6. ASSUME NEW p, ProveTransactionBatch(p) PROVE Still
  BY <1>6 DEF ProveTransactionBatch
<1>7. NextBlock => Still
  BY DEF NextBlock
<1>8. CASE Next
  BY <1>2, <1>3, <1>4, <1>5, <1>6, <1>7, <1>8 DEF Next, DepositAndRegister, DepositAndRegisterFor, Addresses
<1> QED
  BY <1>1, <1>8

\* A note contributes to its own asset's pending value only while it is pending.
LEMMA PartOf ==
    ASSUME NEW n \in NoteComms, NEW aid
    PROVE  Parts(aid)[n] = IF deposits[n].status = "Pending" /\ deposits[n].assetId = aid
                           THEN deposits[n].value ELSE 0
BY DEF Parts

\* The claims on asset aid.
Claims(aid) == PendingValue(aid) + ShieldedAs(aid) + Owed(pendingWithdrawals, aid)

\* Each claim is a natural number.
ClaimsTyped ==
    \A aid \in AssetIds : /\ PendingValue(aid) \in Nat /\ ShieldedAs(aid) \in Nat
                          /\ Owed(pendingWithdrawals, aid) \in Nat

\* They are, in every state of the right type.
LEMMA ClaimsNat == TypeOK => ClaimsTyped
BY PendingParts, ShieldedShares, OwedNat DEF ClaimsTyped, PendingIsSum, ShieldedIsSum

\* EscrowBacksClaims, without its LET.
LEMMA EscrowSays ==
    EscrowBacksClaims <=>
        \A aid \in AssetIds : IF assetMap[aid] = ZeroAddress THEN Claims(aid) = 0
                              ELSE balance[assetMap[aid]] = Claims(aid)
BY DEF EscrowBacksClaims, Claims

\* A new listing gives an asset without claims a token the contract holds nothing of.
LEMMA ListingKeepsEscrow ==
    ASSUME TypeOK, EscrowInv, NEW sender, NEW aid \in AssetIds, NEW t \in Tokens,
           RegisterAsset(sender, aid, t)
    PROVE  EscrowInv'
<1>1. /\ assetMap[aid] = ZeroAddress
      /\ \A a \in AssetIds : assetMap[a] # t
      /\ assetMap' = [assetMap EXCEPT ![aid] = t]
      /\ UNCHANGED <<pendingWithdrawals, deposits, balance, shielded>>
  BY DEF RegisterAsset, valueVars
<1>2. /\ assetMap'[aid] = t /\ t # ZeroAddress
      /\ \A a \in AssetIds : a # aid => assetMap'[a] = assetMap[a]
  BY <1>1, AddressAssumption DEF TypeOK
<1>3. OneAssetPerToken'
  BY <1>1, <1>2 DEF EscrowInv, OneAssetPerToken
<1>4. PendingRegistered'
  BY <1>1, <1>2 DEF EscrowInv, PendingRegistered
<1>5. UnlistedEmpty'
  BY <1>1, <1>2, AddressAssumption DEF EscrowInv, UnlistedEmpty
<1>6. \A a \in AssetIds : Claims(a)' = Claims(a)
  BY <1>1 DEF Claims, PendingValue, ShieldedAs, Owed, LineTotal, GLU64
<1>7. ASSUME NEW a \in AssetIds
      PROVE  IF assetMap'[a] = ZeroAddress THEN Claims(a)' = 0 ELSE balance'[assetMap'[a]] = Claims(a)'
  <2>1. IF assetMap[a] = ZeroAddress THEN Claims(a) = 0 ELSE balance[assetMap[a]] = Claims(a)
    BY EscrowSays DEF EscrowInv
  <2>2. balance[t] = 0
    BY <1>1 DEF EscrowInv, UnlistedEmpty
  <2> QED
    BY <1>1, <1>2, <1>6, <2>1, <2>2
<1>8. EscrowBacksClaims'
  BY <1>7 DEF EscrowBacksClaims, Claims
<1> QED
  BY <1>3, <1>4, <1>5, <1>8 DEF EscrowInv

\* A step that writes one deposit of asset aid, and its token's balance by the same amount.
LEMMA OneDepositKeepsEscrow ==
    ASSUME TypeOK, TypeOK', EscrowInv, NEW n \in NoteComms, NEW aid \in AssetIds,
           assetMap[aid] # ZeroAddress,
           UNCHANGED <<assetMap, pendingWithdrawals, shielded>>,
           \A k \in NoteComms : k # n => deposits'[k] = deposits[k],
           \A a \in AssetIds : a # aid => Parts(a)'[n] = Parts(a)[n],
           \A t \in Tokens : t # assetMap[aid] => balance'[t] = balance[t],
           balance'[assetMap[aid]] + Parts(aid)[n] = balance[assetMap[aid]] + Parts(aid)'[n],
           deposits'[n].status = "Pending" => deposits'[n].assetId = aid
    PROVE  EscrowInv'
<1>0. /\ \A a \in AssetIds : assetMap[a] \in Tokens \cup {ZeroAddress}
      /\ \A t \in Tokens : balance[t] \in Nat /\ balance'[t] \in Nat
      /\ ClaimsTyped /\ ClaimsTyped' /\ PendingIsSum /\ PendingIsSum'
  <2>1. ClaimsTyped /\ ClaimsTyped' /\ PendingIsSum /\ PendingIsSum'
    BY ClaimsNat, PendingParts, PTL
  <2> QED
    BY <2>1 DEF TypeOK
<1>1. OneAssetPerToken'
  BY DEF EscrowInv, OneAssetPerToken
<1>2. PendingRegistered'
  BY DEF EscrowInv, PendingRegistered
<1>3. UnlistedEmpty'
  BY DEF EscrowInv, UnlistedEmpty
<1>4. ASSUME NEW a \in AssetIds
      PROVE  IF assetMap'[a] = ZeroAddress THEN Claims(a)' = 0 ELSE balance'[assetMap'[a]] = Claims(a)'
  <2>1. IF assetMap[a] = ZeroAddress THEN Claims(a) = 0 ELSE balance[assetMap[a]] = Claims(a)
    BY EscrowSays DEF EscrowInv
  <2>2. PendingValue(a)' + Parts(a)[n] = PendingValue(a) + Parts(a)'[n]
    BY OneDepositMoves
  <2>3. /\ PendingValue(a) \in Nat /\ PendingValue(a)' \in Nat
        /\ Parts(a)[n] \in Nat /\ Parts(a)'[n] \in Nat
        /\ ShieldedAs(a) \in Nat /\ Owed(pendingWithdrawals, a) \in Nat
    BY <1>0 DEF ClaimsTyped, PendingIsSum
  <2>4. ShieldedAs(a)' = ShieldedAs(a) /\ Owed(pendingWithdrawals, a)' = Owed(pendingWithdrawals, a)
    BY DEF ShieldedAs, Owed, LineTotal, GLU64
  <2>5. CASE a = aid
    <3> DEFINE old == balance[assetMap[aid]]
               new == balance'[assetMap[aid]]
    <3>1. old \in Nat /\ new \in Nat
      BY <1>0
    <3>2. old = PendingValue(a) + ShieldedAs(a) + Owed(pendingWithdrawals, a)
      BY <2>1, <2>5 DEF Claims
    <3>3. new + Parts(a)[n] = old + Parts(a)'[n]
      BY <2>5
    <3> HIDE DEF old, new
    <3>4. new = PendingValue(a)' + ShieldedAs(a) + Owed(pendingWithdrawals, a)
      BY <2>2, <2>3, <3>1, <3>2, <3>3
    <3>5. new = Claims(a)'
      BY <2>4, <3>4 DEF Claims
    <3> QED
      BY <2>5, <3>5 DEF new
  <2>6. CASE a # aid
    <3>1. Claims(a)' = Claims(a)
      BY <2>2, <2>3, <2>4, <2>6 DEF Claims
    <3>2. assetMap[a] # ZeroAddress => balance'[assetMap[a]] = balance[assetMap[a]]
      BY <1>0, <2>6 DEF EscrowInv, OneAssetPerToken
    <3> QED
      BY <2>1, <3>1, <3>2
  <2> QED
    BY <2>5, <2>6
<1>5. EscrowBacksClaims'
  BY <1>4 DEF EscrowBacksClaims, Claims
<1> QED
  BY <1>1, <1>2, <1>3, <1>5 DEF EscrowInv

\* A deposit raises the balance and the pending value by what the contract received.
LEMMA DepositKeepsEscrow ==
    ASSUME TypeOK, TypeOK', EscrowInv, NEW n \in NoteComms, NEW payer, NEW aid \in AssetIds,
           NEW m \in MaxAmounts, NEW fee \in Fees, RegisterDeposit(n, payer, aid, m, fee)
    PROVE  EscrowInv'
<1> DEFINE token == assetMap[aid]
<1>1. /\ deposits[n].status = "None"
      /\ token # ZeroAddress
      /\ balance' = [balance EXCEPT ![token] = @ + (m - fee)]
      /\ deposits' = [deposits EXCEPT ![n] =
                         [value |-> m - fee, recipient |-> payer, status |-> "Pending",
                          depositBlock |-> blockNumber, assetId |-> aid]]
      /\ UNCHANGED <<assetMap, pendingWithdrawals, shielded>>
  BY DEF RegisterDeposit
<1>2. token \in Tokens /\ balance[token] \in Nat /\ m - fee \in Int
  BY <1>1, AmountAssumption DEF TypeOK
<1>3. /\ \A k \in NoteComms : k # n => deposits'[k] = deposits[k]
      /\ deposits'[n].status = "Pending" /\ deposits'[n].assetId = aid
      /\ deposits'[n].value = m - fee
  BY <1>1 DEF TypeOK
<1>4. /\ \A t \in Tokens : t # token => balance'[t] = balance[t]
      /\ balance'[token] = balance[token] + (m - fee)
  BY <1>1, <1>2 DEF TypeOK
<1>5. /\ \A a \in AssetIds : Parts(a)[n] = 0
      /\ \A a \in AssetIds : a # aid => Parts(a)'[n] = 0
      /\ Parts(aid)'[n] = m - fee
  BY <1>1, <1>3 DEF Parts
<1>6. balance'[token] + Parts(aid)[n] = balance[token] + Parts(aid)'[n]
  BY <1>2, <1>4, <1>5
<1>7. \A a \in AssetIds : a # aid => Parts(a)'[n] = Parts(a)[n]
  BY <1>5
<1> QED
  BY <1>1, <1>3, <1>4, <1>6, <1>7, OneDepositKeepsEscrow

\* Taking a pending deposit back lowers both by its recorded value.
LEMMA RefundKeepsEscrow ==
    ASSUME TypeOK, TypeOK', EscrowInv, NEW sender, NEW n \in NoteComms,
           WithdrawPendingDeposit(sender, n)
    PROVE  EscrowInv'
<1>0. PICK aid \in AssetIds : aid = deposits[n].assetId /\ assetMap[aid] # ZeroAddress
  BY DEF WithdrawPendingDeposit, EscrowInv, PendingRegistered
<1> DEFINE token == assetMap[aid]
<1>1. /\ deposits[n].status = "Pending"
      /\ deposits' = [deposits EXCEPT ![n].status = "Withdrawn"]
      /\ balance' = [balance EXCEPT ![token] = @ - deposits[n].value]
      /\ UNCHANGED <<assetMap, pendingWithdrawals, shielded>>
  BY <1>0 DEF WithdrawPendingDeposit
<1>2. token \in Tokens
  BY <1>0 DEF TypeOK
<1>3. balance[token] \in Nat /\ deposits[n].value \in Nat
  BY <1>2 DEF TypeOK, DepositRecords
<1>4. /\ \A k \in NoteComms : k # n => deposits'[k] = deposits[k]
      /\ deposits'[n].status = "Withdrawn"
  BY <1>1 DEF TypeOK, DepositRecords
<1>5. /\ \A t \in Tokens : t # token => balance'[t] = balance[t]
      /\ balance'[token] = balance[token] - deposits[n].value
  BY <1>1, <1>2 DEF TypeOK
<1>6. /\ \A a \in AssetIds : Parts(a)'[n] = 0
      /\ \A a \in AssetIds : a # aid => Parts(a)[n] = 0
      /\ Parts(aid)[n] = deposits[n].value
  BY <1>0, <1>1, <1>4 DEF Parts
<1>7. balance'[token] + Parts(aid)[n] = balance[token] + Parts(aid)'[n]
  BY <1>2, <1>3, <1>5, <1>6
<1>8. \A a \in AssetIds : a # aid => Parts(a)'[n] = Parts(a)[n]
  BY <1>6
<1> QED
  BY <1>0, <1>1, <1>4, <1>5, <1>7, <1>8, OneDepositKeepsEscrow

\* Proving a bridge batch moves claims between deposits, accounts and the queue; the sum stays.
LEMMA ProvingKeepsEscrow ==
    ASSUME TypeOK, TypeOK', BatchesApart, EscrowInv, NEW p \in pendingBridgeTxBatches,
           ProveBridgeTxBatch(p)
    PROVE  EscrowInv'
<1> DEFINE W(a) == SumFunctionOnSet([x \in Aliases(a) |-> WithdrawnFromAccounts(p.body, x)], Aliases(a))
           C(a) == SumFunctionOnSet([x \in Aliases(a) |-> CreditedToAccounts(p.body, x)], Aliases(a))
<1>1. /\ pendingWithdrawals' = pendingWithdrawals \cup WithdrawalEntries(p)
      /\ deposits' = [n \in NoteComms |-> IF n \in DepositNotes(p.body)
                                          THEN [deposits[n] EXCEPT !.status = "Validated"]
                                          ELSE deposits[n]]
      /\ shielded' = [a \in AssetIds |-> shielded[a] - WithdrawnFromAccounts(p.body, a)
                                                     + CreditedToAccounts(p.body, a)]
      /\ UNCHANGED <<assetMap, balance>>
      /\ p.body \in BridgeBodies
  BY DEF ProveBridgeTxBatch, TypeOK, BridgePreimages
<1>2. ClaimsTyped /\ ClaimsTyped'
  BY ClaimsNat, PTL
<1>3. OneAssetPerToken' /\ UnlistedEmpty'
  BY <1>1 DEF EscrowInv, OneAssetPerToken, UnlistedEmpty
<1>4. PendingRegistered'
  <2>1. ASSUME NEW n \in NoteComms, deposits'[n].status = "Pending" PROVE deposits'[n] = deposits[n]
    BY <1>1, <2>1 DEF TypeOK, DepositRecords
  <2> QED
    BY <1>1, <2>1 DEF EscrowInv, PendingRegistered
<1>5. ASSUME NEW a \in AssetIds PROVE Claims(a)' = Claims(a)
  <2>1. C(a) = SumFunctionOnSet(SlotCredits(p.body, a), Real(p.body.deposits))
    BY <1>1, CreditsGrouped
  <2>2. PendingValue(a) = PendingValue(a)' + C(a)
    BY <2>1, ValidatedParts
  <2>3. ShieldedAs(a)' + W(a) = ShieldedAs(a) + C(a)
    BY <1>1, ShieldedMoves
  <2>4. Owed(pendingWithdrawals, a)' = Owed(pendingWithdrawals, a) + W(a)
    <3>1. Owed(WithdrawalEntries(p), a) = W(a)
      BY <1>1, QueuedIsWithdrawn
    <3>2. Owed(pendingWithdrawals, a)' = Owed(pendingWithdrawals \cup WithdrawalEntries(p), a)
      BY <1>1 DEF Owed, LineTotal
    <3> QED
      BY <3>1, <3>2, QueueGrows
  <2>5. W(a) \in Int /\ C(a) \in Int
    <3>1. /\ IsFiniteSet(Aliases(a))
          /\ \A x \in Aliases(a) : WithdrawnFromAccounts(p.body, x) \in Int
                                   /\ CreditedToAccounts(p.body, x) \in Int
      <4>1. \A x : WithdrawnFromAccounts(p.body, x) \in Nat /\ CreditedToAccounts(p.body, x) \in Nat
        BY <1>1, BatchTotalsNat
      <4> QED
        BY <4>1, AliasesFinite
    <3> QED
      BY <3>1, SumInt
  <2> HIDE DEF W, C
  <2> QED
    BY <1>2, <2>2, <2>3, <2>4, <2>5 DEF Claims, ClaimsTyped
<1>6. EscrowBacksClaims'
  <2>1. ASSUME NEW a \in AssetIds
        PROVE  IF assetMap'[a] = ZeroAddress THEN Claims(a)' = 0
               ELSE balance'[assetMap'[a]] = Claims(a)'
    BY <1>1, <1>5, EscrowSays DEF EscrowInv
  <2> QED
    BY <2>1 DEF EscrowBacksClaims, Claims
<1> QED
  BY <1>3, <1>4, <1>6 DEF EscrowInv

\* A flush pays what the queue owes and empties it.
LEMMA FlushKeepsEscrow ==
    ASSUME TypeOK, TypeOK', EscrowInv, FlushPendingWithdrawals
    PROVE  EscrowInv'
<1>1. /\ balance' = [t \in Tokens |-> balance[t] - Payout(t)]
      /\ pendingWithdrawals' = {}
      /\ UNCHANGED <<assetMap, deposits, shielded>>
  BY DEF FlushPendingWithdrawals
<1>2. ClaimsTyped
  BY ClaimsNat
<1>3. OneAssetPerToken' /\ PendingRegistered'
  BY <1>1 DEF EscrowInv, OneAssetPerToken, PendingRegistered
<1>4. UnlistedEmpty'
  BY <1>1, PayoutIsOwed DEF EscrowInv, UnlistedEmpty
<1>5. ASSUME NEW a \in AssetIds
      PROVE  IF assetMap'[a] = ZeroAddress THEN Claims(a)' = 0 ELSE balance'[assetMap'[a]] = Claims(a)'
  <2>1. IF assetMap[a] = ZeroAddress THEN Claims(a) = 0 ELSE balance[assetMap[a]] = Claims(a)
    BY EscrowSays DEF EscrowInv
  <2>2. Claims(a)' = PendingValue(a) + ShieldedAs(a) + 0
    <3>1. PendingValue(a)' = PendingValue(a) /\ ShieldedAs(a)' = ShieldedAs(a)
      BY <1>1 DEF PendingValue, ShieldedAs, GLU64
    <3>2. Owed(pendingWithdrawals, a)' = Owed({}, a)
      BY <1>1 DEF Owed, LineTotal
    <3> QED
      BY <3>1, <3>2, NothingOwed DEF Claims
  <2>3. PendingValue(a) \in Nat /\ ShieldedAs(a) \in Nat /\ Owed(pendingWithdrawals, a) \in Nat
    BY <1>2 DEF ClaimsTyped
  <2>4. CASE assetMap[a] = ZeroAddress
    BY <1>1, <2>1, <2>2, <2>3, <2>4 DEF Claims
  <2>5. CASE assetMap[a] # ZeroAddress
    <3>1. assetMap[a] \in Tokens /\ Payout(assetMap[a]) = Owed(pendingWithdrawals, a)
      BY <2>5, PayoutIsOwed DEF EscrowInv, TypeOK
    <3>2. balance'[assetMap[a]] = balance[assetMap[a]] - Owed(pendingWithdrawals, a)
      BY <1>1, <3>1
    <3>3. balance'[assetMap[a]] = Claims(a)'
      BY <2>1, <2>2, <2>3, <2>5, <3>2 DEF Claims
    <3> QED
      BY <1>1, <2>5, <3>3
  <2> QED
    BY <2>4, <2>5
<1>6. EscrowBacksClaims'
  BY <1>5 DEF EscrowBacksClaims, Claims
<1> QED
  BY <1>3, <1>4, <1>6 DEF EscrowInv

\* Every step keeps the escrow invariant.
LEMMA NextEscrow == TypeOK /\ TypeOK' /\ BatchesApart /\ EscrowInv /\ [Next]_vars => EscrowInv'
<1> SUFFICES ASSUME TypeOK, TypeOK', BatchesApart, EscrowInv, [Next]_vars PROVE EscrowInv'
  OBVIOUS
<1>1. CASE UNCHANGED <<assetMap, valueVars>>
  BY <1>1 DEF valueVars, EscrowInv, OneAssetPerToken, PendingRegistered, UnlistedEmpty,
     EscrowBacksClaims, PendingValue, ShieldedAs, Owed, LineTotal, GLU64
<1> QED
  BY <1>1, OnlyValueStepsMove, ListingKeepsEscrow, DepositKeepsEscrow, RefundKeepsEscrow,
     ProvingKeepsEscrow, FlushKeepsEscrow

\* The contract starts with nothing listed, held or owed.
LEMMA InitEscrow == Init => EscrowInv
<1> SUFFICES ASSUME Init PROVE EscrowInv
  OBVIOUS
<1>1. /\ \A a \in AssetIds : assetMap[a] = ZeroAddress /\ shielded[a] = 0
      /\ \A n \in NoteComms : deposits[n].status = "None"
      /\ \A t \in Tokens : balance[t] = 0
      /\ pendingWithdrawals = {}
  BY DEF Init, NoDeposit
<1>2. TypeOK
  BY InitTyped
<1>3. ASSUME NEW a \in AssetIds PROVE Claims(a) = 0
  <2>1. PendingValue(a) = 0
    <3>1. \A n \in NoteComms : Parts(a)[n] = 0
      BY <1>1 DEF Parts
    <3>2. PendingValue(a) = SumFunctionOnSet(Parts(a), NoteComms)
      BY <1>2, PendingParts DEF PendingIsSum
    <3> QED
      BY <3>1, <3>2, FiniteAssumption, SumZero
  <2>2. ShieldedAs(a) = 0
    <3>1. \A x \in Aliases(a) : shielded[x] = 0
      BY <1>1 DEF Aliases
    <3>2. ShieldedAs(a) = SumFunctionOnSet(shielded, Aliases(a))
      BY <1>2, ShieldedShares DEF ShieldedIsSum
    <3> QED
      BY <3>1, <3>2, AliasesFinite, SumZero
  <2> QED
    BY <1>1, <2>1, <2>2, NothingOwed DEF Claims
<1>4. EscrowBacksClaims
  BY <1>1, <1>3, EscrowSays
<1>5. OneAssetPerToken /\ PendingRegistered /\ UnlistedEmpty
  BY <1>1 DEF OneAssetPerToken, PendingRegistered, UnlistedEmpty
<1> QED
  BY <1>4, <1>5 DEF EscrowInv

\* The contract's token balance backs, exactly, the pending deposits, the value in accounts and
\* the queued withdrawals of its asset, also when ids share their low limb, tokens keep a fee,
\* and deposits, refunds, proofs, listings and flushes come in any order.
THEOREM EscrowBacked == Spec => []EscrowBacksClaims
<1>1. EscrowInv => EscrowBacksClaims
  BY DEF EscrowInv
<1> QED
  BY <1>1, InitEscrow, NextEscrow, TypeInvariant, Apart, PTL DEF Spec
=============================================================================

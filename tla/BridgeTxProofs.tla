---------------------------- MODULE BridgeTxProofs ----------------------------
(***************************************************************************)
(* Proofs about a client's deposits and withdrawals (BridgeTx), from what  *)
(* the circuits assert of a witness and what the contract checks of a      *)
(* proof: however many transactions are open, built from stale states and  *)
(* published in any order, one account state is unspent, tokens move only  *)
(* under the owner's signature over this very transaction, the escrow      *)
(* backs the account's balance and the pending deposits, and a circuit     *)
(* refuses what a builder made only for the reasons the model names.       *)
(***************************************************************************)
EXTENDS BridgeTx, AssetTreeProofs

-----------------------------------------------------------------------------
(* The client's accounts *)

\* An activated account of the client, with its keys.
Mine(a) ==
    /\ a.id = Me /\ a.subpool = Subpool /\ a.spend_pk = SpendSk
    /\ a.nonce \in Nat \ {0}
    /\ a.consume \in {DelegatedConsume, ConsumeKey(ConsumeSk)}
    /\ DOMAIN a = {"id", "subpool", "nonce", "spend_pk", "consume", "ast"}

\* The account a transaction leads to.
Follows(a, b) == Mine(b) /\ b.nonce = a.nonce + 1 /\ b.consume = a.consume

\* Leaves of the state tree.
OnTree(c) == \E i \in 1 .. Len(stateTree) : stateTree[i] = c

\* The nonce an account commitment commits to.
NonceOf(c) == c[5]

-----------------------------------------------------------------------------
(* The inductive invariant *)

\* The fields of a transaction under construction.
TxFields == {"stage", "kind", "accin", "note", "withdrawals", "eth", "accout", "hash",
             "accin_path", "approval_key", "spend_sig", "consume_sig", "approval_sig"}

\* A transaction under construction starts from an account the client has had; once built
\* it leads to that account's successor, and the path it carries is that of a leaf.
TxInv ==
    tx # NoTx =>
        /\ DOMAIN tx = TxFields
        /\ tx.stage \in {"builder", "built"} /\ tx.kind \in {"deposit", "withdraw"}
        /\ Mine(tx.accin)
        /\ tx.stage = "builder" => tx.accin_path = None
        /\ tx.accin_path # None => OnTree(Commitment(tx.accin))
        /\ tx.stage = "built" =>
            /\ Follows(tx.accin, tx.accout)
            /\ tx.kind = "withdraw" =>
                tx.accout = WithdrawnAccount(tx.accin, compute_withdrawal_slots(tx.accin, tx.withdrawals))

\* A proof spends an account state that is on the tree and makes its successor, signed as
\* its kind asks for.
Signed(p, a) ==
    IF p.kind = "withdraw"
    THEN SignedBy(p.spend_sig, SpendSk,
                  WithdrawTxHash(Nullifier(a), Commitment(p.accout), p.public.asset_ids,
                                 p.public.amounts, p.public.eth))
    ELSE a.consume.config =>
         SignedBy(p.consume_sig, a.consume.pk,
                  DepositTxHash(Nullifier(a), Commitment(p.accout), p.public.note_comm, p.public.eth))
Spends(p, a) ==
    /\ Mine(a) /\ OnTree(Commitment(a)) /\ Follows(a, p.accout)
    /\ p.public.accin_null = Nullifier(a) /\ p.public.accout_comm = Commitment(p.accout)
    /\ Signed(p, a)
ProofsInv == \A p \in proofs : \E a : Spends(p, a)

\* The states before the current one are spent, the current one is on the tree and is not.
LeafInv(c) == c[1] = "AC" => \/ c = Commitment(acc)
                             \/ NullifierOf(c, Me) \in nullifiers /\ NonceOf(c) \in 0 .. acc.nonce - 1
TreeInv ==
    /\ \A i \in 1 .. Len(stateTree) : LeafInv(stateTree[i])
    /\ \A n \in nullifiers : NonceOf(n[2]) \in 0 .. acc.nonce - 1
    /\ acc.nonce # 0 => Mine(acc) /\ OnTree(Commitment(acc))
    /\ acc.nonce = 0 => \A i \in 1 .. Len(stateTree) : stateTree[i][1] # "AC"

\* The invariant.
AccountInv == IsSeq(stateTree) /\ TxInv /\ ProofsInv /\ TreeInv


-----------------------------------------------------------------------------
(* Commitments and leaves *)

\* A commitment is to the nonce and the keys, so equal commitments are of equal ones.
LEMMA CommitmentParts ==
    ASSUME NEW a
    PROVE  /\ Commitment(a)[1] = "AC" /\ Commitment(a)[2] = a.id /\ NonceOf(Commitment(a)) = a.nonce
           /\ Commitment(a)[6] = pk_or_default(a.spend_pk) /\ Commitment(a)[7] = a.consume.config
           /\ Commitment(a)[8] = pk_or_default(a.consume.pk)
BY DEF Commitment, NonceOf

\* An account's nullifier is that of its commitment.
LEMMA NullifierParts ==
    ASSUME NEW a, a.id = Me
    PROVE  Nullifier(a) = NullifierOf(Commitment(a), Me) /\ Nullifier(a)[2] = Commitment(a)
BY DEF Nullifier, NullifierOf

\* What is on the tree stays there.
LEMMA TreeGrows ==
    ASSUME IsSeq(stateTree), NEW x, stateTree' = Append(stateTree, x), NEW c, OnTree(c)
    PROVE  OnTree(c)'
<1>1. PICK i \in 1 .. Len(stateTree) : stateTree[i] = c BY DEF OnTree
<1>2. /\ Len(stateTree') = Len(stateTree) + 1 /\ Len(stateTree) \in Nat /\ stateTree'[i] = stateTree[i]
  BY AppendKeeps
<1> QED BY <1>1, <1>2 DEF OnTree

-----------------------------------------------------------------------------
(* The slots of a withdrawal *)

\* The withdrawals a builder holds: at most one per slot.
Requests(ws) == ws \in Seq([asset : Nat, amount : Nat]) /\ Len(ws) <= NoteBatch

\* The equation the local function of compute_withdrawal_slots solves: the tree after each slot.
AstChain(g, t, ws) == g = [i \in 0..NoteBatch |-> IF i = 0 THEN t ELSE AfterSlot(g[i - 1], ws, i)]
AstAfter(t, ws) == CHOOSE g : AstChain(g, t, ws)

\* The slot computed over the tree t.
SlotAt(t, ws, i) == IF i \in DOMAIN ws THEN FilledSlot(t, ws[i]) ELSE PaddingSlot(t)

\* The equation has a solution.
LEMMA ChainExists ==
    ASSUME NEW t, NEW ws
    PROVE  /\ AstAfter(t, ws)[0] = t
           /\ \A i \in Slots : AstAfter(t, ws)[i] = AfterSlot(AstAfter(t, ws)[i - 1], ws, i)
<1> DEFINE Upto(F, k) == F = [i \in 0..k |-> IF i = 0 THEN t ELSE AfterSlot(F[i - 1], ws, i)]
           G == {k \in 0..NoteBatch : \E F : Upto(F, k)}
<1>0. NoteBatch \in Nat BY NoteBatchAssumption
<1>1. 0 \in G
  <2>1. Upto([i \in 0..0 |-> t], 0) OBVIOUS
  <2>2. 0 \in 0..NoteBatch BY <1>0
  <2> HIDE DEF Upto
  <2> QED BY <2>1, <2>2
<1>2. ASSUME NEW k \in 1..NoteBatch, k - 1 \in G PROVE k \in G
  <2>1. PICK F : Upto(F, k - 1) BY <1>2
  <2> DEFINE H == [i \in 0..k |-> IF i = k THEN AfterSlot(F[k - 1], ws, k) ELSE F[i]]
  <2>2. ASSUME NEW i \in 0..k PROVE H[i] = IF i = 0 THEN t ELSE AfterSlot(H[i - 1], ws, i)
    <3>1. CASE i = 0 BY <2>1, <3>1, <1>2
    <3>2. CASE i = k
      <4>1. k - 1 \in 0..k /\ k - 1 # k /\ k # 0 BY <1>2
      <4> QED BY <3>2, <4>1
    <3>3. CASE i # 0 /\ i # k
      <4>1. i \in 0..(k - 1) /\ i - 1 \in 0..k /\ i - 1 # k BY <3>3, <1>2
      <4>2. F[i] = AfterSlot(F[i - 1], ws, i) BY <2>1, <3>3, <4>1
      <4> QED BY <3>3, <4>1, <4>2
    <3> QED BY <3>1, <3>2, <3>3
  <2>3. Upto(H, k) BY <2>2
  <2>4. k \in 0..NoteBatch BY <1>2
  <2> HIDE DEF Upto, H
  <2> QED BY <2>3, <2>4
<1>3. NoteBatch \in G
  <2> HIDE DEF G
  <2>1. \A i \in 1..NoteBatch : i - 1 \in G => i \in G BY <1>2
  <2>2. \A i \in 0..NoteBatch : i \in G BY <1>0, <1>1, <2>1, StepInduction
  <2> QED BY <1>0, <2>2
<1>4. \E g : AstChain(g, t, ws) BY <1>3 DEF AstChain
<1> DEFINE g == AstAfter(t, ws)
<1>5. AstChain(g, t, ws) BY <1>4 DEF AstAfter
<1> HIDE DEF g
<1>6. \A i \in 0..NoteBatch : g[i] = IF i = 0 THEN t ELSE AfterSlot(g[i - 1], ws, i) BY <1>5 DEF AstChain
<1>7. \A i \in Slots : i \in 0..NoteBatch /\ i # 0 BY <1>0 DEF Slots
<1> QED BY <1>0, <1>6, <1>7 DEF g

\* What compute_withdrawal_slots returns, in terms of the trees it goes through.
LEMMA SlotsComputed ==
    ASSUME NEW accin, NEW ws, NEW c, c = compute_withdrawal_slots(accin, ws), NEW g, g = AstAfter(accin.ast, ws)
    PROVE  /\ c.ok <=> \A i \in Slots : SlotFits(g[i - 1], ws, i)
           /\ c.ast = g[NoteBatch]
           /\ DOMAIN c.slots = Slots
           /\ \A i \in Slots : c.slots[i] = SlotAt(g[i - 1], ws, i)
<1>1. c = [ok |-> \A i \in Slots : SlotFits(g[i - 1], ws, i),
           slots |-> [i \in Slots |-> IF i \in DOMAIN ws THEN FilledSlot(g[i - 1], ws[i]) ELSE PaddingSlot(g[i - 1])],
           ast |-> g[NoteBatch]]
  BY DEF compute_withdrawal_slots, AstAfter, AstChain
<1> QED BY <1>1 DEF SlotAt

\* A balance is a number.
LEMMA AmountNat ==
    ASSUME NEW t, AstOK(t), NEW a
    PROVE  AmountOrNext(t, a).amount \in Nat
<1>1. a \in Tracked(t) => t.assets[a].amount \in Nat BY DEF AstOK, Entry
<1> QED BY <1>1 DEF AmountOrNext

\* One slot takes its amount of its asset, and nothing else.
LEMMA OneSlot ==
    ASSUME NEW t, AstOK(t), NEW ws, Requests(ws), NEW i \in Slots, SlotFits(t, ws, i),
           NEW r, r = AfterSlot(t, ws, i), NEW s, s = SlotAt(t, ws, i)
    PROVE  /\ AstOK(r) /\ Tracked(r) = Tracked(t) /\ Len(r.leaves) = Len(t.leaves)
           /\ s.asset \in Nat /\ s.amount \in Nat
           /\ \A a : AmountOrNext(t, a).amount = AmountOrNext(r, a).amount + IF s.asset = a THEN s.amount ELSE 0
<1>0. AstOK(r) /\ Tracked(r) = Tracked(t) => Len(r.leaves) = Len(t.leaves) BY DEF AstOK
<1>1. CASE i \in DOMAIN ws
  <2>1. ws[i].asset \in Nat /\ ws[i].amount \in Nat
    <3> DEFINE R == [asset : Nat, amount : Nat]
    <3>1. ws \in Seq(R) BY DEF Requests
    <3>2. ws[i] \in R
      <4> HIDE DEF R
      <4> QED BY <1>1, <3>1
    <3> QED BY <3>2
  <2>2. s.asset = ws[i].asset /\ s.amount = ws[i].amount BY <1>1 DEF SlotAt, FilledSlot
  <2> DEFINE w == ws[i]
             old == AmountOrNext(t, w.asset).amount
  <2>3. w.asset \in Tracked(t) /\ w.amount <= old /\ r = update_asset(t, w.asset, old - w.amount)
    BY <1>1 DEF SlotFits, AfterSlot
  <2>4. old \in Nat BY AmountNat
  <2>5. old = t.assets[w.asset].amount BY <2>3 DEF AmountOrNext
  <2> HIDE DEF old, w
  <2>6. old - w.amount \in Nat BY <2>1, <2>3, <2>4 DEF w
  <2>7. /\ AstOK(r) /\ Tracked(r) = Tracked(t)
        /\ r.assets[w.asset].amount = old - w.amount
        /\ \A b \in Tracked(t) \ {w.asset} : r.assets[b] = t.assets[b]
    BY <2>3, <2>6, UpdateOK
  <2>8. ASSUME NEW a PROVE AmountOrNext(t, a).amount = AmountOrNext(r, a).amount + IF w.asset = a THEN w.amount ELSE 0
    <3>1. CASE a = w.asset
      <4>1. AmountOrNext(r, a).amount = old - w.amount BY <2>3, <2>7, <3>1 DEF AmountOrNext
      <4>2. AmountOrNext(t, a).amount = old BY <3>1 DEF old
      <4> QED BY <4>1, <4>2, <3>1, <2>1, <2>4 DEF w
    <3>2. CASE a # w.asset
      <4>1. AmountOrNext(r, a).amount = AmountOrNext(t, a).amount BY <2>7, <3>2 DEF AmountOrNext
      <4> QED BY <4>1, <3>2, AmountNat
    <3> QED BY <3>1, <3>2
  <2> QED BY <1>0, <2>1, <2>2, <2>7, <2>8 DEF w
<1>2. CASE i \notin DOMAIN ws
  <2>1. r = t /\ s.asset = DefaultAsset /\ s.amount = 0 BY <1>2 DEF AfterSlot, SlotAt, PaddingSlot
  <2>2. \A a : AmountOrNext(t, a).amount \in Nat BY AmountNat
  <2> QED BY <2>1, <2>2 DEF DefaultAsset
<1> QED BY <1>1, <1>2

\* The slots together: every tree on the way is well formed and tracks the same assets.
LEMMA TreesOnTheWay ==
    ASSUME NEW t, AstOK(t), NEW ws, Requests(ws), NEW g, g = AstAfter(t, ws),
           \A i \in Slots : SlotFits(g[i - 1], ws, i)
    PROVE  \A i \in 0..NoteBatch : AstOK(g[i]) /\ Tracked(g[i]) = Tracked(t) /\ Len(g[i].leaves) = Len(t.leaves)
<1> DEFINE G == {i \in 0..NoteBatch : AstOK(g[i]) /\ Tracked(g[i]) = Tracked(t) /\ Len(g[i].leaves) = Len(t.leaves)}
<1>0. NoteBatch \in Nat BY NoteBatchAssumption
<1>1. g[0] = t /\ \A i \in Slots : g[i] = AfterSlot(g[i - 1], ws, i) BY ChainExists
<1>2. 0 \in G BY <1>0, <1>1
<1>3. ASSUME NEW i \in 1..NoteBatch, i - 1 \in G PROVE i \in G
  <2>1. i \in Slots BY DEF Slots
  <2>2. AstOK(g[i - 1]) /\ Tracked(g[i - 1]) = Tracked(t) /\ Len(g[i - 1].leaves) = Len(t.leaves) BY <1>3
  <2>3. AstOK(g[i]) /\ Tracked(g[i]) = Tracked(g[i - 1]) /\ Len(g[i].leaves) = Len(g[i - 1].leaves)
    BY <1>1, <2>1, <2>2, OneSlot
  <2> QED BY <2>2, <2>3
<1>4. \A i \in 0..NoteBatch : i \in G
  <2> HIDE DEF G
  <2> QED BY <1>0, <1>2, <1>3, StepInduction
<1> QED BY <1>4

\* What an account loses of an asset is what the slots that name the asset pay out.
LEMMA SlotsPay ==
    ASSUME NEW t, AstOK(t), NEW ws, Requests(ws), NEW g, g = AstAfter(t, ws),
           \A i \in Slots : SlotFits(g[i - 1], ws, i), NEW a,
           NEW f, \A i \in Slots : f[i] = IF SlotAt(g[i - 1], ws, i).asset = a THEN SlotAt(g[i - 1], ws, i).amount ELSE 0
    PROVE  /\ SumFunctionOnSet(f, Slots) \in Nat
           /\ AmountOrNext(t, a).amount = AmountOrNext(g[NoteBatch], a).amount + SumFunctionOnSet(f, Slots)
<1> DEFINE bal(i) == AmountOrNext(g[i], a).amount
           sum(i) == SumFunctionOnSet(f, 1..i)
           G == {i \in 0..NoteBatch : bal(0) = bal(i) + sum(i)}
<1>0. NoteBatch \in Nat BY NoteBatchAssumption
<1>1. g[0] = t /\ \A i \in Slots : g[i] = AfterSlot(g[i - 1], ws, i) BY ChainExists
<1>2. \A i \in 0..NoteBatch : AstOK(g[i]) BY TreesOnTheWay
<1>3. \A i \in 0..NoteBatch : bal(i) \in Nat BY <1>2, AmountNat
<1>4. ASSUME NEW i \in Slots PROVE f[i] \in Nat /\ bal(i - 1) = bal(i) + f[i]
  <2>1. AstOK(g[i - 1]) BY <1>0, <1>2 DEF Slots
  <2> DEFINE s == SlotAt(g[i - 1], ws, i)
  <2>2. /\ s.amount \in Nat
        /\ bal(i - 1) = bal(i) + IF s.asset = a THEN s.amount ELSE 0
    BY <1>1, <2>1, OneSlot
  <2>3. f[i] = IF s.asset = a THEN s.amount ELSE 0 OBVIOUS
  <2> HIDE DEF s, bal
  <2> QED BY <2>2, <2>3
<1>5. 0 \in G
  <2>1. 1..0 = {} OBVIOUS
  <2>2. sum(0) = 0 BY <2>1, SumEmpty
  <2>3. bal(0) \in Nat BY <1>0, <1>3
  <2> HIDE DEF bal, sum
  <2> QED BY <1>0, <2>2, <2>3
<1>6. ASSUME NEW i \in 1..NoteBatch PROVE sum(i - 1) \in Nat /\ sum(i) = f[i] + sum(i - 1)
  <2>1. 1..i = 1..(i - 1) \cup {i} /\ i \notin 1..(i - 1) /\ 1..(i - 1) \subseteq Slots /\ i \in Slots
    BY <1>0 DEF Slots
  <2>2. IsFiniteSet(1..(i - 1)) BY FS_Interval
  <2>3. f[i] \in Int /\ \A j \in 1..(i - 1) : f[j] \in Nat /\ f[j] \in Int BY <1>4, <2>1
  <2>4. SumFunctionOnSet(f, 1..(i - 1) \cup {i}) = f[i] + SumFunctionOnSet(f, 1..(i - 1))
    BY <2>1, <2>2, <2>3, SumAdd
  <2> QED BY <2>1, <2>2, <2>3, <2>4, SumNat
<1>7. ASSUME NEW i \in 1..NoteBatch, i - 1 \in G PROVE i \in G
  <2>1. bal(0) = bal(i - 1) + sum(i - 1) BY <1>7
  <2>2. bal(i - 1) = bal(i) + f[i] /\ f[i] \in Nat BY <1>4 DEF Slots
  <2>3. bal(i) \in Nat /\ i \in 0..NoteBatch BY <1>0, <1>3
  <2>4. sum(i - 1) \in Nat /\ sum(i) = f[i] + sum(i - 1) BY <1>6
  <2> HIDE DEF bal, sum
  <2> QED BY <2>1, <2>2, <2>3, <2>4
<1>8. NoteBatch \in G
  <2>1. \A i \in 0..NoteBatch : i \in G
    <3> HIDE DEF G
    <3> QED BY <1>0, <1>5, <1>7, StepInduction
  <2> HIDE DEF G
  <2> QED BY <1>0, <2>1
<1>9. SumFunctionOnSet(f, Slots) \in Nat
  <2>1. IsFiniteSet(Slots) BY <1>0, FS_Interval DEF Slots
  <2> QED BY <2>1, <1>4, SumNat
<1>10. bal(0) = bal(NoteBatch) + sum(NoteBatch) BY <1>8
<1> HIDE DEF G
<1> QED BY <1>1, <1>9, <1>10 DEF Slots

-----------------------------------------------------------------------------
(* Initial states *)

\* It holds before the first transaction.
LEMMA InitAccountInv == Init => AccountInv
<1> SUFFICES ASSUME Init PROVE AccountInv OBVIOUS
<1>1. TxInv BY DEF TxInv, Init
<1>2. ProofsInv BY DEF ProofsInv, Init
<1>3. CASE acc = NewAccount(Me, Subpool) /\ stateTree = <<>>
  <2>1. acc.nonce = 0 BY <1>3 DEF NewAccount
  <2>2. IsSeq(stateTree) /\ Len(stateTree) = 0
    <3>1. <<>> \in Seq({}) OBVIOUS
    <3> QED BY <3>1, <1>3 DEF IsSeq
  <2>3. TreeInv BY <2>1, <2>2 DEF Init, TreeInv
  <2> QED BY <1>1, <1>2, <2>2, <2>3 DEF AccountInv
<1>4. CASE /\ acc \in {FundedAccount(DelegatedConsume), FundedAccount(ConsumeKey(ConsumeSk))}
           /\ stateTree = <<Commitment(acc)>>
  <2>1. PICK k \in {DelegatedConsume, ConsumeKey(ConsumeSk)} : acc = FundedAccount(k) BY <1>4
  <2>2. acc.nonce = 1 /\ Mine(acc) BY <2>1 DEF FundedAccount, Mine, NewAccount
  <2>3. IsSeq(stateTree) /\ Len(stateTree) = 1 /\ stateTree[1] = Commitment(acc)
    <3>1. <<Commitment(acc)>> \in Seq({Commitment(acc)}) OBVIOUS
    <3> QED BY <3>1, <1>4 DEF IsSeq
  <2>4. OnTree(Commitment(acc)) BY <2>3 DEF OnTree
  <2>5. \A i \in 1 .. Len(stateTree) : LeafInv(stateTree[i]) BY <2>3 DEF LeafInv
  <2>6. TreeInv BY <2>2, <2>4, <2>5 DEF Init, TreeInv
  <2> QED BY <1>1, <1>2, <2>3, <2>6 DEF AccountInv
<1> QED BY <1>3, <1>4 DEF Init

-----------------------------------------------------------------------------
(* Building and signing *)

\* Calls on the builder leave the chain and the proofs alone.
LEMMA BuilderStep ==
    ASSUME AccountInv, UNCHANGED <<proofs, chainVars>>, TxInv'
    PROVE  AccountInv'
<1>1. ProofsInv' BY DEF AccountInv, ProofsInv, Spends, OnTree, chainVars
<1>2. TreeInv' BY DEF AccountInv, TreeInv, LeafInv, OnTree, chainVars
<1> QED BY <1>1, <1>2 DEF AccountInv, chainVars

\* new of either builder starts from the account the client holds.
LEMMA BeginStep ==
    ASSUME AccountInv, acc.nonce # 0, NEW kind \in {"deposit", "withdraw"}, NEW note, NEW eth,
           Begin(NewTx(kind, note, eth))
    PROVE  AccountInv'
<1>1. tx' = NewTx(kind, note, eth) BY DEF Begin
<1>2. Mine(acc) BY DEF AccountInv, TreeInv
<1>3. /\ DOMAIN tx' = TxFields /\ tx'.stage = "builder" /\ tx'.kind = kind /\ tx'.accin = acc
      /\ tx'.accin_path = None
  BY <1>1 DEF NewTx, TxFields
<1>4. TxInv' BY <1>2, <1>3 DEF TxInv
<1> QED BY <1>4, BuilderStep DEF Begin

\* A withdrawal slot more.
LEMMA AddWithdrawalStep ==
    ASSUME AccountInv, NEW asset, NEW amount, AddWithdrawal(asset, amount)
    PROVE  AccountInv'
<1>1. tx # NoTx BY DEF AddWithdrawal, NoTx
<1>2. TxInv' BY <1>1 DEF AccountInv, TxInv, AddWithdrawal, TxFields, OnTree, chainVars
<1> QED BY <1>2, BuilderStep DEF AddWithdrawal

\* What the builds make of the account.
LEMMA Successor ==
    ASSUME NEW a, Mine(a), NEW t, NEW b, b = [clone_with_incremented_nonce(a) EXCEPT !.ast = t]
    PROVE  Follows(a, b)
BY DEF Follows, Mine, clone_with_incremented_nonce

\* A built deposit leads to the account's successor.
LEMMA DepositBuildStep ==
    ASSUME AccountInv, DepositBuild
    PROVE  AccountInv'
<1>1. tx # NoTx /\ tx.kind = "deposit" /\ tx.stage = "builder" BY DEF DepositBuild, NoTx
<1>2. PICK b, h : /\ \E t : b = [clone_with_incremented_nonce(tx.accin) EXCEPT !.ast = t]
                  /\ tx' = NoTx \/ tx' = AsBuilt(b, h)
  BY DEF DepositBuild, Returns
<1>3. Follows(tx.accin, b) BY <1>1, <1>2, Successor DEF AccountInv, TxInv
<1>4. ASSUME tx' = AsBuilt(b, h) PROVE TxInv'
  <2>1. /\ DOMAIN tx' = TxFields /\ tx'.stage = "built" /\ tx'.kind = "deposit" /\ tx'.accin = tx.accin
        /\ tx'.accin_path = None /\ tx'.accout = b
    BY <1>1, <1>4 DEF AsBuilt, AccountInv, TxInv, TxFields
  <2> QED BY <1>1, <1>3, <2>1 DEF TxInv, AccountInv
<1>5. TxInv' BY <1>2, <1>4 DEF TxInv
<1> QED BY <1>5, BuilderStep DEF DepositBuild

\* So does a built withdrawal, over the slots as computed.
LEMMA WithdrawBuildStep ==
    ASSUME AccountInv, WithdrawBuild
    PROVE  AccountInv'
<1>1. tx # NoTx /\ tx.kind = "withdraw" /\ tx.stage = "builder" BY DEF WithdrawBuild, NoTx
<1> DEFINE slots == compute_withdrawal_slots(tx.accin, tx.withdrawals)
           b     == WithdrawnAccount(tx.accin, slots)
<1>2. PICK h : tx' = NoTx \/ tx' = AsBuilt(b, h)
  BY DEF WithdrawBuild, Returns
<1>3. Follows(tx.accin, b) BY <1>1, <1>2, Successor DEF AccountInv, TxInv, WithdrawnAccount
<1>4. ASSUME tx' = AsBuilt(b, h) PROVE TxInv'
  <2>1. /\ DOMAIN tx' = TxFields /\ tx'.stage = "built" /\ tx'.kind = "withdraw" /\ tx'.accin = tx.accin
        /\ tx'.accin_path = None /\ tx'.accout = b /\ tx'.withdrawals = tx.withdrawals
    BY <1>1, <1>4 DEF AsBuilt, AccountInv, TxInv, TxFields
  <2> QED BY <1>1, <1>3, <2>1 DEF TxInv, AccountInv
<1>5. TxInv' BY <1>2, <1>4 DEF TxInv
<1> QED BY <1>5, BuilderStep DEF WithdrawBuild

\* The later calls on a built transaction set one field that the invariant does not read.
LEMMA FieldSet ==
    ASSUME AccountInv, Built, UNCHANGED <<proofs, chainVars>>,
           NEW f \in {"spend_sig", "consume_sig", "approval_sig", "approval_key"}, NEW v,
           tx' = NoTx \/ tx' = [tx EXCEPT ![f] = v]
    PROVE  AccountInv'
<1>1. tx # NoTx BY DEF Built, NoTx
<1>2. ASSUME tx' = [tx EXCEPT ![f] = v] PROVE TxInv'
  <2>1. /\ DOMAIN tx' = DOMAIN tx /\ tx'.stage = tx.stage /\ tx'.kind = tx.kind /\ tx'.accin = tx.accin
        /\ tx'.accin_path = tx.accin_path /\ tx'.accout = tx.accout /\ tx'.withdrawals = tx.withdrawals
    BY <1>1, <1>2 DEF AccountInv, TxInv, TxFields
  <2> QED BY <1>1, <2>1 DEF AccountInv, TxInv, OnTree, chainVars
<1>3. TxInv' BY <1>2 DEF TxInv
<1> QED BY <1>3, BuilderStep

\* Signing, and attaching the subpool proof, leave the accounts alone.
LEMMA SignStep ==
    ASSUME AccountInv, ConsumeSign \/ ApprovalSign \/ WithSubpoolProof \/ \E sk : SpendSign(sk)
    PROVE  AccountInv'
<1>1. CASE ConsumeSign
  BY <1>1, FieldSet DEF ConsumeSign, Returns, BuiltAs
<1>2. CASE ApprovalSign
  BY <1>2, FieldSet DEF ApprovalSign
<1>3. CASE WithSubpoolProof
  BY <1>3, FieldSet DEF WithSubpoolProof
<1>4. CASE \E sk : SpendSign(sk)
  BY <1>4, FieldSet DEF SpendSign, BuiltAs
<1> QED BY <1>1, <1>2, <1>3, <1>4

\* The path fetched is that of a leaf of the tree.
LEMMA WithAccountPathStep ==
    ASSUME AccountInv, WithAccountPath
    PROVE  AccountInv'
<1>1. tx # NoTx /\ tx.stage = "built" BY DEF WithAccountPath, Built, NoTx
<1>2. PICK pos \in 0 .. Len(stateTree) - 1 :
        stateTree[pos + 1] = Commitment(tx.accin) /\ tx' = [tx EXCEPT !.accin_path = PathTo(stateTree, pos)]
  BY DEF WithAccountPath
<1>3. OnTree(Commitment(tx.accin))
  <2>1. Len(stateTree) \in Nat BY AppendKeeps DEF AccountInv
  <2> QED BY <1>2, <2>1 DEF OnTree
<1>4. /\ DOMAIN tx' = DOMAIN tx /\ tx'.stage = tx.stage /\ tx'.kind = tx.kind /\ tx'.accin = tx.accin
      /\ tx'.accout = tx.accout /\ tx'.withdrawals = tx.withdrawals
  BY <1>1, <1>2 DEF AccountInv, TxInv, TxFields
<1>5. OnTree(Commitment(tx.accin))' BY <1>3, <1>4 DEF OnTree, WithAccountPath, chainVars
<1>6. TxInv' BY <1>1, <1>4, <1>5 DEF AccountInv, TxInv
<1> QED BY <1>6, BuilderStep DEF WithAccountPath

-----------------------------------------------------------------------------
(* Proving *)

\* The witness of a withdrawal as the circuit reads it.
LEMMA WithdrawProof ==
    ASSUME KeyAssumption, tx.kind = "withdraw", IntoTxSucceeds(tx), Proves(tx), Mine(tx.accin),
           tx.accout = WithdrawnAccount(tx.accin, compute_withdrawal_slots(tx.accin, tx.withdrawals))
    PROVE  /\ tx.accin_path # None
           /\ PublicInputs(tx).accin_null = Nullifier(tx.accin)
           /\ PublicInputs(tx).accout_comm = Commitment(tx.accout)
           /\ SignedBy(tx.spend_sig, SpendSk,
                       WithdrawTxHash(Nullifier(tx.accin), Commitment(tx.accout), PublicInputs(tx).asset_ids,
                                      PublicInputs(tx).amounts, PublicInputs(tx).eth))
<1> DEFINE w == WithdrawWitness(tx)
<1>1. w.not_fake_tx /\ w.accin = tx.accin /\ w.accout = tx.accout /\ w.spend_sig = tx.spend_sig /\ w.eth = tx.eth
  BY DEF WithdrawWitness
<1>2. WithdrawTxCircuit(w) /\ PublicInputs(tx) = WithdrawPublicInputs(w) BY DEF Proves, PublicInputs
<1> HIDE DEF w
<1>3. Verifies(w.spend_sig, pk_or_default(w.accin.spend_pk), DerivedWithdrawHash(w))
  BY <1>1, <1>2 DEF WithdrawTxCircuit, WithdrawSignatures
<1>4. pk_or_default(tx.accin.spend_pk) = SpendSk BY KeyAssumption DEF Mine, pk_or_default
<1>5. DerivedWithdrawHash(w) =
        WithdrawTxHash(Nullifier(tx.accin), Commitment(tx.accout), PublicInputs(tx).asset_ids,
                       PublicInputs(tx).amounts, PublicInputs(tx).eth)
  BY <1>1, <1>2 DEF DerivedWithdrawHash, WithdrawPublicInputs
<1>6. PublicInputs(tx).accin_null = Nullifier(tx.accin) /\ PublicInputs(tx).accout_comm = Commitment(tx.accout)
  BY <1>1, <1>2 DEF WithdrawPublicInputs
<1>7. tx.accin_path # None BY DEF IntoTxSucceeds, IntoWithdrawTxSucceeds
<1> QED BY <1>1, <1>3, <1>4, <1>5, <1>6, <1>7 DEF SignedBy, Verifies

\* The witness of a deposit likewise.
LEMMA DepositProof ==
    ASSUME KeyAssumption, tx.kind = "deposit", IntoTxSucceeds(tx), Proves(tx), Mine(tx.accin)
    PROVE  /\ tx.accin_path # None
           /\ PublicInputs(tx).accin_null = Nullifier(tx.accin)
           /\ PublicInputs(tx).accout_comm = Commitment(tx.accout)
           /\ tx.accin.consume.config =>
                SignedBy(tx.consume_sig, tx.accin.consume.pk,
                         DepositTxHash(Nullifier(tx.accin), Commitment(tx.accout), PublicInputs(tx).note_comm,
                                       PublicInputs(tx).eth))
<1> DEFINE w == DepositWitness(tx)
<1>1. /\ w.not_fake_tx /\ w.accin = tx.accin /\ w.accout = tx.accout /\ w.consume_sig = tx.consume_sig
      /\ w.eth = tx.eth
  BY DEF DepositWitness
<1>2. DepositTxCircuit(w) /\ PublicInputs(tx) = DepositPublicInputs(w) BY DEF Proves, PublicInputs
<1> HIDE DEF w
<1>3. ASSUME tx.accin.consume.config
      PROVE  Verifies(w.consume_sig, pk_or_default(w.accin.consume.pk), DerivedDepositHash(w))
  BY <1>1, <1>2, <1>3 DEF DepositTxCircuit, DepositSignatures
<1>4. ASSUME tx.accin.consume.config
      PROVE  pk_or_default(tx.accin.consume.pk) = tx.accin.consume.pk
  <2>1. tx.accin.consume = ConsumeKey(ConsumeSk) BY <1>4 DEF Mine, DelegatedConsume
  <2> QED BY <2>1, KeyAssumption DEF ConsumeKey, pk_or_default
<1>5. DerivedDepositHash(w) =
        DepositTxHash(Nullifier(tx.accin), Commitment(tx.accout), PublicInputs(tx).note_comm,
                      PublicInputs(tx).eth)
  BY <1>1, <1>2 DEF DerivedDepositHash, DepositPublicInputs
<1>6. PublicInputs(tx).accin_null = Nullifier(tx.accin) /\ PublicInputs(tx).accout_comm = Commitment(tx.accout)
  BY <1>1, <1>2 DEF DepositPublicInputs
<1>7. tx.accin_path # None BY DEF IntoTxSucceeds, IntoDepositTxSucceeds
<1> QED BY <1>1, <1>3, <1>4, <1>5, <1>6, <1>7 DEF SignedBy, Verifies

\* What the circuit asserts of a proof that is made.
LEMMA ProveStep ==
    ASSUME KeyAssumption, AccountInv, Prove
    PROVE  AccountInv'
<1>1. TxInv' BY DEF Prove, TxInv
<1>2. IsSeq(stateTree)' /\ TreeInv' BY DEF AccountInv, TreeInv, LeafInv, OnTree, Prove, chainVars
<1>3. \A p, a : Spends(p, a) => Spends(p, a)' BY DEF Spends, OnTree, Prove, chainVars
<1> DEFINE q == [kind |-> tx.kind, public |-> PublicInputs(tx), accout |-> tx.accout,
                 spend_sig |-> tx.spend_sig, consume_sig |-> tx.consume_sig]
<1>4. ASSUME IntoTxSucceeds(tx), Proves(tx)
      PROVE  Spends(q, tx.accin)
  <2>1. tx # NoTx /\ tx.stage = "built" BY DEF Prove, Built, NoTx
  <2>2. /\ Mine(tx.accin) /\ tx.kind \in {"deposit", "withdraw"} /\ Follows(tx.accin, tx.accout)
        /\ tx.accin_path # None => OnTree(Commitment(tx.accin))
        /\ tx.kind = "withdraw" =>
              tx.accout = WithdrawnAccount(tx.accin, compute_withdrawal_slots(tx.accin, tx.withdrawals))
    BY <2>1 DEF AccountInv, TxInv
  <2>3. /\ q.kind = tx.kind /\ q.public = PublicInputs(tx) /\ q.accout = tx.accout
        /\ q.spend_sig = tx.spend_sig /\ q.consume_sig = tx.consume_sig
    OBVIOUS
  <2> HIDE DEF q
  <2>4. CASE tx.kind = "withdraw" BY <1>4, <2>2, <2>3, <2>4, KeyAssumption, WithdrawProof DEF Spends, Signed
  <2>5. CASE tx.kind = "deposit" BY <1>4, <2>2, <2>3, <2>5, KeyAssumption, DepositProof DEF Spends, Signed
  <2> QED BY <2>2, <2>4, <2>5
<1>5. \A p \in proofs' : p \in proofs \/ (p = q /\ IntoTxSucceeds(tx) /\ Proves(tx)) BY DEF Prove
<1> HIDE DEF q
<1>6. \A p \in proofs' : \E a : Spends(p, a) BY <1>4, <1>5 DEF AccountInv, ProofsInv
<1>7. ProofsInv' BY <1>3, <1>6 DEF ProofsInv
<1> QED BY <1>1, <1>2, <1>7 DEF AccountInv

-----------------------------------------------------------------------------
(* Publishing *)

\* A proof the contract accepts spends the client's current account: every other state on
\* the tree is spent.
LEMMA SpendsCurrent ==
    ASSUME AccountInv, NEW p \in proofs, Accepts(p.public)
    PROVE  /\ Mine(acc) /\ Follows(acc, p.accout)
           /\ p.public.accin_null = Nullifier(acc) /\ p.public.accout_comm = Commitment(p.accout)
           /\ OnTree(Commitment(acc))
           /\ Signed(p, acc)
<1>1. PICK a : Spends(p, a) BY DEF AccountInv, ProofsInv
<1>2. Mine(a) /\ a.id = Me /\ OnTree(Commitment(a)) /\ p.public.accin_null = Nullifier(a)
  BY <1>1 DEF Spends, Mine
<1>3. LeafInv(Commitment(a)) BY <1>2 DEF OnTree, AccountInv, TreeInv
<1>4. Commitment(a)[1] = "AC" BY CommitmentParts
<1>5. NullifierOf(Commitment(a), Me) \notin nullifiers BY <1>2, NullifierParts DEF Accepts
<1>6. Commitment(a) = Commitment(acc) BY <1>3, <1>4, <1>5 DEF LeafInv
<1>7. acc.nonce # 0 BY <1>2, <1>4 DEF AccountInv, TreeInv, OnTree
<1>8. Mine(acc) /\ acc.id = Me BY <1>7 DEF AccountInv, TreeInv, Mine
<1>9. Nullifier(acc) = Nullifier(a) BY <1>2, <1>6, <1>8, NullifierParts
<1>10. acc.nonce = a.nonce
  <2>1. NonceOf(Commitment(a)) = a.nonce /\ NonceOf(Commitment(acc)) = acc.nonce BY CommitmentParts
  <2> QED BY <2>1, <1>6
<1>11. acc.consume = a.consume
  <2>1. Commitment(a)[7] = a.consume.config /\ Commitment(acc)[7] = acc.consume.config BY CommitmentParts
  <2>2. a.consume.config = acc.consume.config BY <2>1, <1>6
  <2>3. DelegatedConsume.config = FALSE /\ ConsumeKey(ConsumeSk).config = TRUE BY DEF DelegatedConsume, ConsumeKey
  <2>4. a.consume \in {DelegatedConsume, ConsumeKey(ConsumeSk)} /\ acc.consume \in {DelegatedConsume, ConsumeKey(ConsumeSk)}
    BY <1>2, <1>8 DEF Mine
  <2> QED BY <2>2, <2>3, <2>4
<1>12. Follows(acc, p.accout) BY <1>1, <1>10, <1>11 DEF Follows, Spends
<1>13. Signed(p, acc) BY <1>1, <1>9, <1>11 DEF Spends, Signed
<1> QED BY <1>1, <1>2, <1>6, <1>8, <1>9, <1>12, <1>13 DEF Spends

\* A published proof spends the state the client holds and appends its successor.
LEMMA LandedStep ==
    ASSUME AccountInv, NEW p \in proofs, Landed(p)
    PROVE  AccountInv'
<1>1. /\ Mine(acc) /\ Follows(acc, p.accout)
      /\ p.public.accin_null = Nullifier(acc) /\ p.public.accout_comm = Commitment(p.accout)
      /\ OnTree(Commitment(acc))
  BY SpendsCurrent DEF Landed
<1>2. /\ stateTree' = Append(stateTree, Commitment(p.accout)) /\ nullifiers' = nullifiers \cup {Nullifier(acc)}
      /\ acc' = p.accout /\ proofs' = proofs \ {p} /\ tx' = tx
  BY <1>1 DEF Landed
<1>3. IsSeq(stateTree) BY DEF AccountInv
<1>4. /\ IsSeq(stateTree') /\ Len(stateTree) \in Nat /\ Len(stateTree') = Len(stateTree) + 1
      /\ \A i \in 1 .. Len(stateTree) : stateTree'[i] = stateTree[i]
      /\ stateTree'[Len(stateTree) + 1] = Commitment(acc')
  BY <1>2, <1>3, AppendKeeps
<1>5. \A c : OnTree(c) => OnTree(c)' BY <1>2, <1>3, TreeGrows
<1>6. TxInv' BY <1>2, <1>5 DEF AccountInv, TxInv
<1>7. ProofsInv' BY <1>2, <1>5 DEF AccountInv, ProofsInv, Spends
<1>8. /\ Mine(acc') /\ acc'.nonce = acc.nonce + 1 /\ acc.nonce \in Nat \ {0} /\ acc.id = Me
  BY <1>1, <1>2 DEF Follows, Mine
<1>9. OnTree(Commitment(acc))' BY <1>4, <1>8 DEF OnTree
<1>10. Nullifier(acc) = NullifierOf(Commitment(acc), Me) /\ Nullifier(acc)[2] = Commitment(acc) BY <1>8, NullifierParts
<1>11. NonceOf(Commitment(acc)) = acc.nonce BY CommitmentParts
<1>12. ASSUME NEW i \in 1 .. Len(stateTree'), stateTree'[i][1] = "AC"
       PROVE  \/ stateTree'[i] = Commitment(acc')
              \/ NullifierOf(stateTree'[i], Me) \in nullifiers' /\ NonceOf(stateTree'[i]) \in 0 .. acc'.nonce - 1
  <2>1. CASE i = Len(stateTree) + 1 BY <2>1, <1>4
  <2>2. CASE i \in 1 .. Len(stateTree)
    <3>1. LeafInv(stateTree[i]) /\ stateTree'[i] = stateTree[i] BY <2>2, <1>4 DEF AccountInv, TreeInv
    <3>2. CASE stateTree[i] = Commitment(acc)
      BY <3>1, <3>2, <1>2, <1>8, <1>10, <1>11
    <3>3. CASE NullifierOf(stateTree[i], Me) \in nullifiers /\ NonceOf(stateTree[i]) \in 0 .. acc.nonce - 1
      BY <3>1, <3>3, <1>2, <1>8
    <3> QED BY <3>1, <3>2, <3>3, <1>12 DEF LeafInv
  <2> QED BY <2>1, <2>2, <1>4
<1>13. \A n \in nullifiers' : NonceOf(n[2]) \in 0 .. acc'.nonce - 1
  BY <1>2, <1>8, <1>10, <1>11 DEF AccountInv, TreeInv
<1>14. TreeInv'
  <2>1. (\A i \in 1 .. Len(stateTree) : LeafInv(stateTree[i]))' BY <1>12 DEF LeafInv
  <2> QED BY <2>1, <1>8, <1>9, <1>13 DEF TreeInv
<1> QED BY <1>4, <1>6, <1>7, <1>14 DEF AccountInv

-----------------------------------------------------------------------------
(* The other steps *)

\* Giving a transaction up.
LEMMA DiscardStep ==
    ASSUME AccountInv, Discard
    PROVE  AccountInv'
<1>1. TxInv' BY DEF Discard, TxInv
<1> QED BY <1>1, BuilderStep DEF Discard

\* Steps that leave the tree, the nullifiers, the account, the builder and the proofs alone.
LEMMA QuietStep ==
    ASSUME AccountInv, UNCHANGED <<stateTree, nullifiers, acc, tx, proofs>>
    PROVE  AccountInv'
BY DEF AccountInv, TxInv, ProofsInv, Spends, TreeInv, LeafInv, OnTree

\* A leaf of someone else is no account state of the client.
LEMMA ForeignLeafStep ==
    ASSUME AccountInv, ForeignLeaf
    PROVE  AccountInv'
<1>1. stateTree' = Append(stateTree, DummyHash(outside)) /\ UNCHANGED <<nullifiers, acc, tx, proofs>>
  BY DEF ForeignLeaf
<1>2. IsSeq(stateTree) BY DEF AccountInv
<1>3. /\ IsSeq(stateTree') /\ Len(stateTree) \in Nat /\ Len(stateTree') = Len(stateTree) + 1
      /\ \A i \in 1 .. Len(stateTree) : stateTree'[i] = stateTree[i]
      /\ stateTree'[Len(stateTree) + 1] = DummyHash(outside)
  BY <1>1, <1>2, AppendKeeps
<1>4. \A c : OnTree(c) => OnTree(c)' BY <1>1, <1>2, TreeGrows
<1>5. TxInv' BY <1>1, <1>4 DEF AccountInv, TxInv
<1>6. ProofsInv' BY <1>1, <1>4 DEF AccountInv, ProofsInv, Spends
<1>7. DummyHash(outside)[1] # "AC" BY DEF DummyHash
<1>8. \A i \in 1 .. Len(stateTree') : i \in 1 .. Len(stateTree) \/ stateTree'[i][1] # "AC"
  <2> SUFFICES ASSUME NEW i \in 1 .. Len(stateTree'), i \notin 1 .. Len(stateTree)
               PROVE  stateTree'[i][1] # "AC"
    OBVIOUS
  <2>1. i = Len(stateTree) + 1 BY <1>3
  <2> QED BY <2>1, <1>3, <1>7
<1>9. (\A i \in 1 .. Len(stateTree) : LeafInv(stateTree[i]))'
  <2> SUFFICES ASSUME NEW i \in 1 .. Len(stateTree'), stateTree'[i][1] = "AC"
               PROVE  \/ stateTree'[i] = Commitment(acc)
                      \/ NullifierOf(stateTree'[i], Me) \in nullifiers /\ NonceOf(stateTree'[i]) \in 0 .. acc.nonce - 1
    BY <1>1 DEF LeafInv
  <2>1. i \in 1 .. Len(stateTree) /\ stateTree'[i] = stateTree[i] BY <1>3, <1>8
  <2>2. LeafInv(stateTree[i]) BY <2>1 DEF AccountInv, TreeInv
  <2> QED BY <2>1, <2>2 DEF LeafInv
<1>10. TreeInv'
  <2>1. (acc.nonce # 0 => Mine(acc) /\ OnTree(Commitment(acc)))'
    BY <1>1, <1>4 DEF AccountInv, TreeInv
  <2>2. (acc.nonce = 0 => \A i \in 1 .. Len(stateTree) : stateTree[i][1] # "AC")'
    <3> SUFFICES ASSUME acc.nonce = 0, NEW i \in 1 .. Len(stateTree') PROVE stateTree'[i][1] # "AC"
      BY <1>1
    <3>1. CASE i \in 1 .. Len(stateTree) BY <3>1, <1>3 DEF AccountInv, TreeInv
    <3> QED BY <3>1, <1>8
  <2>3. (\A n \in nullifiers : NonceOf(n[2]) \in 0 .. acc.nonce - 1)' BY <1>1 DEF AccountInv, TreeInv
  <2> QED BY <1>9, <2>1, <2>2, <2>3 DEF TreeInv
<1> QED BY <1>3, <1>5, <1>6, <1>10 DEF AccountInv

\* One step per action.
LEMMA NextAccountInv ==
    ASSUME AccountInv, [Next]_vars
    PROVE  AccountInv'
<1>1. ASSUME NEW note \in Notes, NEW eth \in EthAddrs, DepositNew(note, eth) PROVE AccountInv'
  BY <1>1, BeginStep DEF DepositNew
<1>2. CASE WithdrawNew(Depositor) BY <1>2, BeginStep DEF WithdrawNew
<1>3. ASSUME NEW asset, NEW amount, AddWithdrawal(asset, amount) PROVE AccountInv' BY <1>3, AddWithdrawalStep
<1>4. CASE DepositBuild BY <1>4, DepositBuildStep
<1>5. CASE WithdrawBuild BY <1>5, WithdrawBuildStep
<1>6. CASE ConsumeSign \/ ApprovalSign \/ WithSubpoolProof \/ \E sk \in {SpendSk, WrongSk} : SpendSign(sk)
  BY <1>6, SignStep
<1>7. CASE WithAccountPath BY <1>7, WithAccountPathStep
<1>8. CASE Prove BY <1>8, ProveStep, KeyAssumption
<1>9. CASE Discard BY <1>9, DiscardStep
<1>10. ASSUME NEW note \in Notes, NEW value, RegisterDeposit(note, value) PROVE AccountInv'
  BY <1>10, QuietStep DEF RegisterDeposit
<1>11. ASSUME NEW key \in DOMAIN deposits, WithdrawPendingDeposit(key) PROVE AccountInv'
  BY <1>11, QuietStep DEF WithdrawPendingDeposit
<1>12. ASSUME NEW p \in proofs, PublishDeposit(p) \/ PublishWithdraw(p) PROVE AccountInv'
  BY <1>12, LandedStep DEF PublishDeposit, PublishWithdraw
<1>13. CASE ForeignLeaf BY <1>13, ForeignLeafStep
<1>14. ASSUME NEW k \in ApprovalSks, RotateApprovalKey(k) PROVE AccountInv'
  BY <1>14, QuietStep DEF RotateApprovalKey
<1>15. CASE UNCHANGED vars BY <1>15, QuietStep DEF vars
<1> QED
  BY <1>1, <1>2, <1>3, <1>4, <1>5, <1>6, <1>7, <1>8, <1>9, <1>10, <1>11, <1>12, <1>13, <1>14, <1>15 DEF Next

-----------------------------------------------------------------------------
(* Results *)

\* The invariant holds throughout.
LEMMA AccountInvariant == Spec => []AccountInv
<1>1. AccountInv /\ [Next]_vars => AccountInv' BY NextAccountInv
<1> QED BY <1>1, InitAccountInv, PTL DEF Spec

\* The invariant gives that the tree has one unspent state of the client.
LEMMA OneLive ==
    ASSUME AccountInv
    PROVE  OneLiveState
<1>1. IsSeq(stateTree) /\ TreeInv BY DEF AccountInv
<1>2. DOMAIN stateTree = 1 .. Len(stateTree) BY <1>1 DEF IsSeq
<1>3. \A c \in LiveStates : OnTree(c) /\ c[1] = "AC" /\ NullifierOf(c, Me) \notin nullifiers
  BY <1>2 DEF LiveStates, ToSet, OnTree
<1>4. CASE acc.nonce = 0 BY <1>1, <1>3, <1>4 DEF TreeInv, OnTree, OneLiveState
<1>5. CASE acc.nonce # 0
  <2>1. \A c \in LiveStates : c = Commitment(acc) BY <1>1, <1>3 DEF TreeInv, LeafInv, OnTree
  <2>2. Mine(acc) /\ OnTree(Commitment(acc)) /\ acc.nonce \in Nat BY <1>1, <1>5 DEF TreeInv, Mine
  <2>3. Commitment(acc)[1] = "AC" /\ NonceOf(Commitment(acc)) = acc.nonce BY CommitmentParts
  <2>4. NullifierOf(Commitment(acc), Me)[2] = Commitment(acc) BY DEF NullifierOf
  <2>5. NullifierOf(Commitment(acc), Me) \notin nullifiers BY <1>1, <2>2, <2>3, <2>4 DEF TreeInv
  <2>6. Commitment(acc) \in ToSet(stateTree) BY <1>2, <2>2 DEF ToSet, OnTree
  <2>7. Commitment(acc) \in LiveStates BY <2>3, <2>5, <2>6 DEF LiveStates
  <2> QED BY <2>1, <2>7, <1>5 DEF OneLiveState
<1> QED BY <1>4, <1>5

\* Whatever transactions the client opens, from whatever state of its account, and in
\* whatever order their proofs are published, one account state on the tree is unspent and
\* it is the one the client holds: the membership the circuit asserts and the nullifier the
\* contract looks up are enough, for any number of open transactions and of assets.
THEOREM OneBridgeState == Spec => []OneLiveState
<1>1. AccountInv => OneLiveState BY OneLive
<1> QED BY <1>1, AccountInvariant, PTL

\* A step of OwnerAuthorisesBridge.
Authorised(p) ==
    IF p.kind = "withdraw"
    THEN SignedBy(p.spend_sig, acc.spend_pk,
                  WithdrawTxHash(Nullifier(acc), Commitment(acc'), p.public.asset_ids, p.public.amounts, p.public.eth))
    ELSE acc.consume.config =>
         SignedBy(p.consume_sig, acc.consume.pk,
                  DepositTxHash(Nullifier(acc), Commitment(acc'), p.public.note_comm, p.public.eth))

\* Only publishing takes a proof away, and only one.
LEMMA ProofsLeave ==
    ASSUME Next, NEW p \in proofs, p \notin proofs'
    PROVE  Landed(p)
<1>1. CASE Prove BY <1>1 DEF Prove
<1>2. ASSUME NEW q \in proofs, PublishDeposit(q) \/ PublishWithdraw(q) PROVE Landed(p)
  <2>1. Landed(q) BY <1>2 DEF PublishDeposit, PublishWithdraw
  <2>2. p = q BY <2>1 DEF Landed
  <2> QED BY <2>1, <2>2
<1>3. CASE UNCHANGED proofs BY <1>3
<1>4. CASE \/ \E note \in Notes, eth \in EthAddrs : DepositNew(note, eth)
           \/ WithdrawNew(Depositor)
  BY <1>3, <1>4 DEF DepositNew, WithdrawNew, Begin
<1>5. CASE \/ \E asset \in Assets \cup {DefaultAsset}, amount \in WithdrawAmounts : AddWithdrawal(asset, amount)
           \/ DepositBuild \/ WithdrawBuild
  BY <1>3, <1>5 DEF AddWithdrawal, DepositBuild, WithdrawBuild
<1>6. CASE \/ ConsumeSign \/ ApprovalSign \/ \E sk \in {SpendSk, WrongSk} : SpendSign(sk)
           \/ WithAccountPath \/ WithSubpoolProof \/ Discard
  BY <1>3, <1>6 DEF ConsumeSign, ApprovalSign, SpendSign, WithAccountPath, WithSubpoolProof, Discard
<1>7. CASE \/ \E note \in Notes : \E value \in {note.amount, note.amount + 1} : RegisterDeposit(note, value)
           \/ \E key \in DOMAIN deposits : WithdrawPendingDeposit(key)
           \/ ForeignLeaf
           \/ \E k \in ApprovalSks : RotateApprovalKey(k)
  BY <1>3, <1>7 DEF RegisterDeposit, WithdrawPendingDeposit, ForeignLeaf, RotateApprovalKey
<1> QED BY <1>1, <1>2, <1>4, <1>5, <1>6, <1>7 DEF Next

\* Tokens leave the account the client holds, and only by a transaction its owner signed:
\* these slots, this address, this account state.  A credit to an account with a consume
\* key of its own is signed with that key.  An old signature is of no use, for it names a
\* state that is spent.
THEOREM BridgeAuthorised == Spec => OwnerAuthorisesBridge
<1>1. ASSUME AccountInv, Next, NEW p \in proofs, p \notin proofs'
      PROVE  Authorised(p)
  <2>1. Landed(p) BY <1>1, ProofsLeave
  <2>2. Mine(acc) /\ Signed(p, acc) BY <1>1, <2>1, SpendsCurrent DEF Landed
  <2>3. acc' = p.accout /\ acc.spend_pk = SpendSk BY <2>1, <2>2 DEF Landed, Mine
  <2> QED BY <2>2, <2>3 DEF Signed, Authorised
<1>2. AccountInv /\ [Next]_vars =>
        [\A p \in proofs \ proofs' : Authorised(p)]_proofs
  BY <1>1 DEF vars
<1>3. Spec => [][\A p \in proofs \ proofs' : Authorised(p)]_proofs
  BY <1>2, AccountInvariant, PTL DEF Spec
<1> QED BY <1>3 DEF OwnerAuthorisesBridge, Authorised

-----------------------------------------------------------------------------
(* The value in the contract *)

\* A state of the account that is not the current one is spent.
SpentOrCurrent(a) == a = acc \/ Nullifier(a) \in nullifiers

\* b has what a has and the amount of the asset on top.
Credits(a, b, asset, amount) ==
    \A x : Balance(b, x) = Balance(a, x) + IF x = asset THEN amount ELSE 0

\* A transaction under construction starts from a state that is spent or current; a built
\* one credits the note or takes what its slots pay.
BuiltValue(t) ==
    /\ AstOK(t.accout.ast)
    /\ t.kind = "deposit" => Credits(t.accin, t.accout, t.note.asset, t.note.amount)
    /\ t.kind = "withdraw" => compute_withdrawal_slots(t.accin, t.withdrawals).ok
TxValue ==
    tx # NoTx =>
        /\ AstOK(tx.accin.ast) /\ SpentOrCurrent(tx.accin)
        /\ tx.kind = "deposit" => tx.note.amount \in Nat
        /\ tx.kind = "withdraw" => Requests(tx.withdrawals)
        /\ tx.stage = "built" => BuiltValue(tx)

\* A proof moves, from the state it spends to the one it makes, what its public inputs say.
Moves(p, a) ==
    /\ SpentOrCurrent(a) /\ p.public.accin_null = Nullifier(a)
    /\ AstOK(p.accout.ast)
    /\ p.kind = "deposit" => /\ p.public.amount \in Nat
                             /\ Credits(a, p.accout, p.public.asset, p.public.amount)
    /\ p.kind = "withdraw" => \A x : /\ Paid(p.public, x) \in Nat
                                     /\ Balance(a, x) = Balance(p.accout, x) + Paid(p.public, x)
ProofsValue == \A p \in proofs : \E a : Moves(p, a)

\* The deposits of the contract.
DepositsOK(d) ==
    /\ IsFiniteSet(DOMAIN d)
    /\ \A k \in DOMAIN d : /\ DOMAIN d[k] = {"status", "value", "recipient", "asset"}
                           /\ d[k].value \in Nat

\* The invariant.
ValueInv ==
    /\ AstOK(acc.ast) /\ TxValue /\ ProofsValue
    /\ DepositsOK(deposits) /\ DOMAIN escrow = Assets /\ EscrowIsBalanceAndPending

\* Balances of well-formed accounts are numbers.
LEMMA BalanceNat ==
    ASSUME NEW a, AstOK(a.ast), NEW x
    PROVE  Balance(a, x) \in Nat
BY AmountNat DEF Balance

\* The amounts of the notes.
LEMMA NoteAmounts ==
    ASSUME NEW note \in Notes
    PROVE  note.amount \in Nat
<1>1. Modulus - 1 \in Nat BY ModulusAssumption
<1> QED BY <1>1 DEF Notes, DepositNote

-----------------------------------------------------------------------------
(* Pending deposits *)

\* What a deposit counts for, and all of them.
Claim(d, a) == IF d.status = "Pending" /\ d.asset = a THEN d.value ELSE 0
Claims(ds, a) == SumFunctionOnSet([k \in DOMAIN ds |-> Claim(ds[k], a)], DOMAIN ds)

\* The pending value is what the deposits count for.
LEMMA PendingSum ==
    /\ \A a : PendingValue(a) = Claims(deposits, a)
    /\ \A a : PendingValue(a)' = Claims(deposits', a)
BY DEF PendingValue, SumFunction, Claim, Claims

\* It is a number.
LEMMA ClaimsNat ==
    ASSUME NEW ds, DepositsOK(ds), NEW a
    PROVE  /\ Claims(ds, a) \in Nat
           /\ \A k \in DOMAIN ds : Claim(ds[k], a) \in Nat
<1> DEFINE f == [k \in DOMAIN ds |-> Claim(ds[k], a)]
<1>1. \A k \in DOMAIN ds : Claim(ds[k], a) \in Nat BY DEF DepositsOK, Claim
<1>2. \A k \in DOMAIN ds : f[k] \in Nat BY <1>1
<1> HIDE DEF f
<1>3. SumFunctionOnSet(f, DOMAIN ds) \in Nat BY <1>2, SumNat DEF DepositsOK
<1> QED BY <1>1, <1>3 DEF f, Claims

\* es is ds with the deposit at key, pending so far, no longer so.
SettlesAt(ds, es, key) ==
    /\ DepositsOK(ds) /\ key \in DOMAIN ds /\ ds[key].status = "Pending"
    /\ DOMAIN es = DOMAIN ds /\ \A k \in DOMAIN ds \ {key} : es[k] = ds[k]
    /\ DOMAIN es[key] = DOMAIN ds[key] /\ es[key].value = ds[key].value /\ es[key].status # "Pending"

\* A deposit that is no longer pending no longer counts.
LEMMA Settled ==
    ASSUME NEW ds, NEW es, NEW key, SettlesAt(ds, es, key), NEW a
    PROVE  /\ DepositsOK(es)
           /\ Claims(ds, a) = Claims(es, a) + IF ds[key].asset = a THEN ds[key].value ELSE 0
<1> USE DEF SettlesAt
<1>1. /\ DOMAIN es = DOMAIN ds
      /\ \A k \in DOMAIN ds \ {key} : es[k] = ds[k]
  OBVIOUS
<1>2. /\ es[key].status # "Pending" /\ es[key].value = ds[key].value
      /\ DOMAIN es[key] = {"status", "value", "recipient", "asset"}
  BY DEF DepositsOK
<1>3. DepositsOK(es) BY <1>1, <1>2 DEF DepositsOK
<1> DEFINE D == DOMAIN ds
           f == [k \in D |-> Claim(ds[k], a)]
           g == [k \in D |-> Claim(es[k], a)]
<1>4. Claims(ds, a) = SumFunctionOnSet(f, D) /\ Claims(ds, a) \in Nat /\ \A k \in D : f[k] \in Int
  BY ClaimsNat DEF Claims
<1>5. Claims(es, a) = SumFunctionOnSet(g, D) /\ Claims(es, a) \in Nat /\ \A k \in D : g[k] \in Int
  <2>1. Claims(es, a) = SumFunctionOnSet([k \in DOMAIN es |-> Claim(es[k], a)], DOMAIN es) BY DEF Claims
  <2>2. Claims(es, a) = SumFunctionOnSet(g, D) BY <1>1, <2>1
  <2>3. Claims(es, a) \in Nat /\ \A k \in DOMAIN es : Claim(es[k], a) \in Nat BY <1>3, ClaimsNat
  <2> QED BY <1>1, <2>2, <2>3
<1>6. /\ f[key] = IF ds[key].asset = a THEN ds[key].value ELSE 0
      /\ g[key] = 0 /\ \A k \in D \ {key} : g[k] = f[k]
  BY <1>1, <1>2 DEF Claim
<1>7. IsFiniteSet(D) BY DEF DepositsOK
<1> HIDE DEF D, f, g
<1>8. IsFiniteSet(D \ {key}) BY <1>7, FS_Subset
<1>9. key \in D BY DEF D
<1>10. SumFunctionOnSet(f, D) = f[key] + SumFunctionOnSet(f, D \ {key}) BY <1>4, <1>7, <1>9, SumRemove
<1>11. SumFunctionOnSet(g, D) = g[key] + SumFunctionOnSet(g, D \ {key}) BY <1>5, <1>7, <1>9, SumRemove
<1>12. SumFunctionOnSet(f, D \ {key}) = SumFunctionOnSet(g, D \ {key}) BY <1>4, <1>6, <1>8, SumCongruence
<1>13. f[key] \in Int /\ SumFunctionOnSet(f, D \ {key}) \in Int BY <1>4, <1>8, <1>9, SumInt
<1>14. Claims(ds, a) = Claims(es, a) + f[key] BY <1>4, <1>5, <1>6, <1>10, <1>11, <1>12, <1>13
<1> QED BY <1>3, <1>6, <1>14

\* A new deposit counts for its value.
LEMMA Registered ==
    ASSUME NEW ds, DepositsOK(ds), NEW key, key \notin DOMAIN ds, NEW value \in Nat, NEW eth, NEW asset, NEW a,
           NEW es, es = [k \in DOMAIN ds \cup {key} |->
                           IF k = key THEN DepositRecord("Pending", value, eth, asset) ELSE ds[k]]
    PROVE  /\ DepositsOK(es)
           /\ Claims(es, a) = Claims(ds, a) + IF asset = a THEN value ELSE 0
<1> DEFINE D == DOMAIN ds
           E == D \cup {key}
<1>1. /\ DOMAIN es = E
      /\ es[key] = DepositRecord("Pending", value, eth, asset)
      /\ \A k \in D : es[k] = ds[k]
  OBVIOUS
<1>2. /\ es[key].status = "Pending" /\ es[key].value = value /\ es[key].asset = asset
      /\ DOMAIN es[key] = {"status", "value", "recipient", "asset"}
  BY <1>1 DEF DepositRecord
<1>3. IsFiniteSet(D) /\ IsFiniteSet(E) BY FS_AddElement DEF DepositsOK
<1>4. DepositsOK(es) BY <1>1, <1>2, <1>3 DEF DepositsOK
<1> DEFINE f == [k \in D |-> Claim(ds[k], a)]
           g == [k \in E |-> Claim(es[k], a)]
<1>5. Claims(ds, a) = SumFunctionOnSet(f, D) /\ Claims(ds, a) \in Nat /\ \A k \in D : f[k] \in Int
  BY ClaimsNat DEF Claims
<1>6. Claims(es, a) = SumFunctionOnSet(g, E) /\ \A k \in E : g[k] \in Int
  BY <1>1, <1>4, ClaimsNat DEF Claims
<1>7. g[key] = (IF asset = a THEN value ELSE 0) /\ \A k \in D : g[k] = f[k]
  BY <1>1, <1>2 DEF Claim
<1>8. key \notin D OBVIOUS
<1> HIDE DEF D, f, g
<1>9. SumFunctionOnSet(g, E) = g[key] + SumFunctionOnSet(g, D) BY <1>3, <1>6, <1>8, SumAdd
<1>10. SumFunctionOnSet(f, D) = SumFunctionOnSet(g, D) BY <1>3, <1>5, <1>7, SumCongruence
<1> QED BY <1>4, <1>5, <1>6, <1>7, <1>9, <1>10

-----------------------------------------------------------------------------
(* Building moves no value *)

\* The tree of the account the client may start with.
LEMMA FundedAst ==
    ASSUME NEW k
    PROVE  AstOK(FundedAccount(k).ast)
<1> DEFINE u == _insert_asset(NewAst, 1, 2)
           v == _insert_asset(u, 2, 1)
<1>1. FundedAccount(k).ast = v BY DEF FundedAccount, NewAccount
<1>2. AstOK(NewAst) /\ 1 \notin Tracked(NewAst) /\ 2 \notin Tracked(NewAst) BY NewAstOK DEF DefaultAsset
<1>3. AstOK(u) /\ Tracked(u) = Tracked(NewAst) \cup {1} BY <1>2, InsertOK
<1>4. 2 \notin Tracked(u) BY <1>2, <1>3
<1> HIDE DEF u
<1>5. AstOK(v) BY <1>3, <1>4, InsertOK
<1> QED BY <1>1, <1>5

\* At first the contract holds the balance of the account and nothing is pending.
LEMMA InitValueInv == Init => ValueInv
<1> SUFFICES ASSUME Init PROVE ValueInv OBVIOUS
<1>1. AstOK(acc.ast)
  <2>1. NewAccount(Me, Subpool).ast = NewAst BY DEF NewAccount
  <2> QED BY <2>1, NewAstOK, FundedAst DEF Init
<1>2. TxValue /\ ProofsValue BY DEF Init, TxValue, ProofsValue
<1>3. DOMAIN deposits = {} BY DEF Init
<1>4. DepositsOK(deposits) BY <1>3, FS_EmptySet DEF DepositsOK
<1>5. \A a : PendingValue(a) = 0 BY <1>3, PendingSum, SumEmpty DEF Claims
<1>6. EscrowIsBalanceAndPending
  <2> SUFFICES ASSUME NEW a \in Assets PROVE escrow[a] = Balance(acc, a) + PendingValue(a)
    BY DEF EscrowIsBalanceAndPending
  <2>1. escrow[a] = Balance(acc, a) BY DEF Init
  <2> QED BY <1>1, <1>5, <2>1, BalanceNat
<1>7. DOMAIN escrow = Assets BY DEF Init
<1> QED BY <1>1, <1>2, <1>4, <1>6, <1>7 DEF ValueInv

\* Steps that leave the account, the deposits, the tokens and the proofs alone.
LEMMA ValueQuiet ==
    ASSUME ValueInv, UNCHANGED <<nullifiers, acc, deposits, escrow, proofs>>, TxValue'
    PROVE  ValueInv'
<1>1. ProofsValue' BY DEF ValueInv, ProofsValue, Moves, SpentOrCurrent
<1>2. EscrowIsBalanceAndPending' BY DEF ValueInv, EscrowIsBalanceAndPending, PendingValue
<1> QED BY <1>1, <1>2 DEF ValueInv

\* new of either builder.
LEMMA ValueBegin ==
    ASSUME ValueInv, NEW kind, NEW note, NEW eth, Begin(NewTx(kind, note, eth)), kind = "deposit" => note.amount \in Nat
    PROVE  ValueInv'
<1>1. /\ tx'.stage = "builder" /\ tx'.kind = kind /\ tx'.accin = acc /\ tx'.note = note /\ tx'.withdrawals = <<>>
      /\ UNCHANGED <<proofs, chainVars>>
  BY DEF Begin, NewTx
<1>2. Requests(<<>>)
  <2>1. <<>> \in Seq([asset : Nat, amount : Nat]) /\ Len(<<>>) = 0 OBVIOUS
  <2> QED BY <2>1, NoteBatchAssumption DEF Requests
<1>3. TxValue' BY <1>1, <1>2 DEF TxValue, ValueInv, SpentOrCurrent, chainVars
<1> QED BY <1>1, <1>3, ValueQuiet DEF chainVars

\* A withdrawal slot more.
LEMMA ValueAddWithdrawal ==
    ASSUME AccountInv, ValueInv, NEW asset \in Assets \cup {DefaultAsset}, NEW amount \in WithdrawAmounts,
           AddWithdrawal(asset, amount)
    PROVE  ValueInv'
<1>1. tx # NoTx /\ tx.stage = "builder" /\ tx.kind = "withdraw" BY DEF AddWithdrawal, NoTx
<1>2. /\ tx'.stage = tx.stage /\ tx'.kind = tx.kind /\ tx'.accin = tx.accin
      /\ tx'.withdrawals = Append(tx.withdrawals, [asset |-> asset, amount |-> amount])
      /\ UNCHANGED <<proofs, chainVars>>
  BY <1>1 DEF AddWithdrawal, AccountInv, TxInv, TxFields
<1>3. Requests(tx'.withdrawals)
  <2> DEFINE R == [asset : Nat, amount : Nat]
             r == [asset |-> asset, amount |-> amount]
  <2>1. asset \in Nat BY AssetAssumption DEF DefaultAsset
  <2>2. amount \in Nat BY WithdrawAssumption, ModulusAssumption
  <2>3. r \in R BY <2>1, <2>2
  <2>4. tx.withdrawals \in Seq(R) /\ Len(tx.withdrawals) <= NoteBatch BY <1>1 DEF ValueInv, TxValue, Requests
  <2>5. Len(tx.withdrawals) # NoteBatch BY DEF AddWithdrawal
  <2> HIDE DEF R, r
  <2>6. Append(tx.withdrawals, r) \in Seq(R) /\ Len(Append(tx.withdrawals, r)) = Len(tx.withdrawals) + 1
        /\ Len(tx.withdrawals) \in Nat
    BY <2>3, <2>4
  <2> QED BY <1>2, <2>4, <2>5, <2>6, NoteBatchAssumption DEF Requests, R, r
<1>4. TxValue' BY <1>1, <1>2, <1>3 DEF TxValue, ValueInv, SpentOrCurrent, chainVars
<1> QED BY <1>2, <1>4, ValueQuiet DEF chainVars

\* A built deposit credits its note.
LEMMA ValueDepositBuild ==
    ASSUME AccountInv, ValueInv, DepositBuild
    PROVE  ValueInv'
<1>1. tx # NoTx /\ tx.stage = "builder" /\ tx.kind = "deposit" /\ UNCHANGED <<proofs, chainVars>>
  BY DEF DepositBuild, NoTx
<1> DEFINE n   == tx.note
           t   == tx.accin.ast
           old == AmountOrNext(t, n.asset).amount
           r   == insert_or_update_asset(t, n.asset, old + n.amount)
           b   == [clone_with_incremented_nonce(tx.accin) EXCEPT !.ast = insert_or_update_asset(@, n.asset, old + n.amount)]
<1>2. PICK h : tx' = NoTx \/ tx' = AsBuilt(b, h) BY DEF DepositBuild, Returns
<1>3. AstOK(t) /\ n.amount \in Nat /\ SpentOrCurrent(tx.accin) BY <1>1 DEF ValueInv, TxValue
<1>4. b.ast = r BY <1>1 DEF clone_with_incremented_nonce, AccountInv, TxInv, Mine
<1> HIDE DEF b
<1>5. old \in Nat BY <1>3, AmountNat
<1>6. /\ AstOK(r) /\ AmountOrNext(r, n.asset).amount = old + n.amount
      /\ \A x : x # n.asset => AmountOrNext(r, x).amount = AmountOrNext(t, x).amount
  BY <1>3, <1>5, InsertOrUpdateOK
<1>7. Credits(tx.accin, b, n.asset, n.amount)
  <2> SUFFICES ASSUME NEW x PROVE Balance(b, x) = Balance(tx.accin, x) + IF x = n.asset THEN n.amount ELSE 0
    BY DEF Credits
  <2>1. Balance(b, x) = AmountOrNext(r, x).amount BY <1>4 DEF Balance
  <2>2. Balance(tx.accin, x) = AmountOrNext(t, x).amount /\ AmountOrNext(t, x).amount \in Nat
    BY <1>3, AmountNat DEF Balance
  <2> HIDE DEF r
  <2> QED BY <1>5, <1>6, <2>1, <2>2
<1> HIDE DEF r, old
<1>8. ASSUME tx' = AsBuilt(b, h) PROVE TxValue'
  <2>1. /\ tx'.kind = "deposit" /\ tx'.accin = tx.accin /\ tx'.accout = b /\ tx'.note = tx.note
    BY <1>1, <1>8 DEF AsBuilt, AccountInv, TxInv, TxFields
  <2>2. BuiltValue(tx') BY <1>4, <1>6, <1>7, <2>1 DEF BuiltValue
  <2> QED BY <1>1, <1>3, <2>1, <2>2 DEF TxValue, SpentOrCurrent, chainVars
<1>9. TxValue' BY <1>2, <1>8 DEF TxValue
<1> QED BY <1>1, <1>9, ValueQuiet DEF chainVars

\* A built withdrawal takes what its slots pay.
LEMMA ValueWithdrawBuild ==
    ASSUME AccountInv, ValueInv, WithdrawBuild
    PROVE  ValueInv'
<1>1. tx # NoTx /\ tx.stage = "builder" /\ tx.kind = "withdraw" /\ UNCHANGED <<proofs, chainVars>>
  BY DEF WithdrawBuild, NoTx
<1> DEFINE c == compute_withdrawal_slots(tx.accin, tx.withdrawals)
           b == WithdrawnAccount(tx.accin, c)
           g == AstAfter(tx.accin.ast, tx.withdrawals)
<1>2. PICK h : tx' = NoTx \/ (tx' = AsBuilt(b, h) /\ c.ok) BY DEF WithdrawBuild, Returns
<1>3. AstOK(tx.accin.ast) /\ Requests(tx.withdrawals) /\ SpentOrCurrent(tx.accin) BY <1>1 DEF ValueInv, TxValue
<1>4. b.ast = c.ast BY <1>1 DEF WithdrawnAccount, clone_with_incremented_nonce, AccountInv, TxInv, Mine
<1>5. c.ast = g[NoteBatch] /\ (c.ok <=> \A i \in Slots : SlotFits(g[i - 1], tx.withdrawals, i)) BY SlotsComputed
<1> HIDE DEF c, b, g
<1>6. c.ok => AstOK(b.ast)
  <2>1. NoteBatch \in 0..NoteBatch BY NoteBatchAssumption
  <2> QED BY <1>3, <1>4, <1>5, <2>1, TreesOnTheWay DEF g
<1>7. ASSUME tx' = AsBuilt(b, h), c.ok PROVE TxValue'
  <2>1. /\ tx'.kind = "withdraw" /\ tx'.accin = tx.accin /\ tx'.accout = b /\ tx'.withdrawals = tx.withdrawals
    BY <1>1, <1>7 DEF AsBuilt, AccountInv, TxInv, TxFields
  <2>2. BuiltValue(tx') BY <1>6, <1>7, <2>1 DEF BuiltValue, c
  <2> QED BY <1>1, <1>3, <2>1, <2>2 DEF TxValue, SpentOrCurrent, chainVars
<1>8. TxValue' BY <1>2, <1>7 DEF TxValue
<1> QED BY <1>1, <1>8, ValueQuiet DEF chainVars

\* Signing and fetching paths leave the accounts and the slots alone.
LEMMA ValueFieldSet ==
    ASSUME AccountInv, ValueInv, Built, UNCHANGED <<proofs, chainVars>>,
           NEW f \in {"spend_sig", "consume_sig", "approval_sig", "approval_key", "accin_path"}, NEW v,
           tx' = NoTx \/ tx' = [tx EXCEPT ![f] = v]
    PROVE  ValueInv'
<1>1. tx # NoTx BY DEF Built, NoTx
<1>2. ASSUME tx' = [tx EXCEPT ![f] = v] PROVE TxValue'
  <2>1. /\ tx'.stage = tx.stage /\ tx'.kind = tx.kind /\ tx'.accin = tx.accin /\ tx'.note = tx.note
        /\ tx'.accout = tx.accout /\ tx'.withdrawals = tx.withdrawals
    BY <1>1, <1>2 DEF AccountInv, TxInv, TxFields
  <2>2. tx.stage = "built" /\ BuiltValue(tx) BY <1>1 DEF ValueInv, TxValue, Built
  <2>3. BuiltValue(tx') BY <2>1, <2>2 DEF BuiltValue
  <2> QED BY <1>1, <2>1, <2>3 DEF ValueInv, TxValue, SpentOrCurrent, chainVars
<1>3. TxValue' BY <1>2 DEF TxValue
<1> QED BY <1>3, ValueQuiet DEF chainVars

-----------------------------------------------------------------------------
(* Proving and publishing *)

\* The public inputs of a deposit say what it credits.
LEMMA DepositMoves ==
    ASSUME tx.kind = "deposit"
    PROVE  /\ PublicInputs(tx).accin_null = Nullifier(tx.accin)
           /\ PublicInputs(tx).amount = tx.note.amount /\ PublicInputs(tx).asset = tx.note.asset
BY DEF PublicInputs, DepositPublicInputs, DepositWitness

\* Those of a withdrawal say what it pays.
LEMMA WithdrawMoves ==
    ASSUME tx.kind = "withdraw", AstOK(tx.accin.ast), Requests(tx.withdrawals), NEW x,
           tx.accout.ast = compute_withdrawal_slots(tx.accin, tx.withdrawals).ast,
           compute_withdrawal_slots(tx.accin, tx.withdrawals).ok
    PROVE  /\ PublicInputs(tx).accin_null = Nullifier(tx.accin)
           /\ Paid(PublicInputs(tx), x) \in Nat
           /\ Balance(tx.accin, x) = Balance(tx.accout, x) + Paid(PublicInputs(tx), x)
<1> DEFINE t  == tx.accin.ast
           ws == tx.withdrawals
           c  == compute_withdrawal_slots(tx.accin, ws)
           g  == AstAfter(t, ws)
           p  == PublicInputs(tx)
           f  == [i \in Slots |-> IF p.asset_ids[i] = x THEN p.amounts[i] ELSE 0]
<1>1. /\ c.ast = g[NoteBatch] /\ (c.ok <=> \A i \in Slots : SlotFits(g[i - 1], ws, i))
      /\ \A i \in Slots : c.slots[i] = SlotAt(g[i - 1], ws, i)
  BY SlotsComputed
<1>2. /\ p.accin_null = Nullifier(tx.accin)
      /\ \A i \in Slots : p.asset_ids[i] = c.slots[i].asset /\ p.amounts[i] = c.slots[i].amount
  BY DEF PublicInputs, WithdrawPublicInputs, WithdrawWitness
<1>3. c.ok /\ AstOK(t) /\ Requests(ws) /\ tx.accout.ast = c.ast OBVIOUS
<1>4. Balance(tx.accin, x) = AmountOrNext(t, x).amount /\ Balance(tx.accout, x) = AmountOrNext(g[NoteBatch], x).amount
  BY <1>1, <1>3 DEF Balance
<1>5. Paid(p, x) = SumFunctionOnSet(f, Slots) BY DEF Paid, SumFunction
<1> HIDE DEF t, ws, c, p
<1>6. \A i \in Slots : f[i] = IF SlotAt(g[i - 1], ws, i).asset = x THEN SlotAt(g[i - 1], ws, i).amount ELSE 0
  BY <1>1, <1>2
<1>7. \A i \in Slots : SlotFits(g[i - 1], ws, i) BY <1>1, <1>3
<1> HIDE DEF f
<1>8. /\ SumFunctionOnSet(f, Slots) \in Nat
      /\ AmountOrNext(t, x).amount = AmountOrNext(g[NoteBatch], x).amount + SumFunctionOnSet(f, Slots)
  BY <1>3, <1>6, <1>7, SlotsPay
<1> QED BY <1>2, <1>4, <1>5, <1>8 DEF p

\* A proof moves what its transaction does.
LEMMA ValueProve ==
    ASSUME AccountInv, ValueInv, Prove
    PROVE  ValueInv'
<1>1. tx # NoTx /\ tx.stage = "built" /\ UNCHANGED <<opened, chainVars>> /\ tx' = NoTx
  BY DEF Prove, Built, NoTx
<1> DEFINE q == [kind |-> tx.kind, public |-> PublicInputs(tx), accout |-> tx.accout,
                 spend_sig |-> tx.spend_sig, consume_sig |-> tx.consume_sig]
<1>2. \A p \in proofs' : p \in proofs \/ p = q BY DEF Prove
<1>3. q.kind = tx.kind /\ q.public = PublicInputs(tx) /\ q.accout = tx.accout OBVIOUS
<1> HIDE DEF q
<1>4. /\ AstOK(tx.accin.ast) /\ SpentOrCurrent(tx.accin) /\ BuiltValue(tx)
      /\ tx.kind = "deposit" => tx.note.amount \in Nat
      /\ tx.kind = "withdraw" => Requests(tx.withdrawals)
  BY <1>1 DEF ValueInv, TxValue
<1>5. /\ Mine(tx.accin) /\ tx.kind \in {"deposit", "withdraw"}
      /\ tx.kind = "withdraw" =>
           tx.accout = WithdrawnAccount(tx.accin, compute_withdrawal_slots(tx.accin, tx.withdrawals))
  BY <1>1 DEF AccountInv, TxInv
<1>6. Moves(q, tx.accin)
  <2>1. CASE tx.kind = "deposit" BY <1>3, <1>4, <2>1, DepositMoves DEF Moves, BuiltValue
  <2>2. CASE tx.kind = "withdraw"
    <3>1. tx.accout.ast = compute_withdrawal_slots(tx.accin, tx.withdrawals).ast
      BY <1>5, <2>2 DEF WithdrawnAccount, clone_with_incremented_nonce, Mine
    <3> QED BY <1>3, <1>4, <2>2, <3>1, WithdrawMoves DEF Moves, BuiltValue
  <2> QED BY <1>5, <2>1, <2>2
<1>7. \A p, a : Moves(p, a) => Moves(p, a)' BY <1>1 DEF Moves, SpentOrCurrent, chainVars
<1>8. ProofsValue' BY <1>2, <1>6, <1>7 DEF ProofsValue, ValueInv
<1>9. TxValue' BY <1>1 DEF TxValue
<1>10. EscrowIsBalanceAndPending' BY <1>1 DEF ValueInv, EscrowIsBalanceAndPending, PendingValue, chainVars
<1> QED BY <1>1, <1>8, <1>9, <1>10 DEF ValueInv, chainVars

\* A proof that is accepted spends the current account, and then every other transaction
\* from that account is from a spent one.
LEMMA LandedMoves ==
    ASSUME ValueInv, NEW p \in proofs, Landed(p)
    PROVE  /\ Moves(p, acc) /\ acc' = p.accout /\ AstOK(acc'.ast)
           /\ TxValue' /\ ProofsValue'
<1>1. PICK a : Moves(p, a) BY DEF ValueInv, ProofsValue
<1>2. a = acc BY <1>1 DEF Moves, SpentOrCurrent, Landed, Accepts
<1>3. /\ nullifiers' = nullifiers \cup {Nullifier(acc)} /\ acc' = p.accout /\ proofs' = proofs \ {p} /\ tx' = tx
  BY <1>1, <1>2 DEF Moves, Landed
<1>4. \A b : SpentOrCurrent(b) => SpentOrCurrent(b)' BY <1>3 DEF SpentOrCurrent
<1>5. TxValue' BY <1>3, <1>4 DEF ValueInv, TxValue
<1>6. \A q, b : Moves(q, b) => Moves(q, b)' BY <1>4 DEF Moves
<1>7. ProofsValue' BY <1>3, <1>6 DEF ValueInv, ProofsValue
<1> QED BY <1>1, <1>2, <1>3, <1>5, <1>7 DEF Moves

\* A deposit slot: what was pending is now balance.
LEMMA ValuePublishDeposit ==
    ASSUME ValueInv, NEW p \in proofs, PublishDeposit(p)
    PROVE  ValueInv'
<1> DEFINE key == p.public.note_comm
<1>1. /\ p.kind = "deposit" /\ key \in DOMAIN deposits /\ Landed(p) /\ escrow' = escrow
      /\ deposits[key] = DepositRecord("Pending", p.public.amount, p.public.eth, p.public.asset)
      /\ deposits' = [deposits EXCEPT ![key].status = "Validated"]
  BY DEF PublishDeposit
<1>2. /\ Moves(p, acc) /\ acc' = p.accout /\ AstOK(acc'.ast) /\ TxValue' /\ ProofsValue'
  BY <1>1, LandedMoves
<1>3. deposits[key].status = "Pending" /\ deposits[key].value = p.public.amount /\ deposits[key].asset = p.public.asset
  BY <1>1 DEF DepositRecord
<1> HIDE DEF key
<1>4. DepositsOK(deposits) BY DEF ValueInv
<1>5. /\ DepositsOK(deposits')
      /\ \A a : Claims(deposits, a) = Claims(deposits', a) + IF p.public.asset = a THEN p.public.amount ELSE 0
  <2>1. ASSUME NEW a
        PROVE  /\ DepositsOK(deposits')
               /\ Claims(deposits, a) = Claims(deposits', a) + IF p.public.asset = a THEN p.public.amount ELSE 0
    <3>1. /\ DOMAIN deposits' = DOMAIN deposits
          /\ \A k \in DOMAIN deposits \ {key} : deposits'[k] = deposits[k]
          /\ deposits'[key] = [deposits[key] EXCEPT !.status = "Validated"]
      BY <1>1
    <3>2. /\ DOMAIN deposits'[key] = DOMAIN deposits[key] /\ deposits'[key].value = deposits[key].value
          /\ deposits'[key].status # "Pending"
      BY <1>1, <1>4, <3>1 DEF DepositsOK
    <3>3. SettlesAt(deposits, deposits', key) BY <1>1, <1>3, <1>4, <3>1, <3>2 DEF SettlesAt
    <3> QED BY <1>3, <3>3, Settled
  <2> QED BY <2>1
<1>6. EscrowIsBalanceAndPending'
  <2> SUFFICES ASSUME NEW a \in Assets PROVE escrow'[a] = Balance(acc', a) + PendingValue(a)'
    BY DEF EscrowIsBalanceAndPending
  <2>1. escrow[a] = Balance(acc, a) + Claims(deposits, a) BY PendingSum DEF ValueInv, EscrowIsBalanceAndPending
  <2>2. Balance(acc', a) = Balance(acc, a) + IF a = p.public.asset THEN p.public.amount ELSE 0
    BY <1>1, <1>2 DEF Moves, Credits
  <2>3. p.public.amount \in Nat BY <1>1, <1>2 DEF Moves
  <2>4. Balance(acc, a) \in Nat /\ Claims(deposits', a) \in Nat
    BY <1>5, BalanceNat, ClaimsNat DEF ValueInv
  <2>5. Claims(deposits, a) = Claims(deposits', a) + IF p.public.asset = a THEN p.public.amount ELSE 0 BY <1>5
  <2>6. escrow'[a] = Balance(acc', a) + Claims(deposits', a) BY <1>1, <2>1, <2>2, <2>3, <2>4, <2>5
  <2> QED BY <2>6, PendingSum
<1> QED BY <1>1, <1>2, <1>5, <1>6 DEF ValueInv

\* A withdrawal slot pays what the account loses.
LEMMA ValuePublishWithdraw ==
    ASSUME ValueInv, NEW p \in proofs, PublishWithdraw(p)
    PROVE  ValueInv'
<1>1. /\ p.kind = "withdraw" /\ Landed(p) /\ escrow' = [a \in Assets |-> escrow[a] - Paid(p.public, a)]
      /\ deposits' = deposits
  BY DEF PublishWithdraw
<1>2. /\ Moves(p, acc) /\ acc' = p.accout /\ AstOK(acc'.ast) /\ TxValue' /\ ProofsValue'
  BY <1>1, LandedMoves
<1>3. EscrowIsBalanceAndPending'
  <2> SUFFICES ASSUME NEW a \in Assets PROVE escrow'[a] = Balance(acc', a) + PendingValue(a)'
    BY DEF EscrowIsBalanceAndPending
  <2>1. escrow[a] = Balance(acc, a) + Claims(deposits, a) BY PendingSum DEF ValueInv, EscrowIsBalanceAndPending
  <2>2. Balance(acc, a) = Balance(acc', a) + Paid(p.public, a) /\ Paid(p.public, a) \in Nat
    BY <1>1, <1>2 DEF Moves
  <2>3. Balance(acc', a) \in Nat /\ Claims(deposits, a) \in Nat
    BY <1>2, BalanceNat, ClaimsNat DEF ValueInv
  <2>4. escrow'[a] = escrow[a] - Paid(p.public, a) BY <1>1
  <2>5. escrow'[a] = Balance(acc', a) + Claims(deposits, a) BY <2>1, <2>2, <2>3, <2>4
  <2> QED BY <1>1, <2>5, PendingSum
<1> QED BY <1>1, <1>2, <1>3 DEF ValueInv

-----------------------------------------------------------------------------
(* Deposits *)

\* A registered deposit is pending for what was paid in.
LEMMA ValueRegister ==
    ASSUME ValueInv, NEW note \in Notes, NEW value \in {note.amount, note.amount + 1}, RegisterDeposit(note, value)
    PROVE  ValueInv'
<1> DEFINE key == DepositNoteCommitment(note)
<1>1. /\ key \notin DOMAIN deposits /\ UNCHANGED <<nullifiers, acc, tx, proofs>>
      /\ deposits' = [k \in DOMAIN deposits \cup {key} |->
                          IF k = key THEN DepositRecord("Pending", value, Depositor, note.asset) ELSE deposits[k]]
      /\ escrow' = [escrow EXCEPT ![note.asset] = @ + value]
  BY DEF RegisterDeposit
<1>2. value \in Nat
  <2>1. note.amount \in Nat BY NoteAmounts
  <2> QED BY <2>1
<1> HIDE DEF key
<1>3. /\ DepositsOK(deposits')
      /\ \A a : Claims(deposits', a) = Claims(deposits, a) + IF note.asset = a THEN value ELSE 0
  <2>1. ASSUME NEW a
        PROVE  /\ DepositsOK(deposits')
               /\ Claims(deposits', a) = Claims(deposits, a) + IF note.asset = a THEN value ELSE 0
    BY <1>1, <1>2, Registered DEF ValueInv
  <2> QED BY <2>1
<1>4. EscrowIsBalanceAndPending'
  <2> SUFFICES ASSUME NEW a \in Assets PROVE escrow'[a] = Balance(acc, a) + PendingValue(a)'
    BY <1>1 DEF EscrowIsBalanceAndPending
  <2>1. escrow[a] = Balance(acc, a) + Claims(deposits, a) BY PendingSum DEF ValueInv, EscrowIsBalanceAndPending
  <2>2. Balance(acc, a) \in Nat /\ Claims(deposits, a) \in Nat BY BalanceNat, ClaimsNat DEF ValueInv
  <2>3. escrow'[a] = IF note.asset = a THEN escrow[a] + value ELSE escrow[a] BY <1>1 DEF ValueInv
  <2>4. escrow'[a] = Balance(acc, a) + Claims(deposits', a) BY <1>2, <1>3, <2>1, <2>2, <2>3
  <2> QED BY <2>4, PendingSum
<1>5. TxValue' /\ ProofsValue' BY <1>1 DEF ValueInv, TxValue, ProofsValue, Moves, SpentOrCurrent
<1> QED BY <1>1, <1>3, <1>4, <1>5 DEF ValueInv

\* A cancelled deposit goes back.
LEMMA ValueCancel ==
    ASSUME ValueInv, NEW key \in DOMAIN deposits, WithdrawPendingDeposit(key)
    PROVE  ValueInv'
<1> DEFINE asset == deposits[key].asset
           value == deposits[key].value
<1>1. /\ deposits[key].status = "Pending" /\ UNCHANGED <<nullifiers, acc, tx, proofs>>
      /\ deposits' = [deposits EXCEPT ![key].status = "Withdrawn"]
      /\ escrow' = [escrow EXCEPT ![asset] = @ - value]
  BY DEF WithdrawPendingDeposit
<1>2. value \in Nat BY DEF ValueInv, DepositsOK
<1>3. /\ DepositsOK(deposits')
      /\ \A a : Claims(deposits, a) = Claims(deposits', a) + IF asset = a THEN value ELSE 0
  <2>1. ASSUME NEW a
        PROVE  /\ DepositsOK(deposits')
               /\ Claims(deposits, a) = Claims(deposits', a) + IF asset = a THEN value ELSE 0
    <3>1. /\ DOMAIN deposits' = DOMAIN deposits
          /\ \A k \in DOMAIN deposits \ {key} : deposits'[k] = deposits[k]
          /\ deposits'[key] = [deposits[key] EXCEPT !.status = "Withdrawn"]
      BY <1>1
    <3>2. DepositsOK(deposits) BY DEF ValueInv
    <3>3. /\ DOMAIN deposits'[key] = DOMAIN deposits[key] /\ deposits'[key].value = deposits[key].value
          /\ deposits'[key].status # "Pending"
      BY <3>1, <3>2 DEF DepositsOK
    <3>4. SettlesAt(deposits, deposits', key) BY <1>1, <3>1, <3>2, <3>3 DEF SettlesAt
    <3> QED BY <3>4, Settled
  <2> QED BY <2>1
<1> HIDE DEF asset, value
<1>4. EscrowIsBalanceAndPending'
  <2> SUFFICES ASSUME NEW a \in Assets PROVE escrow'[a] = Balance(acc, a) + PendingValue(a)'
    BY <1>1 DEF EscrowIsBalanceAndPending
  <2>1. escrow[a] = Balance(acc, a) + Claims(deposits, a) BY PendingSum DEF ValueInv, EscrowIsBalanceAndPending
  <2>2. Balance(acc, a) \in Nat /\ Claims(deposits', a) \in Nat BY <1>3, BalanceNat, ClaimsNat DEF ValueInv
  <2>3. escrow'[a] = IF asset = a THEN escrow[a] - value ELSE escrow[a] BY <1>1 DEF ValueInv
  <2>4. escrow'[a] = Balance(acc, a) + Claims(deposits', a) BY <1>2, <1>3, <2>1, <2>2, <2>3
  <2> QED BY <2>4, PendingSum
<1>5. TxValue' /\ ProofsValue' BY <1>1 DEF ValueInv, TxValue, ProofsValue, Moves, SpentOrCurrent
<1> QED BY <1>1, <1>3, <1>4, <1>5 DEF ValueInv

\* One step per action.
LEMMA NextValueInv ==
    ASSUME AccountInv, ValueInv, [Next]_vars
    PROVE  ValueInv'
<1>0. ASSUME UNCHANGED <<nullifiers, acc, deposits, escrow, proofs, tx>> PROVE ValueInv'
  <2>1. TxValue' BY <1>0 DEF ValueInv, TxValue, SpentOrCurrent
  <2> QED BY <1>0, <2>1, ValueQuiet
<1>1. ASSUME NEW note \in Notes, NEW eth \in EthAddrs, DepositNew(note, eth) PROVE ValueInv'
  BY <1>1, NoteAmounts, ValueBegin DEF DepositNew
<1>2. CASE WithdrawNew(Depositor) BY <1>2, ValueBegin DEF WithdrawNew
<1>3. ASSUME NEW asset \in Assets \cup {DefaultAsset}, NEW amount \in WithdrawAmounts, AddWithdrawal(asset, amount)
      PROVE  ValueInv'
  BY <1>3, ValueAddWithdrawal
<1>4. CASE DepositBuild BY <1>4, ValueDepositBuild
<1>5. CASE WithdrawBuild BY <1>5, ValueWithdrawBuild
<1>6. CASE ConsumeSign BY <1>6, ValueFieldSet DEF ConsumeSign, Returns, BuiltAs
<1>7. CASE ApprovalSign BY <1>7, ValueFieldSet DEF ApprovalSign
<1>8. CASE WithSubpoolProof BY <1>8, ValueFieldSet DEF WithSubpoolProof
<1>9. ASSUME NEW sk, SpendSign(sk) PROVE ValueInv' BY <1>9, ValueFieldSet DEF SpendSign, BuiltAs
<1>10. CASE WithAccountPath BY <1>10, ValueFieldSet DEF WithAccountPath
<1>11. CASE Prove BY <1>11, ValueProve
<1>12. CASE Discard
  <2>1. TxValue' BY <1>12 DEF Discard, TxValue
  <2> QED BY <1>12, <2>1, ValueQuiet DEF Discard, chainVars
<1>13. ASSUME NEW note \in Notes, NEW value \in {note.amount, note.amount + 1}, RegisterDeposit(note, value)
       PROVE  ValueInv'
  BY <1>13, ValueRegister
<1>14. ASSUME NEW key \in DOMAIN deposits, WithdrawPendingDeposit(key) PROVE ValueInv' BY <1>14, ValueCancel
<1>15. ASSUME NEW p \in proofs, PublishDeposit(p) PROVE ValueInv' BY <1>15, ValuePublishDeposit
<1>16. ASSUME NEW p \in proofs, PublishWithdraw(p) PROVE ValueInv' BY <1>16, ValuePublishWithdraw
<1>17. CASE ForeignLeaf BY <1>0, <1>17 DEF ForeignLeaf
<1>18. ASSUME NEW k, RotateApprovalKey(k) PROVE ValueInv' BY <1>0, <1>18 DEF RotateApprovalKey
<1>19. CASE UNCHANGED vars BY <1>0, <1>19 DEF vars
<1> QED
  BY <1>1, <1>2, <1>3, <1>4, <1>5, <1>6, <1>7, <1>8, <1>9, <1>10, <1>11, <1>12, <1>13, <1>14, <1>15, <1>16,
     <1>17, <1>18, <1>19 DEF Next

\* Asset by asset, the tokens the contract holds are the client's balance and the deposits
\* still pending, whatever transactions are open, stale, cancelled or published, and for any
\* number of withdrawal slots, repeated assets included: nobody is credited twice or for
\* more than was paid in, and no slot pays what the account did not lose.
THEOREM EscrowBacksBalance == Spec => []EscrowIsBalanceAndPending
<1>1. AccountInv /\ ValueInv /\ [Next]_vars => ValueInv' BY NextValueInv
<1>2. ValueInv => EscrowIsBalanceAndPending BY DEF ValueInv
<1> QED BY <1>1, <1>2, InitValueInv, AccountInvariant, PTL DEF Spec


-----------------------------------------------------------------------------
(* Padding *)

\* u256_addition_chain over one amount is an addition where it does not wrap.
LEMMA OneAmount ==
    ASSUME NEW x \in Nat, NEW n \in Nat, x + n < Modulus
    PROVE  U256Sum(x, <<n>>) = x + n
<1> DEFINE f == <<n>>
<1>1. DOMAIN f = {1} /\ f[1] = n OBVIOUS
<1> HIDE DEF f
<1>2. IsFiniteSet({1}) BY FS_Singleton
<1>3. SumFunctionOnSet(f, {1}) = n BY <1>1, <1>2, SumSingle
<1>4. SumFunction(f) = n BY <1>1, <1>3 DEF SumFunction
<1>5. U256Sum(x, f) = (x + n) % Modulus BY <1>4 DEF U256Sum
<1>6. (x + n) % Modulus = x + n BY ModulusAssumption
<1> QED BY <1>5, <1>6 DEF f

\* Over no withdrawal every slot is padding and the tree stays.
LEMMA NothingWithdrawn ==
    ASSUME NEW t, NEW g, g = AstAfter(t, <<>>)
    PROVE  \A i \in 0..NoteBatch : g[i] = t
<1> DEFINE G == {i \in 0..NoteBatch : g[i] = t}
<1>0. NoteBatch \in Nat BY NoteBatchAssumption
<1>1. g[0] = t /\ \A i \in Slots : g[i] = AfterSlot(g[i - 1], <<>>, i) BY ChainExists
<1>2. DOMAIN <<>> = {} OBVIOUS
<1>3. \A i \in 1..NoteBatch : g[i] = g[i - 1] BY <1>1, <1>2 DEF AfterSlot, Slots
<1>4. 0 \in G /\ \A i \in 1..NoteBatch : i - 1 \in G => i \in G BY <1>0, <1>1, <1>3
<1>5. \A i \in 0..NoteBatch : i \in G
  <2> HIDE DEF G
  <2> QED BY <1>0, <1>4, StepInduction
<1> QED BY <1>5

\* What the circuit asserts of a slot over the tree u: its input root is the root of u, its
\* output root the one its output leaf gives, and its amounts add up.
SlotSound(s, u) ==
    /\ \A root : AssetInAst(s.asset, s.accin_amt, s.siblings, s.index, root, s.exists_in) <=> root = AstRoot(u)
    /\ \A root : AssetInAst(s.asset, s.accout_amt, s.siblings, s.index, root, s.exists_out) <=> root = SlotRootOut(s)
    /\ s.accin_amt = U256Sum(s.accout_amt, <<s.amount>>)

\* A padding slot over a tree that is not full opens a default leaf and leaves it.
LEMMA PaddingOpens ==
    ASSUME NEW t, AstOK(t), Room(t), NEW s, s = PaddingSlot(t)
    PROVE  SlotSound(s, t) /\ SlotRootOut(s) = AstRoot(t)
<1> DEFINE i == Len(t.leaves)
<1>1. i \in Nat /\ i \in DOMAIN AstRoot(t) /\ AstRoot(t)[i] = DefaultLeaf /\ i < 2^AstDepth BY FreeRoot DEF Room
<1>2. i % 2^AstDepth = i BY <1>1, AstWidthAssumption
<1>3. /\ s.index = i % 2^AstDepth /\ s.siblings = PathSiblings(t, i) /\ s.exists_in = FALSE /\ s.exists_out = FALSE
      /\ s.accin_amt = 0 /\ s.accout_amt = 0 /\ s.amount = 0
  BY DEF PaddingSlot, next_index
<1>4. s.siblings = AstRoot(t) BY <1>1, <1>3 DEF PathSiblings
<1> HIDE DEF i
<1>5. [AstRoot(t) EXCEPT ![i] = DefaultLeaf] = AstRoot(t) BY <1>1, RootRewritten
<1>6. \A root : AssetInAst(s.asset, 0, AstRoot(t), i, root, FALSE) <=> root = AstRoot(t) BY <1>5 DEF AssetInAst
<1>7. SlotRootOut(s) = AstRoot(t) BY <1>2, <1>3, <1>4, <1>5 DEF SlotRootOut
<1>8. U256Sum(0, <<0>>) = 0 BY OneAmount, ModulusAssumption
<1> QED BY <1>2, <1>3, <1>4, <1>6, <1>7, <1>8 DEF SlotSound

\* The parts of a new account's successor.
LEMMA FakeSuccessor ==
    ASSUME NEW b, b = clone_with_incremented_nonce(FakeAccount)
    PROVE  /\ AccountInvariantsSimple(FakeAccount, b) /\ b.ast = NewAst /\ FakeAccount.ast = NewAst
           /\ [b EXCEPT !.ast = NewAst] = b
<1> DEFINE a == FakeAccount
<1>1. /\ a.ast = NewAst /\ a.nonce = 0 /\ DOMAIN a = {"id", "subpool", "nonce", "spend_pk", "consume", "ast"}
      /\ a = [f \in DOMAIN a |-> a[f]]
  BY DEF FakeAccount, NewAccount
<1> HIDE DEF a
<1>2. b = [a EXCEPT !.nonce = a.nonce + 1] BY DEF clone_with_incremented_nonce, a
<1>3. /\ b.nonce = a.nonce + 1 /\ DOMAIN b = DOMAIN a /\ b.ast = a.ast
      /\ b.id = a.id /\ b.subpool = a.subpool /\ b.spend_pk = a.spend_pk /\ b.consume = a.consume
      /\ b = [f \in DOMAIN b |-> b[f]]
  BY <1>1, <1>2
<1>4. [b EXCEPT !.ast = NewAst] = b
  <2>1. [b EXCEPT !.ast = b.ast] = b BY <1>1, <1>3
  <2> QED BY <1>1, <1>3, <2>1
<1> QED BY <1>1, <1>3, <1>4 DEF AccountInvariantsSimple, a

\* FakeDepositTxBuilder: the default asset is updated with what it holds.
LEMMA FakeDepositProves ==
    ASSUME NEW root, NEW config_root
    PROVE  DepositTxCircuit(FakeDeposit(root, config_root))
<1> DEFINE w == FakeDeposit(root, config_root)
           b == clone_with_incremented_nonce(FakeAccount)
           n == default_for_recipient(Address(FakeAccount))
<1>1. /\ ~w.not_fake_tx /\ w.accin = FakeAccount /\ w.accout = b /\ w.note = n
      /\ w.ast_index = 0 /\ w.accin_amt = 0 /\ w.accout_amt = 0 /\ w.exists_in /\ w.exists_out
  BY DEF FakeDeposit
<1>2. n.recipient = Address(FakeAccount) /\ n.amount = 0 /\ n.asset = DefaultAsset
  BY DEF default_for_recipient, DepositNote
<1>3. AccountInvariantsSimple(FakeAccount, b) /\ b.ast = NewAst /\ FakeAccount.ast = NewAst BY FakeSuccessor
<1> HIDE DEF w, b, n
<1>4. [AstRoot(NewAst) EXCEPT ![0] = Leaf(DefaultAsset, 0)] = AstRoot(NewAst) BY NewAstRoot, RootRewritten
<1>5. AssetInAst(DefaultAsset, 0, AstRoot(NewAst), 0, AstRoot(NewAst), TRUE) BY <1>4 DEF AssetInAst
<1>6. AstUpdateRoots(w.note.asset, w.accin_amt, w.accout_amt, AstRoot(w.accin.ast), w.ast_index,
                     AstRoot(w.accin.ast), AstRoot(w.accout.ast), w.exists_in, w.exists_out)
  BY <1>1, <1>2, <1>3, <1>5 DEF AstUpdateRoots
<1>7. U256Sum(w.accin_amt, <<w.note.amount>>) = w.accout_amt
  <2>1. U256Sum(0, <<0>>) = 0 BY OneAmount, ModulusAssumption
  <2> QED BY <1>1, <1>2, <2>1
<1>8. LiveAccount(w) /\ ApprovalKeyCommitted(w) /\ DepositSignatures(w)
  BY <1>1 DEF LiveAccount, ApprovalKeyCommitted, DepositSignatures
<1>9. DepositTxCircuit(w) BY <1>1, <1>2, <1>3, <1>6, <1>7, <1>8 DEF DepositTxCircuit
<1> QED BY <1>9 DEF w

\* FakeWithdrawTxBuilder: padding slots over the tree of a new account.
LEMMA FakeWithdrawProves ==
    ASSUME NEW root, NEW config_root
    PROVE  WithdrawTxCircuit(FakeWithdraw(root, config_root))
<1> DEFINE w == FakeWithdraw(root, config_root)
           c == compute_withdrawal_slots(FakeAccount, <<>>)
           g == AstAfter(NewAst, <<>>)
<1>1. /\ ~w.not_fake_tx /\ w.accin = FakeAccount /\ w.accout = WithdrawnAccount(FakeAccount, c) /\ w.slots = c.slots
  BY DEF FakeWithdraw
<1>2. FakeAccount.ast = NewAst BY FakeSuccessor
<1>3. c.ast = g[NoteBatch] /\ \A i \in Slots : c.slots[i] = SlotAt(g[i - 1], <<>>, i) BY <1>2, SlotsComputed
<1>4. \A i \in 0..NoteBatch : g[i] = NewAst BY NothingWithdrawn
<1> HIDE DEF w, c, g
<1>5. NoteBatch \in 0..NoteBatch /\ \A i \in Slots : i - 1 \in 0..NoteBatch BY NoteBatchAssumption DEF Slots
<1>6. c.ast = NewAst /\ \A i \in Slots : w.slots[i] = PaddingSlot(NewAst)
  <2>1. DOMAIN <<>> = {} OBVIOUS
  <2> QED BY <1>1, <1>3, <1>4, <1>5, <2>1 DEF SlotAt
<1>7. AccountInvariantsSimple(w.accin, w.accout) /\ w.accout.ast = NewAst
  BY <1>1, <1>6, FakeSuccessor DEF WithdrawnAccount
<1>8. AstOK(NewAst) /\ Room(NewAst) BY NewAstOK, NewAstRoot
<1>9. ASSUME NEW i \in Slots
      PROVE  /\ AstUpdateRoots(w.slots[i].asset, w.slots[i].accin_amt, w.slots[i].accout_amt, w.slots[i].siblings,
                               w.slots[i].index, AstRoot(NewAst), AstRoot(NewAst),
                               w.slots[i].exists_in, w.slots[i].exists_out)
             /\ SlotRootOut(w.slots[i]) = AstRoot(NewAst)
             /\ w.slots[i].accin_amt = U256Sum(w.slots[i].accout_amt, <<w.slots[i].amount>>)
  BY <1>6, <1>8, PaddingOpens DEF SlotSound, AstUpdateRoots
<1>10. ChainedAstUpdates(w)
  <2> SUFFICES ASSUME NEW i \in Slots,
                      NEW prev, prev = IF i = 1 THEN AstRoot(w.accin.ast) ELSE SlotRootOut(w.slots[i - 1]),
                      NEW curr, curr = IF i = NoteBatch THEN AstRoot(w.accout.ast) ELSE SlotRootOut(w.slots[i])
               PROVE  AstUpdateRoots(w.slots[i].asset, w.slots[i].accin_amt, w.slots[i].accout_amt, w.slots[i].siblings,
                                     w.slots[i].index, prev, curr, w.slots[i].exists_in, w.slots[i].exists_out)
    BY DEF ChainedAstUpdates
  <2>1. i # 1 => i - 1 \in Slots BY NoteBatchAssumption DEF Slots
  <2>2. prev = AstRoot(NewAst) /\ curr = AstRoot(NewAst) BY <1>1, <1>2, <1>7, <1>9, <2>1
  <2> QED BY <1>9, <2>2
<1>11. LiveAccount(w) /\ ApprovalKeyCommitted(w) /\ WithdrawSignatures(w)
  BY <1>1 DEF LiveAccount, ApprovalKeyCommitted, WithdrawSignatures
<1>12. WithdrawTxCircuit(w) BY <1>7, <1>9, <1>10, <1>11 DEF WithdrawTxCircuit
<1> QED BY <1>12 DEF w

\* The padding of a bridge batch proves in every state: whatever the root and the pool
\* configuration are when FakeDepositTxBuilder and FakeWithdrawTxBuilder are called, and
\* however many slots a withdrawal has and assets an account may hold, the circuits accept it.
THEOREM BridgePaddingProven == Spec => []PaddingAlwaysProves
<1>1. PaddingAlwaysProves BY FakeDepositProves, FakeWithdrawProves DEF PaddingAlwaysProves
<1> QED BY <1>1, PTL

-----------------------------------------------------------------------------
(* Builders and circuits agree on the trees *)

\* A tree that fits its depth and holds amounts of 256 bits.
Kept(t) ==
    /\ AstOK(t) /\ Len(t.leaves) <= 2^AstDepth
    /\ \A a : AmountOrNext(t, a).amount < Modulus

\* From slot to slot no balance grows.
LEMMA BalancesFall ==
    ASSUME NEW t, AstOK(t), NEW ws, Requests(ws), NEW g, g = AstAfter(t, ws),
           \A i \in Slots : SlotFits(g[i - 1], ws, i), NEW a, NEW i \in 0..NoteBatch
    PROVE  \A j \in 0..NoteBatch : i <= j => AmountOrNext(g[j], a).amount <= AmountOrNext(g[i], a).amount
<1> DEFINE bal(j) == AmountOrNext(g[j], a).amount
           G == {j \in 0..NoteBatch : i <= j => bal(j) <= bal(i)}
<1>0. NoteBatch \in Nat BY NoteBatchAssumption
<1>1. \A j \in 0..NoteBatch : AstOK(g[j]) BY TreesOnTheWay
<1>2. \A j \in 0..NoteBatch : bal(j) \in Nat BY <1>1, AmountNat
<1>3. ASSUME NEW j \in 1..NoteBatch PROVE bal(j) <= bal(j - 1)
  <2>1. j \in Slots /\ j - 1 \in 0..NoteBatch /\ j \in 0..NoteBatch BY <1>0 DEF Slots
  <2>2. AstOK(g[j - 1]) /\ g[j] = AfterSlot(g[j - 1], ws, j) BY <1>1, <2>1, ChainExists
  <2> DEFINE s == SlotAt(g[j - 1], ws, j)
  <2>3. s.amount \in Nat /\ bal(j - 1) = bal(j) + IF s.asset = a THEN s.amount ELSE 0 BY <2>1, <2>2, OneSlot
  <2>4. bal(j) \in Nat BY <1>2, <2>1
  <2> HIDE DEF s, bal
  <2> QED BY <2>3, <2>4
<1>4. \A j \in 0..NoteBatch : i = j => bal(j) <= bal(i) BY <1>2
<1> HIDE DEF bal
<1>5. 0 \in G
  <2>1. i <= 0 => i = 0 BY <1>0
  <2> QED BY <1>0, <1>4, <2>1
<1>6. ASSUME NEW j \in 1..NoteBatch, j - 1 \in G PROVE j \in G
  <2>1. j \in 0..NoteBatch /\ j - 1 \in 0..NoteBatch BY <1>0
  <2>2. i <= j => i = j \/ i <= j - 1 BY <1>0
  <2>3. bal(j) \in Nat /\ bal(j - 1) \in Nat /\ bal(i) \in Nat BY <1>2, <2>1
  <2>4. i <= j - 1 => bal(j) <= bal(i) BY <1>3, <1>6, <2>3
  <2> QED BY <1>4, <2>1, <2>2, <2>4
<1>7. \A j \in 0..NoteBatch : j \in G
  <2> HIDE DEF G
  <2> QED BY <1>0, <1>5, <1>6, StepInduction
<1> QED BY <1>7 DEF bal

\* The tree after every slot fits its depth.
LEMMA SlotTreesKept ==
    ASSUME NEW t, Kept(t), NEW ws, Requests(ws), NEW g, g = AstAfter(t, ws),
           \A i \in Slots : SlotFits(g[i - 1], ws, i)
    PROVE  \A i \in 0..NoteBatch : Kept(g[i])
<1> SUFFICES ASSUME NEW i \in 0..NoteBatch PROVE Kept(g[i]) OBVIOUS
<1>0. NoteBatch \in Nat /\ 0 \in 0..NoteBatch /\ 0 <= i BY NoteBatchAssumption
<1>1. AstOK(t) /\ Len(t.leaves) <= 2^AstDepth BY DEF Kept
<1>2. AstOK(g[i]) /\ Len(g[i].leaves) = Len(t.leaves) BY <1>1, TreesOnTheWay
<1>3. g[0] = t BY ChainExists
<1>4. ASSUME NEW a PROVE AmountOrNext(g[i], a).amount < Modulus
  <2>1. AmountOrNext(g[i], a).amount <= AmountOrNext(t, a).amount BY <1>0, <1>1, <1>3, BalancesFall
  <2>2. AmountOrNext(g[i], a).amount \in Nat /\ AmountOrNext(t, a).amount \in Nat BY <1>1, <1>2, AmountNat
  <2>3. AmountOrNext(t, a).amount < Modulus BY DEF Kept
  <2> QED BY <2>1, <2>2, <2>3, ModulusAssumption
<1> QED BY <1>1, <1>2, <1>4 DEF Kept

\* The balance after an update is the one it was given.
LEMMA Updated ==
    ASSUME NEW u, AstOK(u), NEW a \in Tracked(u), NEW out \in Nat, NEW r, r = update_asset(u, a, out)
    PROVE  AmountOrNext(r, a).amount = out
<1>1. Tracked(r) = Tracked(u) /\ r.assets[a].amount = out BY UpdateOK
<1> QED BY <1>1 DEF AmountOrNext

\* A filled slot opens the asset's leaf; what it leaves is what update_asset leaves exactly
\* if something is left.
LEMMA FilledOpens ==
    ASSUME NEW u, Kept(u), NEW w, w.asset \in Tracked(u), w.amount \in Nat,
           NEW out \in Nat, AmountOrNext(u, w.asset).amount = out + w.amount, NEW s, s = FilledSlot(u, w),
           NEW r, r = update_asset(u, w.asset, out)
    PROVE  /\ SlotSound(s, u)
           /\ SlotRootOut(s) = AstRoot(r) <=> AmountOrNext(r, w.asset).amount > 0
<1> DEFINE a   == w.asset
           old == AmountOrNext(u, a).amount
           x   == u.assets[a].index
<1>1. AstOK(u) /\ Len(u.leaves) <= 2^AstDepth /\ old < Modulus BY DEF Kept
<1>2. old \in Nat /\ old = u.assets[a].amount BY <1>1, AmountNat DEF AmountOrNext
<1>3. AmountOrNext(u, a).index = x BY DEF AmountOrNext
<1>4. x \in DOMAIN AstRoot(u) /\ x < 2^AstDepth /\ x \in Nat /\ AstRoot(u)[x] = Leaf(a, old) BY <1>1, <1>2, EntryRoot
<1>5. x % 2^AstDepth = x BY <1>4, AstWidthAssumption
<1>6. /\ s.asset = a /\ s.amount = w.amount /\ s.accin_amt = old /\ s.accout_amt = out
      /\ s.exists_in = TRUE /\ s.exists_out = (out > 0) /\ s.index = x % 2^AstDepth /\ s.siblings = PathSiblings(u, x)
  <2>1. AmountOrNext(u, a).amount - w.amount = out OBVIOUS
  <2> QED BY <1>3, <2>1 DEF FilledSlot
<1>7. s.index = x /\ s.siblings = AstRoot(u) BY <1>4, <1>5, <1>6 DEF PathSiblings
<1>8. AstRoot(r) = [AstRoot(u) EXCEPT ![x] = Leaf(a, out)] BY <1>1, UpdateRoot
<1>9. AmountOrNext(r, a).amount = out
  BY <1>1, Updated
<1>10. old = out + w.amount OBVIOUS
<1> HIDE DEF a, old, x
<1>12. [AstRoot(u) EXCEPT ![x] = Leaf(a, old)] = AstRoot(u) BY <1>4, RootRewritten
<1>13. \A root : AssetInAst(a, old, AstRoot(u), x, root, TRUE) <=> root = AstRoot(u) BY <1>12 DEF AssetInAst
<1>14. s.accin_amt = U256Sum(s.accout_amt, <<s.amount>>)
  <2>1. U256Sum(out, <<w.amount>>) = out + w.amount BY <1>1, <1>10, OneAmount
  <2> QED BY <1>6, <1>10, <2>1
<1>15. CASE out > 0
  <2>1. s.exists_out = TRUE BY <1>6, <1>15
  <2>2. SlotRootOut(s) = AstRoot(r) BY <1>6, <1>7, <1>8, <2>1 DEF SlotRootOut
  <2>3. \A root : AssetInAst(a, out, AstRoot(u), x, root, TRUE) <=> root = SlotRootOut(s)
    BY <1>8, <2>2 DEF AssetInAst
  <2>4. SlotSound(s, u) BY <1>6, <1>7, <1>13, <1>14, <2>1, <2>3 DEF SlotSound
  <2> QED BY <1>9, <1>15, <2>2, <2>4 DEF a
<1>16. CASE ~(out > 0)
  <2>0. (out > 0) = FALSE /\ out = 0 BY <1>16
  <2>1. s.exists_out = FALSE /\ out = 0
    <3>1. s.exists_out = (out > 0) BY <1>6
    <3> QED BY <2>0, <3>1
  <2>2. SlotRootOut(s) = [AstRoot(u) EXCEPT ![x] = DefaultLeaf] BY <1>7, <2>1 DEF SlotRootOut
  <2>3. \A root : AssetInAst(a, out, AstRoot(u), x, root, FALSE) <=> root = SlotRootOut(s)
    BY <2>1, <2>2 DEF AssetInAst
  <2>4. SlotSound(s, u) BY <1>6, <1>7, <1>13, <1>14, <2>1, <2>3 DEF SlotSound
  <2>5. SlotRootOut(s)[x] = DefaultLeaf /\ AstRoot(r)[x] = Leaf(a, out) BY <1>4, <1>8, <2>2
  <2>6. DefaultLeaf # Leaf(a, out) BY DEF DefaultLeaf, Leaf
  <2> QED BY <1>9, <1>16, <2>4, <2>5, <2>6 DEF a
<1> QED BY <1>15, <1>16

\* A slot over the tree the slots before it left; the tree has room if the slot is padding.
LEMMA SlotOpens ==
    ASSUME NEW u, Kept(u), NEW ws, Requests(ws), NEW i \in Slots, SlotFits(u, ws, i),
           i \in DOMAIN ws \/ Room(u), NEW r, r = AfterSlot(u, ws, i), NEW s, s = SlotAt(u, ws, i)
    PROVE  /\ SlotSound(s, u)
           /\ SlotRootOut(s) = AstRoot(r) <=> (i \in DOMAIN ws => AmountOrNext(r, ws[i].asset).amount > 0)
<1>1. CASE i \in DOMAIN ws
  <2> DEFINE w == ws[i]
             old == AmountOrNext(u, w.asset).amount
             out == old - w.amount
  <2>1. w.amount \in Nat
    <3> DEFINE R == [asset : Nat, amount : Nat]
    <3>1. ws \in Seq(R) BY DEF Requests
    <3>2. ws[i] \in R
      <4> HIDE DEF R
      <4> QED BY <1>1, <3>1
    <3> QED BY <3>2
  <2>2. w.asset \in Tracked(u) /\ w.amount <= old /\ r = update_asset(u, w.asset, out)
    BY <1>1 DEF SlotFits, AfterSlot
  <2>3. s = FilledSlot(u, w) BY <1>1 DEF SlotAt
  <2>4. old \in Nat BY AmountNat DEF Kept
  <2>5. out \in Nat /\ old = out + w.amount BY <2>1, <2>2, <2>4
  <2> HIDE DEF w, out
  <2>6. SlotSound(s, u) /\ (SlotRootOut(s) = AstRoot(r) <=> AmountOrNext(r, w.asset).amount > 0)
    BY <2>1, <2>2, <2>3, <2>5, FilledOpens
  <2> QED BY <1>1, <2>6 DEF w
<1>2. CASE i \notin DOMAIN ws
  <2>1. r = u /\ s = PaddingSlot(u) BY <1>2 DEF AfterSlot, SlotAt
  <2>2. AstOK(u) /\ Room(u) BY <1>2 DEF Kept
  <2> QED BY <1>2, <2>1, <2>2, PaddingOpens
<1> QED BY <1>1, <1>2

\* Every slot leaves something of its asset exactly if something is left at the end: a later
\* slot that names the asset again leaves something too, and no other slot touches it.
LEMMA SomethingLeft ==
    ASSUME NEW t, AstOK(t), NEW ws, Requests(ws), NEW g, g = AstAfter(t, ws),
           \A i \in Slots : SlotFits(g[i - 1], ws, i)
    PROVE  (\A i \in DOMAIN ws : AmountOrNext(g[i], ws[i].asset).amount > 0)
             <=> (\A i \in DOMAIN ws : AmountOrNext(g[NoteBatch], ws[i].asset).amount # 0)
<1>0. NoteBatch \in Nat /\ NoteBatch \in 0..NoteBatch BY NoteBatchAssumption
<1>1. \A i \in DOMAIN ws : i \in 1..NoteBatch /\ i \in 0..NoteBatch /\ i <= NoteBatch
  <2>1. DOMAIN ws = 1..Len(ws) /\ Len(ws) \in Nat /\ Len(ws) <= NoteBatch BY DEF Requests
  <2> QED BY <1>0, <2>1
<1>2. \A j \in 0..NoteBatch : AstOK(g[j]) BY TreesOnTheWay
<1>3. \A j \in 0..NoteBatch : \A a : AmountOrNext(g[j], a).amount \in Nat BY <1>2, AmountNat
<1>4. ASSUME NEW i \in DOMAIN ws, AmountOrNext(g[NoteBatch], ws[i].asset).amount # 0
      PROVE  AmountOrNext(g[i], ws[i].asset).amount > 0
  <2> DEFINE a == ws[i].asset
  <2>1. AmountOrNext(g[NoteBatch], a).amount <= AmountOrNext(g[i], a).amount BY <1>0, <1>1, BalancesFall
  <2>2. AmountOrNext(g[NoteBatch], a).amount \in Nat /\ AmountOrNext(g[i], a).amount \in Nat BY <1>0, <1>1, <1>3
  <2> QED BY <1>4, <2>1, <2>2
<1>5. ASSUME \A k \in DOMAIN ws : AmountOrNext(g[k], ws[k].asset).amount > 0, NEW i \in DOMAIN ws
      PROVE  AmountOrNext(g[NoteBatch], ws[i].asset).amount # 0
  <2> DEFINE a == ws[i].asset
             bal(j) == AmountOrNext(g[j], a).amount
             G == {j \in 0..NoteBatch : i <= j => bal(j) # 0}
  <2>1. bal(i) # 0
    <3>1. bal(i) > 0 BY <1>5
    <3>2. bal(i) \in Nat BY <1>1, <1>3
    <3> QED BY <3>1, <3>2
  <2>2. ASSUME NEW j \in 1..NoteBatch, bal(j - 1) # 0 PROVE bal(j) # 0
    <3>1. j \in Slots /\ j \in 0..NoteBatch /\ j - 1 \in 0..NoteBatch BY <1>0 DEF Slots
    <3>2. AstOK(g[j - 1]) /\ g[j] = AfterSlot(g[j - 1], ws, j) BY <1>2, <3>1, ChainExists
    <3> DEFINE s == SlotAt(g[j - 1], ws, j)
    <3>3. s.amount \in Nat /\ bal(j - 1) = bal(j) + IF s.asset = a THEN s.amount ELSE 0 BY <3>1, <3>2, OneSlot
    <3>4. bal(j) \in Nat /\ bal(j - 1) \in Nat BY <1>3, <3>1
    <3>5. CASE j \in DOMAIN ws /\ ws[j].asset = a
      <4>1. bal(j) > 0 BY <1>5, <3>5
      <4> QED BY <3>4, <4>1
    <3>6. CASE j \in DOMAIN ws /\ ws[j].asset # a
      <4>1. s.asset # a BY <3>6 DEF SlotAt, FilledSlot
      <4> HIDE DEF s, bal
      <4> QED BY <2>2, <3>3, <3>4, <4>1
    <3>7. CASE j \notin DOMAIN ws
      <4>1. g[j] = g[j - 1] BY <3>2, <3>7 DEF AfterSlot
      <4> QED BY <2>2, <4>1
    <3> QED BY <3>5, <3>6, <3>7
  <2> HIDE DEF bal
  <2>3. 0 \in G
    <3>1. ~(i <= 0) BY <1>1
    <3> QED BY <1>0, <3>1
  <2>4. ASSUME NEW j \in 1..NoteBatch, j - 1 \in G PROVE j \in G
    <3>1. j \in 0..NoteBatch BY <1>0
    <3>2. i <= j => i = j \/ i <= j - 1 BY <1>0, <1>1
    <3> QED BY <2>1, <2>2, <2>4, <3>1, <3>2
  <2>5. NoteBatch \in G
    <3>1. \A j \in 0..NoteBatch : j \in G
      <4> HIDE DEF G
      <4> QED BY <1>0, <2>3, <2>4, StepInduction
    <3> HIDE DEF G
    <3> QED BY <1>0, <3>1
  <2> QED BY <1>1, <2>5 DEF bal
<1> QED BY <1>4, <1>5

\* Padding over a full tree opens an empty one, which no root of an account is.
LEMMA FullTreeRefused ==
    ASSUME NEW u, Kept(u), ~Room(u), NEW s, s = PaddingSlot(u)
    PROVE  ~AssetInAst(s.asset, s.accout_amt, s.siblings, s.index, AstRoot(u), s.exists_out)
<1>1. AstOK(u) /\ Len(u.leaves) <= 2^AstDepth BY DEF Kept
<1>2. Len(u.leaves) \in Nat BY <1>1, AppendKeeps DEF AstOK
<1>3. Len(u.leaves) > 1 /\ ~(Len(u.leaves) < 2^AstDepth) BY <1>2, AstWidthAssumption DEF Room
<1>4. PICK a : a \in Tracked(u)
  <2>1. Cardinality(Tracked(u)) # 0 BY <1>1, <1>3 DEF AstOK
  <2>2. Tracked(u) # {} BY <2>1, FS_EmptySet
  <2> QED BY <2>2
<1> DEFINE x == u.assets[a].index
<1>5. x \in DOMAIN AstRoot(u) /\ AstRoot(u)[x] = Leaf(a, u.assets[a].amount) BY <1>1, <1>4, EntryRoot
<1>6. s.siblings = [j \in DOMAIN AstRoot(u) |-> DefaultLeaf] /\ s.exists_out = FALSE
  BY <1>3 DEF PaddingSlot, next_index, PathSiblings
<1> HIDE DEF x
<1>7. \A k : [s.siblings EXCEPT ![k] = DefaultLeaf][x] = DefaultLeaf BY <1>5, <1>6
<1>8. Leaf(a, u.assets[a].amount) # DefaultLeaf BY DEF Leaf, DefaultLeaf
<1> QED BY <1>5, <1>6, <1>7, <1>8 DEF AssetInAst

\* The circuit's chain of roots is the builder's chain of trees, unless a withdrawal empties
\* an asset or padding meets a full tree.
LEMMA ChainAgrees ==
    ASSUME NEW t, Kept(t), NEW ws, Requests(ws), NEW g, g = AstAfter(t, ws),
           \A i \in Slots : SlotFits(g[i - 1], ws, i),
           NEW w, \A i \in Slots : w.slots[i] = SlotAt(g[i - 1], ws, i),
           w.accin.ast = t, w.accout.ast = g[NoteBatch]
    PROVE  (/\ \A i \in Slots : w.slots[i].accin_amt = U256Sum(w.slots[i].accout_amt, <<w.slots[i].amount>>)
            /\ ChainedAstUpdates(w))
             <=> /\ \A i \in DOMAIN ws : AmountOrNext(g[NoteBatch], ws[i].asset).amount # 0
                 /\ ~(Len(ws) < NoteBatch /\ ~Room(t))
<1> DEFINE s(i) == w.slots[i]
           prev(i) == IF i = 1 THEN AstRoot(w.accin.ast) ELSE SlotRootOut(w.slots[i - 1])
           curr(i) == IF i = NoteBatch THEN AstRoot(w.accout.ast) ELSE SlotRootOut(w.slots[i])
           In(i)  == AssetInAst(s(i).asset, s(i).accin_amt, s(i).siblings, s(i).index, prev(i), s(i).exists_in)
           Out(i) == AssetInAst(s(i).asset, s(i).accout_amt, s(i).siblings, s(i).index, curr(i), s(i).exists_out)
<1>0. NoteBatch \in Nat \ {0} /\ NoteBatch \in 0..NoteBatch /\ NoteBatch \in Slots BY NoteBatchAssumption DEF Slots
<1>1. ChainedAstUpdates(w) <=> \A i \in Slots : In(i) /\ Out(i) BY DEF ChainedAstUpdates, AstUpdateRoots
<1>2. AstOK(t) BY DEF Kept
<1>3. \A i \in 0..NoteBatch : Kept(g[i]) BY SlotTreesKept
<1>4. \A i \in 0..NoteBatch : Len(g[i].leaves) = Len(t.leaves) BY <1>2, TreesOnTheWay
<1>5. g[0] = t /\ \A i \in Slots : g[i] = AfterSlot(g[i - 1], ws, i) BY ChainExists
<1>6. \A i \in Slots : i - 1 \in 0..NoteBatch /\ i \in 0..NoteBatch BY <1>0 DEF Slots
<1>7. DOMAIN ws = 1..Len(ws) /\ Len(ws) \in Nat /\ Len(ws) <= NoteBatch BY DEF Requests
<1>8. CASE Len(ws) < NoteBatch /\ ~Room(t)
  <2> DEFINE u == g[NoteBatch - 1]
  <2>1. NoteBatch \notin DOMAIN ws BY <1>0, <1>7, <1>8
  <2>2. Kept(u) /\ ~Room(u) BY <1>0, <1>3, <1>4, <1>6, <1>8 DEF Room
  <2>3. g[NoteBatch] = u /\ s(NoteBatch) = PaddingSlot(u) BY <1>0, <1>5, <2>1 DEF AfterSlot, SlotAt
  <2>4. curr(NoteBatch) = AstRoot(u) BY <2>3
  <2>5. ~Out(NoteBatch) BY <2>2, <2>3, <2>4, FullTreeRefused
  <2> HIDE DEF Out, In
  <2> QED BY <1>0, <1>1, <1>8, <2>5
<1>9. CASE ~(Len(ws) < NoteBatch /\ ~Room(t))
  <2>1. ASSUME NEW i \in Slots
        PROVE  /\ SlotSound(s(i), g[i - 1])
               /\ SlotRootOut(s(i)) = AstRoot(g[i])
                    <=> (i \in DOMAIN ws => AmountOrNext(g[i], ws[i].asset).amount > 0)
    <3>1. Kept(g[i - 1]) /\ g[i] = AfterSlot(g[i - 1], ws, i) /\ SlotFits(g[i - 1], ws, i)
      BY <1>3, <1>5, <1>6
    <3>2. i \in DOMAIN ws \/ Room(g[i - 1])
      <4>1. i \notin DOMAIN ws => Len(ws) < NoteBatch BY <1>0, <1>7 DEF Slots
      <4> QED BY <1>4, <1>6, <1>9, <4>1 DEF Room
    <3>3. s(i) = SlotAt(g[i - 1], ws, i) OBVIOUS
    <3> HIDE DEF s
    <3> QED BY <3>1, <3>2, <3>3, SlotOpens
  <2>2. \A i \in Slots : s(i).accin_amt = U256Sum(s(i).accout_amt, <<s(i).amount>>) BY <2>1 DEF SlotSound
  <2>3. \A i \in Slots : (In(i) <=> prev(i) = AstRoot(g[i - 1])) /\ (Out(i) <=> curr(i) = SlotRootOut(s(i)))
    BY <2>1 DEF SlotSound
  <2> DEFINE Left == \A i \in Slots : SlotRootOut(s(i)) = AstRoot(g[i])
  <2>4. ASSUME Left PROVE \A i \in Slots : In(i) /\ Out(i)
    <3> SUFFICES ASSUME NEW i \in Slots PROVE prev(i) = AstRoot(g[i - 1]) /\ curr(i) = SlotRootOut(s(i)) BY <2>3
    <3>1. CASE i = 1 BY <1>0, <1>5, <2>4, <3>1
    <3>2. CASE i # 1
      <4>1. i - 1 \in Slots BY <1>0, <3>2 DEF Slots
      <4> QED BY <2>4, <3>2, <4>1
    <3> QED BY <3>1, <3>2
  <2>5. ASSUME \A i \in Slots : In(i) /\ Out(i) PROVE Left
    <3> SUFFICES ASSUME NEW i \in Slots PROVE SlotRootOut(s(i)) = AstRoot(g[i]) OBVIOUS
    <3>1. CASE i = NoteBatch
      <4>1. curr(i) = AstRoot(g[NoteBatch]) /\ curr(i) = SlotRootOut(s(i)) BY <2>3, <2>5, <3>1
      <4> QED BY <3>1, <4>1
    <3>2. CASE i # NoteBatch
      <4>1. i + 1 \in Slots /\ i + 1 # 1 /\ (i + 1) - 1 = i BY <1>0, <3>2 DEF Slots
      <4>2. prev(i + 1) = AstRoot(g[(i + 1) - 1]) BY <2>3, <2>5, <4>1
      <4>3. prev(i + 1) = SlotRootOut(w.slots[(i + 1) - 1]) BY <4>1
      <4> QED BY <4>1, <4>2, <4>3
    <3> QED BY <3>1, <3>2
  <2>6. \A i \in DOMAIN ws : i \in Slots BY <1>0, <1>7 DEF Slots
  <2>7. Left <=> \A i \in DOMAIN ws : AmountOrNext(g[i], ws[i].asset).amount > 0 BY <2>1, <2>6
  <2>8. (\A i \in DOMAIN ws : AmountOrNext(g[i], ws[i].asset).amount > 0)
          <=> (\A i \in DOMAIN ws : AmountOrNext(g[NoteBatch], ws[i].asset).amount # 0)
    BY <1>2, SomethingLeft
  <2> HIDE DEF In, Out, Left
  <2> QED BY <1>1, <1>9, <2>2, <2>4, <2>5, <2>7, <2>8
<1> QED BY <1>8, <1>9

\* A deposit's update of the tree is the one the circuit asserts.
LEMMA DepositUpdates ==
    ASSUME NEW t, Kept(t), NEW a, CanInsertOrUpdate(t, a), NEW n \in Nat,
           NEW old, old = AmountOrNext(t, a), old.amount + n < Modulus,
           NEW r, r = insert_or_update_asset(t, a, old.amount + n)
    PROVE  /\ AstUpdateRoots(a, old.amount, old.amount + n, AstRoot(t), old.index, AstRoot(t), AstRoot(r),
                             old.exists, a \in Tracked(r))
           /\ Kept(r)
<1>1. AstOK(t) /\ Len(t.leaves) <= 2^AstDepth BY DEF Kept
<1>2. old.amount \in Nat BY <1>1, AmountNat
<1> DEFINE amount == old.amount + n
<1>3. amount \in Nat /\ amount < Modulus /\ r = insert_or_update_asset(t, a, amount) BY <1>2
<1> HIDE DEF amount
<1>4. /\ AstOK(r) /\ AmountOrNext(r, a).amount = amount
      /\ \A b : b # a => AmountOrNext(r, b).amount = AmountOrNext(t, b).amount
  BY <1>1, <1>3, InsertOrUpdateOK
<1>5. \A b : AmountOrNext(r, b).amount < Modulus BY <1>3, <1>4 DEF Kept
<1>6. CASE a \in Tracked(t)
  <2>1. r = update_asset(t, a, amount) BY <1>3, <1>6 DEF insert_or_update_asset
  <2>2. Tracked(r) = Tracked(t) BY <1>1, <1>3, <1>6, <2>1, UpdateOK
  <2> DEFINE x == t.assets[a].index
  <2>3. old.index = x /\ old.amount = t.assets[a].amount /\ old.exists = TRUE BY <1>6 DEF AmountOrNext
  <2>4. x \in DOMAIN AstRoot(t) /\ AstRoot(t)[x] = Leaf(a, old.amount) BY <1>1, <1>6, <2>3, EntryRoot
  <2>5. AstRoot(r) = [AstRoot(t) EXCEPT ![x] = Leaf(a, amount)] /\ Len(r.leaves) = Len(t.leaves)
    BY <1>1, <1>6, <2>1, UpdateRoot
  <2> HIDE DEF x
  <2>6. [AstRoot(t) EXCEPT ![x] = Leaf(a, old.amount)] = AstRoot(t) BY <2>4, RootRewritten
  <2>7. AstUpdateRoots(a, old.amount, amount, AstRoot(t), x, AstRoot(t), AstRoot(r), TRUE, TRUE)
    BY <2>5, <2>6 DEF AstUpdateRoots, AssetInAst
  <2>8. (a \in Tracked(r)) = TRUE BY <1>6, <2>2
  <2>9. Kept(r) BY <1>1, <1>4, <1>5, <2>5 DEF Kept
  <2> QED BY <2>3, <2>7, <2>8, <2>9 DEF amount
<1>7. CASE a \notin Tracked(t)
  <2>1. r = _insert_asset(t, a, amount) /\ Room(t) BY <1>3, <1>7 DEF insert_or_update_asset, CanInsertOrUpdate
  <2>2. Tracked(r) = Tracked(t) \cup {a} BY <1>1, <1>3, <1>7, <2>1, InsertOK
  <2> DEFINE x == Len(t.leaves)
  <2>3. old.index = x /\ old.amount = 0 /\ old.exists = FALSE BY <1>7 DEF AmountOrNext, next_index
  <2>4. x \in Nat /\ x \in DOMAIN AstRoot(t) /\ AstRoot(t)[x] = DefaultLeaf BY <1>1, <2>1, FreeRoot
  <2>5. AstRoot(r) = [AstRoot(t) EXCEPT ![x] = Leaf(a, amount)] /\ Len(r.leaves) = x + 1
    BY <1>1, <2>1, InsertRoot
  <2>6. x < 2^AstDepth BY <2>1 DEF Room
  <2> HIDE DEF x
  <2>7. [AstRoot(t) EXCEPT ![x] = DefaultLeaf] = AstRoot(t) BY <2>4, RootRewritten
  <2>8. AstUpdateRoots(a, 0, amount, AstRoot(t), x, AstRoot(t), AstRoot(r), FALSE, TRUE)
    BY <2>5, <2>7 DEF AstUpdateRoots, AssetInAst
  <2>9. (a \in Tracked(r)) = TRUE BY <2>2
  <2>10. Len(r.leaves) <= 2^AstDepth BY <2>4, <2>5, <2>6, AstWidthAssumption
  <2>11. Kept(r) BY <1>4, <1>5, <2>10 DEF Kept
  <2> QED BY <2>3, <2>8, <2>9, <2>11 DEF amount
<1> QED BY <1>6, <1>7

-----------------------------------------------------------------------------
(* Builders and circuits agree on the transaction *)

\* The signatures of a builder are over the hash it built, the consume signature by the
\* account's own key.
SignedAsBuilt(t) ==
    /\ t.approval_sig # None => \E sk : t.approval_sig = Signature(sk, t.hash)
    /\ t.spend_sig # None => \E sk : t.spend_sig = Signature(sk, t.hash)
    /\ t.consume_sig # None => /\ t.accin.consume = ConsumeKey(ConsumeSk)
                               /\ t.consume_sig = Signature(ConsumeSk, t.hash)

\* What build has checked and computed.
DepositBuilt(t) ==
    LET old == AmountOrNext(t.accin.ast, t.note.asset).amount
    IN  /\ old + t.note.amount < Modulus /\ CanInsertOrUpdate(t.accin.ast, t.note.asset)
        /\ t.accout.ast = insert_or_update_asset(t.accin.ast, t.note.asset, old + t.note.amount)
        /\ t.hash = DepositTxHash(Nullifier(t.accin), Commitment(t.accout), DepositNoteCommitment(t.note), t.eth)
WithdrawBuilt(t) ==
    t.hash = HashOfSlots(t.accin, t.accout, compute_withdrawal_slots(t.accin, t.withdrawals).slots, t.eth)

\* The builder's account is within the bounds, its path is that account's, and its
\* signatures are over what it built.
Agrees(t) ==
    /\ Kept(t.accin.ast)
    /\ t.kind = "deposit" => t.note.recipient = Address(t.accin)
    /\ t.accin_path # None => t.accin_path.leaf = Commitment(t.accin)
    /\ SignedAsBuilt(t)
    /\ t.stage = "builder" => t.approval_sig = None /\ t.spend_sig = None /\ t.consume_sig = None
    /\ t.stage = "built" => /\ Kept(t.accout.ast)
                            /\ t.kind = "deposit" => DepositBuilt(t)
                            /\ t.kind = "withdraw" => WithdrawBuilt(t)
AgreeInv ==
    /\ Kept(acc.ast) /\ \A p \in proofs : Kept(p.accout.ast)
    /\ tx # NoTx => Agrees(tx)

\* What insert_asset makes of a tree with room.
LEMMA Inserted ==
    ASSUME NEW t, AstOK(t), Room(t), NEW a, a \notin Tracked(t), NEW amount \in Nat
    PROVE  LET r == _insert_asset(t, a, amount)
           IN  /\ AstOK(r) /\ Tracked(r) = Tracked(t) \cup {a} /\ r.assets[a].amount = amount
               /\ \A b \in Tracked(t) : r.assets[b] = t.assets[b]
               /\ Len(r.leaves) = Len(t.leaves) + 1
<1> DEFINE r == _insert_asset(t, a, amount)
<1>1. /\ AstOK(r) /\ Tracked(r) = Tracked(t) \cup {a} /\ r.assets[a].amount = amount
      /\ \A b \in Tracked(t) : r.assets[b] = t.assets[b]
  BY InsertOK
<1>2. Len(r.leaves) = Len(t.leaves) + 1 BY InsertRoot
<1> QED BY <1>1, <1>2

\* The account the client may start with.
LEMMA StartKept ==
    ASSUME Init
    PROVE  Kept(acc.ast)
<1>1. CASE acc = NewAccount(Me, Subpool)
  <2>1. acc.ast = NewAst BY <1>1 DEF NewAccount
  <2>2. AstOK(NewAst) /\ Tracked(NewAst) = {DefaultAsset} BY NewAstOK
  <2>3. Len(NewAst.leaves) <= 2^AstDepth BY NewAstRoot, AstWidthAssumption
  <2>4. \A a : AmountOrNext(NewAst, a).amount = 0 BY <2>2, NewAstRoot DEF AmountOrNext
  <2>5. 0 < Modulus BY ModulusAssumption
  <2> QED BY <2>1, <2>2, <2>3, <2>4, <2>5 DEF Kept
<1>2. ASSUME NEW k, acc = FundedAccount(k) PROVE Kept(acc.ast)
  <2> DEFINE u == _insert_asset(NewAst, 1, 2)
             v == _insert_asset(u, 2, 1)
  <2>1. acc.ast = v BY <1>2 DEF FundedAccount, NewAccount
  <2>2. AstOK(NewAst) /\ Tracked(NewAst) = {DefaultAsset} BY NewAstOK
  <2>3. NewAst.assets[DefaultAsset].amount = 0 /\ Room(NewAst) /\ Len(NewAst.leaves) = 1 BY NewAstRoot
  <2>4. 1 \notin Tracked(NewAst) BY <2>2 DEF DefaultAsset
  <2>5. AstOK(NewAst) /\ Room(NewAst) BY <2>2, <2>3
  <2>6. /\ AstOK(u) /\ Tracked(u) = Tracked(NewAst) \cup {1} /\ u.assets[1].amount = 2
        /\ \A b \in Tracked(NewAst) : u.assets[b] = NewAst.assets[b]
        /\ Len(u.leaves) = Len(NewAst.leaves) + 1
    BY <2>4, <2>5, Inserted
  <2> HIDE DEF u
  <2>7. AstOK(u) /\ Len(u.leaves) = 2 BY <2>3, <2>6
  <2>8. Room(u) BY <2>7, FundedAssumption DEF Room
  <2>9. 2 \notin Tracked(u) BY <2>2, <2>6 DEF DefaultAsset
  <2>10. AstOK(u) BY <2>6
  <2>11. /\ AstOK(v) /\ Tracked(v) = Tracked(u) \cup {2} /\ v.assets[2].amount = 1
         /\ \A b \in Tracked(u) : v.assets[b] = u.assets[b]
         /\ Len(v.leaves) = Len(u.leaves) + 1
    BY <2>8, <2>9, <2>10, Inserted
  <2> HIDE DEF v
  <2>12. \A a : AmountOrNext(v, a).amount \in {0, 1, 2} BY <2>2, <2>3, <2>6, <2>11 DEF AmountOrNext
  <2>13. 3 <= 2^AstDepth BY FundedAssumption, AstWidthAssumption
  <2>14. \A n \in {0, 1, 2} : n < Modulus BY FundedAssumption, ModulusAssumption
  <2>15. Len(v.leaves) = 3 BY <2>7, <2>11
  <2>16. \A a : AmountOrNext(v, a).amount < Modulus BY <2>12, <2>14
  <2> QED BY <2>1, <2>11, <2>13, <2>15, <2>16 DEF Kept
<1> QED BY <1>1, <1>2 DEF Init

LEMMA InitAgree == Init => AgreeInv
<1> SUFFICES ASSUME Init PROVE AgreeInv OBVIOUS
<1>1. tx = NoTx /\ proofs = {} BY DEF Init
<1> QED BY <1>1, StartKept DEF AgreeInv

\* new of either builder.
LEMMA AgreeBegin ==
    ASSUME AgreeInv, NEW kind, NEW note, NEW eth, Begin(NewTx(kind, note, eth)),
           kind = "deposit" => note.recipient = Address(acc)
    PROVE  AgreeInv'
<1>1. /\ tx'.stage = "builder" /\ tx'.kind = kind /\ tx'.accin = acc /\ tx'.note = note /\ tx'.accin_path = None
      /\ tx'.approval_sig = None /\ tx'.spend_sig = None /\ tx'.consume_sig = None
      /\ acc' = acc /\ proofs' = proofs
  BY DEF Begin, NewTx, chainVars
<1>2. Agrees(tx') BY <1>1 DEF AgreeInv, Agrees, SignedAsBuilt
<1> QED BY <1>1, <1>2 DEF AgreeInv

\* A withdrawal slot more.
LEMMA AgreeAddWithdrawal ==
    ASSUME AccountInv, AgreeInv, NEW asset, NEW amount, AddWithdrawal(asset, amount)
    PROVE  AgreeInv'
<1>1. tx # NoTx /\ tx.stage = "builder" /\ acc' = acc /\ proofs' = proofs
  BY DEF AddWithdrawal, NoTx, chainVars
<1>2. /\ tx'.stage = tx.stage /\ tx'.kind = tx.kind /\ tx'.accin = tx.accin /\ tx'.note = tx.note
      /\ tx'.accin_path = tx.accin_path /\ tx'.hash = tx.hash
      /\ tx'.approval_sig = tx.approval_sig /\ tx'.spend_sig = tx.spend_sig /\ tx'.consume_sig = tx.consume_sig
  BY <1>1 DEF AddWithdrawal, AccountInv, TxInv, TxFields
<1>3. Agrees(tx) BY <1>1 DEF AgreeInv
<1>4. Agrees(tx') BY <1>1, <1>2, <1>3 DEF Agrees, SignedAsBuilt
<1> QED BY <1>1, <1>4 DEF AgreeInv

\* What build leaves alone.
LEMMA BuildKeeps ==
    ASSUME AccountInv, tx # NoTx, NEW b, NEW h, NEW r, r = AsBuilt(b, h)
    PROVE  /\ r.stage = "built" /\ r.kind = tx.kind /\ r.accin = tx.accin /\ r.note = tx.note /\ r.accout = b
           /\ r.hash = h /\ r.eth = tx.eth /\ r.withdrawals = tx.withdrawals /\ r.accin_path = tx.accin_path
           /\ r.approval_sig = tx.approval_sig /\ r.spend_sig = tx.spend_sig /\ r.consume_sig = tx.consume_sig
BY DEF AsBuilt, AccountInv, TxInv, TxFields

LEMMA AgreeDepositBuild ==
    ASSUME AccountInv, ValueInv, AgreeInv, DepositBuild
    PROVE  AgreeInv'
<1>1. tx # NoTx /\ tx.stage = "builder" /\ tx.kind = "deposit" /\ acc' = acc /\ proofs' = proofs
  BY DEF DepositBuild, NoTx, chainVars
<1> DEFINE n == tx.note
           t == tx.accin.ast
           old == AmountOrNext(t, n.asset).amount
           b == [clone_with_incremented_nonce(tx.accin) EXCEPT !.ast = insert_or_update_asset(@, n.asset, old + n.amount)]
           h == DepositTxHash(Nullifier(tx.accin), Commitment(b), DepositNoteCommitment(n), tx.eth)
<1>2. \/ tx' = NoTx
      \/ tx' = AsBuilt(b, h) /\ old + n.amount < Modulus /\ CanInsertOrUpdate(t, n.asset)
  BY DEF DepositBuild, Returns
<1>3. b.ast = insert_or_update_asset(t, n.asset, old + n.amount)
  BY <1>1 DEF clone_with_incremented_nonce, AccountInv, TxInv, Mine
<1>4. Kept(t) /\ n.amount \in Nat /\ Agrees(tx) BY <1>1 DEF AgreeInv, Agrees, ValueInv, TxValue
<1> HIDE DEF b
<1>5. ASSUME tx' # NoTx PROVE Agrees(tx')
  <2>1. tx' = AsBuilt(b, h) /\ old + n.amount < Modulus /\ CanInsertOrUpdate(t, n.asset) BY <1>2, <1>5
  <2>2. Kept(b.ast) BY <1>3, <1>4, <2>1, DepositUpdates
  <2>3. /\ tx'.stage = "built" /\ tx'.kind = tx.kind /\ tx'.accin = tx.accin /\ tx'.note = tx.note /\ tx'.accout = b
        /\ tx'.hash = h /\ tx'.eth = tx.eth /\ tx'.accin_path = tx.accin_path
        /\ tx'.approval_sig = tx.approval_sig /\ tx'.spend_sig = tx.spend_sig /\ tx'.consume_sig = tx.consume_sig
    BY <1>1, <2>1, BuildKeeps
  <2>4. DepositBuilt(tx') BY <1>3, <2>1, <2>3 DEF DepositBuilt
  <2>5. SignedAsBuilt(tx') BY <1>1, <1>4, <2>3 DEF Agrees, SignedAsBuilt
  <2> QED BY <1>1, <1>4, <2>2, <2>3, <2>4, <2>5 DEF Agrees
<1> QED BY <1>1, <1>5 DEF AgreeInv

LEMMA AgreeWithdrawBuild ==
    ASSUME AccountInv, ValueInv, AgreeInv, WithdrawBuild
    PROVE  AgreeInv'
<1>1. tx # NoTx /\ tx.stage = "builder" /\ tx.kind = "withdraw" /\ acc' = acc /\ proofs' = proofs
  BY DEF WithdrawBuild, NoTx, chainVars
<1> DEFINE c == compute_withdrawal_slots(tx.accin, tx.withdrawals)
           b == WithdrawnAccount(tx.accin, c)
           g == AstAfter(tx.accin.ast, tx.withdrawals)
           h == HashOfSlots(tx.accin, b, c.slots, tx.eth)
<1>2. tx' = NoTx \/ (tx' = AsBuilt(b, h) /\ c.ok) BY DEF WithdrawBuild, Returns
<1>3. Kept(tx.accin.ast) /\ Requests(tx.withdrawals) /\ Agrees(tx) BY <1>1 DEF AgreeInv, Agrees, ValueInv, TxValue
<1>4. b.ast = c.ast BY <1>1 DEF WithdrawnAccount, clone_with_incremented_nonce, AccountInv, TxInv, Mine
<1>5. c.ast = g[NoteBatch] /\ (c.ok <=> \A i \in Slots : SlotFits(g[i - 1], tx.withdrawals, i)) BY SlotsComputed
<1> HIDE DEF c, b, g
<1>6. ASSUME tx' # NoTx PROVE Agrees(tx')
  <2>1. tx' = AsBuilt(b, h) /\ c.ok BY <1>2, <1>6
  <2>2. Kept(b.ast)
    <3>1. NoteBatch \in 0..NoteBatch BY NoteBatchAssumption
    <3> QED BY <1>3, <1>4, <1>5, <2>1, <3>1, SlotTreesKept DEF g
  <2>3. /\ tx'.stage = "built" /\ tx'.kind = tx.kind /\ tx'.accin = tx.accin /\ tx'.note = tx.note /\ tx'.accout = b
        /\ tx'.hash = h /\ tx'.eth = tx.eth /\ tx'.withdrawals = tx.withdrawals /\ tx'.accin_path = tx.accin_path
        /\ tx'.approval_sig = tx.approval_sig /\ tx'.spend_sig = tx.spend_sig /\ tx'.consume_sig = tx.consume_sig
    BY <1>1, <2>1, BuildKeeps
  <2>4. WithdrawBuilt(tx') BY <2>3 DEF WithdrawBuilt, c
  <2>5. SignedAsBuilt(tx') BY <1>1, <1>3, <2>3 DEF Agrees, SignedAsBuilt
  <2> QED BY <1>1, <1>3, <2>2, <2>3, <2>4, <2>5 DEF Agrees
<1> QED BY <1>1, <1>6 DEF AgreeInv

\* Signing and fetching paths.
LEMMA AgreeFieldSet ==
    ASSUME AccountInv, AgreeInv, Built, UNCHANGED <<acc, proofs>>,
           NEW f \in {"spend_sig", "consume_sig", "approval_sig", "approval_key", "accin_path"}, NEW v,
           tx' = NoTx \/ tx' = [tx EXCEPT ![f] = v],
           f \in {"spend_sig", "approval_sig"} => \E sk : v = Signature(sk, tx.hash),
           f = "consume_sig" /\ tx' # NoTx =>
               tx.accin.consume = ConsumeKey(ConsumeSk) /\ v = Signature(ConsumeSk, tx.hash),
           f = "accin_path" => v.leaf = Commitment(tx.accin)
    PROVE  AgreeInv'
<1>1. tx # NoTx /\ tx.stage = "built" BY DEF Built, NoTx
<1>2. Agrees(tx) BY <1>1 DEF AgreeInv
<1>3. ASSUME tx' # NoTx PROVE Agrees(tx')
  <2>1. tx' = [tx EXCEPT ![f] = v] BY <1>3
  <2>2. /\ tx'.stage = tx.stage /\ tx'.kind = tx.kind /\ tx'.accin = tx.accin /\ tx'.note = tx.note
        /\ tx'.accout = tx.accout /\ tx'.hash = tx.hash /\ tx'.eth = tx.eth /\ tx'.withdrawals = tx.withdrawals
    BY <1>1, <2>1 DEF AccountInv, TxInv, TxFields
  <2>3. \A x \in {"spend_sig", "consume_sig", "approval_sig", "approval_key", "accin_path"} :
            tx'[x] = IF x = f THEN v ELSE tx[x]
    BY <1>1, <2>1 DEF AccountInv, TxInv, TxFields
  <2>4. SignedAsBuilt(tx')
    <3>1. tx'.approval_sig # None => \E sk : tx'.approval_sig = Signature(sk, tx.hash)
      BY <1>2, <2>3 DEF Agrees, SignedAsBuilt
    <3>2. tx'.spend_sig # None => \E sk : tx'.spend_sig = Signature(sk, tx.hash)
      BY <1>2, <2>3 DEF Agrees, SignedAsBuilt
    <3>3. tx'.consume_sig # None => /\ tx.accin.consume = ConsumeKey(ConsumeSk)
                                    /\ tx'.consume_sig = Signature(ConsumeSk, tx.hash)
      BY <1>2, <1>3, <2>3 DEF Agrees, SignedAsBuilt
    <3> QED BY <2>2, <3>1, <3>2, <3>3 DEF SignedAsBuilt
  <2>5. tx'.accin_path # None => tx'.accin_path.leaf = Commitment(tx'.accin) BY <1>2, <2>2, <2>3 DEF Agrees
  <2>6. tx.kind = "deposit" => DepositBuilt(tx') BY <1>1, <1>2, <2>2 DEF Agrees, DepositBuilt
  <2>7. tx.kind = "withdraw" => WithdrawBuilt(tx') BY <1>1, <1>2, <2>2 DEF Agrees, WithdrawBuilt
  <2> QED BY <1>1, <1>2, <2>2, <2>4, <2>5, <2>6, <2>7 DEF Agrees
<1> QED BY <1>3 DEF AgreeInv

LEMMA AgreeSign ==
    ASSUME AccountInv, AgreeInv,
           ConsumeSign \/ ApprovalSign \/ WithSubpoolProof \/ WithAccountPath \/ \E sk \in {SpendSk, WrongSk} : SpendSign(sk)
    PROVE  AgreeInv'
<1>1. CASE ConsumeSign
  <2> DEFINE v == Signature(ConsumeSk, tx.hash)
  <2>1. /\ Built /\ UNCHANGED <<acc, proofs>>
        /\ tx' = NoTx \/ (tx' = [tx EXCEPT !["consume_sig"] = v] /\ tx.accin.consume = ConsumeKey(ConsumeSk))
    BY <1>1 DEF ConsumeSign, BuiltAs, Returns, chainVars
  <2> HIDE DEF v
  <2> QED BY <2>1, AgreeFieldSet DEF v
<1>2. CASE ApprovalSign
  <2> DEFINE v == Signature(approvalSk, tx.hash)
  <2>1. Built /\ UNCHANGED <<acc, proofs>> /\ tx' = [tx EXCEPT !["approval_sig"] = v]
    BY <1>2 DEF ApprovalSign, chainVars
  <2>2. \E sk : v = Signature(sk, tx.hash) OBVIOUS
  <2> HIDE DEF v
  <2> QED BY <2>1, <2>2, AgreeFieldSet
<1>3. CASE WithSubpoolProof
  <2>1. Built /\ UNCHANGED <<acc, proofs>> /\ tx' = [tx EXCEPT !["approval_key"] = approvalSk]
    BY <1>3 DEF WithSubpoolProof, chainVars
  <2> QED BY <2>1, AgreeFieldSet
<1>4. ASSUME NEW pos \in 0..(Len(stateTree) - 1), stateTree[pos + 1] = Commitment(tx.accin),
             Built, UNCHANGED <<acc, proofs>>, tx' = [tx EXCEPT !.accin_path = PathTo(stateTree, pos)]
      PROVE  AgreeInv'
  <2> DEFINE v == PathTo(stateTree, pos)
  <2>1. v.leaf = Commitment(tx.accin) /\ tx' = [tx EXCEPT !["accin_path"] = v] BY <1>4 DEF PathTo
  <2> HIDE DEF v
  <2> QED BY <1>4, <2>1, AgreeFieldSet
<1>5. ASSUME NEW sk, SpendSign(sk) PROVE AgreeInv'
  <2> DEFINE v == Signature(sk, tx.hash)
  <2>1. Built /\ UNCHANGED <<acc, proofs>> /\ tx' = [tx EXCEPT !["spend_sig"] = v]
    BY <1>5 DEF SpendSign, BuiltAs, chainVars
  <2>2. \E k : v = Signature(k, tx.hash) OBVIOUS
  <2> HIDE DEF v
  <2> QED BY <2>1, <2>2, AgreeFieldSet
<1> QED BY <1>1, <1>2, <1>3, <1>4, <1>5 DEF WithAccountPath, chainVars

\* A proof is of the account the builder built; publishing it makes that account current.
LEMMA AgreeProve ==
    ASSUME AgreeInv, Prove
    PROVE  AgreeInv'
<1>1. tx # NoTx /\ tx.stage = "built" BY DEF Prove, Built, NoTx
<1>2. Kept(tx.accout.ast) BY <1>1 DEF AgreeInv, Agrees
<1>3. tx' = NoTx /\ acc' = acc /\ \A p \in proofs' : p \in proofs \/ p.accout = tx.accout BY DEF Prove, chainVars
<1> QED BY <1>2, <1>3 DEF AgreeInv

LEMMA NextAgree ==
    ASSUME AccountInv, ValueInv, AgreeInv, [Next]_vars
    PROVE  AgreeInv'
<1>1. ASSUME NEW note \in Notes, NEW eth \in EthAddrs, DepositNew(note, eth) PROVE AgreeInv'
  BY <1>1, AgreeBegin DEF DepositNew
<1>2. CASE WithdrawNew(Depositor) BY <1>2, AgreeBegin DEF WithdrawNew
<1>3. ASSUME NEW asset, NEW amount, AddWithdrawal(asset, amount) PROVE AgreeInv' BY <1>3, AgreeAddWithdrawal
<1>4. CASE DepositBuild BY <1>4, AgreeDepositBuild
<1>5. CASE WithdrawBuild BY <1>5, AgreeWithdrawBuild
<1>6. CASE ConsumeSign \/ ApprovalSign \/ WithSubpoolProof \/ WithAccountPath \/ \E sk \in {SpendSk, WrongSk} : SpendSign(sk)
  BY <1>6, AgreeSign
<1>7. CASE Prove BY <1>7, AgreeProve
<1>8. CASE Discard BY <1>8 DEF Discard, AgreeInv, chainVars
<1>9. ASSUME NEW note \in Notes, NEW value, RegisterDeposit(note, value) PROVE AgreeInv'
  BY <1>9 DEF RegisterDeposit, AgreeInv
<1>10. ASSUME NEW key \in DOMAIN deposits, WithdrawPendingDeposit(key) PROVE AgreeInv'
  BY <1>10 DEF WithdrawPendingDeposit, AgreeInv
<1>11. ASSUME NEW p \in proofs, PublishDeposit(p) \/ PublishWithdraw(p) PROVE AgreeInv'
  <2>1. acc' = p.accout /\ proofs' = proofs \ {p} /\ tx' = tx
    BY <1>11 DEF PublishDeposit, PublishWithdraw, Landed
  <2> QED BY <2>1 DEF AgreeInv
<1>12. CASE ForeignLeaf BY <1>12 DEF ForeignLeaf, AgreeInv
<1>13. ASSUME NEW k \in ApprovalSks, RotateApprovalKey(k) PROVE AgreeInv'
  BY <1>13 DEF RotateApprovalKey, AgreeInv
<1>14. CASE UNCHANGED vars BY <1>14 DEF vars, AgreeInv
<1> QED
  BY <1>1, <1>2, <1>3, <1>4, <1>5, <1>6, <1>7, <1>8, <1>9, <1>10, <1>11, <1>12, <1>13, <1>14 DEF Next

\* The account a transaction leads to differs from the one it starts from as the circuits allow.
LEMMA Succeeds ==
    ASSUME NEW a, NEW b, Mine(a), Follows(a, b)
    PROVE  AccountInvariantsSimple(a, b)
BY DEF Mine, Follows, AccountInvariantsSimple

\* A deposit proves if the key that approved it is the one the configuration names.
LEMMA DepositProves ==
    ASSUME AccountInv, ValueInv, AgreeInv, Built, IntoTxSucceeds(tx), tx.kind = "deposit"
    PROVE  Proves(tx) <=> ~Explained(tx)
<1>1. tx # NoTx /\ tx.stage = "built" BY DEF Built, NoTx
<1>2. /\ Mine(tx.accin) /\ Follows(tx.accin, tx.accout) BY <1>1 DEF AccountInv, TxInv
<1>3. Agrees(tx) /\ DepositBuilt(tx) /\ Kept(tx.accin.ast) BY <1>1 DEF AgreeInv, Agrees
<1>4. tx.note.amount \in Nat BY <1>1 DEF ValueInv, TxValue
<1> DEFINE w == DepositWitness(tx)
           old == AmountOrNext(tx.accin.ast, tx.note.asset)
<1>5. /\ w.not_fake_tx = TRUE /\ w.accin = tx.accin /\ w.accout = tx.accout /\ w.note = tx.note /\ w.eth = tx.eth
      /\ w.accin_path = tx.accin_path /\ w.ast_index = old.index /\ w.accin_amt = old.amount
      /\ w.accout_amt = old.amount + tx.note.amount /\ w.exists_in = old.exists
      /\ w.exists_out = (tx.note.asset \in Tracked(tx.accout.ast)) /\ w.state_root = tx.accin_path.root
      /\ w.config_root = tx.approval_key /\ w.approval_key = tx.approval_key
      /\ w.consume_sig = tx.consume_sig /\ w.approval_sig = tx.approval_sig
  BY DEF DepositWitness
<1>6. Proves(tx) <=> DepositTxCircuit(w) BY DEF Proves
<1>7. /\ old.amount + tx.note.amount < Modulus /\ CanInsertOrUpdate(tx.accin.ast, tx.note.asset)
      /\ tx.accout.ast = insert_or_update_asset(tx.accin.ast, tx.note.asset, old.amount + tx.note.amount)
  BY <1>3 DEF DepositBuilt
<1> HIDE DEF w
<1>8. LiveAccount(w) /\ ApprovalKeyCommitted(w)
  <2>1. tx.accin_path.leaf = Commitment(tx.accin) BY <1>3 DEF Agrees, IntoTxSucceeds, IntoDepositTxSucceeds
  <2> QED BY <1>5, <2>1 DEF LiveAccount, Opens, ApprovalKeyCommitted
<1>9. AccountInvariantsSimple(w.accin, w.accout) BY <1>2, <1>5, Succeeds
<1>10. w.note.recipient = Address(w.accin) BY <1>3, <1>5 DEF Agrees
<1>11. AstUpdateRoots(w.note.asset, w.accin_amt, w.accout_amt, AstRoot(w.accin.ast), w.ast_index,
                      AstRoot(w.accin.ast), AstRoot(w.accout.ast), w.exists_in, w.exists_out)
  <2>1. AstUpdateRoots(tx.note.asset, old.amount, old.amount + tx.note.amount, AstRoot(tx.accin.ast), old.index,
                       AstRoot(tx.accin.ast), AstRoot(tx.accout.ast), old.exists, tx.note.asset \in Tracked(tx.accout.ast))
    BY <1>3, <1>4, <1>7, DepositUpdates
  <2> QED BY <1>5, <2>1
<1>12. U256Sum(w.accin_amt, <<w.note.amount>>) = w.accout_amt
  <2>1. old.amount \in Nat BY <1>3, AmountNat DEF Kept
  <2> HIDE DEF old
  <2> QED BY <1>4, <1>5, <1>7, <2>1, OneAmount
<1>13. DerivedDepositHash(w) = tx.hash BY <1>3, <1>5 DEF DerivedDepositHash, DepositBuilt
<1>14. ASSUME tx.accin.consume.config
       PROVE  Verifies(tx.consume_sig, pk_or_default(tx.accin.consume.pk), tx.hash)
  <2>1. tx.consume_sig # None BY <1>14 DEF IntoTxSucceeds, IntoDepositTxSucceeds
  <2>2. tx.accin.consume = ConsumeKey(ConsumeSk) /\ tx.consume_sig = Signature(ConsumeSk, tx.hash)
    BY <1>3, <2>1 DEF Agrees, SignedAsBuilt
  <2>3. pk_or_default(tx.accin.consume.pk) = ConsumeSk BY <2>2, KeyAssumption DEF ConsumeKey, pk_or_default
  <2>4. tx.consume_sig.key = ConsumeSk /\ tx.consume_sig.msg = tx.hash BY <2>2 DEF Signature
  <2> QED BY <2>1, <2>3, <2>4 DEF Verifies
<1>15. Verifies(tx.approval_sig, tx.approval_key, tx.hash) <=> tx.approval_sig.key = tx.approval_key
  <2>1. tx.approval_sig # None BY DEF IntoTxSucceeds, IntoDepositTxSucceeds
  <2>2. tx.approval_sig.msg = tx.hash
    <3>1. PICK sk : tx.approval_sig = Signature(sk, tx.hash) BY <1>3, <2>1 DEF Agrees, SignedAsBuilt
    <3> QED BY <3>1 DEF Signature
  <2> QED BY <2>1, <2>2 DEF Verifies
<1>16. DepositSignatures(w) <=> tx.approval_sig.key = tx.approval_key
  BY <1>5, <1>13, <1>14, <1>15 DEF DepositSignatures
<1>17. DepositTxCircuit(w) <=> DepositSignatures(w)
  BY <1>8, <1>9, <1>10, <1>11, <1>12 DEF DepositTxCircuit
<1>18. Explained(tx) <=> tx.approval_sig.key # tx.approval_key BY DEF Explained
<1> QED BY <1>6, <1>16, <1>17, <1>18

\* A withdrawal proves if, besides, the owner's key signed it, no asset is emptied and no
\* padding meets a full tree.
LEMMA WithdrawProves ==
    ASSUME AccountInv, ValueInv, AgreeInv, Built, IntoTxSucceeds(tx), tx.kind = "withdraw"
    PROVE  Proves(tx) <=> ~Explained(tx)
<1>1. tx # NoTx /\ tx.stage = "built" BY DEF Built, NoTx
<1> DEFINE t  == tx.accin.ast
           ws == tx.withdrawals
           c  == compute_withdrawal_slots(tx.accin, ws)
           g  == AstAfter(t, ws)
           w  == WithdrawWitness(tx)
<1>2. Mine(tx.accin) /\ Follows(tx.accin, tx.accout) /\ tx.accout = WithdrawnAccount(tx.accin, c)
  BY <1>1 DEF AccountInv, TxInv
<1>3. Agrees(tx) /\ WithdrawBuilt(tx) /\ Kept(t) BY <1>1 DEF AgreeInv, Agrees
<1>4. Requests(ws) /\ c.ok BY <1>1 DEF ValueInv, TxValue, BuiltValue
<1>5. /\ w.not_fake_tx = TRUE /\ w.accin = tx.accin /\ w.accout = tx.accout /\ w.slots = c.slots /\ w.eth = tx.eth
      /\ w.accin_path = tx.accin_path /\ w.state_root = tx.accin_path.root
      /\ w.config_root = tx.approval_key /\ w.approval_key = tx.approval_key
      /\ w.spend_sig = tx.spend_sig /\ w.approval_sig = tx.approval_sig
  BY <1>2 DEF WithdrawWitness
<1>6. Proves(tx) <=> WithdrawTxCircuit(w) BY DEF Proves
<1>7. /\ c.ast = g[NoteBatch] /\ (c.ok <=> \A i \in Slots : SlotFits(g[i - 1], ws, i))
      /\ \A i \in Slots : c.slots[i] = SlotAt(g[i - 1], ws, i)
  BY SlotsComputed
<1>8. tx.accout.ast = c.ast BY <1>2 DEF WithdrawnAccount, clone_with_incremented_nonce, Mine
<1>9. tx.hash = HashOfSlots(tx.accin, tx.accout, c.slots, tx.eth) BY <1>3 DEF WithdrawBuilt
<1> HIDE DEF w, c, g, t, ws
<1>10. LiveAccount(w) /\ ApprovalKeyCommitted(w)
  <2>1. tx.accin_path.leaf = Commitment(tx.accin) BY <1>3 DEF Agrees, IntoTxSucceeds, IntoWithdrawTxSucceeds
  <2> QED BY <1>5, <2>1 DEF LiveAccount, Opens, ApprovalKeyCommitted
<1>11. AccountInvariantsSimple(w.accin, w.accout) BY <1>2, <1>5, Succeeds
<1>12. (/\ \A i \in Slots : w.slots[i].accin_amt = U256Sum(w.slots[i].accout_amt, <<w.slots[i].amount>>)
        /\ ChainedAstUpdates(w))
         <=> /\ \A i \in DOMAIN ws : AmountOrNext(g[NoteBatch], ws[i].asset).amount # 0
             /\ ~(Len(ws) < NoteBatch /\ ~Room(t))
  <2>1. g = AstAfter(t, ws) BY DEF g
  <2>2. w.accin.ast = t /\ w.accout.ast = g[NoteBatch] BY <1>5, <1>7, <1>8 DEF t
  <2>3. \A i \in Slots : w.slots[i] = SlotAt(g[i - 1], ws, i) BY <1>5, <1>7
  <2>4. \A i \in Slots : SlotFits(g[i - 1], ws, i) BY <1>4, <1>7
  <2> QED BY <1>3, <1>4, <2>1, <2>2, <2>3, <2>4, ChainAgrees
<1>13. EmptiesAnAsset(tx) <=> ~\A i \in DOMAIN ws : AmountOrNext(g[NoteBatch], ws[i].asset).amount # 0
  BY <1>7, <1>8 DEF EmptiesAnAsset, Balance, ws
<1>14. PaddingOverFullTree(tx) <=> (Len(ws) < NoteBatch /\ ~Room(t)) BY DEF PaddingOverFullTree, ws, t
<1>15. DerivedWithdrawHash(w) = tx.hash BY <1>5, <1>9 DEF DerivedWithdrawHash, HashOfSlots
<1>16. Verifies(tx.approval_sig, tx.approval_key, tx.hash) <=> tx.approval_sig.key = tx.approval_key
  <2>1. tx.approval_sig # None BY DEF IntoTxSucceeds, IntoWithdrawTxSucceeds
  <2>2. tx.approval_sig.msg = tx.hash
    <3>1. PICK sk : tx.approval_sig = Signature(sk, tx.hash) BY <1>3, <2>1 DEF Agrees, SignedAsBuilt
    <3> QED BY <3>1 DEF Signature
  <2> QED BY <2>1, <2>2 DEF Verifies
<1>17. Verifies(tx.spend_sig, pk_or_default(tx.accin.spend_pk), tx.hash) <=> tx.spend_sig.key = tx.accin.spend_pk
  <2>1. tx.spend_sig # None BY DEF IntoTxSucceeds, IntoWithdrawTxSucceeds
  <2>2. tx.spend_sig.msg = tx.hash
    <3>1. PICK sk : tx.spend_sig = Signature(sk, tx.hash) BY <1>3, <2>1 DEF Agrees, SignedAsBuilt
    <3> QED BY <3>1 DEF Signature
  <2>3. pk_or_default(tx.accin.spend_pk) = tx.accin.spend_pk BY <1>2, KeyAssumption DEF Mine, pk_or_default
  <2> QED BY <2>1, <2>2, <2>3 DEF Verifies
<1>18. WithdrawSignatures(w) <=> /\ tx.approval_sig.key = tx.approval_key
                                 /\ tx.spend_sig.key = tx.accin.spend_pk
  BY <1>5, <1>15, <1>16, <1>17 DEF WithdrawSignatures
<1>19. WithdrawTxCircuit(w) <=> /\ ~EmptiesAnAsset(tx) /\ ~PaddingOverFullTree(tx)
                                /\ WithdrawSignatures(w)
  BY <1>10, <1>11, <1>12, <1>13, <1>14 DEF WithdrawTxCircuit
<1>20. Explained(tx) <=> \/ tx.approval_sig.key # tx.approval_key
                         \/ EmptiesAnAsset(tx) \/ PaddingOverFullTree(tx) \/ tx.spend_sig.key # tx.accin.spend_pk
  BY DEF Explained
<1> QED BY <1>6, <1>18, <1>19, <1>20

\* Builders and circuits agree, for every number of slots, depth and amount: prove of a
\* deposit or a withdrawal that build and into_..._tx let through refuses it exactly for one
\* of the reasons Explained lists.  compute_withdrawal_slots and the chained updates of
\* withdraw_tx_circuit go through the same roots, whatever the slots repeat, and
\* insert_or_update_asset is the update deposit_tx_circuit asserts.
THEOREM BridgeCircuitsAgree == Spec => []ProvesUnlessExplained
<1>1. AccountInv /\ ValueInv /\ AgreeInv => ProvesUnlessExplained
  <2> SUFFICES ASSUME AccountInv, ValueInv, AgreeInv, Built, IntoTxSucceeds(tx)
               PROVE  Proves(tx) <=> ~Explained(tx)
    BY DEF ProvesUnlessExplained
  <2>1. tx.kind \in {"deposit", "withdraw"} BY DEF Built, NoTx, AccountInv, TxInv
  <2> QED BY <2>1, DepositProves, WithdrawProves
<1>2. AccountInv /\ ValueInv /\ AgreeInv /\ [Next]_vars => AgreeInv' BY NextAgree
<1>3. AccountInv /\ ValueInv /\ [Next]_vars => ValueInv' BY NextValueInv
<1> QED BY <1>1, <1>2, <1>3, AccountInvariant, InitValueInv, InitAgree, PTL DEF Spec
=============================================================================

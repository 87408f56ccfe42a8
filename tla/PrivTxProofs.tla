---------------------------- MODULE PrivTxProofs ----------------------------
(***************************************************************************)
(* Proofs about a client's private transactions (PrivTx): one account      *)
(* state is live, the account's map indexes its tree, a padding            *)
(* transaction always proves, a published transaction takes from the       *)
(* client exactly what it sent and returned, and prove refuses a built     *)
(* transaction for the stated reasons only.                                *)
(***************************************************************************)
EXTENDS PrivTx, AssetTreeProofs

-----------------------------------------------------------------------------
(* The inductive invariant *)

\* An account of the client, in any of its states.
Owned(a) ==
    /\ DOMAIN a = {"id", "subpool", "nonce", "spend_pk", "consume", "ast"}
    /\ a.id = Me /\ a.subpool = Subpool /\ a.nonce \in Nat
    /\ AstOK(a.ast)

\* A state of the account that is not the current one is spent.
SpentOrCurrent(a) == a = acc \/ Nullifier(a) \in nullifiers

\* Notes the client found, each with the position it found it at.
Picked(s) == IsSeq(s) /\ \A i \in 1 .. Len(s) : s[i].pos \in DOMAIN notes /\ s[i].note = notes[s[i].pos]

\* Notes with amounts.
Amounted(s) == IsSeq(s) /\ \A i \in 1 .. Len(s) : s[i].amt \in Nat

\* Paths, once set, are at the positions of the notes.
PathsMatch(paths, s) == paths # None => \A i \in 1 .. Len(s) : paths[i].pos = s[i].pos

\* The fields of a builder.
TxFields ==
    {"stage", "kind", "n", "accin", "asset", "inotes", "onotes", "rejected", "dinotes", "donotes",
     "new_spend", "new_consume", "accout", "hash", "root", "accin_path", "inote_paths",
     "rejected_paths", "approval_key", "spend_sig", "consume_sig", "approval_sig"}

\* A built transaction leads to the next state of the account, which has what the account
\* had and the inputs bring, less what the outputs take.
BuiltOK(t) ==
    /\ Owned(t.accout) /\ t.accout.nonce = t.accin.nonce + 1
    /\ Funds(t.accout.ast) + Amounts(t.onotes) = Funds(t.accin.ast) + Amounts(InputsOf(t))
    /\ PathsMatch(t.inote_paths, t.inotes) /\ PathsMatch(t.rejected_paths, t.rejected)

\* A signature set is the owner's, over the transaction's hash.
SigsOK(t) ==
    /\ t.spend_sig # None => t.spend_sig.key = t.accin.spend_pk /\ t.spend_sig.msg = t.hash
    /\ t.consume_sig # None => t.consume_sig.key = t.accin.consume.pk /\ t.consume_sig.msg = t.hash

\* The transaction in use starts from a state of the account.
TxOK(t) ==
    /\ DOMAIN t = TxFields
    /\ t.stage \in {"builder", "built"} /\ t.kind \in {"spend", "fresh"}
    /\ Owned(t.accin) /\ SpentOrCurrent(t.accin)
    /\ Picked(t.inotes) /\ Picked(t.rejected) /\ Amounted(t.onotes)
    /\ t.kind = "fresh" => t.inotes = <<>> /\ t.onotes = <<>> /\ t.rejected = <<>>
    /\ t.stage = "builder" => t.inote_paths = None /\ t.rejected_paths = None
    /\ t.stage = "builder" => t.spend_sig = None /\ t.consume_sig = None
    /\ t.stage = "built" => BuiltOK(t)
    /\ SigsOK(t)
TxInv == tx # NoTx => TxOK(tx)

\* A proof that spends a has the signatures of the owner that it needs: one to spend, unless
\* the balance does not shrink, and one to consume notes, unless that is delegated.
Authorised(p, a) ==
    /\ p.spend_sig # None => OwnerSigned(p, p.spend_sig, a.spend_pk)
    /\ p.consume_sig # None => OwnerSigned(p, p.consume_sig, a.consume.pk)
    /\ p.spend_sig = None => Funds(p.accout.ast) >= Funds(a.ast)
    /\ p.spend_sig = None /\ a.consume.config /\ (\E i \in Slots : p.public.inotes_null[i][1] = "NN")
         => p.consume_sig # None

\* A proof spends one state of the account and makes the next; the slots of T consume the
\* notes at taken, the others nothing; what comes in is what is sent, returned and kept.
TakenTotal(T, taken) == SumFunctionOnSet([i \in T |-> notes[taken[i]].amt], T)
Consumes(p, a, T, taken) ==
    /\ Owned(a) /\ SpentOrCurrent(a) /\ Authorised(p, a)
    /\ Owned(p.accout) /\ p.accout.nonce = a.nonce + 1
    /\ p.public.accin_null = Nullifier(a) /\ p.public.accout_comm = Commitment(p.accout)
    /\ IsSeq(p.public.onotes_comm)
    /\ \A i \in 1 .. Len(p.public.onotes_comm) : p.public.onotes_comm[i][1] # "AC"
    /\ DOMAIN p.public.inotes_null = Slots /\ T \subseteq Slots
    /\ \A i \in T : /\ taken[i] \in DOMAIN notes
                    /\ p.public.inotes_null[i] = NoteNullifier(notes[taken[i]], taken[i], Me)
    /\ \A i \in Slots \ T : p.public.inotes_null[i][1] = "H2"
    /\ Amounts(p.sent) \in Nat /\ Amounts(p.returned) \in Nat
    /\ Funds(p.accout.ast) + Amounts(p.sent) + Amounts(p.returned) =
         Funds(a.ast) + TakenTotal(T, taken)
ProofsInv == \A p \in proofs : \E a, T, taken : Consumes(p, a, T, taken)

\* The nonce an account commitment commits to.
NonceOf(c) == c[5]

\* Account states on the tree are the current one or spent; what is spent is older.
LeafInv(c) == c[1] = "AC" => c = Commitment(acc) \/ NullifierOf(c, Me) \in nullifiers
OnTree(c) == \E i \in 1 .. Len(stateTree) : stateTree[i] = c
TreeInv ==
    /\ IsSeq(stateTree) /\ Owned(acc)
    /\ \A i \in 1 .. Len(stateTree) : LeafInv(stateTree[i])
    /\ \A n \in nullifiers : n[1] = "AN" => NonceOf(n[2]) \in 0 .. acc.nonce - 1
    /\ acc.nonce # 0 => OnTree(Commitment(acc))
    /\ acc.nonce = 0 => \A i \in 1 .. Len(stateTree) : stateTree[i][1] # "AC"

\* The notes the client can find.
NotesInv == IsFiniteSet(DOMAIN notes) /\ \A pos \in DOMAIN notes : notes[pos].amt \in Nat

\* The invariant.
PrivInv == TxInv /\ ProofsInv /\ TreeInv /\ NotesInv

-----------------------------------------------------------------------------
(* Sums and sequences *)

\* The amounts of a sequence of notes as a sum over its indices.
LEMMA AmountsSum ==
    ASSUME NEW s, Amounted(s)
    PROVE  /\ Len(s) \in Nat /\ DOMAIN s = 1 .. Len(s)
           /\ Amounts(s) = SumFunctionOnSet([i \in 1 .. Len(s) |-> s[i].amt], 1 .. Len(s))
           /\ Amounts(s) \in Nat
<1>1. Len(s) \in Nat /\ DOMAIN s = 1 .. Len(s) BY DEF Amounted, IsSeq
<1> DEFINE f == [i \in 1 .. Len(s) |-> s[i].amt]
<1>2. Amounts(s) = SumFunctionOnSet(f, 1 .. Len(s)) BY <1>1 DEF Amounts, SumFunction
<1>3. IsFiniteSet(1 .. Len(s)) BY <1>1, FS_Interval
<1>4. \A i \in 1 .. Len(s) : f[i] \in Nat BY DEF Amounted
<1> HIDE DEF f
<1>5. SumFunctionOnSet(f, 1 .. Len(s)) \in Nat BY <1>3, <1>4, SumNat
<1> QED BY <1>1, <1>2, <1>5 DEF f

\* An empty sequence of notes.
LEMMA NoAmounts == Amounted(<<>>) /\ Amounts(<<>>) = 0 /\ Picked(<<>>)
<1>1. <<>> \in Seq({}) OBVIOUS
<1>2. IsSeq(<<>>) /\ Len(<<>>) = 0 BY <1>1 DEF IsSeq
<1>3. Amounted(<<>>) /\ Picked(<<>>) BY <1>2 DEF Amounted, Picked
<1>4. ASSUME NEW s, Amounted(s), Len(s) = 0 PROVE Amounts(s) = 0
  <2>1. Amounts(s) = SumFunctionOnSet([i \in 1 .. Len(s) |-> s[i].amt], 1 .. Len(s)) BY <1>4, AmountsSum
  <2>2. 1 .. Len(s) = {} BY <1>4
  <2> QED BY <2>1, <2>2, SumEmpty
<1> QED BY <1>2, <1>3, <1>4

\* A sequence of the notes at the positions of another.
LEMMA PickedAmounts ==
    ASSUME NotesInv, NEW s, Picked(s), NEW r, r = [i \in DOMAIN s |-> s[i].note]
    PROVE  Amounted(r) /\ Len(r) = Len(s) /\ DOMAIN r = DOMAIN s
<1>1. Len(s) \in Nat /\ DOMAIN s = 1 .. Len(s) BY DEF Picked, IsSeq
<1> DEFINE S == {s[i].note : i \in DOMAIN s}
<1>2. r \in Seq(S) /\ Len(r) = Len(s) BY <1>1
<1>3. IsSeq(r) BY <1>2 DEF IsSeq
<1>4. \A i \in 1 .. Len(r) : r[i].amt \in Nat BY <1>1, <1>2 DEF NotesInv, Picked
<1> QED BY <1>1, <1>2, <1>3, <1>4 DEF Amounted

\* A commitment is to the nonce.
LEMMA CommitmentParts ==
    ASSUME NEW a
    PROVE  Commitment(a)[1] = "AC" /\ NonceOf(Commitment(a)) = a.nonce
BY DEF Commitment, NonceOf

\* An account's nullifier is that of its commitment.
LEMMA NullifierParts ==
    ASSUME NEW a, a.id = Me
    PROVE  /\ Nullifier(a) = NullifierOf(Commitment(a), Me)
           /\ Nullifier(a)[1] = "AN" /\ Nullifier(a)[2] = Commitment(a)
BY DEF Nullifier, NullifierOf

-----------------------------------------------------------------------------
(* Initial states *)

\* The client's account before activation,
LEMMA NewAccountOwned == Owned(NewAccount(Me, Subpool)) /\ NewAccount(Me, Subpool).nonce = 0
BY NewAstOK DEF Owned, NewAccount

\* and after it.
LEMMA ActiveAccountOwned ==
    ASSUME NEW k
    PROVE  Owned(ActiveAccount(k)) /\ ActiveAccount(k).nonce = 1
<1> DEFINE a == CHOOSE x \in Assets : TRUE
           t == _insert_asset(NewAst, a, 1)
<1>1. a \in Assets BY ValueAssumption
<1>2. a \notin {DefaultAsset} BY <1>1, AssetAssumption DEF DefaultAsset
<1> HIDE DEF a
<1>3. AstOK(t) BY <1>2, NewAstOK, InsertOK
<1>4. ActiveAccount(k) = [NewAccount(Me, Subpool) EXCEPT !.nonce = 1, !.spend_pk = SpendSk, !.consume = k,
                                                         !.ast = t]
  BY DEF ActiveAccount, a, t, NewAccount
<1> HIDE DEF t
<1> QED BY <1>3, <1>4 DEF Owned, NewAccount

\* The invariant holds of both.
LEMMA InitPrivInv == Init => PrivInv
<1> SUFFICES ASSUME Init PROVE PrivInv OBVIOUS
<1>1. TxInv /\ ProofsInv BY DEF TxInv, ProofsInv, Init
<1>2. CASE acc = NewAccount(Me, Subpool) /\ stateTree = <<>> /\ notes = <<>>
  <2>1. IsSeq(stateTree) /\ Len(stateTree) = 0 BY <1>2, NoAmounts DEF Amounted
  <2>2. TreeInv BY <1>2, <2>1, NewAccountOwned DEF TreeInv, Init
  <2>3. NotesInv BY <1>2, FS_EmptySet DEF NotesInv
  <2> QED BY <1>1, <2>2, <2>3 DEF PrivInv
<1>3. CASE /\ acc \in {ActiveAccount(DelegatedConsume), ActiveAccount(ConsumeKey(ConsumeSk))}
           /\ stateTree = <<Commitment(acc), NoteCommitment(IncomingNote(1)), NoteCommitment(IncomingNote(2))>>
           /\ notes = [k \in {1, 2} |-> IncomingNote(k)]
  <2>1. Owned(acc) /\ acc.nonce = 1 BY <1>3, ActiveAccountOwned
  <2>2. NoteCommitment(IncomingNote(1))[1] # "AC" /\ NoteCommitment(IncomingNote(2))[1] # "AC"
    BY DEF NoteCommitment
  <2>3. /\ IsSeq(stateTree) /\ Len(stateTree) = 3 /\ stateTree[1] = Commitment(acc)
        /\ stateTree[2][1] # "AC" /\ stateTree[3][1] # "AC"
    <3>1. ASSUME NEW x, NEW y, NEW z PROVE <<x, y, z>> \in Seq({x, y, z}) OBVIOUS
    <3>2. IsSeq(stateTree) BY <3>1, <1>3 DEF IsSeq
    <3> QED BY <1>3, <2>2, <3>2
  <2>4. \A i \in 1 .. Len(stateTree) : LeafInv(stateTree[i]) BY <2>3 DEF LeafInv
  <2>5. OnTree(Commitment(acc)) BY <2>3 DEF OnTree
  <2>6. TreeInv BY <2>1, <2>3, <2>4, <2>5 DEF TreeInv, Init
  <2>7. DOMAIN notes = {1, 2} /\ notes[1] = IncomingNote(1) /\ notes[2] = IncomingNote(2)
    BY <1>3
  <2>8. \A k : IncomingNote(k).amt = 1 BY DEF IncomingNote, Note
  <2>9. IsFiniteSet({1, 2})
    <3>1. IsFiniteSet({1}) BY FS_Singleton
    <3>2. IsFiniteSet({1} \cup {2}) BY <3>1, FS_AddElement
    <3>3. {1} \cup {2} = {1, 2} OBVIOUS
    <3> QED BY <3>2, <3>3
  <2>10. NotesInv BY <2>7, <2>8, <2>9 DEF NotesInv
  <2> QED BY <1>1, <2>6, <2>10 DEF PrivInv
<1> QED BY <1>2, <1>3 DEF Init

-----------------------------------------------------------------------------
(* Building and signing *)

\* Calls on the builder leave the ledger and the proofs alone.
LEMMA BuilderStep ==
    ASSUME PrivInv, UNCHANGED <<proofs, ledgerVars>>, NEW t, tx' = NoTx \/ tx' = t, t = NoTx \/ TxOK(t)
    PROVE  PrivInv'
<1>1. ProofsInv'
  <2>1. \A T, taken : TakenTotal(T, taken)' = TakenTotal(T, taken) BY DEF TakenTotal, ledgerVars
  <2>2. \A p, a, T, taken : Consumes(p, a, T, taken) => Consumes(p, a, T, taken)'
    BY <2>1 DEF Consumes, SpentOrCurrent, ledgerVars
  <2> QED BY <2>2 DEF PrivInv, ProofsInv
<1>2. TreeInv' BY DEF PrivInv, TreeInv, LeafInv, OnTree, ledgerVars
<1>3. NotesInv' BY DEF PrivInv, NotesInv, ledgerVars
<1>4. TxInv' BY DEF TxInv, TxOK, SpentOrCurrent, Picked, ledgerVars
<1> QED BY <1>1, <1>2, <1>3, <1>4 DEF PrivInv

\* new of either builder starts from the account the client holds.
LEMMA NewStep ==
    ASSUME PrivInv, NEW kind \in {"spend", "fresh"}, NEW asset, UNCHANGED <<proofs, ledgerVars>>,
           tx' = NewBuilder(kind, asset)
    PROVE  PrivInv'
<1> DEFINE t == NewBuilder(kind, asset)
<1>1. /\ DOMAIN t = TxFields /\ t.stage = "builder" /\ t.kind = kind /\ t.accin = acc
      /\ t.inotes = <<>> /\ t.onotes = <<>> /\ t.rejected = <<>>
      /\ t.inote_paths = None /\ t.rejected_paths = None /\ t.spend_sig = None /\ t.consume_sig = None
  BY DEF NewBuilder, TxFields
<1>2. Owned(acc) /\ SpentOrCurrent(acc) BY DEF PrivInv, TreeInv, SpentOrCurrent
<1> HIDE DEF t
<1>3. TxOK(t) BY <1>1, <1>2, NoAmounts DEF TxOK, SigsOK
<1> QED BY <1>3, BuilderStep DEF t

\* Setting a field that the invariant does not read.
LEMMA FieldSet ==
    ASSUME PrivInv, tx.stage \in {"builder", "built"}, UNCHANGED <<proofs, ledgerVars>>,
           NEW f \in {"dinotes", "donotes", "new_spend", "new_consume", "root", "accin_path",
                      "approval_key", "approval_sig"},
           NEW v, tx' = NoTx \/ tx' = [tx EXCEPT ![f] = v]
    PROVE  PrivInv'
<1>1. TxOK(tx) BY DEF PrivInv, TxInv, NoTx
<1> DEFINE t == [tx EXCEPT ![f] = v]
<1>2. /\ DOMAIN t = DOMAIN tx /\ t.stage = tx.stage /\ t.kind = tx.kind /\ t.accin = tx.accin
      /\ t.accout = tx.accout /\ t.inotes = tx.inotes /\ t.onotes = tx.onotes /\ t.rejected = tx.rejected
      /\ t.inote_paths = tx.inote_paths /\ t.rejected_paths = tx.rejected_paths
      /\ t.spend_sig = tx.spend_sig /\ t.consume_sig = tx.consume_sig /\ t.hash = tx.hash
  BY <1>1 DEF TxOK, TxFields
<1>3. tx' = NoTx \/ tx' = t OBVIOUS
<1> HIDE DEF t
<1>4. BuiltOK(tx) => BuiltOK(t) BY <1>2 DEF BuiltOK, InputsOf
<1>5. TxOK(t) BY <1>1, <1>2, <1>4 DEF TxOK, SigsOK
<1> QED BY <1>3, <1>5, BuilderStep

\* Appending a note the client found.
LEMMA PickOne ==
    ASSUME NEW s, Picked(s), NEW pos \in DOMAIN notes
    PROVE  Picked(Append(s, [note |-> notes[pos], pos |-> pos]))
<1> DEFINE e == [note |-> notes[pos], pos |-> pos]
<1>1. e.pos = pos /\ e.note = notes[pos] OBVIOUS
<1> HIDE DEF e
<1>2. /\ IsSeq(Append(s, e)) /\ Len(s) \in Nat /\ Len(Append(s, e)) = Len(s) + 1
      /\ \A i \in 1 .. Len(s) : Append(s, e)[i] = s[i]
      /\ Append(s, e)[Len(s) + 1] = e
  BY AppendKeeps DEF Picked
<1>3. ASSUME NEW i \in 1 .. Len(Append(s, e))
      PROVE  Append(s, e)[i].pos \in DOMAIN notes /\ Append(s, e)[i].note = notes[Append(s, e)[i].pos]
  <2>1. CASE i = Len(s) + 1 BY <2>1, <1>1, <1>2
  <2>2. CASE i \in 1 .. Len(s) BY <2>2, <1>2 DEF Picked
  <2> QED BY <2>1, <2>2, <1>2
<1> QED BY <1>2, <1>3 DEF Picked, e

\* add_input_note, add_rejected_note and add_output_note.
LEMMA AddNoteStep ==
    ASSUME PrivInv,
           \/ \E pos \in DOMAIN notes : AddInputNote(pos) \/ AddRejectedNote(pos)
           \/ \E amt \in OutAmounts : AddOutputNote(amt)
    PROVE  PrivInv'
<1>1. TxOK(tx) /\ tx.stage = "builder" /\ tx.kind = "spend" /\ UNCHANGED <<proofs, ledgerVars>>
  <2>1. Building("spend") /\ UNCHANGED <<proofs, ledgerVars>>
    BY DEF AddInputNote, AddRejectedNote, AddOutputNote, MoreNotes
  <2> QED BY <2>1 DEF Building, PrivInv, TxInv, NoTx
<1>2. ASSUME NEW pos \in DOMAIN notes, AddInputNote(pos) PROVE PrivInv'
  <2> DEFINE t == [tx EXCEPT !.inotes = Append(@, [note |-> notes[pos], pos |-> pos])]
  <2>1. /\ DOMAIN t = DOMAIN tx /\ t.stage = tx.stage /\ t.kind = tx.kind /\ t.accin = tx.accin
        /\ t.inotes = Append(tx.inotes, [note |-> notes[pos], pos |-> pos])
        /\ t.onotes = tx.onotes /\ t.rejected = tx.rejected
        /\ t.inote_paths = tx.inote_paths /\ t.rejected_paths = tx.rejected_paths
        /\ t.spend_sig = tx.spend_sig /\ t.consume_sig = tx.consume_sig
    BY <1>1 DEF TxOK, TxFields
  <2>2. tx' = NoTx \/ tx' = t BY <1>2 DEF AddInputNote, Returns
  <2> HIDE DEF t
  <2>3. Picked(t.inotes) BY <1>1, <2>1, PickOne DEF TxOK
  <2>4. TxOK(t) BY <1>1, <2>1, <2>3 DEF TxOK, SigsOK
  <2> QED BY <1>1, <2>2, <2>4, BuilderStep
<1>3. ASSUME NEW pos \in DOMAIN notes, AddRejectedNote(pos) PROVE PrivInv'
  <2> DEFINE t == [tx EXCEPT !.rejected = Append(@, [note |-> notes[pos], pos |-> pos])]
  <2>1. /\ DOMAIN t = DOMAIN tx /\ t.stage = tx.stage /\ t.kind = tx.kind /\ t.accin = tx.accin
        /\ t.rejected = Append(tx.rejected, [note |-> notes[pos], pos |-> pos])
        /\ t.onotes = tx.onotes /\ t.inotes = tx.inotes
        /\ t.inote_paths = tx.inote_paths /\ t.rejected_paths = tx.rejected_paths
        /\ t.spend_sig = tx.spend_sig /\ t.consume_sig = tx.consume_sig
    BY <1>1 DEF TxOK, TxFields
  <2>2. tx' = NoTx \/ tx' = t BY <1>3 DEF AddRejectedNote, Returns
  <2> HIDE DEF t
  <2>3. Picked(t.rejected) BY <1>1, <2>1, PickOne DEF TxOK
  <2>4. TxOK(t) BY <1>1, <2>1, <2>3 DEF TxOK, SigsOK
  <2> QED BY <1>1, <2>2, <2>4, BuilderStep
<1>4. ASSUME NEW amt \in OutAmounts, AddOutputNote(amt) PROVE PrivInv'
  <2> DEFINE e == Note(100 + tx.n * NoteBatch + Len(tx.onotes), amt, tx.asset, OtherAddress, Address(tx.accin))
             t == [tx EXCEPT !.onotes = Append(@, e)]
  <2>1. /\ DOMAIN t = DOMAIN tx /\ t.stage = tx.stage /\ t.kind = tx.kind /\ t.accin = tx.accin
        /\ t.onotes = Append(tx.onotes, e)
        /\ t.inotes = tx.inotes /\ t.rejected = tx.rejected
        /\ t.inote_paths = tx.inote_paths /\ t.rejected_paths = tx.rejected_paths
        /\ t.spend_sig = tx.spend_sig /\ t.consume_sig = tx.consume_sig
    BY <1>1 DEF TxOK, TxFields
  <2>2. tx' = NoTx \/ tx' = t BY <1>4 DEF AddOutputNote, Returns
  <2>3. e.amt \in Nat BY ValueAssumption DEF Note
  <2> HIDE DEF t, e
  <2>4. Amounted(t.onotes)
    <3>1. IsSeq(tx.onotes) /\ \A i \in 1 .. Len(tx.onotes) : tx.onotes[i].amt \in Nat BY <1>1 DEF TxOK, Amounted
    <3>2. /\ IsSeq(t.onotes) /\ Len(tx.onotes) \in Nat /\ Len(t.onotes) = Len(tx.onotes) + 1
          /\ \A i \in 1 .. Len(tx.onotes) : t.onotes[i] = tx.onotes[i]
          /\ t.onotes[Len(tx.onotes) + 1] = e
      BY <2>1, <3>1, AppendKeeps
    <3>3. ASSUME NEW i \in 1 .. Len(t.onotes) PROVE t.onotes[i].amt \in Nat
      <4>1. CASE i = Len(tx.onotes) + 1 BY <4>1, <2>3, <3>2
      <4>2. CASE i \in 1 .. Len(tx.onotes) BY <4>2, <3>1, <3>2
      <4> QED BY <4>1, <4>2, <3>2
    <3> QED BY <3>2, <3>3 DEF Amounted
  <2>5. TxOK(t) BY <1>1, <2>1, <2>4 DEF TxOK, SigsOK
  <2> QED BY <1>1, <2>2, <2>5, BuilderStep
<1> QED BY <1>2, <1>3, <1>4

\* What build makes of a transaction whose new account balances.
LEMMA BuildStep ==
    ASSUME PrivInv, tx.stage = "builder", UNCHANGED <<proofs, ledgerVars>>, NEW b, NEW h,
           Owned(b), b.nonce = tx.accin.nonce + 1,
           Funds(b.ast) + Amounts(tx.onotes) = Funds(tx.accin.ast) + Amounts(InputsOf(tx)),
           tx' = NoTx \/ tx' = AsBuilt(b, h)
    PROVE  PrivInv'
<1>1. TxOK(tx) BY DEF PrivInv, TxInv, NoTx
<1> DEFINE t == AsBuilt(b, h)
<1>2. /\ DOMAIN t = DOMAIN tx /\ t.stage = "built" /\ t.kind = tx.kind /\ t.accin = tx.accin
      /\ t.accout = b /\ t.inotes = tx.inotes /\ t.onotes = tx.onotes /\ t.rejected = tx.rejected
      /\ t.inote_paths = tx.inote_paths /\ t.rejected_paths = tx.rejected_paths
      /\ t.spend_sig = tx.spend_sig /\ t.consume_sig = tx.consume_sig
  BY <1>1 DEF TxOK, TxFields, AsBuilt
<1> HIDE DEF t
<1>3. BuiltOK(t) BY <1>1, <1>2 DEF BuiltOK, TxOK, InputsOf, PathsMatch
<1>4. TxOK(t) BY <1>1, <1>2, <1>3 DEF TxOK, SigsOK
<1> QED BY <1>4, BuilderStep DEF t

\* SpendTxBuilder::build balances: insert_or_update_asset adds what comes in and takes what
\* goes out.
LEMMA SpendBuildStep ==
    ASSUME PrivInv, SpendBuild
    PROVE  PrivInv'
<1>1. TxOK(tx) /\ tx.stage = "builder" /\ UNCHANGED <<proofs, ledgerVars>>
  BY DEF SpendBuild, Building, PrivInv, TxInv, NoTx
<1> DEFINE din == Amounts(InputsOf(tx))
           dout == Amounts(tx.onotes)
           old == AmountOrNext(tx.accin.ast, tx.asset).amount
           ast == insert_or_update_asset(tx.accin.ast, tx.asset, old + din - dout)
           b == [clone_with_incremented_nonce(tx.accin) EXCEPT !.ast = ast]
<1>2. PICK h : tx' = NoTx \/ (tx' = AsBuilt(b, h) /\ dout <= old + din)
  BY DEF SpendBuild, Returns, clone_with_incremented_nonce
<1>3. din \in Nat /\ dout \in Nat /\ old \in Nat
  <2>1. din \in Nat BY <1>1, PickedAmounts, AmountsSum DEF TxOK, InputsOf, PrivInv
  <2>2. dout \in Nat BY <1>1, AmountsSum DEF TxOK
  <2>3. old \in Nat BY <1>1 DEF TxOK, Owned, AstOK, Entry, AmountOrNext
  <2> QED BY <2>1, <2>2, <2>3
<1>4. CASE tx' = NoTx BY <1>1, <1>4, BuilderStep
<1>5. CASE tx' = AsBuilt(b, h) /\ dout <= old + din
  <2>1. old + din - dout \in Nat BY <1>3, <1>5
  <2>2. AstOK(ast) /\ Funds(ast) + old = Funds(tx.accin.ast) + (old + din - dout) /\ AstOK(tx.accin.ast)
    BY <1>1, <2>1, InsertOrUpdateOK DEF TxOK, Owned
  <2>3. Funds(ast) \in Nat /\ Funds(tx.accin.ast) \in Nat BY <2>2, FundsSum
  <2> HIDE DEF old, din, dout, ast
  <2>4. Funds(ast) + dout = Funds(tx.accin.ast) + din BY <1>3, <2>2, <2>3
  <2>5. Owned(b) /\ b.nonce = tx.accin.nonce + 1 /\ b.ast = ast
    BY <1>1, <2>2 DEF TxOK, Owned, clone_with_incremented_nonce
  <2> HIDE DEF b
  <2> QED BY <1>1, <1>5, <2>4, <2>5, BuildStep DEF din, dout
<1> QED BY <1>2, <1>4, <1>5

\* FreshAccTxBuilder::build moves no funds.
LEMMA FreshAccBuildStep ==
    ASSUME PrivInv, FreshAccBuild
    PROVE  PrivInv'
<1>1. TxOK(tx) /\ tx.stage = "builder" /\ tx.kind = "fresh" /\ UNCHANGED <<proofs, ledgerVars>>
  BY DEF FreshAccBuild, Building, PrivInv, TxInv, NoTx
<1> DEFINE b == [clone_with_incremented_nonce(tx.accin) EXCEPT !.spend_pk = tx.new_spend, !.consume = tx.new_consume]
<1>2. PICK h : tx' = NoTx \/ tx' = AsBuilt(b, h) BY DEF FreshAccBuild, Returns
<1>3. Owned(b) /\ b.nonce = tx.accin.nonce + 1 /\ b.ast = tx.accin.ast
  BY <1>1 DEF TxOK, Owned, clone_with_incremented_nonce
<1>4. tx.onotes = <<>> /\ InputsOf(tx) = <<>> BY <1>1 DEF TxOK, InputsOf
<1> HIDE DEF b
<1> QED BY <1>1, <1>2, <1>3, <1>4, BuildStep

\* Paths are taken at the positions of the notes.
LEMMA PathStep ==
    ASSUME PrivInv, WithInputNotesPath \/ WithRejectedNotesPath
    PROVE  PrivInv'
<1>1. TxOK(tx) /\ tx.stage = "built" /\ UNCHANGED <<proofs, ledgerVars>>
  BY DEF WithInputNotesPath, WithRejectedNotesPath, Built, PrivInv, TxInv, NoTx
<1>2. \A s : Picked(s) => PathsMatch(PathsOf(s), s) BY DEF Picked, IsSeq, PathsMatch, PathsOf, PathTo
<1>3. CASE WithInputNotesPath
  <2> DEFINE t == [tx EXCEPT !.inote_paths = PathsOf(tx.inotes)]
  <2>1. /\ DOMAIN t = DOMAIN tx /\ t.stage = tx.stage /\ t.kind = tx.kind /\ t.accin = tx.accin
        /\ t.accout = tx.accout /\ t.inotes = tx.inotes /\ t.onotes = tx.onotes /\ t.rejected = tx.rejected
        /\ t.inote_paths = PathsOf(tx.inotes) /\ t.rejected_paths = tx.rejected_paths
        /\ t.spend_sig = tx.spend_sig /\ t.consume_sig = tx.consume_sig /\ t.hash = tx.hash
    BY <1>1 DEF TxOK, TxFields
  <2>2. tx' = t BY <1>3 DEF WithInputNotesPath
  <2> HIDE DEF t
  <2>3. BuiltOK(t) BY <1>1, <1>2, <2>1 DEF TxOK, BuiltOK, InputsOf
  <2>4. TxOK(t) BY <1>1, <2>1, <2>3 DEF TxOK, SigsOK
  <2> QED BY <1>1, <2>2, <2>4, BuilderStep
<1>4. CASE WithRejectedNotesPath
  <2> DEFINE t == [tx EXCEPT !.rejected_paths = PathsOf(tx.rejected)]
  <2>1. /\ DOMAIN t = DOMAIN tx /\ t.stage = tx.stage /\ t.kind = tx.kind /\ t.accin = tx.accin
        /\ t.accout = tx.accout /\ t.inotes = tx.inotes /\ t.onotes = tx.onotes /\ t.rejected = tx.rejected
        /\ t.rejected_paths = PathsOf(tx.rejected) /\ t.inote_paths = tx.inote_paths
        /\ t.spend_sig = tx.spend_sig /\ t.consume_sig = tx.consume_sig /\ t.hash = tx.hash
    BY <1>1 DEF TxOK, TxFields
  <2>2. tx' = t BY <1>4 DEF WithRejectedNotesPath
  <2> HIDE DEF t
  <2>3. BuiltOK(t) BY <1>1, <1>2, <2>1 DEF TxOK, BuiltOK, InputsOf
  <2>4. TxOK(t) BY <1>1, <2>1, <2>3 DEF TxOK, SigsOK
  <2> QED BY <1>1, <2>2, <2>4, BuilderStep
<1> QED BY <1>3, <1>4

\* spend_sign and consume_sign check the key against the account's and sign the hash.
LEMMA SignStep ==
    ASSUME PrivInv, SpendSign \/ ConsumeSign
    PROVE  PrivInv'
<1>1. TxOK(tx) /\ tx.stage = "built" /\ UNCHANGED <<proofs, ledgerVars>>
  <2>1. Built /\ UNCHANGED <<proofs, ledgerVars>> BY DEF SpendSign, ConsumeSign
  <2> QED BY <2>1 DEF Built, PrivInv, TxInv, NoTx
<1>2. ASSUME NEW t, DOMAIN t = DOMAIN tx, SigsOK(t),
             t.stage = tx.stage, t.kind = tx.kind, t.accin = tx.accin, t.accout = tx.accout,
             t.inotes = tx.inotes, t.onotes = tx.onotes, t.rejected = tx.rejected,
             t.inote_paths = tx.inote_paths, t.rejected_paths = tx.rejected_paths
      PROVE  TxOK(t)
  <2>1. BuiltOK(t) BY <1>1, <1>2 DEF TxOK, BuiltOK, InputsOf
  <2> QED BY <1>1, <1>2, <2>1 DEF TxOK
<1>3. CASE SpendSign
  <2> DEFINE t == [tx EXCEPT !.spend_sig = Signature(SpendSk, tx.hash)]
  <2>1. tx' = NoTx \/ (tx' = t /\ tx.accin.spend_pk = SpendSk) BY <1>3 DEF SpendSign, Returns
  <2>2. /\ DOMAIN t = DOMAIN tx
        /\ t.stage = tx.stage /\ t.kind = tx.kind /\ t.accin = tx.accin /\ t.accout = tx.accout
        /\ t.inotes = tx.inotes /\ t.onotes = tx.onotes /\ t.rejected = tx.rejected
        /\ t.inote_paths = tx.inote_paths /\ t.rejected_paths = tx.rejected_paths
        /\ t.hash = tx.hash /\ t.consume_sig = tx.consume_sig /\ t.spend_sig = Signature(SpendSk, tx.hash)
    BY <1>1 DEF TxOK, TxFields
  <2> HIDE DEF t
  <2>3. CASE tx' = NoTx BY <1>1, <2>3, BuilderStep
  <2>4. CASE tx' = t /\ tx.accin.spend_pk = SpendSk
    <3>1. SigsOK(t) BY <1>1, <2>2, <2>4 DEF TxOK, SigsOK, Signature
    <3>2. TxOK(t) BY <1>2, <2>2, <3>1
    <3> QED BY <1>1, <2>4, <3>2, BuilderStep
  <2> QED BY <2>1, <2>3, <2>4
<1>4. CASE ConsumeSign
  <2> DEFINE t == [tx EXCEPT !.consume_sig = Signature(ConsumeSk, tx.hash)]
  <2>1. tx' = NoTx \/ (tx' = t /\ tx.accin.consume.pk = ConsumeSk) BY <1>4 DEF ConsumeSign, Returns, ConsumeKey
  <2>2. /\ DOMAIN t = DOMAIN tx
        /\ t.stage = tx.stage /\ t.kind = tx.kind /\ t.accin = tx.accin /\ t.accout = tx.accout
        /\ t.inotes = tx.inotes /\ t.onotes = tx.onotes /\ t.rejected = tx.rejected
        /\ t.inote_paths = tx.inote_paths /\ t.rejected_paths = tx.rejected_paths
        /\ t.hash = tx.hash /\ t.spend_sig = tx.spend_sig /\ t.consume_sig = Signature(ConsumeSk, tx.hash)
    BY <1>1 DEF TxOK, TxFields
  <2> HIDE DEF t
  <2>3. CASE tx' = NoTx BY <1>1, <2>3, BuilderStep
  <2>4. CASE tx' = t /\ tx.accin.consume.pk = ConsumeSk
    <3>1. SigsOK(t) BY <1>1, <2>2, <2>4 DEF TxOK, SigsOK, Signature
    <3>2. TxOK(t) BY <1>2, <2>2, <3>1
    <3> QED BY <1>1, <2>4, <3>2, BuilderStep
  <2> QED BY <2>1, <2>3, <2>4
<1> QED BY <1>3, <1>4

-----------------------------------------------------------------------------
(* Proving *)

\* The positions a transaction consumes, slot by slot: the rejected notes come first.
TakenBy(t) ==
    [i \in 1 .. (Len(t.rejected) + Len(t.inotes)) |->
        IF i <= Len(t.rejected) THEN t.rejected[i].pos ELSE t.inotes[i - Len(t.rejected)].pos]

\* The numbers of rejected and of input notes.
Lengths(t, r, k) == r = Len(t.rejected) /\ k = Len(t.inotes)

\* Positions of two lists, one after the other.
LEMMA Shifts ==
    ASSUME NEW r \in Nat, NEW k \in Nat
    PROVE  /\ \A i \in 1 .. r : i \in 1 .. (r + k) /\ i <= r
           /\ \A i \in 1 .. k : i + r \in 1 .. (r + k) /\ ~(i + r <= r) /\ (i + r) - r = i
           /\ \A i \in 1 .. (r + k) : i \in 1 .. r \/ (i - r \in 1 .. k /\ (i - r) + r = i)
OBVIOUS

\* What the slots consume is what was rejected and what came in.
LEMMA TakenSum ==
    ASSUME NotesInv, NEW t, Picked(t.inotes), Picked(t.rejected), NEW r \in Nat, NEW k \in Nat,
           Lengths(t, r, k), NEW T, T = 1 .. (r + k)
    PROVE  /\ TakenTotal(T, TakenBy(t)) = Amounts(RejectedOf(t)) + Amounts(InputsOf(t))
           /\ Amounts(RejectedOf(t)) \in Nat /\ Amounts(InputsOf(t)) \in Nat
           /\ \A i \in T : TakenBy(t)[i] \in DOMAIN notes
<1>1. /\ \A i \in 1 .. r : i \in 1 .. (r + k) /\ i <= r
      /\ \A i \in 1 .. k : i + r \in 1 .. (r + k) /\ ~(i + r <= r) /\ (i + r) - r = i
      /\ \A i \in 1 .. (r + k) : i \in 1 .. r \/ (i - r \in 1 .. k /\ (i - r) + r = i)
  BY Shifts
<1>2. DOMAIN t.rejected = 1 .. r /\ DOMAIN t.inotes = 1 .. k BY DEF Picked, IsSeq, Lengths
<1>3. TakenBy(t) = [i \in T |-> IF i <= r THEN t.rejected[i].pos ELSE t.inotes[i - r].pos]
  BY DEF TakenBy, Lengths
<1> DEFINE f == [i \in T |-> notes[TakenBy(t)[i]].amt]
           x == [i \in 1 .. r |-> RejectedOf(t)[i].amt]
           y == [i \in 1 .. k |-> InputsOf(t)[i].amt]
<1>4. /\ Amounted(RejectedOf(t)) /\ Len(RejectedOf(t)) = r /\ Amounted(InputsOf(t)) /\ Len(InputsOf(t)) = k
  BY PickedAmounts DEF RejectedOf, InputsOf, Lengths
<1>5. /\ Amounts(RejectedOf(t)) = SumFunctionOnSet(x, 1 .. r) /\ Amounts(RejectedOf(t)) \in Nat
      /\ Amounts(InputsOf(t)) = SumFunctionOnSet(y, 1 .. k) /\ Amounts(InputsOf(t)) \in Nat
  BY <1>4, AmountsSum
<1>6. ASSUME NEW i \in 1 .. r
      PROVE  i \in T /\ TakenBy(t)[i] \in DOMAIN notes /\ f[i] = x[i]
  <2>1. i \in T /\ i <= r BY <1>1
  <2>2. TakenBy(t)[i] = t.rejected[i].pos BY <1>3, <2>1
  <2>3. t.rejected[i].pos \in DOMAIN notes /\ t.rejected[i].note = notes[t.rejected[i].pos] BY DEF Picked, Lengths
  <2>4. x[i] = t.rejected[i].note.amt BY <1>2 DEF RejectedOf
  <2> QED BY <2>1, <2>2, <2>3, <2>4
<1>7. ASSUME NEW i \in 1 .. k
      PROVE  i + r \in T /\ TakenBy(t)[i + r] \in DOMAIN notes /\ y[i] = f[i + r]
  <2>1. i + r \in T /\ ~(i + r <= r) /\ (i + r) - r = i BY <1>1
  <2>2. TakenBy(t)[i + r] = t.inotes[i].pos BY <1>3, <2>1
  <2>3. t.inotes[i].pos \in DOMAIN notes /\ t.inotes[i].note = notes[t.inotes[i].pos] BY DEF Picked, Lengths
  <2>4. y[i] = t.inotes[i].note.amt BY <1>2 DEF InputsOf
  <2> QED BY <2>1, <2>2, <2>3, <2>4
<1>8. ASSUME NEW i \in T PROVE TakenBy(t)[i] \in DOMAIN notes
  <2>1. CASE i \in 1 .. r BY <2>1, <1>6
  <2>2. CASE i \notin 1 .. r
    <3>1. i - r \in 1 .. k /\ (i - r) + r = i BY <2>2, <1>1
    <3> QED BY <3>1, <1>7
  <2> QED BY <2>1, <2>2
<1>9. ASSUME NEW i \in T PROVE f[i] \in Int
  <2>1. f[i] = notes[TakenBy(t)[i]].amt OBVIOUS
  <2> QED BY <2>1, <1>8 DEF NotesInv
<1>10. TakenTotal(T, TakenBy(t)) = SumFunctionOnSet(f, T) BY DEF TakenTotal
<1>11. IsFiniteSet(1 .. r) BY FS_Interval
<1> HIDE DEF f, x, y
<1>12. SumFunctionOnSet(f, 1 .. (r + k)) = SumFunctionOnSet(f, 1 .. r) + SumFunctionOnSet(y, 1 .. k)
  BY <1>7, <1>9, SumShifted, SMTT(30)
<1>13. SumFunctionOnSet(f, 1 .. r) = SumFunctionOnSet(x, 1 .. r) BY <1>6, <1>9, <1>11, SumCongruence
<1> QED BY <1>5, <1>8, <1>10, <1>12, <1>13

\* Slot i of the witness: a rejected note, an input note, or nothing.
LEMMA SlotFacts ==
    ASSUME NEW t, NEW asset, NEW i \in Nat, NEW r \in Nat, NEW k \in Nat,
           Lengths(t, r, k), NEW s, s = WitnessSlot(t, asset, i)
    PROVE  /\ i <= r => s.iactive /\ s.inote = t.rejected[i].note /\ s.ipos = t.rejected_paths[i].pos
           /\ i > r /\ i <= r + k =>
                s.iactive /\ s.inote = t.inotes[i - r].note /\ s.ipos = t.inote_paths[i - r].pos
           /\ i > r + k => ~s.iactive
<1>1. \A a, b, c \in Nat : /\ a <= b <=> a - b <= 0
                           /\ a > b /\ a <= b + c => ~(a - b <= 0) /\ a - b <= c
                           /\ a > b + c => ~(a - b <= 0) /\ ~(a - b <= c) /\ ~(a <= b)
                           /\ a <= b => ~(a > b)
  OBVIOUS
<1>2. CASE i <= r
  <2>1. i - r <= 0 BY <1>1, <1>2
  <2>2. s.iactive /\ s.inote = t.rejected[i].note /\ s.ipos = t.rejected_paths[i].pos
    BY <2>1 DEF WitnessSlot, Lengths
  <2> QED BY <1>1, <1>2, <2>2
<1>3. CASE i > r /\ i <= r + k
  <2>1. ~(i - r <= 0) /\ i - r <= k BY <1>1, <1>3
  <2>2. s.iactive /\ s.inote = t.inotes[i - r].note /\ s.ipos = t.inote_paths[i - r].pos
    BY <2>1 DEF WitnessSlot, Lengths
  <2> QED BY <1>1, <1>3, <2>2
<1>4. CASE i > r + k
  <2>1. ~(i - r <= 0) /\ ~(i - r <= k) BY <1>1, <1>4
  <2>2. ~s.iactive BY <2>1 DEF WitnessSlot, Lengths
  <2> QED BY <1>1, <1>4, <2>2
<1> QED BY <1>2, <1>3, <1>4

\* What a proof says of the transaction it is of.
LEMMA WitnessFacts ==
    ASSUME NEW t, NEW w, w = Witness(t)
    PROVE  /\ w.accin = t.accin /\ w.accout = t.accout
           /\ \E asset : \A i \in Slots : w.slots[i] = WitnessSlot(t, asset, i)
<1>1. w.accin = t.accin /\ w.accout = t.accout BY DEF Witness
<1>2. \E asset : w.slots = [i \in Slots |-> WitnessSlot(t, asset, i)] BY DEF Witness
<1>3. PICK asset : w.slots = [i \in Slots |-> WitnessSlot(t, asset, i)] BY <1>2
<1>4. \A i \in Slots : w.slots[i] = WitnessSlot(t, asset, i) BY <1>3
<1> QED BY <1>1, <1>4

\* The nullifier of a slot of the witness.
LEMMA SlotNullifier ==
    ASSUME NEW t, TxOK(t), t.stage = "built", IntoPrivTxSucceeds(t), NEW w, w = Witness(t),
           NEW r \in Nat, NEW k \in Nat, Lengths(t, r, k), r + k <= NoteBatch
    PROVE  /\ \A i \in 1 .. (r + k) :
                EffectiveNullifiers(w)[i] = NoteNullifier(notes[TakenBy(t)[i]], TakenBy(t)[i], Me)
           /\ \A i \in Slots \ (1 .. (r + k)) : EffectiveNullifiers(w)[i][1] = "H2"
<1>1. PICK asset : \A i \in Slots : w.slots[i] = WitnessSlot(t, asset, i) BY WitnessFacts
<1>2. w.accin.id = Me BY WitnessFacts DEF TxOK, Owned
<1>3. ASSUME NEW i \in Slots, w.slots[i].iactive
      PROVE  EffectiveNullifiers(w)[i] = NoteNullifier(w.slots[i].inote, w.slots[i].ipos, Me)
  BY <1>2, <1>3 DEF EffectiveNullifiers
<1>4. ASSUME NEW i \in Slots, ~w.slots[i].iactive PROVE EffectiveNullifiers(w)[i][1] = "H2"
  BY <1>4 DEF EffectiveNullifiers, DummyHash
<1>5. /\ \A i \in 1 .. (r + k) : /\ i \in Slots /\ i \in Nat
                                 /\ i <= r => i \in 1 .. r
                                 /\ ~(i <= r) => i > r /\ i <= r + k /\ i - r \in 1 .. k
      /\ \A i \in Slots \ (1 .. (r + k)) : i \in Nat /\ i > r + k
  BY NoteBatchAssumption DEF Slots
<1>6. TakenBy(t) = [i \in 1 .. (r + k) |-> IF i <= r THEN t.rejected[i].pos ELSE t.inotes[i - r].pos]
  BY DEF TakenBy, Lengths
<1>7. /\ \A i \in 1 .. r : /\ t.rejected[i].note = notes[t.rejected[i].pos]
                           /\ t.rejected_paths[i].pos = t.rejected[i].pos
      /\ \A i \in 1 .. k : /\ t.inotes[i].note = notes[t.inotes[i].pos]
                           /\ t.inote_paths[i].pos = t.inotes[i].pos
  <2>1. BuiltOK(t) BY DEF TxOK
  <2>2. CASE t.kind = "spend"
    <3>1. t.inote_paths # None /\ t.rejected_paths # None BY <2>2 DEF IntoPrivTxSucceeds
    <3> QED BY <2>1, <3>1 DEF TxOK, BuiltOK, PathsMatch, Picked, Lengths
  <2>3. CASE t.kind = "fresh"
    <3>1. r = 0 /\ k = 0 BY <2>3 DEF TxOK, Lengths
    <3> QED BY <3>1
  <2> QED BY <2>2, <2>3 DEF TxOK
<1>8. ASSUME NEW i \in 1 .. (r + k)
      PROVE  EffectiveNullifiers(w)[i] = NoteNullifier(notes[TakenBy(t)[i]], TakenBy(t)[i], Me)
  <2>1. i \in Slots /\ i \in Nat /\ w.slots[i] = WitnessSlot(t, asset, i) BY <1>1, <1>5
  <2>2. CASE i <= r
    <3>1. TakenBy(t)[i] = t.rejected[i].pos BY <1>6, <2>2
    <3>2. /\ w.slots[i].iactive /\ w.slots[i].inote = t.rejected[i].note
          /\ w.slots[i].ipos = t.rejected_paths[i].pos
      BY <2>1, <2>2, SlotFacts
    <3>3. i \in 1 .. r BY <1>5, <2>2
    <3> QED BY <1>3, <1>7, <2>1, <3>1, <3>2, <3>3
  <2>3. CASE ~(i <= r)
    <3>1. TakenBy(t)[i] = t.inotes[i - r].pos BY <1>6, <2>3
    <3>2. /\ w.slots[i].iactive /\ w.slots[i].inote = t.inotes[i - r].note
          /\ w.slots[i].ipos = t.inote_paths[i - r].pos
      BY <1>5, <2>1, <2>3, SlotFacts
    <3>3. i - r \in 1 .. k BY <1>5, <2>3
    <3> QED BY <1>3, <1>7, <2>1, <3>1, <3>2, <3>3
  <2> QED BY <2>2, <2>3
<1>9. ASSUME NEW i \in Slots \ (1 .. (r + k)) PROVE EffectiveNullifiers(w)[i][1] = "H2"
  <2>1. i \in Nat /\ i > r + k /\ w.slots[i] = WitnessSlot(t, asset, i) BY <1>1, <1>5
  <2>2. ~w.slots[i].iactive BY <2>1, SlotFacts
  <2> QED BY <1>4, <2>2
<1> QED BY <1>8, <1>9

\* An output slot of the witness after the rejected notes is active and not a return.
LEMMA OutputSlot ==
    ASSUME NEW t, NEW asset, NEW i, NEW r, NEW m, r = Len(t.rejected), m = Len(t.onotes),
           ~(i - r <= 0), i - r <= m, NEW s, s = WitnessSlot(t, asset, i)
    PROVE  s.oactive /\ ~s.rjct
BY DEF WitnessSlot

\* What the circuit asks signatures for: without a spend signature there are no output
\* notes, and notes are consumed with the owner's signature unless that is delegated.
LEMMA ProvenSigned ==
    ASSUME NEW t, TxOK(t), Proves(t), NEW w, w = Witness(t)
    PROVE  /\ t.spend_sig = None => Len(t.onotes) = 0
           /\ t.spend_sig = None /\ t.accin.consume.config
                /\ (\E i \in Slots : EffectiveNullifiers(w)[i][1] = "NN") => t.consume_sig # None
<1>1. PICK asset : \A i \in Slots : w.slots[i] = WitnessSlot(t, asset, i) BY WitnessFacts
<1>2. w.spend_sig = t.spend_sig /\ w.consume_sig = t.consume_sig /\ w.accin = t.accin BY DEF Witness
<1>3. TxSignatures(w) BY DEF Proves, PrivTxCircuit
<1>4. ASSUME t.spend_sig = None PROVE ~SpendRequired(w)
  BY <1>2, <1>3, <1>4 DEF TxSignatures, Verifies
<1>5. ASSUME t.spend_sig = None PROVE Len(t.onotes) = 0
  <2> SUFFICES ASSUME Len(t.onotes) # 0 PROVE FALSE OBVIOUS
  <2>1. PICK r \in Nat, m \in Nat : r = Len(t.rejected) /\ m = Len(t.onotes)
    BY DEF TxOK, Picked, Amounted, IsSeq
  <2>2. r + m < NoteBatch BY <2>1 DEF Proves, NoteCountsFit
  <2>3. m # 0 BY <2>1
  <2>4. PICK i : i \in Slots /\ ~(i - r <= 0) /\ i - r <= m
    <3>1. \A x, y, z \in Nat :
             x + y < z /\ y # 0 => x + 1 \in 1 .. z /\ ~((x + 1) - x <= 0) /\ (x + 1) - x <= y
      OBVIOUS
    <3>2. r + 1 \in 1 .. NoteBatch /\ ~((r + 1) - r <= 0) /\ (r + 1) - r <= m
      BY <2>2, <2>3, <3>1, NoteBatchAssumption
    <3> QED BY <3>2 DEF Slots
  <2>5. w.slots[i].oactive /\ ~w.slots[i].rjct BY <1>1, <2>1, <2>4, OutputSlot
  <2> QED BY <1>4, <1>5, <2>4, <2>5 DEF SpendRequired
<1>6. ASSUME t.spend_sig = None, t.accin.consume.config, NEW i \in Slots, EffectiveNullifiers(w)[i][1] = "NN"
      PROVE  t.consume_sig # None
  <2>1. w.slots[i].iactive BY <1>6 DEF EffectiveNullifiers, DummyHash
  <2>2. ConsumeRequired(w) BY <1>2, <1>4, <1>6, <2>1 DEF ConsumeRequired
  <2> QED BY <1>2, <1>3, <2>2 DEF TxSignatures, Verifies
<1> QED BY <1>5, <1>6

\* A proof consumes the notes of the transaction it is of.
LEMMA ProvenConsumes ==
    ASSUME PrivInv, Built, IntoPrivTxSucceeds(tx), Proves(tx), NEW q,
           q.public = PrivTxPublicInputs(Witness(tx)), q.accout = tx.accout, q.sent = tx.onotes,
           q.returned = RejectedOf(tx), q.hash = tx.hash, q.spend_sig = tx.spend_sig,
           q.consume_sig = tx.consume_sig
    PROVE  \E a, T, taken : Consumes(q, a, T, taken)
<1>1. TxOK(tx) /\ tx.stage = "built" BY DEF Built, PrivInv, TxInv, NoTx
<1>2. NotesInv BY DEF PrivInv
<1>3. PICK r \in Nat, k \in Nat : Lengths(tx, r, k)
  <2>1. Len(tx.rejected) \in Nat /\ Len(tx.inotes) \in Nat BY <1>1 DEF TxOK, Picked, IsSeq
  <2> QED BY <2>1 DEF Lengths
<1>4. r + k <= NoteBatch
  <2>1. r + k < NoteBatch BY <1>3 DEF Proves, NoteCountsFit, Lengths
  <2> QED BY <2>1, NoteBatchAssumption
<1> DEFINE T == 1 .. (r + k)
           w == Witness(tx)
           taken == TakenBy(tx)
<1>5. T \subseteq Slots BY <1>4, NoteBatchAssumption DEF Slots
<1>6. w.accin = tx.accin /\ w.accout = tx.accout BY WitnessFacts
<1>7. /\ \A i \in T : EffectiveNullifiers(w)[i] = NoteNullifier(notes[taken[i]], taken[i], Me)
      /\ \A i \in Slots \ T : EffectiveNullifiers(w)[i][1] = "H2"
  BY <1>1, <1>3, <1>4, SlotNullifier
<1>8. /\ TakenTotal(T, taken) = Amounts(RejectedOf(tx)) + Amounts(InputsOf(tx))
      /\ Amounts(RejectedOf(tx)) \in Nat /\ Amounts(InputsOf(tx)) \in Nat
      /\ \A i \in T : taken[i] \in DOMAIN notes
  BY <1>1, <1>2, <1>3, TakenSum DEF TxOK
<1>9. Amounts(tx.onotes) \in Nat BY <1>1, AmountsSum DEF TxOK
<1> HIDE DEF w, taken, T
<1>10. /\ q.public.accin_null = Nullifier(tx.accin) /\ q.public.accout_comm = Commitment(tx.accout)
       /\ q.public.inotes_null = EffectiveNullifiers(w)
       /\ q.public.onotes_comm = [i \in Slots |-> DummyHash(w.slots[i].donote)]
  BY <1>6 DEF PrivTxPublicInputs, w
<1>11. DOMAIN EffectiveNullifiers(w) = Slots BY DEF EffectiveNullifiers
<1>12. /\ IsSeq(q.public.onotes_comm)
       /\ \A i \in 1 .. Len(q.public.onotes_comm) : q.public.onotes_comm[i][1] # "AC"
  <2> DEFINE S == {DummyHash(w.slots[i].donote) : i \in Slots}
  <2>1. q.public.onotes_comm \in Seq(S) /\ Len(q.public.onotes_comm) = NoteBatch
    BY <1>10, NoteBatchAssumption DEF Slots
  <2>2. IsSeq(q.public.onotes_comm) BY <2>1 DEF IsSeq
  <2>3. \A i \in Slots : q.public.onotes_comm[i][1] # "AC" BY <1>10 DEF DummyHash
  <2> QED BY <2>1, <2>2, <2>3 DEF Slots
<1>13. BuiltOK(tx) /\ Owned(tx.accin) /\ SpentOrCurrent(tx.accin) BY <1>1 DEF TxOK
<1>14. Funds(tx.accout.ast) + Amounts(tx.onotes) + Amounts(RejectedOf(tx)) = Funds(tx.accin.ast) + TakenTotal(T, taken)
  <2>1. Funds(tx.accout.ast) \in Nat /\ Funds(tx.accin.ast) \in Nat BY <1>13, FundsSum DEF BuiltOK, Owned
  <2>2. Funds(tx.accout.ast) + Amounts(tx.onotes) = Funds(tx.accin.ast) + Amounts(InputsOf(tx)) BY <1>13 DEF BuiltOK
  <2> QED BY <1>8, <1>9, <2>1, <2>2
<1>15. Owned(tx.accout) /\ tx.accout.nonce = tx.accin.nonce + 1 BY <1>13 DEF BuiltOK
<1>16. Authorised(q, tx.accin)
  <2>1. /\ tx.spend_sig # None => OwnerSigned(q, tx.spend_sig, tx.accin.spend_pk)
        /\ tx.consume_sig # None => OwnerSigned(q, tx.consume_sig, tx.accin.consume.pk)
    BY <1>1 DEF TxOK, SigsOK, OwnerSigned
  <2>2. tx.spend_sig = None => Len(tx.onotes) = 0
    BY <1>1, ProvenSigned
  <2>3. tx.spend_sig = None /\ tx.accin.consume.config
          /\ (\E i \in Slots : EffectiveNullifiers(w)[i][1] = "NN") => tx.consume_sig # None
    BY <1>1, ProvenSigned DEF w
  <2>4. Len(tx.onotes) = 0 => Amounts(tx.onotes) = 0
    <3>1. Amounts(tx.onotes) = SumFunctionOnSet([i \in 1 .. Len(tx.onotes) |-> tx.onotes[i].amt], 1 .. Len(tx.onotes))
      BY <1>1, AmountsSum DEF TxOK
    <3>2. Len(tx.onotes) = 0 => 1 .. Len(tx.onotes) = {} OBVIOUS
    <3> QED BY <3>1, <3>2, SumEmpty
  <2>5. Funds(tx.accout.ast) \in Nat /\ Funds(tx.accin.ast) \in Nat BY <1>13, FundsSum DEF BuiltOK, Owned
  <2>6. Funds(tx.accout.ast) + Amounts(tx.onotes) = Funds(tx.accin.ast) + Amounts(InputsOf(tx)) BY <1>13 DEF BuiltOK
  <2>7. Amounts(tx.onotes) = 0 => Funds(tx.accout.ast) >= Funds(tx.accin.ast) BY <1>8, <2>5, <2>6
  <2> QED BY <1>10, <2>1, <2>2, <2>3, <2>4, <2>7 DEF Authorised
<1>17. Consumes(q, tx.accin, T, taken)
  BY <1>16, <1>5, <1>7, <1>8, <1>9, <1>10, <1>11, <1>12, <1>13, <1>14, <1>15 DEF Consumes
<1> QED BY <1>17

\* Proving adds at most one proof, which is such a one.
LEMMA ProveStep ==
    ASSUME PrivInv, Prove
    PROVE  PrivInv'
<1>1. TxInv' BY DEF Prove, TxInv
<1>2. TreeInv' /\ NotesInv' BY DEF PrivInv, TreeInv, NotesInv, LeafInv, OnTree, Prove, ledgerVars
<1>3. \A p, a, T, taken : Consumes(p, a, T, taken) => Consumes(p, a, T, taken)'
  <2>1. \A T, taken : TakenTotal(T, taken)' = TakenTotal(T, taken) BY DEF TakenTotal, Prove, ledgerVars
  <2> QED BY <2>1 DEF Consumes, SpentOrCurrent, Prove, ledgerVars
<1>4. ASSUME NEW p \in proofs' PROVE \E a, T, taken : Consumes(p, a, T, taken)
  <2>1. CASE p \in proofs BY <2>1 DEF PrivInv, ProofsInv
  <2>2. CASE p \notin proofs
    <3>1. /\ IntoPrivTxSucceeds(tx) /\ Proves(tx) /\ Built
          /\ p.public = PrivTxPublicInputs(Witness(tx)) /\ p.accout = tx.accout /\ p.sent = tx.onotes
          /\ p.returned = RejectedOf(tx) /\ p.hash = tx.hash /\ p.spend_sig = tx.spend_sig
          /\ p.consume_sig = tx.consume_sig
      BY <2>2 DEF Prove
    <3> QED BY <3>1, ProvenConsumes
  <2> QED BY <2>1, <2>2
<1>5. ProofsInv' BY <1>3, <1>4 DEF ProofsInv
<1> QED BY <1>1, <1>2, <1>5 DEF PrivInv

-----------------------------------------------------------------------------
(* Publishing *)

\* v is s followed by x and u.
Appended(s, x, u, v) ==
    /\ IsSeq(v)
    /\ \A i \in 1 .. Len(s) : v[i] = s[i]
    /\ Len(s) + 1 \in 1 .. Len(v) /\ v[Len(s) + 1] = x
    /\ \A i \in 1 .. Len(v) : \/ i \in 1 .. Len(s) \/ i = Len(s) + 1
                              \/ \E j \in 1 .. Len(u) : i = Len(s) + 1 + j /\ v[i] = u[j]

\* The leaves of a published transaction follow those of the tree.
LEMMA LeavesAppended ==
    ASSUME NEW s, IsSeq(s), NEW x, NEW u, IsSeq(u), NEW v, v = s \o <<x>> \o u
    PROVE  Appended(s, x, u, v)
<1>1. PICK S : s \in Seq(S) BY DEF IsSeq
<1>2. PICK U : u \in Seq(U) BY DEF IsSeq
<1> DEFINE X == S \cup U \cup {x}
<1>3. s \in Seq(X) /\ u \in Seq(X) /\ <<x>> \in Seq(X) BY <1>1, <1>2
<1> HIDE DEF X
<1> DEFINE y == s \o <<x>>
<1>4. y \in Seq(X) /\ Len(y) = Len(s) + 1 /\ Len(s) \in Nat /\ Len(u) \in Nat BY <1>3
<1>5. y[Len(s) + 1] = x /\ \A i \in 1 .. Len(s) : y[i] = s[i] BY <1>3
<1> HIDE DEF y
<1>6. v = y \o u BY DEF y
<1>7. v \in Seq(X) /\ Len(v) = Len(y) + Len(u) BY <1>3, <1>4, <1>6
<1>8. \A i \in 1 .. Len(y) : v[i] = y[i] BY <1>3, <1>4, <1>6
<1>9. \A i \in 1 .. Len(u) : v[Len(y) + i] = u[i] BY <1>3, <1>4, <1>6
<1>10. IsSeq(v) BY <1>7 DEF IsSeq
<1>11. \A i \in 1 .. Len(s) : v[i] = s[i] BY <1>4, <1>5, <1>8
<1>12. v[Len(s) + 1] = x
  <2>1. Len(s) + 1 \in 1 .. Len(y) BY <1>4
  <2> QED BY <1>5, <1>8, <2>1
<1>13. ASSUME NEW i \in 1 .. Len(v), i \notin 1 .. Len(s), i # Len(s) + 1
       PROVE  \E j \in 1 .. Len(u) : i = Len(s) + 1 + j /\ v[i] = u[j]
  <2>1. PICK j \in 1 .. Len(u) : i = Len(s) + 1 + j
    <3>1. i - (Len(s) + 1) \in 1 .. Len(u) /\ i = Len(s) + 1 + (i - (Len(s) + 1)) BY <1>4, <1>7, <1>13
    <3> QED BY <3>1
  <2> QED BY <2>1, <1>4, <1>9
<1>14. Len(s) + 1 \in 1 .. Len(v) BY <1>4, <1>7
<1> QED BY <1>10, <1>11, <1>12, <1>13, <1>14 DEF Appended

\* A proof the contract accepts spends the state the client holds.
LEMMA SpendsCurrent ==
    ASSUME NEW p, Accepts(p.public), NEW a, NEW T, NEW taken, Consumes(p, a, T, taken)
    PROVE  a = acc
<1>1. Nullifier(a) \notin nullifiers BY DEF Accepts, NullifierSet, Consumes
<1> QED BY <1>1 DEF Consumes, SpentOrCurrent

\* A state that is spent stays so, and publishing spends the one that was current.
LEMMA StaysSpent ==
    ASSUME NEW p, Publish(p), p.public.accin_null = Nullifier(acc), NEW b, SpentOrCurrent(b)
    PROVE  Nullifier(b) \in nullifiers'
BY DEF Publish, SpentOrCurrent, NullifierSet

\* A published proof spends the state the client holds and appends its successor.
LEMMA PublishStep ==
    ASSUME PrivInv, NEW p \in proofs, Publish(p)
    PROVE  PrivInv'
<1>1. PICK T, taken : Consumes(p, acc, T, taken)
  <2>1. PICK a, T, taken : Consumes(p, a, T, taken) BY DEF PrivInv, ProofsInv
  <2>2. a = acc BY <2>1, SpendsCurrent DEF Publish
  <2> QED BY <2>1, <2>2
<1>2. /\ p.public.accin_null = Nullifier(acc) /\ p.public.accout_comm = Commitment(acc') /\ acc' = p.accout
      /\ Owned(acc) /\ Owned(acc') /\ acc'.nonce = acc.nonce + 1 /\ acc.id = Me /\ acc.nonce \in Nat
  BY <1>1 DEF Consumes, Publish, Owned
<1>3. \A b : SpentOrCurrent(b) => Nullifier(b) \in nullifiers' BY <1>2, StaysSpent
<1>4. TxInv'
  <2>1. tx' = tx /\ notes' = notes BY DEF Publish
  <2>2. ASSUME TxOK(tx) PROVE TxOK(tx)'
    BY <1>3, <2>1, <2>2 DEF TxOK, SpentOrCurrent, Picked
  <2> QED BY <2>1, <2>2 DEF PrivInv, TxInv
<1>5. ProofsInv'
  <2>1. notes' = notes /\ proofs' \subseteq proofs BY DEF Publish
  <2>2. \A X, y : TakenTotal(X, y)' = TakenTotal(X, y) BY <2>1 DEF TakenTotal
  <2>3. \A q, a, X, y : Consumes(q, a, X, y) => Consumes(q, a, X, y)'
    BY <1>3, <2>1, <2>2 DEF Consumes, SpentOrCurrent
  <2> QED BY <2>1, <2>3 DEF PrivInv, ProofsInv
<1>6. NotesInv' BY DEF PrivInv, NotesInv, Publish
<1> DEFINE s == stateTree
           v == stateTree'
           u == p.public.onotes_comm
<1>7. Appended(s, Commitment(acc'), u, v)
  <2>1. IsSeq(s) BY DEF PrivInv, TreeInv
  <2>2. IsSeq(u) BY <1>1 DEF Consumes
  <2>3. v = s \o <<Commitment(acc')>> \o u BY <1>2 DEF Publish
  <2> HIDE DEF s, v, u
  <2>4. ASSUME NEW x, v = s \o <<x>> \o u PROVE Appended(s, x, u, v)
    BY <2>1, <2>2, <2>4, LeavesAppended
  <2> QED BY <2>3, <2>4
<1>8. /\ Nullifier(acc) = NullifierOf(Commitment(acc), Me) /\ Nullifier(acc)[2] = Commitment(acc)
      /\ NonceOf(Commitment(acc)) = acc.nonce
  BY <1>2, NullifierParts, CommitmentParts
<1>9. nullifiers \subseteq nullifiers' /\ Nullifier(acc) \in nullifiers' BY <1>2 DEF Publish, NullifierSet
<1>10. ASSUME NEW i \in 1 .. Len(v), v[i][1] = "AC"
       PROVE  v[i] = Commitment(acc') \/ NullifierOf(v[i], Me) \in nullifiers'
  <2>1. CASE i \in 1 .. Len(s)
    <3>1. v[i] = s[i] /\ LeafInv(s[i]) BY <1>7, <2>1 DEF PrivInv, TreeInv, Appended
    <3> QED BY <3>1, <1>8, <1>9, <1>10 DEF LeafInv
  <2>2. CASE i = Len(s) + 1 BY <2>2, <1>7 DEF Appended
  <2>3. ASSUME NEW j \in 1 .. Len(u), v[i] = u[j] PROVE FALSE
    BY <2>3, <1>1, <1>10 DEF Consumes
  <2> QED BY <2>1, <2>2, <2>3, <1>7 DEF Appended
<1>11. ASSUME NEW n \in nullifiers', n[1] = "AN" PROVE NonceOf(n[2]) \in 0 .. acc'.nonce - 1
  <2>1. CASE n \in nullifiers
    <3>1. NonceOf(n[2]) \in 0 .. acc.nonce - 1 BY <2>1, <1>11 DEF PrivInv, TreeInv
    <3> QED BY <3>1, <1>2
  <2>2. CASE n = Nullifier(acc) BY <2>2, <1>2, <1>8
  <2>3. ASSUME NEW i \in Slots, n = p.public.inotes_null[i] PROVE FALSE
    <3>1. n[1] = "NN" \/ n[1] = "H2" BY <1>1, <2>3 DEF Consumes, NoteNullifier
    <3> QED BY <3>1, <1>11
  <2> QED BY <2>1, <2>2, <2>3, <1>2 DEF Publish, NullifierSet
<1>12. TreeInv'
  <2>1. (\A i \in 1 .. Len(stateTree) : LeafInv(stateTree[i]))' BY <1>10 DEF LeafInv
  <2>2. OnTree(Commitment(acc))'
    BY <1>7 DEF OnTree, Appended
  <2>3. acc'.nonce # 0 BY <1>2
  <2> QED BY <2>1, <2>2, <2>3, <1>2, <1>7, <1>11 DEF TreeInv, Appended
<1> QED BY <1>4, <1>5, <1>6, <1>12 DEF PrivInv

-----------------------------------------------------------------------------
(* Steps of others, and the invariant *)

\* A step that changes neither the tree, the client's state nor its transactions.
LEMMA QuietStep ==
    ASSUME PrivInv, UNCHANGED <<stateTree, nullifiers, acc, notes, tx, proofs>>
    PROVE  PrivInv'
<1>1. ProofsInv'
  <2>1. \A T, taken : TakenTotal(T, taken)' = TakenTotal(T, taken) BY DEF TakenTotal
  <2>2. \A p, a, T, taken : Consumes(p, a, T, taken) => Consumes(p, a, T, taken)'
    BY <2>1 DEF Consumes, SpentOrCurrent
  <2> QED BY <2>2 DEF PrivInv, ProofsInv
<1>2. TreeInv' /\ NotesInv' BY DEF PrivInv, TreeInv, LeafInv, OnTree, NotesInv
<1>3. TxInv' BY DEF PrivInv, TxInv, TxOK, SpentOrCurrent, Picked
<1> QED BY <1>1, <1>2, <1>3 DEF PrivInv

\* A leaf of someone else is no account state of the client.
LEMMA ForeignLeafStep ==
    ASSUME PrivInv, ForeignLeaf
    PROVE  PrivInv'
<1> DEFINE x == DummyHash(1 + 2 * outside)
           s == stateTree
           v == stateTree'
<1>1. v = Append(s, x) /\ UNCHANGED <<nullifiers, acc, notes, tx, proofs>> BY DEF ForeignLeaf
<1>2. x[1] # "AC" BY DEF DummyHash
<1>3. IsSeq(s) BY DEF PrivInv, TreeInv
<1> HIDE DEF x
<1>4. /\ IsSeq(v) /\ Len(s) \in Nat /\ Len(v) = Len(s) + 1
      /\ \A i \in 1 .. Len(s) : v[i] = s[i]
      /\ v[Len(s) + 1] = x
  <2> HIDE DEF s, v
  <2> QED BY <1>1, <1>3, AppendKeeps
<1>5. \A i \in 1 .. Len(v) : (i \in 1 .. Len(s) /\ v[i] = s[i]) \/ v[i][1] # "AC"
  <2> SUFFICES ASSUME NEW i \in 1 .. Len(v), i \notin 1 .. Len(s) PROVE v[i][1] # "AC"
    BY <1>4
  <2>1. i = Len(s) + 1 BY <1>4
  <2> QED BY <2>1, <1>2, <1>4
<1>6. \A i \in 1 .. Len(s) : i \in 1 .. Len(v) BY <1>4
<1>7. ProofsInv'
  <2>1. \A T, taken : TakenTotal(T, taken)' = TakenTotal(T, taken) BY <1>1 DEF TakenTotal
  <2>2. \A p, a, T, taken : Consumes(p, a, T, taken) => Consumes(p, a, T, taken)'
    BY <1>1, <2>1 DEF Consumes, SpentOrCurrent
  <2> QED BY <1>1, <2>2 DEF PrivInv, ProofsInv
<1>8. TxInv' /\ NotesInv' BY <1>1 DEF PrivInv, TxInv, TxOK, SpentOrCurrent, Picked, NotesInv
<1>9. TreeInv'
  <2>1. (\A i \in 1 .. Len(stateTree) : LeafInv(stateTree[i]))'
    BY <1>1, <1>5 DEF PrivInv, TreeInv, LeafInv
  <2>2. OnTree(Commitment(acc)) => OnTree(Commitment(acc))' BY <1>1, <1>4, <1>6 DEF OnTree
  <2>3. (acc.nonce = 0 => \A i \in 1 .. Len(stateTree) : stateTree[i][1] # "AC")'
    BY <1>1, <1>5 DEF PrivInv, TreeInv
  <2> QED BY <1>1, <1>4, <2>1, <2>2, <2>3 DEF PrivInv, TreeInv
<1> QED BY <1>7, <1>8, <1>9 DEF PrivInv

\* One step per action of the client, the contract and the others.
LEMMA NextPrivInv ==
    ASSUME PrivInv, [Next]_vars
    PROVE  PrivInv'
<1>1. CASE FreshAccNew \/ \E asset \in Assets \cup {DefaultAsset} : SpendNew(asset)
  BY <1>1, NewStep DEF SpendNew, FreshAccNew
<1>2. CASE \/ \E pos \in DOMAIN notes : AddInputNote(pos) \/ AddRejectedNote(pos)
           \/ \E amt \in OutAmounts : AddOutputNote(amt)
  BY <1>2, AddNoteStep
<1>3. CASE FillDinotes BY <1>3, FieldSet DEF FillDinotes
<1>4. CASE FillDonotes BY <1>4, FieldSet DEF FillDonotes
<1>5. CASE WithNewSpendKey BY <1>5, FieldSet DEF WithNewSpendKey, Building
<1>6. CASE \E auth \in {DelegatedConsume, ConsumeKey(ConsumeSk)} : WithConsume(auth)
  BY <1>6, FieldSet DEF WithConsume, Building
<1>7. CASE SpendBuild BY <1>7, SpendBuildStep
<1>8. CASE FreshAccBuild BY <1>8, FreshAccBuildStep
<1>9. CASE SpendSign BY <1>9, SignStep
<1>10. CASE ConsumeSign BY <1>10, SignStep
<1>11. CASE ApprovalSign BY <1>11, FieldSet DEF ApprovalSign, Built
<1>12. CASE WithAccountPath BY <1>12, FieldSet DEF WithAccountPath, Built
<1>13. CASE WithStateRoot BY <1>13, FieldSet DEF WithStateRoot, Built
<1>14. CASE WithInputNotesPath \/ WithRejectedNotesPath BY <1>14, PathStep
<1>15. CASE WithSubpoolProof BY <1>15, FieldSet DEF WithSubpoolProof, Built
<1>16. CASE Prove BY <1>16, ProveStep
<1>17. CASE Discard BY <1>17, BuilderStep DEF Discard
<1>18. CASE \E p \in proofs : Publish(p) BY <1>18, PublishStep
<1>19. CASE ForeignLeaf BY <1>19, ForeignLeafStep
<1>20. CASE \E k \in ApprovalSks : RotateApprovalKey(k) BY <1>20, QuietStep DEF RotateApprovalKey
<1>21. CASE UNCHANGED vars BY <1>21, QuietStep DEF vars
<1> QED
  BY <1>1, <1>2, <1>3, <1>4, <1>5, <1>6, <1>7, <1>8, <1>9, <1>10, <1>11, <1>12, <1>13, <1>14, <1>15,
     <1>16, <1>17, <1>18, <1>19, <1>20, <1>21 DEF Next

\* The invariant holds throughout.
LEMMA PrivInvariant == Spec => []PrivInv
<1>1. PrivInv /\ [Next]_vars => PrivInv' BY NextPrivInv
<1> QED BY <1>1, InitPrivInv, PTL DEF Spec

-----------------------------------------------------------------------------
(* Results *)

\* The invariant gives that the tree has one unspent state of the client.
LEMMA OneLive ==
    ASSUME PrivInv
    PROVE  OneLiveState
<1>1. IsSeq(stateTree) /\ TreeInv BY DEF PrivInv, TreeInv
<1>2. DOMAIN stateTree = 1 .. Len(stateTree) BY <1>1 DEF IsSeq
<1>3. \A c \in LiveStates : OnTree(c) /\ c[1] = "AC" /\ NullifierOf(c, Me) \notin nullifiers
  BY <1>2 DEF LiveStates, ToSet, OnTree
<1>4. CASE acc.nonce = 0 BY <1>1, <1>3, <1>4 DEF TreeInv, OnTree, OneLiveState
<1>5. CASE acc.nonce # 0
  <2>1. \A c \in LiveStates : c = Commitment(acc) BY <1>1, <1>3 DEF TreeInv, LeafInv, OnTree
  <2>2. OnTree(Commitment(acc)) /\ acc.nonce \in Nat BY <1>1, <1>5 DEF TreeInv, Owned
  <2>3. Commitment(acc)[1] = "AC" /\ NonceOf(Commitment(acc)) = acc.nonce BY CommitmentParts
  <2>4. NullifierOf(Commitment(acc), Me)[1] = "AN" /\ NullifierOf(Commitment(acc), Me)[2] = Commitment(acc)
    BY DEF NullifierOf
  <2>5. NullifierOf(Commitment(acc), Me) \notin nullifiers BY <1>1, <2>2, <2>3, <2>4 DEF TreeInv
  <2>6. Commitment(acc) \in ToSet(stateTree) BY <1>2, <2>2 DEF ToSet, OnTree
  <2>7. Commitment(acc) \in LiveStates BY <2>3, <2>5, <2>6 DEF LiveStates
  <2> QED BY <2>1, <2>7, <1>5 DEF OneLiveState
<1> QED BY <1>4, <1>5

\* However many transactions the client builds from one state of its account, and in
\* whatever order it publishes their proofs, one account state on the tree is unspent and
\* it is the one the client holds: the nullifier the contract looks up lets only one of them
\* land, and the client's next state is the one its commitment appended.
THEOREM OneAccountState == Spec => []OneLiveState
<1>1. PrivInv => OneLiveState BY OneLive
<1> QED BY <1>1, PrivInvariant, PTL

\* Every balance of the account the client holds, and of the one a built transaction leads
\* to, is in the leaf that the map of AccountStateTree names, and no leaf is without an
\* asset: insert_or_update_asset keeps map and tree together for any number of assets.
THEOREM MapAndTreeAgree == Spec => []MapIndexesLeaves
<1>1. ASSUME NEW t, AstOK(t)
      PROVE  /\ \A a \in Tracked(t) : t.leaves[t.assets[a].index + 1] = Leaf(a, t.assets[a].amount)
             /\ Cardinality(Tracked(t)) = Len(t.leaves)
  BY <1>1 DEF AstOK, Entry
<1>2. PrivInv => MapIndexesLeaves
  <2> SUFFICES ASSUME PrivInv PROVE MapIndexesLeaves OBVIOUS
  <2>1. AstOK(acc.ast) BY DEF PrivInv, TreeInv, Owned
  <2>2. ASSUME Built PROVE AstOK(tx.accout.ast)
    <3>1. TxOK(tx) BY <2>2 DEF Built, PrivInv, TxInv, NoTx
    <3> QED BY <3>1, <2>2 DEF Built, TxOK, BuiltOK, Owned
  <2> QED BY <1>1, <2>1, <2>2 DEF MapIndexesLeaves
<1> QED BY <1>2, PrivInvariant, PTL

-----------------------------------------------------------------------------
(* What a published transaction takes from the client *)

\* The value of the unspent notes.
NotesValue(U) == SumFunctionOnSet([pos \in U |-> notes[pos].amt], U)

\* Notes taken from the unspent ones are worth what the slots that take them bring.
LEMMA NotesTaken ==
    ASSUME NotesInv, NEW U, U \subseteq DOMAIN notes, NEW T, IsFiniteSet(T), NEW taken,
           \A i \in T : taken[i] \in U, \A i, j \in T : taken[i] = taken[j] => i = j,
           NEW B, B = {taken[i] : i \in T}
    PROVE  /\ NotesValue(U) = NotesValue(U \ B) + TakenTotal(T, taken)
           /\ NotesValue(U) \in Nat /\ NotesValue(U \ B) \in Nat /\ TakenTotal(T, taken) \in Nat
<1> DEFINE f == [pos \in U |-> notes[pos].amt]
           g == [pos \in U \ B |-> notes[pos].amt]
           h == [i \in T |-> f[taken[i]]]
           k == [i \in T |-> notes[taken[i]].amt]
<1>1. IsFiniteSet(U) /\ IsFiniteSet(B) /\ IsFiniteSet(U \ B) /\ B \subseteq U
  <2>1. IsFiniteSet(U) /\ IsFiniteSet(U \ B) BY FS_Subset DEF NotesInv
  <2>2. B \subseteq U OBVIOUS
  <2> QED BY <2>1, <2>2, FS_Subset
<1>2. /\ \A pos \in U : f[pos] \in Nat
      /\ \A pos \in U \ B : g[pos] = f[pos]
      /\ \A i \in T : f[taken[i]] \in Nat /\ h[i] = f[taken[i]] /\ k[i] = h[i]
  BY DEF NotesInv
<1>3. NotesValue(U) = SumFunctionOnSet(f, U) /\ NotesValue(U \ B) = SumFunctionOnSet(g, U \ B) BY DEF NotesValue
<1>4. TakenTotal(T, taken) = SumFunctionOnSet(k, T) BY DEF TakenTotal
<1>5. SumFunctionOnSet(f, B) = SumFunctionOnSet(h, T)
  <2> HIDE DEF f
  <2> QED BY <1>2, SumReindex
<1> HIDE DEF f, g, h, k
<1>6. SumFunctionOnSet(h, T) = SumFunctionOnSet(k, T) BY <1>2, SumCongruence
<1>7. SumFunctionOnSet(f, U \ B) = SumFunctionOnSet(g, U \ B) BY <1>1, <1>2, SumCongruence
<1>8. SumFunctionOnSet(f, (U \ B) \cup B) = SumFunctionOnSet(f, U \ B) + SumFunctionOnSet(f, B)
  BY <1>1, <1>2, SumUnion
<1>9. (U \ B) \cup B = U BY <1>1
<1>10. SumFunctionOnSet(f, U) \in Nat /\ SumFunctionOnSet(f, U \ B) \in Nat /\ SumFunctionOnSet(k, T) \in Nat
  BY <1>1, <1>2, SumNat
<1> QED BY <1>3, <1>4, <1>5, <1>6, <1>7, <1>8, <1>9, <1>10

\* What transactions that are no longer waiting sent and returned.
Left(P) == SumFunction([p \in P |-> Amounts(p.sent) + Amounts(p.returned)])

\* No transaction took nothing.
LEMMA NothingLeft == Left({}) = 0
<1>1. Left({}) = SumFunctionOnSet([p \in {} |-> Amounts(p.sent) + Amounts(p.returned)], {}) BY DEF Left, SumFunction
<1> QED BY <1>1, SumEmpty

\* What one transaction took.
LEMMA OneLeft ==
    ASSUME NEW p, Amounts(p.sent) \in Nat, Amounts(p.returned) \in Nat
    PROVE  Left({p}) = Amounts(p.sent) + Amounts(p.returned)
<1> DEFINE f == [q \in {p} |-> Amounts(q.sent) + Amounts(q.returned)]
<1>1. Left({p}) = SumFunctionOnSet(f, {p}) BY DEF Left, SumFunction
<1>2. f[p] = Amounts(p.sent) + Amounts(p.returned) /\ f[p] \in Int OBVIOUS
<1>3. IsFiniteSet({p}) BY FS_Singleton
<1> HIDE DEF f
<1>4. SumFunctionOnSet(f, {p}) = f[p] BY <1>2, <1>3, SumSingle
<1> QED BY <1>1, <1>2, <1>4

\* Publishing spends exactly the notes that its active slots take, each once: the nullifier
\* of a note names its position, the contract has none of them yet, and the sequencer lets
\* none through twice.
LEMMA SpendsTaken ==
    ASSUME NEW p, Publish(p), NEW T, NEW taken, Consumes(p, acc, T, taken)
    PROVE  /\ \A i \in T : taken[i] \in UnspentNotes
           /\ \A i, j \in T : taken[i] = taken[j] => i = j
           /\ UnspentNotes' = UnspentNotes \ {taken[i] : i \in T}
<1> DEFINE n(pos) == NoteNullifier(notes[pos], pos, Me)
<1>1. /\ p.public.accin_null[1] = "AN" /\ DOMAIN p.public.inotes_null = Slots /\ T \subseteq Slots
      /\ \A i \in T : taken[i] \in DOMAIN notes /\ p.public.inotes_null[i] = n(taken[i])
      /\ \A i \in Slots \ T : p.public.inotes_null[i][1] = "H2"
  <2>1. p.public.accin_null = Nullifier(acc) /\ acc.id = Me BY DEF Consumes, Owned
  <2>2. p.public.accin_null[1] = "AN" BY <2>1, NullifierParts
  <2> QED BY <2>2 DEF Consumes
<1>2. \A pos : n(pos)[1] = "NN" /\ n(pos)[3] = pos BY DEF NoteNullifier
<1>3. /\ NullifierSet(p.public) = {p.public.accin_null} \cup {p.public.inotes_null[i] : i \in Slots}
      /\ NullifierSet(p.public) \cap nullifiers = {}
      /\ nullifiers' = nullifiers \cup NullifierSet(p.public) /\ notes' = notes
  BY DEF Publish, Accepts, NullifierSet
<1>4. \A i, j \in Slots : p.public.inotes_null[i] = p.public.inotes_null[j] => i = j
  BY <1>1 DEF Publish, Sequenced, IsInjective
<1>5. UnspentNotes = {pos \in DOMAIN notes : n(pos) \notin nullifiers}
  BY DEF UnspentNotes
<1>6. UnspentNotes' = {pos \in DOMAIN notes : n(pos) \notin nullifiers'}
  BY <1>3 DEF UnspentNotes
<1> HIDE DEF n
<1>7. ASSUME NEW i \in T PROVE taken[i] \in UnspentNotes BY <1>1, <1>3, <1>5
<1>8. ASSUME NEW i \in T, NEW j \in T, taken[i] = taken[j] PROVE i = j BY <1>1, <1>4, <1>8
<1>9. ASSUME NEW pos \in DOMAIN notes
      PROVE  n(pos) \in NullifierSet(p.public) <=> \E i \in T : pos = taken[i]
  <2>1. n(pos) # p.public.accin_null BY <1>1, <1>2
  <2>2. \A i \in Slots \ T : n(pos) # p.public.inotes_null[i] BY <1>1, <1>2
  <2>3. \A i \in T : n(pos) = p.public.inotes_null[i] <=> pos = taken[i] BY <1>1, <1>2
  <2> QED BY <1>1, <1>3, <2>1, <2>2, <2>3
<1>10. UnspentNotes' = UnspentNotes \ {taken[i] : i \in T} BY <1>3, <1>5, <1>6, <1>9
<1> QED BY <1>7, <1>8, <1>10

\* A published transaction takes from the client what it sent and returned.
LEMMA PublishTakes ==
    ASSUME PrivInv, NEW p \in proofs, Publish(p)
    PROVE  Value' + Left(proofs \ proofs') = Value
<1>1. PICK T, taken : Consumes(p, acc, T, taken)
  <2>1. PICK a, T, taken : Consumes(p, a, T, taken) BY DEF PrivInv, ProofsInv
  <2>2. a = acc BY <2>1, SpendsCurrent DEF Publish
  <2> QED BY <2>1, <2>2
<1> DEFINE U == UnspentNotes
           B == {taken[i] : i \in T}
<1>2. /\ \A i \in T : taken[i] \in U
      /\ \A i, j \in T : taken[i] = taken[j] => i = j
      /\ UnspentNotes' = U \ B
  BY <1>1, SpendsTaken
<1>3. IsFiniteSet(T)
  <2>1. IsFiniteSet(Slots) BY NoteBatchAssumption, FS_Interval DEF Slots
  <2> QED BY <1>1, <2>1, FS_Subset DEF Consumes
<1>4. U \subseteq DOMAIN notes BY DEF UnspentNotes
<1>5. /\ NotesValue(U) = NotesValue(U \ B) + TakenTotal(T, taken)
      /\ NotesValue(U) \in Nat /\ NotesValue(U \ B) \in Nat /\ TakenTotal(T, taken) \in Nat
  <2> HIDE DEF U
  <2> QED BY <1>2, <1>3, <1>4, NotesTaken DEF PrivInv
<1>6. /\ Funds(p.accout.ast) + Amounts(p.sent) + Amounts(p.returned) = Funds(acc.ast) + TakenTotal(T, taken)
      /\ Amounts(p.sent) \in Nat /\ Amounts(p.returned) \in Nat
      /\ Funds(p.accout.ast) \in Nat /\ Funds(acc.ast) \in Nat
  BY <1>1, FundsSum DEF Consumes, Owned
<1>7. Value = Funds(acc.ast) + NotesValue(U) BY DEF Value, Balance, Funds, NotesValue, SumFunction
<1>8. Value' = Funds(acc'.ast) + NotesValue(U \ B)
  <2>1. notes' = notes BY DEF Publish
  <2>2. Value' = Funds(acc'.ast) + NotesValue(UnspentNotes)'
    BY DEF Value, Balance, Funds, NotesValue, SumFunction, Tracked
  <2>3. NotesValue(UnspentNotes)' = NotesValue(U \ B) BY <1>2, <2>1 DEF NotesValue
  <2> QED BY <2>2, <2>3
<1>9. acc' = p.accout BY DEF Publish
<1>10. Left(proofs \ proofs') = Amounts(p.sent) + Amounts(p.returned)
  <2>1. proofs \ proofs' = {p} BY DEF Publish
  <2> QED BY <1>6, <2>1, OneLeft
<1> HIDE DEF U, B
<1> QED BY <1>5, <1>6, <1>7, <1>8, <1>9, <1>10

\* The only steps that touch the client's value or its proofs.
LEMMA OtherSteps ==
    ASSUME [Next]_vars
    PROVE  \/ UNCHANGED <<acc, notes, nullifiers, proofs>>
           \/ Prove \/ \E p \in proofs : Publish(p)
BY DEF Next, vars, ledgerVars, SpendNew, FreshAccNew, AddInputNote, AddRejectedNote, AddOutputNote,
       FillDinotes, FillDonotes, WithNewSpendKey, WithConsume, SpendBuild, FreshAccBuild, SpendSign,
       ConsumeSign, ApprovalSign, WithAccountPath, WithStateRoot, WithInputNotesPath,
       WithRejectedNotesPath, WithSubpoolProof, Discard, ForeignLeaf, RotateApprovalKey

\* No transaction, however many are open and in whatever order they are published, makes or
\* loses funds of the client: what leaves its account and its unspent notes is what the
\* transaction sent and returned.  A note that brings its amount in is spent by the same
\* step, and no note brings it twice.
THEOREM ValueConserved == Spec => ValueLeavesOnlyByNotes
<1>1. ASSUME PrivInv, [Next]_vars
      PROVE  Value' + Left(proofs \ proofs') = Value \/ UNCHANGED <<acc, notes, nullifiers, proofs>>
  <2>1. CASE Prove
    <3>1. proofs \ proofs' = {} BY <2>1 DEF Prove
    <3>2. Value' = Value BY <2>1 DEF Prove, ledgerVars, Value, Balance, UnspentNotes
    <3>3. Value \in Nat
      <4>1. Funds(acc.ast) \in Nat BY <1>1, FundsSum DEF PrivInv, TreeInv, Owned
      <4>2. NotesValue(UnspentNotes) \in Nat
        <5>1. UnspentNotes \subseteq DOMAIN notes BY DEF UnspentNotes
        <5>2. ASSUME NEW U, U \subseteq DOMAIN notes PROVE NotesValue(U) \in Nat
          <6> DEFINE f == [pos \in U |-> notes[pos].amt]
          <6>1. IsFiniteSet(U) /\ \A pos \in U : f[pos] \in Nat BY <1>1, <5>2, FS_Subset DEF PrivInv, NotesInv
          <6>2. NotesValue(U) = SumFunctionOnSet(f, U) BY DEF NotesValue
          <6> HIDE DEF f
          <6> QED BY <6>1, <6>2, SumNat
        <5> QED BY <5>1, <5>2
      <4> QED BY <4>1, <4>2 DEF Value, Balance, Funds, NotesValue, SumFunction
    <3> QED BY <3>1, <3>2, <3>3, NothingLeft
  <2>2. CASE \E p \in proofs : Publish(p) BY <1>1, <2>2, PublishTakes
  <2> QED BY <1>1, <2>1, <2>2, OtherSteps
<1>2. PrivInv /\ [Next]_vars =>
        [Value' + SumFunction([p \in proofs \ proofs' |-> Amounts(p.sent) + Amounts(p.returned)]) = Value
          ]_<<acc, notes, nullifiers, proofs>>
  BY <1>1 DEF Left
<1> QED BY <1>2, PrivInvariant, PTL DEF Spec, ValueLeavesOnlyByNotes

-----------------------------------------------------------------------------
(* Padding *)

\* A slot of the padding transaction is unused on both sides, and its notes are of the
\* default asset; the input note is payable to the account.
LEMMA PaddingSlot ==
    ASSUME NEW t, t.rejected = <<>>, t.inotes = <<>>, t.onotes = <<>>, NEW i \in Slots,
           NEW s, s = WitnessSlot(t, DefaultAsset, i)
    PROVE  /\ ~s.rjct /\ ~s.iactive /\ ~s.oactive
           /\ s.inote.asset = DefaultAsset /\ s.onote.asset = DefaultAsset
           /\ s.inote.recipient = Address(t.accin)
<1>1. i \in Nat /\ ~(i <= 0) /\ Len(<<>>) = 0 BY DEF Slots
<1>2. ~(i - Len(t.rejected) <= 0) /\ ~(i - Len(t.rejected) <= Len(t.inotes))
      /\ ~(i - Len(t.rejected) <= Len(t.onotes))
  BY <1>1
<1> QED BY <1>2 DEF WitnessSlot, DummyInote, DummyOnote, Note

\* The tree of a new account, at whatever position, holds its own default leaf.
LEMMA NewAstUpdate ==
    ASSUME NEW root, root = AstRoot(NewAst)
    PROVE  [root EXCEPT ![0] = Leaf(DefaultAsset, 0)] = root
<1> DEFINE D == 0 .. (2^AstDepth - 1)
           f == [i \in D |-> IF i < Len(NewAst.leaves) THEN NewAst.leaves[i + 1] ELSE DefaultLeaf]
<1>1. root = f BY DEF AstRoot
<1>2. NewAst.leaves = Append(<<>>, Leaf(DefaultAsset, 0)) BY DEF NewAst, _insert_asset
<1>3. IsSeq(<<>>) /\ Len(<<>>) = 0 BY NoAmounts DEF Amounted
<1>4. Len(NewAst.leaves) = 1 /\ NewAst.leaves[1] = Leaf(DefaultAsset, 0)
  <2> HIDE DEF f
  <2>1. \A s, x : IsSeq(s) /\ Len(s) = 0 => Len(Append(s, x)) = 1 /\ Append(s, x)[1] = x
    <3> SUFFICES ASSUME NEW s, NEW x, IsSeq(s), Len(s) = 0
                 PROVE  Len(Append(s, x)) = 1 /\ Append(s, x)[1] = x
      OBVIOUS
    <3>1. Len(Append(s, x)) = Len(s) + 1 /\ Append(s, x)[Len(s) + 1] = x BY AppendKeeps
    <3> QED BY <3>1
  <2> QED BY <1>2, <1>3, <2>1
<1>5. 0 \in D => f[0] = Leaf(DefaultAsset, 0) BY <1>4
<1>6. DOMAIN f = D OBVIOUS
<1> HIDE DEF f, D
<1>7. f = [i \in D |-> f[i]]
  BY DEF f
<1>8. [f EXCEPT ![0] = Leaf(DefaultAsset, 0)] = f BY <1>5, <1>6, <1>7
<1> QED BY <1>1, <1>8

\* Every assertion of the circuit holds of the padding transaction, whatever root and
\* configuration it is proven against.
LEMMA PaddingProves ==
    ASSUME NEW root, NEW config_root
    PROVE  PrivTxCircuit(FakeTx(root, config_root))
<1> DEFINE a == NewAccount(None, None)
           b == clone_with_incremented_nonce(a)
           w == FakeTx(root, config_root)
<1>1. /\ w.flags = FAKE /\ w.accin = a /\ w.accout = b /\ w.asset = DefaultAsset /\ w.ast_index = 0
      /\ w.accin_amt = 0 /\ w.accout_amt = 0
  BY DEF FakeTx
<1>2. w.exists_in /\ w.exists_out BY DEF FakeTx
<1>3. ~FAKE.is_fresh_acc /\ ~FAKE.is_priv_tx /\ ~FAKE.not_fake_tx BY DEF FAKE
<1>4. PICK t : /\ t.accin = a /\ t.rejected = <<>> /\ t.inotes = <<>> /\ t.onotes = <<>>
               /\ \A i \in Slots : w.slots[i] = WitnessSlot(t, DefaultAsset, i)
  <2> DEFINE u == [kind |-> "fake", accin |-> a, rejected |-> <<>>, inotes |-> <<>>, onotes |-> <<>>,
                   dinotes |-> [i \in Slots |-> ZeroSeed], donotes |-> [i \in Slots |-> ZeroSeed]]
  <2>1. w.slots = [i \in Slots |-> WitnessSlot(u, DefaultAsset, i)] BY DEF FakeTx
  <2>2. u.accin = a /\ u.rejected = <<>> /\ u.inotes = <<>> /\ u.onotes = <<>> OBVIOUS
  <2> HIDE DEF u, a
  <2>3. \A i \in Slots : w.slots[i] = WitnessSlot(u, DefaultAsset, i) BY <2>1
  <2> QED BY <2>2, <2>3
<1>5. /\ b.id = a.id /\ b.subpool = a.subpool /\ b.nonce = a.nonce + 1 /\ b.ast = a.ast /\ a.ast = NewAst
  BY DEF clone_with_incremented_nonce, NewAccount
<1> HIDE DEF a, b, w
<1>6. ASSUME NEW i \in Slots
      PROVE  /\ ~w.slots[i].rjct /\ ~w.slots[i].iactive /\ ~w.slots[i].oactive
             /\ w.slots[i].inote.asset = DefaultAsset /\ w.slots[i].onote.asset = DefaultAsset
             /\ w.slots[i].inote.recipient = Address(a)
  BY <1>4, PaddingSlot
<1>7. AccountInvariants(w.accin, w.accout, w.flags) BY <1>1, <1>3, <1>5 DEF AccountInvariants
<1>8. AccountInTree(w) /\ SubpoolFullProof(w) BY <1>1, <1>3 DEF AccountInTree, SubpoolFullProof
<1>9. AstUpdate(w)
  <2>1. ASSUME NEW r, r = AstRoot(NewAst), NEW x, x PROVE AssetInAst(DefaultAsset, 0, r, 0, r, x)
    BY <2>1, NewAstUpdate DEF AssetInAst
  <2> QED BY <1>1, <1>2, <1>5, <2>1 DEF AstUpdate, AstUpdateRoots
<1>10. RejectPairs(w) /\ InputNotesValid(w) BY <1>1, <1>6 DEF RejectPairs, InputNotesValid
<1>11. BalanceInvariant(w)
  <2>1. [i \in Slots |-> IF w.slots[i].iactive THEN w.slots[i].inote.amt ELSE 0] =
        [i \in Slots |-> IF w.slots[i].oactive THEN w.slots[i].onote.amt ELSE 0]
    BY <1>6
  <2> QED BY <1>1, <2>1 DEF BalanceInvariant
<1>12. TxSignatures(w) BY <1>1, <1>3, <1>6 DEF TxSignatures, SpendRequired, ConsumeRequired
<1> QED BY <1>1, <1>3, <1>7, <1>8, <1>9, <1>10, <1>11, <1>12 DEF PrivTxCircuit, w

\* FakeSpendTxBuilder's transaction can be proven in every state, so that an aggregation
\* batch with fewer transactions than slots can be filled, whatever the batch size and the
\* depth of the account's tree.
THEOREM PaddingProven == Spec => []PaddingAlwaysProves
<1>1. PaddingAlwaysProves BY PaddingProves DEF PaddingAlwaysProves
<1> QED BY <1>1, PTL

-----------------------------------------------------------------------------
(* Who authorises *)

\* A published transaction that consumes a note has a slot with a note's nullifier.
LEMMA ConsumingSlot ==
    ASSUME NEW p, Publish(p), p.public.accin_null[1] = "AN", UnspentNotes' # UnspentNotes
    PROVE  \E i \in Slots : p.public.inotes_null[i][1] = "NN"
<1>1. notes' = notes /\ nullifiers' = nullifiers \cup {p.public.accin_null} \cup {p.public.inotes_null[i] : i \in Slots}
  BY DEF Publish, NullifierSet
<1> DEFINE n(pos) == NoteNullifier(notes[pos], pos, Me)
<1>2. PICK pos \in DOMAIN notes : n(pos) \notin nullifiers /\ n(pos) \in nullifiers'
  BY <1>1 DEF UnspentNotes
<1>3. n(pos)[1] = "NN" BY DEF NoteNullifier
<1> HIDE DEF n
<1> QED BY <1>1, <1>2, <1>3

\* Publishing needs the signatures.
LEMMA PublishAuthorised ==
    ASSUME PrivInv, NEW p \in proofs, Publish(p)
    PROVE  /\ Balance' < Balance => OwnerSigned(p, p.spend_sig, acc.spend_pk)
           /\ acc.consume.config /\ UnspentNotes' # UnspentNotes =>
                  \/ OwnerSigned(p, p.spend_sig, acc.spend_pk)
                  \/ OwnerSigned(p, p.consume_sig, acc.consume.pk)
<1>1. PICK T, taken : Consumes(p, acc, T, taken)
  <2>1. PICK a, T, taken : Consumes(p, a, T, taken) BY DEF PrivInv, ProofsInv
  <2>2. a = acc BY <2>1, SpendsCurrent DEF Publish
  <2> QED BY <2>1, <2>2
<1>2. Authorised(p, acc) /\ acc' = p.accout BY <1>1 DEF Consumes, Publish
<1>3. Balance = Funds(acc.ast) /\ Balance' = Funds(p.accout.ast)
  BY <1>2 DEF Balance, Funds, Tracked
<1>4. Funds(acc.ast) \in Nat /\ Funds(p.accout.ast) \in Nat
  BY <1>1, FundsSum DEF Consumes, Owned
<1>5. p.public.accin_null[1] = "AN"
  <2>1. p.public.accin_null = Nullifier(acc) /\ acc.id = Me BY <1>1 DEF Consumes, Owned
  <2> QED BY <2>1, NullifierParts
<1>6. Balance' < Balance => p.spend_sig # None BY <1>2, <1>3, <1>4 DEF Authorised
<1>7. UnspentNotes' # UnspentNotes => \E i \in Slots : p.public.inotes_null[i][1] = "NN"
  BY <1>5, ConsumingSlot
<1> QED BY <1>2, <1>6, <1>7 DEF Authorised

\* The balance shrinks only under the owner's spend signature over the very transaction that
\* is published, and an owner with its own consume key has signed every transaction that
\* consumes a note: the circuit asks for the signature whenever a slot is active, and the
\* builders sign with no other key than the account's.
THEOREM OwnerSigns == Spec => OwnerAuthorises
<1>1. ASSUME PrivInv, [Next]_vars
      PROVE  \/ UNCHANGED proofs
             \/ \A p \in proofs \ proofs' :
                  /\ Balance' < Balance => OwnerSigned(p, p.spend_sig, acc.spend_pk)
                  /\ acc.consume.config /\ UnspentNotes' # UnspentNotes =>
                         \/ OwnerSigned(p, p.spend_sig, acc.spend_pk)
                         \/ OwnerSigned(p, p.consume_sig, acc.consume.pk)
  <2>1. CASE Prove
    <3>1. proofs \ proofs' = {} BY <2>1 DEF Prove
    <3> QED BY <3>1
  <2>2. ASSUME NEW q \in proofs, Publish(q), NEW p \in proofs \ proofs' PROVE p = q
    BY <2>2 DEF Publish
  <2>3. CASE \E p \in proofs : Publish(p) BY <1>1, <2>2, <2>3, PublishAuthorised
  <2> QED BY <1>1, <2>1, <2>3, OtherSteps
<1>2. PrivInv /\ [Next]_vars =>
        [\A p \in proofs \ proofs' :
           /\ Balance' < Balance => OwnerSigned(p, p.spend_sig, acc.spend_pk)
           /\ acc.consume.config /\ UnspentNotes' # UnspentNotes =>
                  \/ OwnerSigned(p, p.spend_sig, acc.spend_pk)
                  \/ OwnerSigned(p, p.consume_sig, acc.consume.pk)]_proofs
  BY <1>1
<1> QED BY <1>2, PrivInvariant, PTL DEF Spec, OwnerAuthorises

-----------------------------------------------------------------------------
(* Builders and circuit agree *)

\* A tree that the circuit's paths reach all of.
Fits(t) == AstOK(t) /\ Len(t.leaves) <= 2^AstDepth

\* Every note of a transaction is of its asset, and those consumed are payable to its account.
OfTx(t, n) == n.asset = t.asset /\ n.recipient = Address(t.accin)
AgreeNotes(t) ==
    /\ \A i \in 1 .. Len(t.inotes) : OfTx(t, t.inotes[i].note)
    /\ \A i \in 1 .. Len(t.rejected) : OfTx(t, t.rejected[i].note)
    /\ \A i \in 1 .. Len(t.onotes) : t.onotes[i].asset = t.asset

\* Paths, once set, show the account and the notes they were asked for.
Shows(paths, s) == paths # None => \A i \in 1 .. Len(s) : paths[i].leaf = NoteCommitment(s[i].note)
AgreePaths(t) ==
    /\ t.accin_path # None => t.accin_path.leaf = Commitment(t.accin)
    /\ Shows(t.inote_paths, t.inotes) /\ Shows(t.rejected_paths, t.rejected)

\* Signatures, once made, are by keys the account has and over the hash that was built.
AgreeSigs(t) ==
    /\ t.spend_sig # None => t.accin.spend_pk = SpendSk
    /\ t.consume_sig # None => t.accin.consume.pk = ConsumeSk
    /\ t.approval_sig # None => t.approval_sig.msg = t.hash

\* What build computed and checked.
Balanced(t) == AmountOrNext(t.accin.ast, t.asset).amount + Amounts(InputsOf(t))
AgreeSpend(t) ==
    /\ Len(t.inotes) + Len(t.onotes) + Len(t.rejected) > 0
    /\ Amounts(t.onotes) <= Balanced(t)
    /\ CanInsertOrUpdate(t.accin.ast, t.asset)
    /\ t.accout = [clone_with_incremented_nonce(t.accin) EXCEPT
                     !.ast = insert_or_update_asset(t.accin.ast, t.asset, Balanced(t) - Amounts(t.onotes))]
AgreeFresh(t) ==
    t.accout = [clone_with_incremented_nonce(t.accin) EXCEPT !.spend_pk = t.new_spend, !.consume = t.new_consume]
AgreeBuilt(t) ==
    /\ t.hash = HashAsBuilt(t, t.accout)
    /\ t.kind = "spend" => AgreeSpend(t)
    /\ t.kind = "fresh" => AgreeFresh(t)

\* A transaction on its way from new to prove.
AgreeTx(t) ==
    /\ Fits(t.accin.ast)
    /\ t.kind = "fresh" => t.accin = NewAccount(Me, Subpool) /\ t.asset = DefaultAsset
    /\ AgreeNotes(t) /\ AgreePaths(t) /\ AgreeSigs(t)
    /\ t.stage = "builder" => t.approval_sig = None
    /\ t.stage = "built" => AgreeBuilt(t)

\* The notes the client found are where it found them, and accounts fit their trees.
OnTreeAt(pos, n) == pos + 1 \in 1 .. Len(stateTree) /\ stateTree[pos + 1] = NoteCommitment(n)
AgreeInv ==
    /\ \A pos \in DOMAIN notes : OnTreeAt(pos, notes[pos])
    /\ Fits(acc.ast) /\ (acc.nonce = 0 => acc = NewAccount(Me, Subpool))
    /\ \A p \in proofs : Fits(p.accout.ast)
    /\ tx # NoTx => AgreeTx(tx)

\* The accounts a client may start with fit.
LEMMA StartFits ==
    ASSUME Init
    PROVE  Fits(acc.ast) /\ (acc.nonce = 0 => acc = NewAccount(Me, Subpool))
<1>1. AstOK(NewAst) /\ Tracked(NewAst) = {DefaultAsset} /\ Room(NewAst) /\ Len(NewAst.leaves) = 1
  BY NewAstOK, NewAstRoot
<1>2. CASE acc = NewAccount(Me, Subpool)
  <2>1. acc.ast = NewAst BY <1>2 DEF NewAccount
  <2>2. 1 <= 2^AstDepth BY AstWidthAssumption
  <2> QED BY <1>1, <1>2, <2>1, <2>2 DEF Fits
<1>3. ASSUME NEW k, acc = ActiveAccount(k) PROVE Fits(acc.ast) /\ acc.nonce # 0
  <2> DEFINE a == CHOOSE x \in Assets : TRUE
             u == _insert_asset(NewAst, a, 1)
  <2>1. a \notin Tracked(NewAst) BY <1>1, AssetAssumption, ValueAssumption DEF DefaultAsset
  <2>2. acc.ast = u /\ acc.nonce = 1 BY <1>3 DEF ActiveAccount, NewAccount
  <2> HIDE DEF a
  <2>3. AstOK(u) BY <1>1, <2>1, InsertOK
  <2>4. Len(u.leaves) = Len(NewAst.leaves) + 1 BY <1>1, InsertRoot
  <2> HIDE DEF u
  <2>5. Len(u.leaves) = 2 BY <1>1, <2>4
  <2>6. 2 <= 2^AstDepth BY AstWidthAssumption
  <2> QED BY <2>2, <2>3, <2>5, <2>6 DEF Fits
<1> QED BY <1>2, <1>3 DEF Init

\* The invariant holds at the start.
LEMMA InitAgree == Init => AgreeInv
<1> SUFFICES ASSUME Init PROVE AgreeInv OBVIOUS
<1>1. tx = NoTx /\ proofs = {} BY DEF Init
<1>2. Fits(acc.ast) /\ (acc.nonce = 0 => acc = NewAccount(Me, Subpool)) BY StartFits
<1>3. \A pos \in DOMAIN notes : OnTreeAt(pos, notes[pos])
  <2>1. CASE notes = <<>> BY <2>1
  <2>2. CASE /\ stateTree = <<Commitment(acc), NoteCommitment(IncomingNote(1)), NoteCommitment(IncomingNote(2))>>
             /\ notes = [k \in {1, 2} |-> IncomingNote(k)]
    <3>1. \A x, y, z : Len(<<x, y, z>>) = 3 /\ <<x, y, z>>[2] = y /\ <<x, y, z>>[3] = z OBVIOUS
    <3>2. /\ Len(stateTree) = 3 /\ stateTree[2] = NoteCommitment(IncomingNote(1))
          /\ stateTree[3] = NoteCommitment(IncomingNote(2))
      BY <2>2, <3>1
    <3>3. DOMAIN notes = {1, 2} /\ notes[1] = IncomingNote(1) /\ notes[2] = IncomingNote(2) BY <2>2
    <3>4. OnTreeAt(1, notes[1]) /\ OnTreeAt(2, notes[2]) BY <3>2, <3>3 DEF OnTreeAt
    <3> QED BY <3>3, <3>4
  <2> QED BY <2>1, <2>2 DEF Init
<1> QED BY <1>1, <1>2, <1>3 DEF AgreeInv

\* Calls on the builder leave the rest alone.
LEMMA AgreeStep ==
    ASSUME AgreeInv, UNCHANGED <<proofs, ledgerVars>>, NEW t, tx' = NoTx \/ tx' = t, t = NoTx \/ AgreeTx(t)
    PROVE  AgreeInv'
<1>1. UNCHANGED <<stateTree, acc, notes, proofs>> BY DEF ledgerVars
<1>2. (\A pos \in DOMAIN notes : OnTreeAt(pos, notes[pos]))' BY <1>1 DEF AgreeInv, OnTreeAt
<1> QED BY <1>1, <1>2 DEF AgreeInv

\* new of either builder.
LEMMA AgreeNew ==
    ASSUME PrivInv, AgreeInv, FreshAccNew \/ \E asset \in Assets \cup {DefaultAsset} : SpendNew(asset)
    PROVE  AgreeInv'
<1>1. PICK kind, asset :
        /\ tx' = NewBuilder(kind, asset) /\ UNCHANGED <<proofs, ledgerVars>>
        /\ kind = "fresh" => acc.nonce = 0 /\ asset = DefaultAsset
  BY DEF FreshAccNew, SpendNew
<1> DEFINE t == NewBuilder(kind, asset)
<1>2. /\ t.stage = "builder" /\ t.kind = kind /\ t.accin = acc /\ t.asset = asset
      /\ t.inotes = <<>> /\ t.onotes = <<>> /\ t.rejected = <<>>
      /\ t.accin_path = None /\ t.inote_paths = None /\ t.rejected_paths = None
      /\ t.spend_sig = None /\ t.consume_sig = None /\ t.approval_sig = None
  BY DEF NewBuilder
<1> HIDE DEF t
<1>3. Len(<<>>) = 0 /\ 1 .. 0 = {} OBVIOUS
<1>4. AgreeNotes(t) BY <1>2, <1>3 DEF AgreeNotes
<1>5. AgreePaths(t) /\ AgreeSigs(t) BY <1>2 DEF AgreePaths, AgreeSigs, Shows
<1>6. AgreeTx(t) BY <1>1, <1>2, <1>4, <1>5 DEF AgreeTx, AgreeInv
<1> QED BY <1>1, <1>6, AgreeStep DEF t

\* The fields that build reads or sets.
SameBuilt(t, u) ==
    /\ u.stage = t.stage /\ u.kind = t.kind /\ u.accin = t.accin /\ u.asset = t.asset
    /\ u.inotes = t.inotes /\ u.onotes = t.onotes /\ u.rejected = t.rejected
    /\ u.dinotes = t.dinotes /\ u.donotes = t.donotes
    /\ u.new_spend = t.new_spend /\ u.new_consume = t.new_consume
    /\ u.accout = t.accout /\ u.hash = t.hash

\* The hash is over these fields.
LEMMA SameHash ==
    ASSUME NEW t, NEW u, u.accin = t.accin, u.inotes = t.inotes, u.onotes = t.onotes, u.rejected = t.rejected,
           u.dinotes = t.dinotes, u.donotes = t.donotes, NEW b
    PROVE  HashAsBuilt(u, b) = HashAsBuilt(t, b)
<1>1. \A i : BuiltNullifier(u, i) = BuiltNullifier(t, i) BY DEF BuiltNullifier
<1>2. \A i : BuiltCommitment(u, i) = BuiltCommitment(t, i) BY DEF BuiltCommitment
<1>3. /\ [i \in Slots |-> BuiltNullifier(u, i)] = [i \in Slots |-> BuiltNullifier(t, i)]
      /\ [i \in Slots |-> BuiltCommitment(u, i)] = [i \in Slots |-> BuiltCommitment(t, i)]
  BY <1>1, <1>2
<1> QED BY <1>3 DEF HashAsBuilt

\* A call that sets none of them leaves what was built as it is.
LEMMA BuiltKept ==
    ASSUME NEW t, NEW u, SameBuilt(t, u), AgreeTx(t), AgreePaths(u), AgreeSigs(u),
           t.stage = "builder" => u.approval_sig = None
    PROVE  AgreeTx(u)
<1>1. AgreeNotes(u) BY DEF SameBuilt, AgreeTx, AgreeNotes, OfTx
<1>2. HashAsBuilt(u, u.accout) = HashAsBuilt(t, t.accout) BY SameHash DEF SameBuilt
<1>3. Balanced(u) = Balanced(t) BY DEF Balanced, InputsOf, SameBuilt
<1>4. AgreeBuilt(t) => AgreeBuilt(u) BY <1>2, <1>3 DEF AgreeBuilt, AgreeSpend, AgreeFresh, SameBuilt
<1> QED BY <1>1, <1>4 DEF AgreeTx, SameBuilt

\* The builder in use.
LEMMA InUse ==
    ASSUME PrivInv, AgreeInv, tx.stage \in {"builder", "built"}
    PROVE  TxOK(tx) /\ AgreeTx(tx)
BY DEF PrivInv, TxInv, AgreeInv, NoTx

\* Setting dummies or new keys before build.
LEMMA AgreeBuilderField ==
    ASSUME PrivInv, AgreeInv, tx.stage = "builder", UNCHANGED <<proofs, ledgerVars>>,
           NEW f \in {"dinotes", "donotes", "new_spend", "new_consume"}, NEW v, tx' = [tx EXCEPT ![f] = v]
    PROVE  AgreeInv'
<1>1. TxOK(tx) /\ AgreeTx(tx) BY InUse
<1> DEFINE t == [tx EXCEPT ![f] = v]
<1>2. /\ t.stage = tx.stage /\ t.kind = tx.kind /\ t.accin = tx.accin /\ t.asset = tx.asset
      /\ t.inotes = tx.inotes /\ t.onotes = tx.onotes /\ t.rejected = tx.rejected /\ t.hash = tx.hash
      /\ t.accin_path = tx.accin_path /\ t.inote_paths = tx.inote_paths /\ t.rejected_paths = tx.rejected_paths
      /\ t.spend_sig = tx.spend_sig /\ t.consume_sig = tx.consume_sig /\ t.approval_sig = tx.approval_sig
  BY <1>1 DEF TxOK, TxFields
<1> HIDE DEF t
<1>3. AgreeNotes(t) /\ AgreePaths(t) /\ AgreeSigs(t)
  BY <1>1, <1>2 DEF AgreeTx, AgreeNotes, OfTx, AgreePaths, AgreeSigs
<1>4. AgreeTx(t) BY <1>1, <1>2, <1>3 DEF AgreeTx
<1> QED BY <1>4, AgreeStep DEF t

\* Setting what is needed to prove a built transaction.
LEMMA AgreeBuiltField ==
    ASSUME PrivInv, AgreeInv, tx.stage = "built", UNCHANGED <<proofs, ledgerVars>>,
           NEW f \in {"root", "accin_path", "inote_paths", "rejected_paths", "approval_key", "spend_sig",
                      "consume_sig", "approval_sig"}, NEW v,
           NEW t, t = [tx EXCEPT ![f] = v], tx' = NoTx \/ tx' = t,
           f = "accin_path" => v.leaf = Commitment(tx.accin),
           f = "inote_paths" => Shows(v, tx.inotes),
           f = "rejected_paths" => Shows(v, tx.rejected),
           f = "spend_sig" => tx.accin.spend_pk = SpendSk,
           f = "consume_sig" => tx.accin.consume.pk = ConsumeSk,
           f = "approval_sig" => v.msg = tx.hash
    PROVE  AgreeInv'
<1>1. TxOK(tx) /\ AgreeTx(tx) BY InUse
<1>2. \A g \in TxFields : t[g] = IF g = f THEN v ELSE tx[g] BY <1>1 DEF TxOK, TxFields
<1>3. SameBuilt(tx, t) BY <1>2 DEF SameBuilt, TxFields
<1>4. /\ t.accin = tx.accin /\ t.inotes = tx.inotes /\ t.rejected = tx.rejected /\ t.hash = tx.hash
      /\ t.accin_path = IF f = "accin_path" THEN v ELSE tx.accin_path
      /\ t.inote_paths = IF f = "inote_paths" THEN v ELSE tx.inote_paths
      /\ t.rejected_paths = IF f = "rejected_paths" THEN v ELSE tx.rejected_paths
      /\ t.spend_sig = IF f = "spend_sig" THEN v ELSE tx.spend_sig
      /\ t.consume_sig = IF f = "consume_sig" THEN v ELSE tx.consume_sig
      /\ t.approval_sig = IF f = "approval_sig" THEN v ELSE tx.approval_sig
  BY <1>2 DEF TxFields
<1>5. AgreePaths(tx) /\ AgreeSigs(tx) BY <1>1 DEF AgreeTx
<1>6. AgreePaths(t) BY <1>4, <1>5 DEF AgreePaths
<1>7. AgreeSigs(t) BY <1>4, <1>5 DEF AgreeSigs
<1>8. AgreeTx(t) BY <1>1, <1>3, <1>6, <1>7, BuiltKept
<1> QED BY <1>8, AgreeStep

\* Paths are of the leaves they are asked for, which are the notes'.
LEMMA PathsShow ==
    ASSUME AgreeInv, NEW s, Picked(s)
    PROVE  Shows(PathsOf(s), s)
<1>1. DOMAIN s = 1 .. Len(s) BY DEF Picked, IsSeq
<1>2. ASSUME NEW i \in 1 .. Len(s) PROVE PathsOf(s)[i].leaf = NoteCommitment(s[i].note)
  <2>1. s[i].pos \in DOMAIN notes /\ s[i].note = notes[s[i].pos] BY DEF Picked
  <2>2. stateTree[s[i].pos + 1] = NoteCommitment(notes[s[i].pos]) BY <2>1 DEF AgreeInv, OnTreeAt
  <2>3. PathsOf(s)[i].leaf = stateTree[s[i].pos + 1] BY <1>1 DEF PathsOf, PathTo
  <2> QED BY <2>1, <2>2, <2>3
<1> QED BY <1>2 DEF Shows

\* The calls between build and prove.
LEMMA AgreeBuiltSteps ==
    ASSUME PrivInv, AgreeInv,
           \/ SpendSign \/ ConsumeSign \/ ApprovalSign \/ WithAccountPath \/ WithStateRoot
           \/ WithInputNotesPath \/ WithRejectedNotesPath \/ WithSubpoolProof
    PROVE  AgreeInv'
<1>1. tx.stage = "built" /\ UNCHANGED <<proofs, ledgerVars>>
  BY DEF SpendSign, ConsumeSign, ApprovalSign, WithAccountPath, WithStateRoot, WithInputNotesPath,
         WithRejectedNotesPath, WithSubpoolProof, Built
<1>2. TxOK(tx) BY <1>1, InUse
<1>3. CASE SpendSign
  <2>1. tx' = NoTx \/ (tx' = [tx EXCEPT !["spend_sig"] = Signature(SpendSk, tx.hash)] /\ tx.accin.spend_pk = SpendSk)
    BY <1>3 DEF SpendSign, Returns
  <2> QED BY <1>1, <2>1, AgreeBuiltField, AgreeStep
<1>4. CASE ConsumeSign
  <2>1. \/ tx' = NoTx
        \/ tx' = [tx EXCEPT !["consume_sig"] = Signature(ConsumeSk, tx.hash)] /\ tx.accin.consume.pk = ConsumeSk
    BY <1>4 DEF ConsumeSign, Returns, ConsumeKey
  <2> QED BY <1>1, <2>1, AgreeBuiltField, AgreeStep
<1>5. CASE ApprovalSign
  <2>1. Signature(approvalSk, tx.hash).msg = tx.hash BY DEF Signature
  <2> QED BY <1>1, <1>5, <2>1, AgreeBuiltField DEF ApprovalSign
<1>6. CASE WithAccountPath
  <2>1. PICK pos : /\ stateTree[pos + 1] = Commitment(tx.accin)
                   /\ tx' = [tx EXCEPT !["accin_path"] = PathTo(stateTree, pos)]
    BY <1>6 DEF WithAccountPath
  <2>2. PathTo(stateTree, pos).leaf = stateTree[pos + 1] BY DEF PathTo
  <2> QED BY <1>1, <2>1, <2>2, AgreeBuiltField
<1>7. CASE WithStateRoot BY <1>1, <1>7, AgreeBuiltField DEF WithStateRoot
<1>8. CASE WithInputNotesPath
  <2>1. Shows(PathsOf(tx.inotes), tx.inotes) BY <1>2, PathsShow DEF TxOK
  <2> QED BY <1>1, <1>8, <2>1, AgreeBuiltField DEF WithInputNotesPath
<1>9. CASE WithRejectedNotesPath
  <2>1. Shows(PathsOf(tx.rejected), tx.rejected) BY <1>2, PathsShow DEF TxOK
  <2> QED BY <1>1, <1>9, <2>1, AgreeBuiltField DEF WithRejectedNotesPath
<1>10. CASE WithSubpoolProof BY <1>1, <1>10, AgreeBuiltField DEF WithSubpoolProof
<1> QED BY <1>3, <1>4, <1>5, <1>6, <1>7, <1>8, <1>9, <1>10

\* add_input_note and add_rejected_note check the note against the transaction, and
\* add_output_note makes one of its asset.
LEMMA AgreeAddNote ==
    ASSUME PrivInv, AgreeInv,
           \/ \E pos \in DOMAIN notes : AddInputNote(pos) \/ AddRejectedNote(pos)
           \/ \E amt \in OutAmounts : AddOutputNote(amt)
    PROVE  AgreeInv'
<1>1. tx.stage = "builder" /\ tx.kind = "spend" /\ UNCHANGED <<proofs, ledgerVars>>
  <2>1. Building("spend") /\ UNCHANGED <<proofs, ledgerVars>>
    BY DEF AddInputNote, AddRejectedNote, AddOutputNote, MoreNotes
  <2> QED BY <2>1 DEF Building
<1>2. TxOK(tx) /\ AgreeTx(tx) BY <1>1, InUse
<1>3. AgreeNotes(tx) /\ AgreePaths(tx) /\ AgreeSigs(tx) BY <1>2 DEF AgreeTx
<1>4. PICK f \in {"inotes", "rejected", "onotes"} :
        \E e : tx' = NoTx \/ (/\ tx' = [tx EXCEPT ![f] = Append(tx[f], e)]
                              /\ f = "onotes" => e.asset = tx.asset
                              /\ f # "onotes" => OfTx(tx, e.note))
  <2>1. ASSUME NEW pos \in DOMAIN notes, AddInputNote(pos)
        PROVE  tx' = NoTx \/ (/\ tx' = [tx EXCEPT !["inotes"] = Append(tx["inotes"], [note |-> notes[pos], pos |-> pos])]
                              /\ OfTx(tx, [note |-> notes[pos], pos |-> pos].note))
    BY <2>1 DEF AddInputNote, Returns, OfTx
  <2>2. ASSUME NEW pos \in DOMAIN notes, AddRejectedNote(pos)
        PROVE  tx' = NoTx \/ (/\ tx' = [tx EXCEPT !["rejected"] = Append(tx["rejected"], [note |-> notes[pos], pos |-> pos])]
                              /\ OfTx(tx, [note |-> notes[pos], pos |-> pos].note))
    BY <2>2 DEF AddRejectedNote, Returns, OfTx
  <2>3. ASSUME NEW amt \in OutAmounts, AddOutputNote(amt)
        PROVE  \E e : tx' = NoTx \/ (tx' = [tx EXCEPT !["onotes"] = Append(tx["onotes"], e)] /\ e.asset = tx.asset)
    <3> DEFINE e == Note(100 + tx.n * NoteBatch + Len(tx.onotes), amt, tx.asset, OtherAddress, Address(tx.accin))
    <3>1. e.asset = tx.asset BY DEF Note
    <3>2. tx' = NoTx \/ tx' = [tx EXCEPT !["onotes"] = Append(tx["onotes"], e)] BY <2>3 DEF AddOutputNote, Returns
    <3> HIDE DEF e
    <3> QED BY <3>1, <3>2
  <2> QED BY <2>1, <2>2, <2>3
<1>5. PICK e : tx' = NoTx \/ (/\ tx' = [tx EXCEPT ![f] = Append(tx[f], e)]
                              /\ f = "onotes" => e.asset = tx.asset
                              /\ f # "onotes" => OfTx(tx, e.note))
  BY <1>4
<1> DEFINE t == [tx EXCEPT ![f] = Append(tx[f], e)]
<1>6. CASE tx' = NoTx BY <1>1, <1>6, AgreeStep
<1>7. CASE /\ tx' = t
           /\ f = "onotes" => e.asset = tx.asset
           /\ f # "onotes" => OfTx(tx, e.note)
  <2>1. \A g \in TxFields : t[g] = IF g = f THEN Append(tx[f], e) ELSE tx[g] BY <1>2 DEF TxOK, TxFields
  <2> HIDE DEF t
  <2>2. /\ t.stage = tx.stage /\ t.kind = tx.kind /\ t.accin = tx.accin /\ t.asset = tx.asset /\ t.hash = tx.hash
        /\ t.accin_path = tx.accin_path /\ t.inote_paths = tx.inote_paths /\ t.rejected_paths = tx.rejected_paths
        /\ t.spend_sig = tx.spend_sig /\ t.consume_sig = tx.consume_sig /\ t.approval_sig = tx.approval_sig
    BY <2>1 DEF TxFields
  <2>3. IsSeq(tx[f]) BY <1>2 DEF TxOK, Picked, Amounted
  <2>4. /\ Len(tx[f]) \in Nat /\ Len(Append(tx[f], e)) = Len(tx[f]) + 1
        /\ \A i \in 1 .. Len(tx[f]) : Append(tx[f], e)[i] = tx[f][i]
        /\ Append(tx[f], e)[Len(tx[f]) + 1] = e
    BY <2>3, AppendKeeps
  <2>5. \A i \in 1 .. Len(t[f]) : t[f][i] = e \/ (i \in 1 .. Len(tx[f]) /\ t[f][i] = tx[f][i])
    <3>1. t[f] = Append(tx[f], e) BY <2>1 DEF TxFields
    <3> SUFFICES ASSUME NEW i \in 1 .. Len(t[f])
                 PROVE  t[f][i] = e \/ (i \in 1 .. Len(tx[f]) /\ t[f][i] = tx[f][i])
      OBVIOUS
    <3>2. i = Len(tx[f]) + 1 \/ i \in 1 .. Len(tx[f]) BY <2>4, <3>1
    <3> QED BY <2>4, <3>1, <3>2
  <2>6. \A n : OfTx(t, n) <=> OfTx(tx, n) BY <2>2 DEF OfTx
  <2>7. AgreeNotes(t)
    <3>1. CASE f = "inotes"
      <4>1. t.rejected = tx.rejected /\ t.onotes = tx.onotes BY <2>1, <3>1 DEF TxFields
      <4> QED BY <1>3, <1>7, <2>2, <2>5, <2>6, <3>1, <4>1 DEF AgreeNotes
    <3>2. CASE f = "rejected"
      <4>1. t.inotes = tx.inotes /\ t.onotes = tx.onotes BY <2>1, <3>2 DEF TxFields
      <4> QED BY <1>3, <1>7, <2>2, <2>5, <2>6, <3>2, <4>1 DEF AgreeNotes
    <3>3. CASE f = "onotes"
      <4>1. t.inotes = tx.inotes /\ t.rejected = tx.rejected BY <2>1, <3>3 DEF TxFields
      <4> QED BY <1>3, <1>7, <2>2, <2>5, <2>6, <3>3, <4>1 DEF AgreeNotes
    <3> QED BY <3>1, <3>2, <3>3
  <2>8. AgreePaths(t)
    <3>1. tx.inote_paths = None /\ tx.rejected_paths = None BY <1>1, <1>2 DEF TxOK
    <3> QED BY <1>3, <2>2, <3>1 DEF AgreePaths, Shows
  <2>9. AgreeSigs(t) BY <1>3, <2>2 DEF AgreeSigs
  <2>10. AgreeTx(t) BY <1>1, <1>2, <2>2, <2>7, <2>8, <2>9 DEF AgreeTx
  <2> QED BY <1>1, <1>7, <2>10, AgreeStep
<1> QED BY <1>5, <1>6, <1>7

\* build, of either builder, leaves what the invariant says of a built transaction.
LEMMA AgreeBuildStep ==
    ASSUME PrivInv, AgreeInv, tx.stage = "builder", UNCHANGED <<proofs, ledgerVars>>, NEW b,
           NEW t, t = AsBuilt(b, HashAsBuilt(tx, b)), tx' = NoTx \/ tx' = t,
           t.kind = "spend" => AgreeSpend(t), t.kind = "fresh" => AgreeFresh(t)
    PROVE  AgreeInv'
<1>1. TxOK(tx) /\ AgreeTx(tx) BY InUse
<1>2. /\ t.stage = "built" /\ t.kind = tx.kind /\ t.accin = tx.accin /\ t.asset = tx.asset
      /\ t.inotes = tx.inotes /\ t.onotes = tx.onotes /\ t.rejected = tx.rejected
      /\ t.dinotes = tx.dinotes /\ t.donotes = tx.donotes
      /\ t.accin_path = tx.accin_path /\ t.inote_paths = tx.inote_paths /\ t.rejected_paths = tx.rejected_paths
      /\ t.spend_sig = tx.spend_sig /\ t.consume_sig = tx.consume_sig /\ t.approval_sig = tx.approval_sig
      /\ t.accout = b /\ t.hash = HashAsBuilt(tx, b)
  <2> DEFINE h == HashAsBuilt(tx, b)
  <2>1. t = AsBuilt(b, h) OBVIOUS
  <2> HIDE DEF h
  <2> QED BY <1>1, <2>1 DEF TxOK, TxFields, AsBuilt, h
<1>3. HashAsBuilt(t, b) = HashAsBuilt(tx, b)
  <2>1. /\ t.accin = tx.accin /\ t.inotes = tx.inotes /\ t.onotes = tx.onotes /\ t.rejected = tx.rejected
        /\ t.dinotes = tx.dinotes /\ t.donotes = tx.donotes
    BY <1>2
  <2> QED BY <2>1, SameHash, Zenon
<1>4. AgreeBuilt(t) BY <1>2, <1>3 DEF AgreeBuilt
<1>5. tx.spend_sig = None /\ tx.consume_sig = None /\ tx.approval_sig = None BY <1>1 DEF TxOK, AgreeTx
<1>6. AgreeNotes(t) BY <1>1, <1>2 DEF AgreeTx, AgreeNotes, OfTx
<1>7. AgreePaths(t) BY <1>1, <1>2 DEF AgreeTx, AgreePaths
<1>8. AgreeSigs(t) BY <1>2, <1>5 DEF AgreeSigs
<1>9. AgreeTx(t) BY <1>1, <1>2, <1>4, <1>6, <1>7, <1>8 DEF AgreeTx
<1> QED BY <1>9, AgreeStep

\* SpendTxBuilder::build.
LEMMA AgreeSpendBuild ==
    ASSUME PrivInv, AgreeInv, SpendBuild
    PROVE  AgreeInv'
<1>1. tx.stage = "builder" /\ tx.kind = "spend" /\ UNCHANGED <<proofs, ledgerVars>>
  BY DEF SpendBuild, Building
<1>2. TxOK(tx) BY <1>1, InUse
<1> DEFINE amount == Balanced(tx) - Amounts(tx.onotes)
           b == [clone_with_incremented_nonce(tx.accin) EXCEPT
                   !.ast = insert_or_update_asset(tx.accin.ast, tx.asset, amount)]
           t == AsBuilt(b, HashAsBuilt(tx, b))
<1>3. PICK c :
        /\ c = [clone_with_incremented_nonce(tx.accin) EXCEPT
                  !.ast = insert_or_update_asset(@, tx.asset, AmountOrNext(tx.accin.ast, tx.asset).amount
                                                              + Amounts(InputsOf(tx)) - Amounts(tx.onotes))]
        /\ \/ tx' = NoTx
           \/ /\ tx' = AsBuilt(c, HashAsBuilt(tx, c)) /\ NotesAdded > 0 /\ CanInsertOrUpdate(tx.accin.ast, tx.asset)
              /\ Amounts(tx.onotes) <= AmountOrNext(tx.accin.ast, tx.asset).amount + Amounts(InputsOf(tx))
  BY DEF SpendBuild, Returns
<1>4. /\ c = b
      /\ \/ tx' = NoTx
         \/ /\ tx' = t /\ NotesAdded > 0 /\ CanInsertOrUpdate(tx.accin.ast, tx.asset)
            /\ Amounts(tx.onotes) <= Balanced(tx)
  <2>1. clone_with_incremented_nonce(tx.accin).ast = tx.accin.ast
    BY <1>2 DEF TxOK, Owned, clone_with_incremented_nonce
  <2>2. c = b
    <3>1. Balanced(tx) = AmountOrNext(tx.accin.ast, tx.asset).amount + Amounts(InputsOf(tx)) BY DEF Balanced
    <3>2. amount = AmountOrNext(tx.accin.ast, tx.asset).amount + Amounts(InputsOf(tx)) - Amounts(tx.onotes)
      <4>1. Amounts(InputsOf(tx)) \in Nat BY <1>2, PickedAmounts, AmountsSum DEF TxOK, InputsOf, PrivInv
      <4>2. Amounts(tx.onotes) \in Nat BY <1>2, AmountsSum DEF TxOK
      <4>3. AmountOrNext(tx.accin.ast, tx.asset).amount \in Nat BY <1>2 DEF TxOK, Owned, AstOK, Entry, AmountOrNext
      <4> QED BY <3>1, <4>1, <4>2, <4>3
    <3> HIDE DEF amount
    <3> QED BY <1>3, <2>1, <3>2
  <2> HIDE DEF b
  <2> QED BY <1>3, <2>2 DEF Balanced
<1>5. CASE tx' = NoTx BY <1>1, <1>5, AgreeStep
<1>6. CASE /\ tx' = t /\ NotesAdded > 0 /\ CanInsertOrUpdate(tx.accin.ast, tx.asset)
           /\ Amounts(tx.onotes) <= Balanced(tx)
  <2>1. /\ t.kind = tx.kind /\ t.accin = tx.accin /\ t.asset = tx.asset /\ t.accout = b
        /\ t.inotes = tx.inotes /\ t.onotes = tx.onotes /\ t.rejected = tx.rejected
    <3> DEFINE h == HashAsBuilt(tx, b)
    <3>1. t = AsBuilt(b, h) OBVIOUS
    <3> HIDE DEF h, b, t
    <3> QED BY <1>2, <3>1 DEF TxOK, TxFields, AsBuilt
  <2>2. b = [clone_with_incremented_nonce(tx.accin) EXCEPT !.ast = insert_or_update_asset(tx.accin.ast, tx.asset, amount)]
    OBVIOUS
  <2> HIDE DEF t, b
  <2>3. Balanced(t) = Balanced(tx) BY <2>1 DEF Balanced, InputsOf
  <2>4. AgreeSpend(t) BY <1>6, <2>1, <2>2, <2>3 DEF AgreeSpend, NotesAdded
  <2>5. t = AsBuilt(b, HashAsBuilt(tx, b)) BY DEF t
  <2>6. t.kind = "spend" BY <1>1, <2>1
  <2> QED BY <1>1, <1>6, <2>4, <2>5, <2>6, AgreeBuildStep
<1> QED BY <1>4, <1>5, <1>6

\* FreshAccTxBuilder::build.
LEMMA AgreeFreshAccBuild ==
    ASSUME PrivInv, AgreeInv, FreshAccBuild
    PROVE  AgreeInv'
<1>1. tx.stage = "builder" /\ tx.kind = "fresh" /\ UNCHANGED <<proofs, ledgerVars>>
  BY DEF FreshAccBuild, Building
<1>2. TxOK(tx) BY <1>1, InUse
<1> DEFINE b == [clone_with_incremented_nonce(tx.accin) EXCEPT !.spend_pk = tx.new_spend, !.consume = tx.new_consume]
           t == AsBuilt(b, HashAsBuilt(tx, b))
<1>3. tx' = NoTx \/ tx' = t BY DEF FreshAccBuild, Returns
<1>4. t.kind = tx.kind /\ t.accin = tx.accin /\ t.new_spend = tx.new_spend /\ t.new_consume = tx.new_consume /\ t.accout = b
  <2> DEFINE h == HashAsBuilt(tx, b)
  <2>1. t = AsBuilt(b, h) OBVIOUS
  <2> HIDE DEF h, b, t
  <2> QED BY <1>2, <2>1 DEF TxOK, TxFields, AsBuilt
<1>5. AgreeFresh(t) BY <1>4 DEF AgreeFresh
<1> HIDE DEF b
<1>6. t = AsBuilt(b, HashAsBuilt(tx, b)) OBVIOUS
<1> HIDE DEF t
<1>7. t.kind = "fresh" BY <1>1, <1>4
<1> QED BY <1>1, <1>3, <1>5, <1>6, <1>7, AgreeBuildStep

\* The account a built transaction leads to fits its tree: insert_or_update_asset takes a
\* new leaf only where there is room.
LEMMA BuiltFits ==
    ASSUME PrivInv, AgreeInv, Built
    PROVE  Fits(tx.accout.ast)
<1>1. TxOK(tx) /\ AgreeTx(tx) /\ tx.stage = "built" BY InUse DEF Built
<1>2. AgreeBuilt(tx) /\ Fits(tx.accin.ast) BY <1>1 DEF AgreeTx
<1>3. AstOK(tx.accout.ast) BY <1>1 DEF TxOK, BuiltOK, Owned
<1>4. CASE tx.kind = "fresh"
  <2>1. AgreeFresh(tx) BY <1>2, <1>4 DEF AgreeBuilt
  <2>2. tx.accout.ast = tx.accin.ast BY <1>1, <2>1 DEF AgreeFresh, TxOK, Owned, clone_with_incremented_nonce
  <2> QED BY <1>2, <2>2
<1>5. CASE tx.kind = "spend"
  <2> DEFINE amount == Balanced(tx) - Amounts(tx.onotes)
             ast == insert_or_update_asset(tx.accin.ast, tx.asset, amount)
  <2>1. AgreeSpend(tx) BY <1>2, <1>5 DEF AgreeBuilt
  <2>2. tx.accout.ast = ast BY <1>1, <2>1 DEF AgreeSpend, TxOK, Owned, clone_with_incremented_nonce
  <2>3. CanInsertOrUpdate(tx.accin.ast, tx.asset) BY <2>1 DEF AgreeSpend
  <2>4. amount \in Nat
    <3>1. Balanced(tx) \in Nat
      <4>1. Amounts(InputsOf(tx)) \in Nat BY <1>1, PickedAmounts, AmountsSum DEF TxOK, InputsOf, PrivInv
      <4>2. AmountOrNext(tx.accin.ast, tx.asset).amount \in Nat BY <1>1 DEF TxOK, Owned, AstOK, Entry, AmountOrNext
      <4> QED BY <4>1, <4>2 DEF Balanced
    <3>2. Amounts(tx.onotes) \in Nat BY <1>1, AmountsSum DEF TxOK
    <3>3. Amounts(tx.onotes) <= Balanced(tx) BY <2>1 DEF AgreeSpend
    <3> QED BY <3>1, <3>2, <3>3
  <2> HIDE DEF amount
  <2>5. AstOK(tx.accin.ast) /\ Len(tx.accin.ast.leaves) <= 2^AstDepth BY <1>2 DEF Fits
  <2>6. Len(ast.leaves) <= 2^AstDepth BY <2>3, <2>4, <2>5, InsertOrUpdateRoot, Zenon
  <2> HIDE DEF ast
  <2> QED BY <1>3, <2>2, <2>6 DEF Fits
<1> QED BY <1>1, <1>4, <1>5 DEF TxOK

\* A leaf once on the tree stays where it is.
LEMMA StaysOnTree ==
    ASSUME NEW s, NEW v, Len(s) \in Nat, Len(v) \in Nat, Len(s) <= Len(v), \A i \in 1 .. Len(s) : v[i] = s[i],
           NEW pos, pos + 1 \in 1 .. Len(s)
    PROVE  pos + 1 \in 1 .. Len(v) /\ v[pos + 1] = s[pos + 1]
OBVIOUS

\* One step per action.
LEMMA NextAgree ==
    ASSUME PrivInv, AgreeInv, [Next]_vars
    PROVE  AgreeInv'
<1>1. CASE FreshAccNew \/ \E asset \in Assets \cup {DefaultAsset} : SpendNew(asset) BY <1>1, AgreeNew
<1>2. CASE \/ \E pos \in DOMAIN notes : AddInputNote(pos) \/ AddRejectedNote(pos)
           \/ \E amt \in OutAmounts : AddOutputNote(amt)
  BY <1>2, AgreeAddNote
<1>3. CASE FillDinotes BY <1>3, AgreeBuilderField DEF FillDinotes
<1>4. CASE FillDonotes BY <1>4, AgreeBuilderField DEF FillDonotes
<1>5. CASE WithNewSpendKey BY <1>5, AgreeBuilderField DEF WithNewSpendKey, Building
<1>6. CASE \E auth \in {DelegatedConsume, ConsumeKey(ConsumeSk)} : WithConsume(auth)
  BY <1>6, AgreeBuilderField DEF WithConsume, Building
<1>7. CASE SpendBuild BY <1>7, AgreeSpendBuild
<1>8. CASE FreshAccBuild BY <1>8, AgreeFreshAccBuild
<1>9. CASE \/ SpendSign \/ ConsumeSign \/ ApprovalSign \/ WithAccountPath \/ WithStateRoot
           \/ WithInputNotesPath \/ WithRejectedNotesPath \/ WithSubpoolProof
  BY <1>9, AgreeBuiltSteps
<1>10. CASE Prove
  <2>1. Fits(tx.accout.ast) BY <1>10, BuiltFits DEF Prove
  <2>2. UNCHANGED <<stateTree, acc, notes>> /\ tx' = NoTx BY <1>10 DEF Prove, ledgerVars
  <2>3. \A p \in proofs' : p \in proofs \/ p.accout = tx.accout BY <1>10 DEF Prove
  <2>4. \A p \in proofs' : Fits(p.accout.ast) BY <2>1, <2>3 DEF AgreeInv
  <2>5. (\A pos \in DOMAIN notes : OnTreeAt(pos, notes[pos]))' BY <2>2 DEF AgreeInv, OnTreeAt
  <2> QED BY <2>2, <2>4, <2>5 DEF AgreeInv
<1>11. CASE Discard BY <1>11, AgreeStep DEF Discard
<1>12. ASSUME NEW p \in proofs, Publish(p) PROVE AgreeInv'
  <2>1. PICK a, T, taken : Consumes(p, a, T, taken) BY DEF PrivInv, ProofsInv
  <2>2. acc' = p.accout /\ proofs' \subseteq proofs /\ UNCHANGED <<notes, tx>> BY <1>12 DEF Publish
  <2>3. acc'.nonce # 0 BY <2>1, <2>2 DEF Consumes, Owned
  <2>4. Fits(acc'.ast) BY <2>2 DEF AgreeInv
  <2> DEFINE s == stateTree
             v == stateTree'
  <2>5. Len(s) \in Nat /\ Len(v) \in Nat /\ Len(s) <= Len(v) /\ \A i \in 1 .. Len(s) : v[i] = s[i]
    <3> DEFINE x == p.public.accout_comm
               u == p.public.onotes_comm
    <3>1. IsSeq(s) BY DEF PrivInv, TreeInv
    <3>2. IsSeq(u) BY <2>1 DEF Consumes
    <3>3. v = s \o <<x>> \o u BY <1>12 DEF Publish
    <3> HIDE DEF s, v, x, u
    <3>4. Appended(s, x, u, v) BY <3>1, <3>2, <3>3, LeavesAppended
    <3>5. Len(s) \in Nat /\ Len(v) \in Nat BY <3>1, <3>4, AppendKeeps DEF Appended
    <3> QED BY <3>4, <3>5 DEF Appended
  <2>6. ASSUME NEW pos \in DOMAIN notes PROVE OnTreeAt(pos, notes[pos])'
    <3>1. pos + 1 \in 1 .. Len(s) /\ s[pos + 1] = NoteCommitment(notes[pos]) BY DEF AgreeInv, OnTreeAt
    <3> HIDE DEF s, v
    <3>2. pos + 1 \in 1 .. Len(v) /\ v[pos + 1] = s[pos + 1] BY <2>5, <3>1, StaysOnTree
    <3> QED BY <2>2, <3>1, <3>2 DEF OnTreeAt, v
  <2> QED BY <2>2, <2>3, <2>4, <2>6 DEF AgreeInv
<1>13. CASE ForeignLeaf
  <2> DEFINE s == stateTree
             v == stateTree'
             x == DummyHash(1 + 2 * outside)
  <2>1. UNCHANGED <<acc, notes, tx, proofs>> /\ v = Append(s, x) BY <1>13 DEF ForeignLeaf
  <2>2. Len(s) \in Nat /\ Len(v) \in Nat /\ Len(s) <= Len(v) /\ \A i \in 1 .. Len(s) : v[i] = s[i]
    <3>1. IsSeq(s) BY DEF PrivInv, TreeInv
    <3> HIDE DEF s, v, x
    <3>2. Len(s) \in Nat /\ Len(v) = Len(s) + 1 /\ \A i \in 1 .. Len(s) : v[i] = s[i]
      BY <2>1, <3>1, AppendKeeps
    <3> QED BY <3>2
  <2>3. ASSUME NEW pos \in DOMAIN notes PROVE OnTreeAt(pos, notes[pos])'
    <3>1. pos + 1 \in 1 .. Len(s) /\ s[pos + 1] = NoteCommitment(notes[pos]) BY DEF AgreeInv, OnTreeAt
    <3> HIDE DEF s, v
    <3>2. pos + 1 \in 1 .. Len(v) /\ v[pos + 1] = s[pos + 1] BY <2>2, <3>1, StaysOnTree
    <3> QED BY <2>1, <3>1, <3>2 DEF OnTreeAt, v
  <2> QED BY <2>1, <2>3 DEF AgreeInv
<1>14. CASE UNCHANGED <<stateTree, acc, notes, tx, proofs>>
  <2>1. (\A pos \in DOMAIN notes : OnTreeAt(pos, notes[pos]))' BY <1>14 DEF AgreeInv, OnTreeAt
  <2> QED BY <1>14, <2>1 DEF AgreeInv
<1>15. CASE \E k \in ApprovalSks : RotateApprovalKey(k) BY <1>14, <1>15 DEF RotateApprovalKey
<1>16. CASE UNCHANGED vars BY <1>14, <1>16 DEF vars
<1> QED
  BY <1>1, <1>2, <1>3, <1>4, <1>5, <1>6, <1>7, <1>8, <1>9, <1>10, <1>11, <1>12, <1>13, <1>15, <1>16 DEF Next

\* The invariant holds throughout.
LEMMA AgreeInvariant == Spec => []AgreeInv
<1>1. PrivInv /\ AgreeInv /\ [Next]_vars => AgreeInv' BY NextAgree
<1> QED BY <1>1, InitAgree, PrivInvariant, PTL DEF Spec

\* Notes are records, of whose fields rejecting one sets the recipient.
NoteRecords == \A pos \in DOMAIN notes : "recipient" \in DOMAIN notes[pos]
LEMMA NoteRecordsInvariant == Spec => []NoteRecords
<1>1. Init => NoteRecords
  <2>1. \A k : "recipient" \in DOMAIN IncomingNote(k) BY DEF IncomingNote, Note
  <2>2. ASSUME notes = [k \in {1, 2} |-> IncomingNote(k)] PROVE NoteRecords BY <2>1, <2>2 DEF NoteRecords
  <2>3. ASSUME notes = <<>> PROVE NoteRecords BY <2>3 DEF NoteRecords
  <2> QED BY <2>2, <2>3 DEF Init
<1>2. [Next]_vars => UNCHANGED notes
  BY DEF Next, vars, ledgerVars, SpendNew, FreshAccNew, AddInputNote, AddRejectedNote, AddOutputNote,
         FillDinotes, FillDonotes, WithNewSpendKey, WithConsume, SpendBuild, FreshAccBuild, SpendSign,
         ConsumeSign, ApprovalSign, WithAccountPath, WithStateRoot, WithInputNotesPath,
         WithRejectedNotesPath, WithSubpoolProof, Prove, Discard, Publish, ForeignLeaf, RotateApprovalKey
<1>3. NoteRecords /\ UNCHANGED notes => NoteRecords' BY DEF NoteRecords
<1> QED BY <1>1, <1>2, <1>3, PTL DEF Spec

\* The numbers of rejected, input and output notes.
Counts(t, r, k, m) == r = Len(t.rejected) /\ k = Len(t.inotes) /\ m = Len(t.onotes)

\* The ranges of slots.
LEMMA SlotRanges ==
    ASSUME NEW i \in Nat, NEW r \in Nat, NEW k \in Nat
    PROVE  /\ i <= r => i - r <= 0
           /\ i > r => ~(i - r <= 0)
           /\ i > r /\ i <= r + k => i - r <= k
           /\ i > r + k => ~(i - r <= 0) /\ ~(i - r <= k)
OBVIOUS

\* Slot s of a witness, the i-th of a transaction of r rejected, k consumed and m created notes: its
\* input side,
SlotInput(t, asset, s, i, r, k) ==
    /\ i <= r => /\ s.rjct /\ s.iactive /\ s.ipath = t.rejected_paths[i]
                /\ s.ipos = t.rejected_paths[i].pos /\ s.inote = t.rejected[i].note
    /\ i > r => ~s.rjct
    /\ i > r /\ i <= r + k => /\ s.iactive /\ s.ipath = t.inote_paths[i - r]
                             /\ s.ipos = t.inote_paths[i - r].pos /\ s.inote = t.inotes[i - r].note
    /\ i > r + k => /\ ~s.iactive /\ s.inote = DummyInote(asset, Address(t.accin))
                   /\ s.dinote = t.dinotes[(i - r) - k]

\* and its output side.
SlotOutput(t, asset, s, i, r, m) ==
    /\ i <= r => s.oactive /\ s.onote = Returned(t.rejected[i].note)
    /\ i > r /\ i <= r + m => s.oactive /\ s.onote = t.onotes[i - r]
    /\ i > r + m => ~s.oactive /\ s.onote = DummyOnote(asset) /\ s.donote = t.donotes[(i - r) - m]

\* What set_notes_witness puts into slot i on the input side,
LEMMA InputSide ==
    ASSUME NEW t, NEW asset, NEW i \in Nat, NEW r \in Nat, NEW k \in Nat, NEW m \in Nat, Counts(t, r, k, m),
           NEW s, s = WitnessSlot(t, asset, i)
    PROVE  SlotInput(t, asset, s, i, r, k)
<1>1. /\ i <= r => i - r <= 0
      /\ i > r => ~(i - r <= 0)
      /\ i > r /\ i <= r + k => i - r <= k
      /\ i > r + k => ~(i - r <= 0) /\ ~(i - r <= k)
  BY SlotRanges
<1>2. ASSUME i - r <= 0
      PROVE  /\ s.rjct /\ s.iactive /\ s.ipath = t.rejected_paths[i]
             /\ s.ipos = t.rejected_paths[i].pos /\ s.inote = t.rejected[i].note
  BY <1>2 DEF WitnessSlot, Counts
<1>3. ASSUME ~(i - r <= 0) PROVE ~s.rjct
  BY <1>3 DEF WitnessSlot, Counts
<1>4. ASSUME ~(i - r <= 0), i - r <= k
      PROVE  /\ s.iactive /\ s.ipath = t.inote_paths[i - r]
             /\ s.ipos = t.inote_paths[i - r].pos /\ s.inote = t.inotes[i - r].note
  BY <1>4 DEF WitnessSlot, Counts
<1>5. ASSUME ~(i - r <= 0), ~(i - r <= k)
      PROVE  /\ ~s.iactive /\ s.inote = DummyInote(asset, Address(t.accin))
             /\ s.dinote = t.dinotes[(i - r) - k]
  BY <1>5 DEF WitnessSlot, Counts
<1> QED BY <1>1, <1>2, <1>3, <1>4, <1>5 DEF SlotInput

\* and on the output side.
LEMMA OutputSide ==
    ASSUME NEW t, NEW asset, NEW i \in Nat, NEW r \in Nat, NEW k \in Nat, NEW m \in Nat, Counts(t, r, k, m),
           NEW s, s = WitnessSlot(t, asset, i)
    PROVE  SlotOutput(t, asset, s, i, r, m)
<1>1. /\ i <= r => i - r <= 0
      /\ i > r => ~(i - r <= 0)
      /\ i > r /\ i <= r + m => i - r <= m
      /\ i > r + m => ~(i - r <= 0) /\ ~(i - r <= m)
  BY SlotRanges
<1>2. ASSUME i - r <= 0 PROVE s.oactive /\ s.onote = Returned(t.rejected[i].note)
  BY <1>2 DEF WitnessSlot, Counts
<1>3. ASSUME ~(i - r <= 0), i - r <= m PROVE s.oactive /\ s.onote = t.onotes[i - r]
  BY <1>3 DEF WitnessSlot, Counts
<1>4. ASSUME ~(i - r <= 0), ~(i - r <= m)
      PROVE  ~s.oactive /\ s.onote = DummyOnote(asset) /\ s.donote = t.donotes[(i - r) - m]
  BY <1>4 DEF WitnessSlot, Counts
<1> QED BY <1>1, <1>2, <1>3, <1>4 DEF SlotOutput

\* What build hashes for slot i.
SlotBuilt(t, i, r, k, m) ==
    /\ i <= r => /\ BuiltNullifier(t, i) = NoteNullifier(t.rejected[i].note, t.rejected[i].pos, t.accin.id)
                /\ BuiltCommitment(t, i) = NoteCommitment(Returned(t.rejected[i].note))
    /\ i > r /\ i <= r + k =>
         BuiltNullifier(t, i) = NoteNullifier(t.inotes[i - r].note, t.inotes[i - r].pos, t.accin.id)
    /\ i > r + k => BuiltNullifier(t, i) = DummyHash(t.dinotes[(i - r) - k])
    /\ i > r /\ i <= r + m => BuiltCommitment(t, i) = NoteCommitment(t.onotes[i - r])
    /\ i > r + m => BuiltCommitment(t, i) = DummyHash(t.donotes[(i - r) - m])

\* build's branches, by the number of rejected, consumed and created notes.
LEMMA BuiltSlot ==
    ASSUME NEW t, NEW i \in Nat, NEW r \in Nat, NEW k \in Nat, NEW m \in Nat, Counts(t, r, k, m)
    PROVE  SlotBuilt(t, i, r, k, m)
<1>1. /\ i <= r => i - r <= 0
      /\ i > r => ~(i - r <= 0)
      /\ i > r /\ i <= r + k => i - r <= k
      /\ i > r + k => ~(i - r <= 0) /\ ~(i - r <= k)
      /\ i > r /\ i <= r + m => i - r <= m
      /\ i > r + m => ~(i - r <= 0) /\ ~(i - r <= m)
  BY SlotRanges
<1>2. ASSUME i - r <= 0
      PROVE  /\ BuiltNullifier(t, i) = NoteNullifier(t.rejected[i].note, t.rejected[i].pos, t.accin.id)
             /\ BuiltCommitment(t, i) = NoteCommitment(Returned(t.rejected[i].note))
  BY <1>2 DEF BuiltNullifier, BuiltCommitment, Counts
<1>3. ASSUME ~(i - r <= 0), i - r <= k
      PROVE  BuiltNullifier(t, i) = NoteNullifier(t.inotes[i - r].note, t.inotes[i - r].pos, t.accin.id)
  BY <1>3 DEF BuiltNullifier, Counts
<1>4. ASSUME ~(i - r <= 0), ~(i - r <= k) PROVE BuiltNullifier(t, i) = DummyHash(t.dinotes[(i - r) - k])
  BY <1>4 DEF BuiltNullifier, Counts
<1>5. ASSUME ~(i - r <= 0), i - r <= m PROVE BuiltCommitment(t, i) = NoteCommitment(t.onotes[i - r])
  BY <1>5 DEF BuiltCommitment, Counts
<1>6. ASSUME ~(i - r <= 0), ~(i - r <= m) PROVE BuiltCommitment(t, i) = DummyHash(t.donotes[(i - r) - m])
  BY <1>6 DEF BuiltCommitment, Counts
<1> QED BY <1>1, <1>2, <1>3, <1>4, <1>5, <1>6 DEF SlotBuilt

\* The sum over a batch of two lists, one after the other, with nothing behind them.
LEMMA TwoLists ==
    ASSUME NEW r \in Nat, NEW k \in Nat, NEW n \in Nat, r + k <= n, NEW f, NEW x, NEW y,
           \A i \in 1 .. r : f[i] = x[i] /\ x[i] \in Nat,
           \A i \in 1 .. k : f[i + r] = y[i] /\ y[i] \in Nat,
           \A i \in 1 .. n : i > r + k => f[i] = 0
    PROVE  SumFunctionOnSet(f, 1 .. n) = SumFunctionOnSet(x, 1 .. r) + SumFunctionOnSet(y, 1 .. k)
<1>1. ASSUME NEW i \in 1 .. (r + k) PROVE f[i] \in Int
  <2>1. CASE i \in 1 .. r BY <2>1
  <2>2. CASE i \notin 1 .. r
    <3>1. i - r \in 1 .. k /\ (i - r) + r = i BY <2>2
    <3> QED BY <3>1
  <2> QED BY <2>1, <2>2
<1>2. SumFunctionOnSet(f, 1 .. (r + k)) = SumFunctionOnSet(f, 1 .. r) + SumFunctionOnSet(y, 1 .. k)
  <2>1. \A i \in 1 .. k : y[i] = f[i + r] OBVIOUS
  <2> QED BY <1>1, <2>1, SumShifted, SMTT(30)
<1>3. SumFunctionOnSet(f, 1 .. r) = SumFunctionOnSet(x, 1 .. r)
  <2>1. IsFiniteSet(1 .. r) BY FS_Interval
  <2>2. \A i \in 1 .. r : f[i] = x[i] /\ f[i] \in Int OBVIOUS
  <2> QED BY <2>1, <2>2, SumCongruence
<1> DEFINE A == 1 .. (r + k)
           B == (r + k + 1) .. n
<1>4. A \cap B = {} /\ A \cup B = 1 .. n OBVIOUS
<1>5. IsFiniteSet(A) /\ IsFiniteSet(B) BY FS_Interval
<1>6. \A i \in B : f[i] = 0 OBVIOUS
<1>7. \A i \in A \cup B : f[i] \in Int BY <1>1, <1>6
<1>8. SumFunctionOnSet(f, A) \in Int BY <1>1, <1>5, SumInt
<1> HIDE DEF A, B
<1>9. SumFunctionOnSet(f, A \cup B) = SumFunctionOnSet(f, A) + SumFunctionOnSet(f, B)
  BY <1>4, <1>5, <1>7, SumUnion
<1>10. SumFunctionOnSet(f, B) = 0 BY <1>5, <1>6, SumZero
<1>11. SumFunctionOnSet(f, A \cup B) = SumFunctionOnSet(f, A) BY <1>8, <1>9, <1>10
<1>12. SumFunctionOnSet(f, 1 .. n) = SumFunctionOnSet(f, 1 .. (r + k)) BY <1>4, <1>11 DEF A
<1> QED BY <1>2, <1>3, <1>12

\* A transaction that into_priv_tx lets through.
Ready(t) ==
    /\ NotesInv /\ NoteRecords /\ TxOK(t) /\ AgreeTx(t)
    /\ t.stage = "built" /\ IntoPrivTxSucceeds(t)

\* Its numbers of notes.
LEMMA ReadyCounts ==
    ASSUME NEW t, Ready(t)
    PROVE  \E r, k, m \in Nat : Counts(t, r, k, m)
BY DEF Ready, TxOK, Picked, Amounted, IsSeq, Counts

\* Without notes a sequence is empty.
LEMMA EmptyLen ==
    ASSUME NEW s, IsSeq(s)
    PROVE  s = <<>> <=> Len(s) = 0
BY DEF IsSeq

\* Its paths are those of its notes.
LEMMA ReadyPaths ==
    ASSUME NEW t, Ready(t), NEW r, NEW k, NEW m, Counts(t, r, k, m)
    PROVE  /\ \A i \in 1 .. r : /\ t.rejected_paths[i].pos = t.rejected[i].pos
                                /\ t.rejected_paths[i].leaf = NoteCommitment(t.rejected[i].note)
           /\ \A i \in 1 .. k : /\ t.inote_paths[i].pos = t.inotes[i].pos
                                /\ t.inote_paths[i].leaf = NoteCommitment(t.inotes[i].note)
<1>1. TxOK(t) /\ BuiltOK(t) /\ AgreePaths(t) BY DEF Ready, TxOK, AgreeTx
<1>2. CASE t.kind = "spend"
  <2>1. t.inote_paths # None /\ t.rejected_paths # None BY <1>2 DEF Ready, IntoPrivTxSucceeds
  <2> QED BY <1>1, <2>1 DEF BuiltOK, PathsMatch, AgreePaths, Shows, Counts
<1>3. CASE t.kind = "fresh"
  <2>1. r = 0 /\ k = 0 BY <1>1, <1>3 DEF TxOK, Counts
  <2> QED BY <2>1
<1> QED BY <1>1, <1>2, <1>3 DEF TxOK

\* Its witness.
LEMMA WitnessParts ==
    ASSUME NEW t, Ready(t), NEW w, w = Witness(t)
    PROVE  /\ w.asset = t.asset /\ w.accin = t.accin /\ w.accout = t.accout
           /\ \A i \in Slots : w.slots[i] = WitnessSlot(t, t.asset, i)
           /\ w.approval_key = t.approval_key /\ w.config_root = t.approval_key
           /\ w.spend_sig = t.spend_sig /\ w.consume_sig = t.consume_sig /\ w.approval_sig = t.approval_sig
           /\ t.kind = "spend" => /\ w.flags = SPEND /\ w.accin_path = t.accin_path
                                  /\ w.state_root = t.accin_path.root
           /\ t.kind = "fresh" => w.flags = FRESH_ACC
           /\ LET old == AmountOrNext(t.accin.ast, t.asset)
                  new == AmountOrNext(t.accout.ast, t.asset)
              IN  /\ w.ast_index = old.index /\ w.accin_amt = old.amount /\ w.accout_amt = new.amount
                  /\ w.exists_in = old.exists /\ w.exists_out = new.exists
                  /\ w.same_index = (old.index = new.index)
<1> DEFINE a == IF Len(t.rejected) + Len(t.inotes) + Len(t.onotes) = 0 THEN DefaultAsset ELSE t.asset
<1>1. a = t.asset
  <2>1. CASE t.kind = "spend"
    <3>1. AgreeSpend(t) BY <2>1 DEF Ready, AgreeTx, AgreeBuilt
    <3>2. PICK r \in Nat, k \in Nat, m \in Nat : Counts(t, r, k, m) BY ReadyCounts
    <3>3. k + m + r > 0 BY <3>1, <3>2 DEF AgreeSpend, Counts
    <3>4. r + k + m # 0 BY <3>2, <3>3
    <3> QED BY <3>2, <3>4 DEF Counts
  <2>2. CASE t.kind = "fresh" BY <2>2 DEF Ready, AgreeTx
  <2> QED BY <2>1, <2>2 DEF Ready, TxOK
<1>2. /\ w.asset = a /\ w.accin = t.accin /\ w.accout = t.accout
      /\ w.slots = [i \in Slots |-> WitnessSlot(t, a, i)]
      /\ w.approval_key = t.approval_key /\ w.config_root = t.approval_key
      /\ w.spend_sig = t.spend_sig /\ w.consume_sig = t.consume_sig /\ w.approval_sig = t.approval_sig
  BY DEF Witness
<1>3. /\ t.kind = "spend" => /\ w.flags = SPEND /\ w.accin_path = t.accin_path
                             /\ w.state_root = t.accin_path.root
      /\ t.kind = "fresh" => w.flags = FRESH_ACC
  BY DEF Witness
<1>4. LET old == AmountOrNext(t.accin.ast, a)
          new == AmountOrNext(t.accout.ast, a)
      IN  /\ w.ast_index = old.index /\ w.accin_amt = old.amount /\ w.accout_amt = new.amount
          /\ w.exists_in = old.exists /\ w.exists_out = new.exists
          /\ w.same_index = (old.index = new.index)
  BY DEF Witness
<1> HIDE DEF a
<1>5. w.slots = [i \in Slots |-> WitnessSlot(t, t.asset, i)] BY <1>1, <1>2
<1>6. \A i \in Slots : w.slots[i] = WitnessSlot(t, t.asset, i) BY <1>5
<1> QED BY <1>1, <1>2, <1>3, <1>4, <1>6

\* The circuit derives, slot by slot, what the builder hashed.
LEMMA HashesAgree ==
    ASSUME NEW t, Ready(t), NEW w, w = Witness(t)
    PROVE  DerivedTxHash(w) = t.hash
<1>1. PICK r \in Nat, k \in Nat, m \in Nat : Counts(t, r, k, m) BY ReadyCounts
<1>2. /\ w.accin = t.accin /\ w.accout = t.accout
      /\ \A i \in Slots : w.slots[i] = WitnessSlot(t, t.asset, i)
  BY WitnessParts
<1>3. /\ \A i \in 1 .. r : t.rejected_paths[i].pos = t.rejected[i].pos
      /\ \A i \in 1 .. k : t.inote_paths[i].pos = t.inotes[i].pos
  BY <1>1, ReadyPaths
<1>4. ASSUME NEW i \in Slots
      PROVE  /\ (IF w.slots[i].iactive THEN NoteNullifier(w.slots[i].inote, w.slots[i].ipos, w.accin.id)
                 ELSE DummyHash(w.slots[i].dinote)) = BuiltNullifier(t, i)
             /\ (IF w.slots[i].oactive THEN NoteCommitment(w.slots[i].onote)
                 ELSE DummyHash(w.slots[i].donote)) = BuiltCommitment(t, i)
  <2>1. i \in Nat /\ i # 0 BY DEF Slots
  <2>2. w.slots[i] = WitnessSlot(t, t.asset, i) BY <1>2
  <2> DEFINE s == w.slots[i]
  <2>3. /\ i <= r => s.iactive /\ s.ipos = t.rejected_paths[i].pos /\ s.inote = t.rejected[i].note
        /\ i > r /\ i <= r + k =>
             s.iactive /\ s.ipos = t.inote_paths[i - r].pos /\ s.inote = t.inotes[i - r].note
        /\ i > r + k => ~s.iactive /\ s.dinote = t.dinotes[(i - r) - k]
    <3>1. SlotInput(t, t.asset, s, i, r, k) BY <1>1, <2>1, <2>2, InputSide
    <3> QED BY <3>1 DEF SlotInput
  <2>4. /\ i <= r => s.oactive /\ s.onote = Returned(t.rejected[i].note)
        /\ i > r /\ i <= r + m => s.oactive /\ s.onote = t.onotes[i - r]
        /\ i > r + m => ~s.oactive /\ s.donote = t.donotes[(i - r) - m]
    <3>1. SlotOutput(t, t.asset, s, i, r, m) BY <1>1, <2>1, <2>2, OutputSide
    <3> QED BY <3>1 DEF SlotOutput
  <2>5. /\ i <= r => /\ BuiltNullifier(t, i) = NoteNullifier(t.rejected[i].note, t.rejected[i].pos, t.accin.id)
                     /\ BuiltCommitment(t, i) = NoteCommitment(Returned(t.rejected[i].note))
        /\ i > r /\ i <= r + k =>
             BuiltNullifier(t, i) = NoteNullifier(t.inotes[i - r].note, t.inotes[i - r].pos, t.accin.id)
        /\ i > r + k => BuiltNullifier(t, i) = DummyHash(t.dinotes[(i - r) - k])
        /\ i > r /\ i <= r + m => BuiltCommitment(t, i) = NoteCommitment(t.onotes[i - r])
        /\ i > r + m => BuiltCommitment(t, i) = DummyHash(t.donotes[(i - r) - m])
    <3>1. SlotBuilt(t, i, r, k, m) BY <1>1, <2>1, BuiltSlot
    <3> QED BY <3>1 DEF SlotBuilt
  <2>6. /\ i <= r => i \in 1 .. r
        /\ i > r /\ i <= r + k => i - r \in 1 .. k
        /\ i <= r \/ (i > r /\ i <= r + k) \/ i > r + k
        /\ i <= r \/ (i > r /\ i <= r + m) \/ i > r + m
    BY <2>1
  <2> HIDE DEF s
  <2>7. (IF s.iactive THEN NoteNullifier(s.inote, s.ipos, w.accin.id) ELSE DummyHash(s.dinote)) = BuiltNullifier(t, i)
    BY <1>2, <1>3, <2>3, <2>5, <2>6
  <2>8. (IF s.oactive THEN NoteCommitment(s.onote) ELSE DummyHash(s.donote)) = BuiltCommitment(t, i)
    BY <2>4, <2>5, <2>6
  <2> QED BY <2>7, <2>8 DEF s
<1>5. /\ EffectiveNullifiers(w) = [i \in Slots |-> BuiltNullifier(t, i)]
      /\ EffectiveCommitments(w) = [i \in Slots |-> BuiltCommitment(t, i)]
  BY <1>4 DEF EffectiveNullifiers, EffectiveCommitments
<1>6. t.hash = HashAsBuilt(t, t.accout) BY DEF Ready, AgreeTx, AgreeBuilt
<1> QED BY <1>2, <1>5, <1>6 DEF DerivedTxHash, HashAsBuilt

\* The accounts of a ready transaction meet the circuit's assertions about them.
LEMMA AccountsAgree ==
    ASSUME NEW t, Ready(t), NEW w, w = Witness(t)
    PROVE  /\ w.flags.is_fresh_acc => FreshAccountDefaults(w.accin)
           /\ AccountInvariants(w.accin, w.accout, w.flags)
           /\ AccountInTree(w) /\ SubpoolFullProof(w)
<1>1. /\ w.accin = t.accin /\ w.accout = t.accout
      /\ w.approval_key = t.approval_key /\ w.config_root = t.approval_key
      /\ t.kind = "spend" => w.flags = SPEND /\ w.accin_path = t.accin_path /\ w.state_root = t.accin_path.root
      /\ t.kind = "fresh" => w.flags = FRESH_ACC
  BY WitnessParts
<1>2. TxOK(t) /\ Owned(t.accin) /\ AgreeTx(t) /\ AgreeBuilt(t) BY DEF Ready, TxOK, AgreeTx
<1>3. SubpoolFullProof(w) BY <1>1 DEF SubpoolFullProof
<1>4. CASE t.kind = "spend"
  <2>1. ~SPEND.is_fresh_acc /\ SPEND.is_priv_tx /\ SPEND.not_fake_tx BY DEF SPEND
  <2>2. AgreeSpend(t) BY <1>2, <1>4 DEF AgreeBuilt
  <2>3. /\ t.accout.id = t.accin.id /\ t.accout.subpool = t.accin.subpool /\ t.accout.nonce = t.accin.nonce + 1
        /\ t.accout.spend_pk = t.accin.spend_pk /\ t.accout.consume = t.accin.consume
    BY <1>2, <2>2 DEF AgreeSpend, Owned, clone_with_incremented_nonce
  <2>4. AccountInvariants(w.accin, w.accout, w.flags) BY <1>1, <1>4, <2>1, <2>3 DEF AccountInvariants
  <2>5. t.accin_path.leaf = Commitment(t.accin)
    BY <1>2, <1>4 DEF AgreeTx, AgreePaths, Ready, IntoPrivTxSucceeds
  <2>6. AccountInTree(w) BY <1>1, <1>4, <2>5 DEF AccountInTree, Opens
  <2> QED BY <1>1, <1>3, <1>4, <2>1, <2>4, <2>6
<1>5. CASE t.kind = "fresh"
  <2>1. FRESH_ACC.is_fresh_acc /\ ~FRESH_ACC.is_priv_tx BY DEF FRESH_ACC
  <2>2. AgreeFresh(t) /\ t.accin = NewAccount(Me, Subpool) BY <1>2, <1>5 DEF AgreeBuilt, AgreeTx
  <2>3. /\ t.accout.id = t.accin.id /\ t.accout.subpool = t.accin.subpool /\ t.accout.nonce = t.accin.nonce + 1
        /\ t.accout.ast = t.accin.ast
    BY <1>2, <2>2 DEF AgreeFresh, Owned, clone_with_incremented_nonce
  <2>4. AccountInvariants(w.accin, w.accout, w.flags) BY <1>1, <1>5, <2>1, <2>3 DEF AccountInvariants
  <2>5. FreshAccountDefaults(w.accin)
    BY <1>1, <2>2 DEF FreshAccountDefaults, NewAccount, DelegatedConsume, pk_or_default
  <2>6. AccountInTree(w) BY <1>1, <1>5, <2>1 DEF AccountInTree
  <2> QED BY <1>3, <2>4, <2>5, <2>6
<1> QED BY <1>2, <1>4, <1>5 DEF TxOK

\* The amounts of a ready transaction are naturals, and the new balance is what is left.
LEMMA ReadyAmounts ==
    ASSUME NEW t, Ready(t)
    PROVE  /\ Amounts(InputsOf(t)) \in Nat /\ Amounts(RejectedOf(t)) \in Nat /\ Amounts(t.onotes) \in Nat
           /\ AmountOrNext(t.accin.ast, t.asset).amount \in Nat
           /\ t.kind = "spend" => Balanced(t) - Amounts(t.onotes) \in Nat
<1>1. TxOK(t) /\ NotesInv BY DEF Ready
<1>2. Amounts(InputsOf(t)) \in Nat /\ Amounts(RejectedOf(t)) \in Nat
  BY <1>1, PickedAmounts, AmountsSum DEF TxOK, InputsOf, RejectedOf
<1>3. Amounts(t.onotes) \in Nat BY <1>1, AmountsSum DEF TxOK
<1>4. AmountOrNext(t.accin.ast, t.asset).amount \in Nat BY <1>1 DEF TxOK, Owned, AstOK, Entry, AmountOrNext
<1>5. ASSUME t.kind = "spend" PROVE Balanced(t) - Amounts(t.onotes) \in Nat
  <2>1. Balanced(t) \in Nat BY <1>2, <1>4 DEF Balanced
  <2>2. Amounts(t.onotes) <= Balanced(t) BY <1>5 DEF Ready, AgreeTx, AgreeBuilt, AgreeSpend
  <2> QED BY <1>3, <2>1, <2>2
<1> QED BY <1>2, <1>3, <1>4, <1>5

\* The tree update the circuit checks is the one the builder made.
LEMMA TreesAgree ==
    ASSUME NEW t, Ready(t), NEW w, w = Witness(t)
    PROVE  /\ w.same_index /\ AstUpdate(w)
           /\ w.accin_amt = AmountOrNext(t.accin.ast, t.asset).amount
           /\ t.kind = "spend" => w.accout_amt = Balanced(t) - Amounts(t.onotes)
           /\ t.kind = "fresh" => w.accout_amt = w.accin_amt
<1> DEFINE u == t.accin.ast
           v == t.accout.ast
           old == AmountOrNext(u, t.asset)
           new == AmountOrNext(v, t.asset)
<1>1. /\ w.asset = t.asset /\ w.accin.ast = u /\ w.accout.ast = v
      /\ w.ast_index = old.index /\ w.accin_amt = old.amount /\ w.accout_amt = new.amount
      /\ w.exists_in = old.exists /\ w.exists_out = new.exists
      /\ w.same_index = (old.index = new.index)
  BY WitnessParts
<1>2. TxOK(t) /\ Owned(t.accin) /\ AgreeTx(t) /\ AgreeBuilt(t) BY DEF Ready, TxOK, AgreeTx
<1>3. AstOK(u) /\ Len(u.leaves) <= 2^AstDepth BY <1>2 DEF AgreeTx, Fits
<1>4. CASE t.kind = "spend"
  <2> DEFINE amount == Balanced(t) - Amounts(t.onotes)
  <2>1. AgreeSpend(t) /\ amount \in Nat BY <1>2, <1>4, ReadyAmounts DEF AgreeBuilt
  <2> HIDE DEF amount
  <2>2. v = insert_or_update_asset(u, t.asset, amount)
    BY <1>2, <2>1 DEF AgreeSpend, Owned, clone_with_incremented_nonce, amount
  <2>3. CanInsertOrUpdate(u, t.asset) BY <2>1 DEF AgreeSpend
  <2>4. new.amount = amount BY <1>3, <2>1, <2>2, InsertOrUpdateOK
  <2>5. LET o == AmountOrNext(u, t.asset)
            r == insert_or_update_asset(u, t.asset, amount)
        IN  /\ [AstRoot(u) EXCEPT ![o.index] = IF o.exists THEN Leaf(t.asset, o.amount) ELSE DefaultLeaf] = AstRoot(u)
            /\ ~o.exists => o.amount = 0
            /\ [AstRoot(u) EXCEPT ![o.index] = Leaf(t.asset, amount)] = AstRoot(r)
            /\ AmountOrNext(r, t.asset).index = o.index /\ AmountOrNext(r, t.asset).exists = TRUE
            /\ Len(r.leaves) <= 2^AstDepth
    BY <1>3, <2>1, <2>3, InsertOrUpdateRoot, Zenon
  <2>6. /\ [AstRoot(u) EXCEPT ![old.index] = IF old.exists THEN Leaf(t.asset, old.amount) ELSE DefaultLeaf] = AstRoot(u)
        /\ ~old.exists => old.amount = 0
        /\ [AstRoot(u) EXCEPT ![old.index] = Leaf(t.asset, amount)] = AstRoot(v)
        /\ new.index = old.index /\ new.exists = TRUE
    BY <2>2, <2>5, Zenon
  <2> HIDE DEF old, new, u, v
  <2>7. AssetInAst(t.asset, old.amount, AstRoot(u), old.index, AstRoot(u), old.exists)
    BY <2>6, Zenon DEF AssetInAst
  <2>8. AssetInAst(t.asset, new.amount, AstRoot(u), old.index, AstRoot(v), new.exists)
    BY <2>4, <2>6 DEF AssetInAst
  <2>9. AstUpdate(w) BY <1>1, <2>7, <2>8 DEF AstUpdate, AstUpdateRoots
  <2> QED BY <1>1, <1>4, <2>4, <2>6, <2>9 DEF amount, old, u
<1>5. CASE t.kind = "fresh"
  <2>1. AgreeFresh(t) /\ t.accin = NewAccount(Me, Subpool) /\ t.asset = DefaultAsset
    BY <1>2, <1>5 DEF AgreeBuilt, AgreeTx
  <2>2. u = NewAst /\ v = NewAst
    BY <1>2, <2>1 DEF AgreeFresh, Owned, clone_with_incremented_nonce, NewAccount
  <2>3. old.index = 0 /\ old.amount = 0 /\ old.exists = TRUE /\ new = old
    BY <2>1, <2>2, NewAstOK, NewAstRoot DEF AmountOrNext
  <2>4. ASSUME NEW r, r = AstRoot(NewAst), NEW x, x = TRUE PROVE AssetInAst(DefaultAsset, 0, r, 0, r, x)
    BY <2>4, NewAstUpdate DEF AssetInAst
  <2> HIDE DEF old, new, u, v
  <2>5. /\ w.asset = DefaultAsset /\ w.accin.ast = NewAst /\ w.accout.ast = NewAst /\ w.ast_index = 0
        /\ w.accin_amt = 0 /\ w.accout_amt = 0 /\ w.exists_in = TRUE /\ w.exists_out = TRUE
    BY <1>1, <2>1, <2>2, <2>3
  <2>6. AstUpdate(w) BY <2>4, <2>5 DEF AstUpdate, AstUpdateRoots
  <2> QED BY <1>1, <1>5, <2>3, <2>6 DEF old, u
<1> QED BY <1>2, <1>4, <1>5 DEF TxOK

\* The notes of the slots: a rejected note goes back as it came, and the paths are all that
\* can be wrong with what is consumed.
LEMMA NotesAgree ==
    ASSUME NEW t, Ready(t), NoteCountsFit(t), NEW w, w = Witness(t)
    PROVE  RejectPairs(w) /\ (InputNotesValid(w) <=> ~PathsDiffer(t))
<1>1. PICK r \in Nat, k \in Nat, m \in Nat : Counts(t, r, k, m) BY ReadyCounts
<1>2. /\ w.accin = t.accin /\ w.asset = t.asset
      /\ \A i \in Slots : w.slots[i] = WitnessSlot(t, t.asset, i)
      /\ t.kind = "spend" => w.state_root = t.accin_path.root
  BY WitnessParts
<1>3. r + k < NoteBatch /\ NoteBatch \in Nat BY <1>1, NoteBatchAssumption DEF NoteCountsFit, Counts
<1>4. /\ \A i \in 1 .. r : t.rejected_paths[i].leaf = NoteCommitment(t.rejected[i].note)
      /\ \A i \in 1 .. k : t.inote_paths[i].leaf = NoteCommitment(t.inotes[i].note)
  BY <1>1, ReadyPaths
<1>5. /\ \A i \in 1 .. r : OfTx(t, t.rejected[i].note) /\ "recipient" \in DOMAIN t.rejected[i].note
      /\ \A i \in 1 .. k : OfTx(t, t.inotes[i].note)
      /\ \A i \in 1 .. m : t.onotes[i].asset = t.asset
  BY <1>1 DEF Ready, AgreeTx, AgreeNotes, TxOK, Picked, NoteRecords, Counts
<1>6. DOMAIN t.rejected = 1 .. r /\ DOMAIN t.inotes = 1 .. k BY <1>1 DEF Ready, TxOK, Picked, IsSeq, Counts
<1>7. ASSUME NEW n, "recipient" \in DOMAIN n
      PROVE  /\ Returned(n).id = n.id /\ Returned(n).amt = n.amt /\ Returned(n).asset = n.asset
             /\ Returned(n).recipient = n.sender /\ Returned(n).sender = n.sender
  BY <1>7 DEF Returned
<1>8. ASSUME NEW i \in Slots, NEW s, s = w.slots[i]
      PROVE  /\ i \in Nat /\ i # 0
             /\ i <= r => /\ s.rjct /\ s.iactive /\ s.ipath = t.rejected_paths[i]
                          /\ s.inote = t.rejected[i].note /\ s.onote = Returned(t.rejected[i].note)
             /\ i > r => ~s.rjct
             /\ i > r /\ i <= r + k => s.iactive /\ s.ipath = t.inote_paths[i - r] /\ s.inote = t.inotes[i - r].note
             /\ i > r + k => ~s.iactive /\ s.inote = DummyInote(t.asset, Address(t.accin))
             /\ i > r /\ i <= r + m => s.onote = t.onotes[i - r]
             /\ i > r + m => s.onote = DummyOnote(t.asset)
  <2>1. i \in Nat /\ i # 0 BY DEF Slots
  <2>2. s = WitnessSlot(t, t.asset, i) BY <1>2, <1>8
  <2>3. /\ i <= r => s.rjct /\ s.iactive /\ s.ipath = t.rejected_paths[i] /\ s.inote = t.rejected[i].note
        /\ i > r => ~s.rjct
        /\ i > r /\ i <= r + k => s.iactive /\ s.ipath = t.inote_paths[i - r] /\ s.inote = t.inotes[i - r].note
        /\ i > r + k => ~s.iactive /\ s.inote = DummyInote(t.asset, Address(t.accin))
    <3>1. SlotInput(t, t.asset, s, i, r, k) BY <1>1, <2>1, <2>2, InputSide
    <3> QED BY <3>1 DEF SlotInput
  <2>4. /\ i <= r => s.oactive /\ s.onote = Returned(t.rejected[i].note)
        /\ i > r /\ i <= r + m => s.oactive /\ s.onote = t.onotes[i - r]
        /\ i > r + m => ~s.oactive /\ s.onote = DummyOnote(t.asset) /\ s.donote = t.donotes[(i - r) - m]
    <3>1. SlotOutput(t, t.asset, s, i, r, m) BY <1>1, <2>1, <2>2, OutputSide
    <3> QED BY <3>1 DEF SlotOutput
  <2> QED BY <2>1, <2>3, <2>4
<1>9. \A i \in Nat : i # 0 =>
        /\ i <= r => i \in 1 .. r
        /\ i > r /\ i <= r + k => i - r \in 1 .. k
        /\ i > r /\ i <= r + m => i - r \in 1 .. m
        /\ i <= r \/ (i > r /\ i <= r + k) \/ i > r + k
        /\ i <= r \/ (i > r /\ i <= r + m) \/ i > r + m
        /\ i <= r \/ i > r
  OBVIOUS
<1>10. ASSUME NEW i \in Slots
       PROVE  /\ w.slots[i].inote.asset = t.asset /\ w.slots[i].onote.asset = t.asset
              /\ w.slots[i].inote.recipient = Address(t.accin)
  <2> DEFINE s == w.slots[i]
  <2>1. s = w.slots[i] OBVIOUS
  <2> HIDE DEF s
  <2>2. DummyInote(t.asset, Address(t.accin)).asset = t.asset
        /\ DummyInote(t.asset, Address(t.accin)).recipient = Address(t.accin) /\ DummyOnote(t.asset).asset = t.asset
    BY DEF DummyInote, DummyOnote, Note
  <2>3. s.inote.asset = t.asset /\ s.inote.recipient = Address(t.accin)
    BY <1>5, <1>8, <1>9, <2>1, <2>2 DEF OfTx
  <2>4. s.onote.asset = t.asset
    BY <1>5, <1>7, <1>8, <1>9, <2>1, <2>2 DEF OfTx
  <2> QED BY <2>1, <2>3, <2>4
<1>11. RejectPairs(w)
  <2> SUFFICES ASSUME NEW i \in Slots, w.slots[i].rjct
               PROVE  LET n == w.slots[i].inote
                          o == w.slots[i].onote
                      IN  /\ w.slots[i].iactive
                          /\ n.id = o.id /\ n.amt = o.amt /\ n.asset = o.asset
                          /\ o.recipient = n.sender /\ o.sender = n.sender
    BY DEF RejectPairs
  <2>1. i \in 1 .. r /\ i <= r BY <1>8, <1>9
  <2>2. /\ w.slots[i].iactive /\ w.slots[i].inote = t.rejected[i].note
        /\ w.slots[i].onote = Returned(t.rejected[i].note)
    BY <1>8, <2>1
  <2> QED BY <1>5, <1>7, <2>1, <2>2
<1>12. InputNotesValid(w) <=> \A i \in Slots : w.slots[i].iactive =>
                                 Opens(w.slots[i].ipath, NoteCommitment(w.slots[i].inote), w.state_root)
  BY <1>2, <1>10 DEF InputNotesValid
<1>13. ASSUME NEW i \in 1 .. r
       PROVE  /\ i \in Slots /\ w.slots[i].iactive
              /\ Opens(w.slots[i].ipath, NoteCommitment(w.slots[i].inote), w.state_root)
                   <=> t.rejected_paths[i].root = w.state_root
  <2>1. i \in Slots /\ i <= r BY <1>3 DEF Slots
  <2>2. w.slots[i].iactive /\ w.slots[i].ipath = t.rejected_paths[i] /\ w.slots[i].inote = t.rejected[i].note
    BY <1>8, <2>1
  <2> QED BY <1>4, <2>1, <2>2 DEF Opens
<1>14. ASSUME NEW j \in 1 .. k
       PROVE  /\ j + r \in Slots /\ w.slots[j + r].iactive
              /\ Opens(w.slots[j + r].ipath, NoteCommitment(w.slots[j + r].inote), w.state_root)
                   <=> t.inote_paths[j].root = w.state_root
  <2>1. j + r \in Slots /\ j + r > r /\ j + r <= r + k /\ (j + r) - r = j BY <1>3 DEF Slots
  <2>2. /\ w.slots[j + r].iactive /\ w.slots[j + r].ipath = t.inote_paths[j]
        /\ w.slots[j + r].inote = t.inotes[j].note
    BY <1>8, <2>1
  <2> QED BY <1>4, <2>1, <2>2 DEF Opens
<1>15. ASSUME NEW i \in Slots, w.slots[i].iactive
       PROVE  i \in 1 .. r \/ (i - r \in 1 .. k /\ (i - r) + r = i)
  <2>1. i \in Nat /\ i # 0 /\ ~(i > r + k) BY <1>8, <1>15
  <2> QED BY <2>1
<1>16. InputNotesValid(w) <=> /\ \A i \in 1 .. r : t.rejected_paths[i].root = w.state_root
                              /\ \A i \in 1 .. k : t.inote_paths[i].root = w.state_root
  BY <1>12, <1>13, <1>14, <1>15
<1>17. CASE t.kind = "spend" BY <1>2, <1>6, <1>11, <1>16, <1>17 DEF PathsDiffer
<1>18. CASE t.kind = "fresh"
  <2>1. r = 0 /\ k = 0 BY <1>1, <1>18 DEF Ready, TxOK, Counts
  <2> QED BY <1>11, <1>16, <1>18, <2>1 DEF PathsDiffer
<1> QED BY <1>17, <1>18 DEF Ready, TxOK

\* What comes in and what goes out balance: the rejected notes are on both sides.
LEMMA BalanceAgrees ==
    ASSUME NEW t, Ready(t), NoteCountsFit(t), NEW w, w = Witness(t)
    PROVE  BalanceInvariant(w)
<1>1. PICK r \in Nat, k \in Nat, m \in Nat : Counts(t, r, k, m) BY ReadyCounts
<1>2. \A i \in Slots : w.slots[i] = WitnessSlot(t, t.asset, i) BY WitnessParts
<1>2s. ASSUME NEW i \in Slots
       PROVE  i \in Nat /\ SlotInput(t, t.asset, w.slots[i], i, r, k) /\ SlotOutput(t, t.asset, w.slots[i], i, r, m)
  <2>1. i \in Nat /\ w.slots[i] = WitnessSlot(t, t.asset, i) BY <1>2 DEF Slots
  <2> QED BY <1>1, <2>1, InputSide, OutputSide
<1>3. r + k <= NoteBatch /\ r + m <= NoteBatch /\ NoteBatch \in Nat
  <2>1. r + k < NoteBatch /\ r + m < NoteBatch BY <1>1 DEF NoteCountsFit, Counts
  <2> QED BY <2>1, NoteBatchAssumption
<1> DEFINE f == [i \in Slots |-> IF w.slots[i].iactive THEN w.slots[i].inote.amt ELSE 0]
           g == [i \in Slots |-> IF w.slots[i].oactive THEN w.slots[i].onote.amt ELSE 0]
           x == [i \in 1 .. r |-> RejectedOf(t)[i].amt]
           y == [i \in 1 .. k |-> InputsOf(t)[i].amt]
           z == [i \in 1 .. m |-> t.onotes[i].amt]
<1>4. TxOK(t) /\ NotesInv BY DEF Ready
<1>5. /\ Amounted(RejectedOf(t)) /\ Len(RejectedOf(t)) = r /\ Amounted(InputsOf(t)) /\ Len(InputsOf(t)) = k
      /\ DOMAIN t.rejected = 1 .. r /\ DOMAIN t.inotes = 1 .. k
  <2>1. /\ Amounted(RejectedOf(t)) /\ Len(RejectedOf(t)) = r /\ Amounted(InputsOf(t)) /\ Len(InputsOf(t)) = k
    BY <1>1, <1>4, PickedAmounts DEF RejectedOf, InputsOf, Counts, TxOK
  <2> QED BY <1>1, <1>4, <2>1 DEF TxOK, Picked, IsSeq, Counts
<1>6. Amounted(t.onotes) /\ Len(t.onotes) = m BY <1>1, <1>4 DEF TxOK, Counts
<1>7. /\ Amounts(RejectedOf(t)) = SumFunctionOnSet(x, 1 .. r)
      /\ Amounts(InputsOf(t)) = SumFunctionOnSet(y, 1 .. k)
      /\ Amounts(t.onotes) = SumFunctionOnSet(z, 1 .. m)
  BY <1>5, <1>6, AmountsSum
<1>8. /\ \A i \in 1 .. r : i \in Slots /\ i \in Nat /\ i <= r
      /\ \A i \in 1 .. k : i + r \in Slots /\ i + r \in Nat /\ i + r > r /\ i + r <= r + k /\ (i + r) - r = i
      /\ \A i \in 1 .. m : i + r \in Slots /\ i + r \in Nat /\ i + r > r /\ i + r <= r + m /\ (i + r) - r = i
      /\ \A i \in 1 .. NoteBatch : i \in Slots /\ i \in Nat
  BY <1>3 DEF Slots
<1>9. ASSUME NEW i \in 1 .. r PROVE f[i] = x[i] /\ x[i] \in Nat /\ g[i] = x[i]
  <2>1. i \in Slots /\ i \in Nat /\ i <= r /\ w.slots[i] = WitnessSlot(t, t.asset, i) BY <1>2, <1>8
  <2>2. w.slots[i].iactive /\ w.slots[i].inote = t.rejected[i].note BY <1>2s, <2>1 DEF SlotInput, SlotOutput
  <2>3. w.slots[i].oactive /\ w.slots[i].onote = Returned(t.rejected[i].note) BY <1>2s, <2>1 DEF SlotInput, SlotOutput
  <2>4. x[i] = t.rejected[i].note.amt /\ x[i] \in Nat BY <1>5 DEF RejectedOf, Amounted
  <2>5. Returned(t.rejected[i].note).amt = t.rejected[i].note.amt BY DEF Returned
  <2> QED BY <2>1, <2>2, <2>3, <2>4, <2>5
<1>10. ASSUME NEW i \in 1 .. k PROVE f[i + r] = y[i] /\ y[i] \in Nat
  <2>1. /\ i + r \in Slots /\ i + r \in Nat /\ i + r > r /\ i + r <= r + k /\ (i + r) - r = i
        /\ w.slots[i + r] = WitnessSlot(t, t.asset, i + r)
    BY <1>2, <1>8
  <2>2. w.slots[i + r].iactive /\ w.slots[i + r].inote = t.inotes[(i + r) - r].note BY <1>2s, <2>1 DEF SlotInput, SlotOutput
  <2>3. y[i] = t.inotes[i].note.amt /\ y[i] \in Nat BY <1>5 DEF InputsOf, Amounted
  <2> QED BY <2>1, <2>2, <2>3
<1>11. ASSUME NEW i \in 1 .. m PROVE g[i + r] = z[i] /\ z[i] \in Nat
  <2>1. /\ i + r \in Slots /\ i + r \in Nat /\ i + r > r /\ i + r <= r + m /\ (i + r) - r = i
        /\ w.slots[i + r] = WitnessSlot(t, t.asset, i + r)
    BY <1>2, <1>8
  <2>2. w.slots[i + r].oactive /\ w.slots[i + r].onote = t.onotes[(i + r) - r] BY <1>2s, <2>1 DEF SlotInput, SlotOutput
  <2>3. z[i] = t.onotes[i].amt /\ z[i] \in Nat BY <1>6 DEF Amounted
  <2> QED BY <2>1, <2>2, <2>3
<1>12. ASSUME NEW i \in 1 .. NoteBatch PROVE (i > r + k => f[i] = 0) /\ (i > r + m => g[i] = 0)
  <2>1. i \in Slots /\ i \in Nat /\ w.slots[i] = WitnessSlot(t, t.asset, i) BY <1>2, <1>8
  <2>2. i > r + k => ~w.slots[i].iactive BY <1>2s, <2>1 DEF SlotInput, SlotOutput
  <2>3. i > r + m => ~w.slots[i].oactive BY <1>2s, <2>1 DEF SlotInput, SlotOutput
  <2> QED BY <2>1, <2>2, <2>3
<1>13. SumFunction(f) = SumFunctionOnSet(f, 1 .. NoteBatch) /\ SumFunction(g) = SumFunctionOnSet(g, 1 .. NoteBatch)
  BY DEF SumFunction, Slots
<1> HIDE DEF x, y, z
<1>14. BalanceInvariant(w) <=> U256Sum(w.accin_amt, f) = U256Sum(w.accout_amt, g) BY DEF BalanceInvariant
<1> HIDE DEF f, g
<1>15. SumFunctionOnSet(f, 1 .. NoteBatch) = SumFunctionOnSet(x, 1 .. r) + SumFunctionOnSet(y, 1 .. k)
  BY <1>3, <1>9, <1>10, <1>12, TwoLists
<1>16. SumFunctionOnSet(g, 1 .. NoteBatch) = SumFunctionOnSet(x, 1 .. r) + SumFunctionOnSet(z, 1 .. m)
  BY <1>3, <1>9, <1>11, <1>12, TwoLists
<1> DEFINE R == Amounts(RejectedOf(t))
           I == Amounts(InputsOf(t))
           O == Amounts(t.onotes)
           old == AmountOrNext(t.accin.ast, t.asset).amount
<1>17. SumFunction(f) = R + I /\ SumFunction(g) = R + O BY <1>7, <1>13, <1>15, <1>16
<1>18. R \in Nat /\ I \in Nat /\ O \in Nat /\ old \in Nat /\ (t.kind = "spend" => Balanced(t) - O \in Nat)
  BY ReadyAmounts
<1>19. /\ w.accin_amt = old
       /\ t.kind = "spend" => w.accout_amt = Balanced(t) - O
       /\ t.kind = "fresh" => w.accout_amt = w.accin_amt
  BY TreesAgree
<1>20. Balanced(t) = old + I BY DEF Balanced
<1>21. t.kind = "fresh" => I = O
  <2> SUFFICES ASSUME t.kind = "fresh" PROVE I = O OBVIOUS
  <2>1. t.inotes = <<>> /\ t.onotes = <<>> BY <1>4 DEF TxOK
  <2>2. InputsOf(t) = <<>> BY <2>1 DEF InputsOf
  <2> QED BY <2>1, <2>2
<1> HIDE DEF R, I, O, old
<1>22. w.accin_amt + SumFunction(f) = w.accout_amt + SumFunction(g)
  <2>1. CASE t.kind = "spend"
    <3>1. w.accout_amt = (old + I) - O BY <1>19, <1>20, <2>1
    <3>2. old + (R + I) = ((old + I) - O) + (R + O) BY <1>18
    <3> QED BY <1>17, <1>19, <3>1, <3>2
  <2>2. CASE t.kind = "fresh" BY <1>17, <1>19, <1>21, <2>2
  <2> QED BY <2>1, <2>2, <1>4 DEF TxOK
<1> QED BY <1>14, <1>22 DEF U256Sum

\* The signatures the circuit asks for are those the transaction needs, and one that was
\* made verifies, unless it is the operator's and of another key.
LEMMA SignaturesAgree ==
    ASSUME NEW t, Ready(t), NoteCountsFit(t), NEW w, w = Witness(t)
    PROVE  TxSignatures(w) <=> ~SignatureMissing(t)
<1>1. PICK r \in Nat, k \in Nat, m \in Nat : Counts(t, r, k, m) BY ReadyCounts
<1>2. /\ w.accin = t.accin /\ \A i \in Slots : w.slots[i] = WitnessSlot(t, t.asset, i)
      /\ w.approval_key = t.approval_key
      /\ w.spend_sig = t.spend_sig /\ w.consume_sig = t.consume_sig /\ w.approval_sig = t.approval_sig
      /\ t.kind = "spend" => w.flags = SPEND
      /\ t.kind = "fresh" => w.flags = FRESH_ACC
  BY WitnessParts
<1>3. r + k < NoteBatch /\ r + m < NoteBatch /\ NoteBatch \in Nat
  <2>1. r + k < NoteBatch /\ r + m < NoteBatch BY <1>1 DEF NoteCountsFit, Counts
  <2> QED BY <2>1, NoteBatchAssumption
<1>4. TxOK(t) /\ SigsOK(t) /\ AgreeSigs(t) BY DEF Ready, TxOK, AgreeTx
<1>5. (t.onotes = <<>> <=> m = 0) /\ (t.inotes = <<>> <=> k = 0) /\ (t.rejected = <<>> <=> r = 0)
  BY <1>1, <1>4, EmptyLen DEF TxOK, Picked, Amounted, Counts
<1>6. ASSUME NEW i \in Slots
      PROVE  /\ i \in Nat /\ i # 0
             /\ i <= r => w.slots[i].rjct /\ w.slots[i].iactive
             /\ i > r => ~w.slots[i].rjct
             /\ i > r /\ i <= r + k => w.slots[i].iactive
             /\ i > r + k => ~w.slots[i].iactive
             /\ i > r /\ i <= r + m => w.slots[i].oactive
             /\ i > r + m => ~w.slots[i].oactive
  <2>1. i \in Nat /\ i # 0 /\ w.slots[i] = WitnessSlot(t, t.asset, i) BY <1>2 DEF Slots
  <2> DEFINE s == w.slots[i]
  <2>2. /\ i <= r => /\ s.rjct /\ s.iactive /\ s.ipath = t.rejected_paths[i]
                     /\ s.ipos = t.rejected_paths[i].pos /\ s.inote = t.rejected[i].note
        /\ i > r => ~s.rjct
        /\ i > r /\ i <= r + k => /\ s.iactive /\ s.ipath = t.inote_paths[i - r]
                                  /\ s.ipos = t.inote_paths[i - r].pos /\ s.inote = t.inotes[i - r].note
        /\ i > r + k => /\ ~s.iactive /\ s.inote = DummyInote(t.asset, Address(t.accin))
                        /\ s.dinote = t.dinotes[(i - r) - k]
    <3>1. SlotInput(t, t.asset, s, i, r, k) BY <1>1, <2>1, InputSide
    <3> QED BY <3>1 DEF SlotInput
  <2>3. /\ i <= r => s.oactive /\ s.onote = Returned(t.rejected[i].note)
        /\ i > r /\ i <= r + m => s.oactive /\ s.onote = t.onotes[i - r]
        /\ i > r + m => ~s.oactive /\ s.onote = DummyOnote(t.asset) /\ s.donote = t.donotes[(i - r) - m]
    <3>1. SlotOutput(t, t.asset, s, i, r, m) BY <1>1, <2>1, OutputSide
    <3> QED BY <3>1 DEF SlotOutput
  <2> QED BY <2>1, <2>2, <2>3
<1>7. SpendRequired(w) <=> m # 0
  <2>1. ASSUME m # 0 PROVE SpendRequired(w)
    <3>1. r + 1 \in Slots /\ r + 1 > r /\ r + 1 <= r + m BY <1>3, <2>1 DEF Slots
    <3>2. w.slots[r + 1].oactive /\ ~w.slots[r + 1].rjct BY <1>6, <3>1
    <3> QED BY <3>1, <3>2 DEF SpendRequired
  <2>2. ASSUME m = 0, NEW i \in Slots, w.slots[i].oactive, ~w.slots[i].rjct PROVE FALSE
    <3>1. i \in Nat /\ ~(i <= r) /\ ~(i > r + m) BY <1>6, <2>2
    <3> QED BY <2>2, <3>1
  <2> QED BY <2>1, <2>2 DEF SpendRequired
<1>8. (\E i \in Slots : w.slots[i].iactive) <=> (k # 0 \/ r # 0)
  <2>1. ASSUME k # 0 \/ r # 0 PROVE \E i \in Slots : w.slots[i].iactive
    <3>1. 1 \in Slots /\ 1 \in Nat /\ (1 <= r \/ (1 > r /\ 1 <= r + k)) BY <1>3, <2>1 DEF Slots
    <3>2. w.slots[1].iactive BY <1>6, <3>1
    <3> QED BY <3>1, <3>2
  <2>2. ASSUME k = 0, r = 0, NEW i \in Slots, w.slots[i].iactive PROVE FALSE
    <3>1. i \in Nat /\ i # 0 /\ ~(i > r + k) BY <1>6, <2>2
    <3> QED BY <2>2, <3>1
  <2> QED BY <2>1, <2>2
<1>9. DerivedTxHash(w) = t.hash BY HashesAgree
<1>10. Verifies(w.spend_sig, pk_or_default(w.accin.spend_pk), t.hash) <=> t.spend_sig # None
  <2>1. ASSUME t.spend_sig # None
        PROVE  t.spend_sig.key = pk_or_default(t.accin.spend_pk) /\ t.spend_sig.msg = t.hash
    BY <1>4, <2>1, KeyAssumption DEF SigsOK, AgreeSigs, pk_or_default
  <2> QED BY <1>2, <2>1 DEF Verifies
<1>11. Verifies(w.consume_sig, pk_or_default(w.accin.consume.pk), t.hash) <=> t.consume_sig # None
  <2>1. ASSUME t.consume_sig # None
        PROVE  t.consume_sig.key = pk_or_default(t.accin.consume.pk) /\ t.consume_sig.msg = t.hash
    BY <1>4, <2>1, KeyAssumption DEF SigsOK, AgreeSigs, pk_or_default
  <2> QED BY <1>2, <2>1 DEF Verifies
<1>12. Verifies(w.approval_sig, w.approval_key, t.hash)
         <=> t.approval_sig # None /\ t.approval_sig.key = t.approval_key
  BY <1>2, <1>4 DEF Verifies, AgreeSigs
<1>13. w.flags.not_fake_tx BY <1>2, <1>4 DEF TxOK, SPEND, FRESH_ACC
<1>14. ConsumeRequired(w) <=> (k # 0 \/ r # 0) /\ m = 0 /\ t.accin.consume.config
  BY <1>2, <1>7, <1>8 DEF ConsumeRequired
<1>15. TxSignatures(w) <=> /\ m # 0 => t.spend_sig # None
                           /\ (k # 0 \/ r # 0) /\ m = 0 /\ t.accin.consume.config => t.consume_sig # None
                           /\ t.approval_sig # None /\ t.approval_sig.key = t.approval_key
  BY <1>7, <1>9, <1>10, <1>11, <1>12, <1>13, <1>14 DEF TxSignatures
<1>16. SignatureMissing(t) <=> \/ m # 0 /\ t.spend_sig = None
                               \/ m = 0 /\ (k # 0 \/ r # 0) /\ t.accin.consume.config /\ t.consume_sig = None
                               \/ t.approval_sig = None
                               \/ t.approval_sig # None /\ t.approval_sig.key # t.approval_key
  BY <1>5 DEF SignatureMissing
<1> QED BY <1>15, <1>16

\* Of a ready transaction, prove refuses the numbers of notes, the paths or the signatures,
\* and nothing else.
LEMMA ReadyProves ==
    ASSUME NEW t, Ready(t)
    PROVE  Proves(t) <=> ~(FullBatch(t) \/ FilledTooEarly(t) \/ PathsDiffer(t) \/ SignatureMissing(t))
<1>1. NoteCountsFit(t) <=> ~FullBatch(t) /\ ~FilledTooEarly(t)
  <2>1. PICK r \in Nat, k \in Nat, m \in Nat : Counts(t, r, k, m) BY ReadyCounts
  <2>2. r + k < NoteBatch <=> ~(r + k >= NoteBatch) BY NoteBatchAssumption
  <2>3. r + m < NoteBatch <=> ~(r + m >= NoteBatch) BY NoteBatchAssumption
  <2>4. FullBatch(t) <=> r + k >= NoteBatch \/ r + m >= NoteBatch BY <2>1 DEF FullBatch, Counts
  <2>5. (\A n \in {Len(t.inotes), Len(t.onotes)} : Len(t.rejected) + n < NoteBatch)
          <=> r + k < NoteBatch /\ r + m < NoteBatch
    BY <2>1 DEF Counts
  <2> QED BY <2>2, <2>3, <2>4, <2>5 DEF NoteCountsFit, FilledTooEarly
<1>2. CASE ~NoteCountsFit(t) BY <1>1, <1>2 DEF Proves
<1>3. CASE NoteCountsFit(t)
  <2> DEFINE w == Witness(t)
  <2>1. w = Witness(t) OBVIOUS
  <2> HIDE DEF w
  <2>2. /\ w.flags.is_fresh_acc => FreshAccountDefaults(w.accin)
        /\ AccountInvariants(w.accin, w.accout, w.flags)
        /\ AccountInTree(w) /\ SubpoolFullProof(w)
    BY <2>1, AccountsAgree
  <2>3. w.same_index /\ AstUpdate(w) BY <2>1, TreesAgree
  <2>4. RejectPairs(w) /\ (InputNotesValid(w) <=> ~PathsDiffer(t)) BY <1>3, <2>1, NotesAgree
  <2>5. BalanceInvariant(w) BY <1>3, <2>1, BalanceAgrees
  <2>6. TxSignatures(w) <=> ~SignatureMissing(t) BY <1>3, <2>1, SignaturesAgree
  <2>7. PrivTxCircuit(w) <=> ~PathsDiffer(t) /\ ~SignatureMissing(t)
    BY <2>2, <2>3, <2>4, <2>5, <2>6 DEF PrivTxCircuit
  <2> QED BY <1>1, <1>3, <2>1, <2>3, <2>7 DEF Proves
<1> QED BY <1>2, <1>3

\* Builders and circuit agree: a transaction that into_priv_tx lets through is refused by
\* prove exactly when its batch is full, its dummies were filled too early, its paths are of
\* different trees or a signature is missing or by an outdated key, whatever the batch size,
\* the number and the order of the notes and of the calls, and whatever lands in between.
THEOREM PrivCircuitAgrees == Spec => []ProvesUnlessExplained
<1>1. PrivInv /\ AgreeInv /\ NoteRecords => ProvesUnlessExplained
  <2> SUFFICES ASSUME PrivInv, AgreeInv, NoteRecords, Built, IntoPrivTxSucceeds(tx)
               PROVE  Proves(tx) <=> ~(FullBatch(tx) \/ FilledTooEarly(tx) \/ PathsDiffer(tx) \/ SignatureMissing(tx))
    BY DEF ProvesUnlessExplained
  <2>1. TxOK(tx) /\ AgreeTx(tx) /\ tx.stage = "built" BY InUse DEF Built
  <2>2. Ready(tx) BY <2>1 DEF Ready, PrivInv
  <2> QED BY <2>2, ReadyProves
<1> QED BY <1>1, PrivInvariant, AgreeInvariant, NoteRecordsInvariant, PTL
=============================================================================

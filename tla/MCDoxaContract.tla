-------------------------- MODULE MCDoxaContract ---------------------------
(***************************************************************************)
(* Batches and constants for model-checking DoxaContract.                  *)
(*   T1, T2: private batches that spend the same note k1.                  *)
(*   T3: touches the account B1 also spends; carries a padding slot whose  *)
(*       nullifier is T1's.                                                *)
(*   B1: credits deposit n1.   B2: credits n1 too, and n2.                 *)
(*   B3: withdraws one unit.   B4: withdraws two.                          *)
(***************************************************************************)
EXTENDS DoxaContract

TxSlot(real, acc, notes) == [notFakeTx |-> real, accinNull |-> acc, noteInNull |-> notes]
WSlot(real, acc, to, ids, amts) ==
    [notFakeTx |-> real, accinNull |-> acc, recipient |-> to, assetIds |-> ids, amounts |-> amts]
DSlot(real, acc, note, from, amt, id) ==
    [notFakeTx |-> real, accinNull |-> acc, noteComm |-> note, ethAddress |-> from,
     amount |-> amt, assetId |-> id]
Tx(r, slots) == [batchPoseidonRoot |-> r, slots |-> slots]
Bridge(r, ws, ds) == [batchPoseidonRoot |-> r, withdraws |-> ws, deposits |-> ds]

CONSTANTS u1, u2, n1, n2

T1 == Tx("T1", <<TxSlot(TRUE, "a1", {"k1"})>>)
T2 == Tx("T2", <<TxSlot(TRUE, "a2", {"k1", "k2"})>>)
T3 == Tx("T3", <<TxSlot(TRUE, "a3", {"k3"}), TxSlot(FALSE, "a1", {"k1"})>>)

B1 == Bridge("B1", <<>>, <<DSlot(TRUE, "a3", n1, u1, 2, 1)>>)
B2 == Bridge("B2", <<WSlot(FALSE, "a4", u1, <<1>>, <<2>>)>>,
                   <<DSlot(TRUE, "a5", n2, u1, 2, 1), DSlot(TRUE, "a4", n1, u1, 2, 1)>>)
B3 == Bridge("B3", <<WSlot(TRUE, "a6", u2, <<1, 0>>, <<1, 0>>)>>, <<>>)
B4 == Bridge("B4", <<WSlot(TRUE, "a1", u2, <<1, 1>>, <<1, 1>>)>>,
                   <<DSlot(FALSE, "a2", n2, u1, 2, 1)>>)

\* Bodies with asset ids wider than a limb: B5 credits account asset 5, whose low limb is 1, for
\* a deposit of asset 1; B6 names asset 5 for a deposit of asset 5; B7 and B8
\* withdraw asset 5 and asset 1.
B5 == Bridge("B5", <<>>, <<DSlot(TRUE, "a5", n1, u1, 2, 5)>>)
B6 == Bridge("B6", <<>>, <<DSlot(TRUE, "a6", n2, u1, 1, 5)>>)
B7 == Bridge("B7", <<WSlot(TRUE, "a7", u2, <<5>>, <<2>>)>>, <<>>)
B8 == Bridge("B8", <<WSlot(TRUE, "a8", u2, <<1>>, <<1>>)>>, <<>>)

NoBodies == {}
SpendTx == {T1, T2, T3}
SpendBridge == {B1, B4}
EscrowBridge == {B1, B2, B3, B4, B5, B6, B7, B8}
OneTx == {T1}
OneBridge == {B1}

MCBodies == TxBodies \cup BridgeBodies
ProvableAll == [v \in Verifiers |-> MCBodies]
\* The second verifier rejects everything.
ProvableFirst == [v \in Verifiers |-> IF v = CHOOSE w \in Verifiers : TRUE THEN MCBodies ELSE {}]
=============================================================================

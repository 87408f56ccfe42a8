----------------------------- MODULE MCStateSync ----------------------------
(***************************************************************************)
(* Batches and constants for model-checking StateSync.                     *)
(*   T1, T2: private batches with nothing in common.                       *)
(*   B1: credits deposit n1.                                               *)
(***************************************************************************)
EXTENDS StateSync

CONSTANTS u1, n1

Tx(r, acc, notes, outs) ==
    [batchPoseidonRoot |-> r, outputs |-> outs,
     slots |-> <<[notFakeTx |-> TRUE, accinNull |-> acc, noteInNull |-> notes]>>]

T1 == Tx("T1", "a1", {"k1"}, {"c1"})
T2 == Tx("T2", "a2", {"k2"}, {"c2"})
B1 == [batchPoseidonRoot |-> "B1", outputs |-> {"c4"}, withdraws |-> <<>>,
       deposits |-> <<[notFakeTx |-> TRUE, accinNull |-> "a4", noteComm |-> n1,
                       ethAddress |-> u1, amount |-> 2, assetId |-> 1]>>]

NoBodies == {}
OneTx == {T1}
TwoTx == {T1, T2}
OneBridge == {B1}
ProvableAll == [v \in Verifiers |-> TxBodies \cup BridgeBodies]

\* Phases of the sync task in which an RPC call may fail: all of them, or only those
\* before a batch of the window is confirmed.
AnyPhase == {"txSubs", "bridgeSubs", "collect", "proven", "config", "roots", "deposits"}
BeforeConfirm == {"txSubs", "bridgeSubs", "collect"}
=============================================================================

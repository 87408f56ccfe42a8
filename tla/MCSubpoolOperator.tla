------------------------- MODULE MCSubpoolOperator --------------------------
(***************************************************************************)
(* Requests for model-checking SubpoolOperator: addresses a and c in       *)
(* subpool p, b in subpool q.  Z is the default asset, and an account has  *)
(* room for one asset besides it.                                          *)
(*   D1 credits a; D2 reuses the signed transaction of D1; D3 names the    *)
(*   default asset.                                                        *)
(*   R1 sends one unit to b and one to a; R2 competes with it for the      *)
(*   state of a.  R3 lists b's note twice, states the wrong asset for it   *)
(*   and reuses an identifier subpool p knows.  R4 overflows.  R5 brings   *)
(*   a a second asset.                                                     *)
(***************************************************************************)
EXTENDS SubpoolOperator

CONSTANTS p, q, a, b, c

HomeOf == [x \in Accounts |-> IF x = b THEN q ELSE p]

Note(id, x, amt, to) == [id |-> id, asset |-> x, amt |-> amt, to |-> to]
Spend(no, pool, from, ins, x, outs) ==
    [no |-> no, pool |-> pool, from |-> from, ins |-> ins, asset |-> x, outs |-> outs, padded |-> TRUE]
Deposit(id, x, amt, tx) == [pool |-> p, id |-> id, to |-> a, asset |-> x, amt |-> amt, tx |-> tx]

D1 == Deposit("d1", "X", 3, "t1")
D2 == Deposit("d2", "X", 1, "t1")
D3 == Deposit("d3", "Z", 1, "t3")

R1 == Spend("r1", p, a, <<>>, "X", <<Note("n1", "X", 1, b), Note("n2", "X", 1, a)>>)
R2 == Spend("r2", p, a, <<>>, "X", <<Note("n7", "X", 1, c)>>)
R3 == Spend("r3", q, b, <<"n1", "n1">>, "Y", <<Note("n2", "Y", 2, c)>>)
R4 == Spend("r4", p, a, <<>>, "X", <<Note("n5", "X", 4, b), Note("n6", "X", 4, b)>>)
R5 == Spend("r5", p, a, <<"n2">>, "Y", <<Note("n8", "Y", 1, b)>>)

AllDeposits == {D1, D2, D3}
AllSpends == {R1, R2, R3, R4, R5}

\* Users make either requests that interfere with each other, or some that bring an operator
\* down: no behaviour has them all.
Interfering == [deposits |-> {D1, D2}, spends |-> {R1, R2, R3}]
Poisonous == [deposits |-> {D1, D3}, spends |-> {R1, R4, R5}]

VARIABLE asked

OnlyAsked ==
    /\ \A d \in Deposits \ asked.deposits : deposit_tx_requests[d] = NoRow
    /\ \A r \in Spends \ asked.spends : spend_tx_requests[r] = NoRow

MCInit == Init /\ asked \in {Interfering, Poisonous}
MCNext == Next /\ UNCHANGED asked /\ OnlyAsked'
MCSpec == MCInit /\ [][MCNext]_<<vars, asked>> /\ Fairness
=============================================================================

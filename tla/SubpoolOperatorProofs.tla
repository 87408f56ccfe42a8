------------------------ MODULE SubpoolOperatorProofs -----------------------
(***************************************************************************)
(* Theorems about the operators of the subpools, for any number of         *)
(* subpools, accounts, requests and faults.                                *)
(***************************************************************************)
EXTENDS SubpoolOperator, SumTheorems, SequenceTheorems

-----------------------------------------------------------------------------
(* Kept *)

\* The equation the local function of Kept solves.
KeepsStepwise(g, s, S) ==
    g = [i \in 0..Len(s) |-> IF i = 0 THEN <<>>
                             ELSE IF s[i] \in S THEN Append(g[i - 1], s[i]) ELSE g[i - 1]]

\* Kept is the last value of a solution.
LEMMA KeptUnfolded ==
    ASSUME NEW s, NEW S
    PROVE  Kept(s, S) = (CHOOSE g : KeepsStepwise(g, s, S))[Len(s)]
BY DEF Kept, KeepsStepwise

\* There is a solution.
LEMMA KeptSolved ==
    ASSUME NEW U, NEW s \in Seq(U), NEW S
    PROVE  \E g : KeepsStepwise(g, s, S)
<1> DEFINE n == Len(s)
           V == Seq(U)
           v0 == <<>>
           step == [i \in 1..n |-> [v \in V |-> IF s[i] \in S THEN Append(v, s[i]) ELSE v]]
<1>1. n \in Nat /\ v0 \in V /\ \A i \in 1..n : s[i] \in U
  OBVIOUS
<1>2. \A i \in 1..n : \A v \in V : step[i][v] \in V
  OBVIOUS
<1>3. PICK F : Recursion(F, n, V, v0, step)
  <2>1. StepsWithin(n, V, step)
    BY <1>2 DEF StepsWithin
  <2> HIDE DEF step, n, V, v0
  <2> QED
    BY <1>1, <2>1, RecursionExists
<1>4. ASSUME NEW i \in 0..n
      PROVE  F[i] = IF i = 0 THEN <<>>
                    ELSE IF s[i] \in S THEN Append(F[i - 1], s[i]) ELSE F[i - 1]
  <2>1. CASE i # 0
    <3>1. i \in 1..n /\ i - 1 \in 0..n
      BY <2>1
    <3>2. F[i - 1] \in V /\ F[i] = step[i][F[i - 1]]
      BY <1>3, <3>1 DEF Recursion
    <3> QED
      BY <2>1, <3>1, <3>2
  <2> QED
    BY <1>3, <2>1 DEF Recursion
<1>5. KeepsStepwise(F, s, S)
  BY <1>3, <1>4 DEF KeepsStepwise, Recursion
<1> QED
  BY <1>5

\* Kept returns a sequence of exactly the elements of s that are in S.
LEMMA KeptElements ==
    ASSUME NEW U, NEW s \in Seq(U), NEW S
    PROVE  /\ Kept(s, S) \in Seq(U)
           /\ ToSet(Kept(s, S)) = ToSet(s) \cap S
<1> DEFINE n == Len(s)
           g == CHOOSE g : KeepsStepwise(g, s, S)
           Upto(i) == {s[j] : j \in 1..i} \cap S
           G == {i \in 0..n : g[i] \in Seq(U) /\ ToSet(g[i]) = Upto(i)}
<1>1. /\ n \in Nat
      /\ g[0] = <<>>
      /\ \A i \in 1..n : g[i] = IF s[i] \in S THEN Append(g[i - 1], s[i]) ELSE g[i - 1]
  <2>1. KeepsStepwise(g, s, S)
    BY KeptSolved
  <2> HIDE DEF g
  <2> QED
    <3>1. n \in Nat /\ 0 \in 0..n /\ \A i \in 1..n : i \in 0..n /\ i # 0
      OBVIOUS
    <3>2. \A i \in 0..n : g[i] = IF i = 0 THEN <<>>
                                 ELSE IF s[i] \in S THEN Append(g[i - 1], s[i]) ELSE g[i - 1]
      BY <2>1, Zenon DEF KeepsStepwise
    <3> QED
      BY <3>1, <3>2, Zenon
<1> HIDE DEF g
<1>2. 0 \in G
  <2>1. g[0] \in Seq(U) /\ ToSet(g[0]) = {}
    BY <1>1 DEF ToSet
  <2>2. Upto(0) = {} /\ 0 \in 0..n
    BY <1>1
  <2> QED
    BY <2>1, <2>2
<1>3. ASSUME NEW i \in 1..n, i - 1 \in G PROVE i \in G
  <2>1. g[i - 1] \in Seq(U) /\ ToSet(g[i - 1]) = Upto(i - 1) /\ s[i] \in U
    BY <1>3
  <2>2. Upto(i) = Upto(i - 1) \cup ({s[i]} \cap S)
    <3>1. 1..i = (1..(i - 1)) \cup {i}
      OBVIOUS
    <3> QED
      BY <3>1
  <2>3. ToSet(Append(g[i - 1], s[i])) = ToSet(g[i - 1]) \cup {s[i]}
    <3> DEFINE t == g[i - 1]
    <3>1. /\ Append(t, s[i]) \in Seq(U) /\ Len(Append(t, s[i])) = Len(t) + 1 /\ Len(t) \in Nat
          /\ Append(t, s[i])[Len(t) + 1] = s[i]
          /\ \A j \in 1..Len(t) : Append(t, s[i])[j] = t[j]
      BY <2>1
    <3>2. /\ DOMAIN t = 1..Len(t)
          /\ DOMAIN Append(t, s[i]) = 1..(Len(t) + 1)
      BY <2>1, <3>1
    <3>3. 1..(Len(t) + 1) = (1..Len(t)) \cup {Len(t) + 1}
      BY <3>1
    <3> HIDE DEF t
    <3> QED
      BY <3>1, <3>2, <3>3 DEF ToSet, t
  <2>4. i \in 0..n /\ g[i] \in Seq(U)
    <3>1. i \in 0..n /\ Append(g[i - 1], s[i]) \in Seq(U)
      BY <2>1
    <3> QED
      BY <1>1, <2>1, <3>1
  <2>5. ToSet(g[i]) = Upto(i)
    <3>1. CASE s[i] \in S
      BY <1>1, <2>1, <2>2, <2>3, <3>1
    <3>2. CASE s[i] \notin S
      BY <1>1, <2>1, <2>2, <3>2
    <3> QED
      BY <3>1, <3>2
  <2> QED
    BY <2>4, <2>5
<1>4. n \in G
  <2>1. n \in 0..n
    BY <1>1
  <2> HIDE DEF G, n
  <2> QED
    BY <1>1, <1>2, <1>3, <2>1, StepInduction
<1>5. Kept(s, S) = g[n]
  BY KeptUnfolded DEF g
<1> QED
  BY <1>4, <1>5 DEF ToSet

\* SetToSeq returns a sequence of elements of a finite set.
LEMMA SetToSeqTyped ==
    ASSUME NEW S, IsFiniteSet(S)
    PROVE  SetToSeq(S) \in Seq(S)
<1>1. Cardinality(S) \in Nat /\ ExistsBijection(1..Cardinality(S), S)
  BY FS_CardinalityType
<1>2. \E f \in [1..Cardinality(S) -> S] : IsInjective(f)
  BY <1>1 DEF ExistsBijection, Bijection, Injection, IsInjective
<1>3. SetToSeq(S) \in [1..Cardinality(S) -> S]
  BY <1>2 DEF SetToSeq
<1> QED
  BY <1>1, <1>3

-----------------------------------------------------------------------------
(* Types *)

\* Steps that work on the head of a non-empty list of rows.
Holding == {"freshCommit", "depositSave", "depositPost", "depositCommit", "spendCommit", "forward"}
Labels == {"idle", "fresh", "deposit", "spend", "insert"} \cup Holding

\* The rows an operator may stand on at a step.
RowSet(label, p) ==
    CASE label \in {"fresh", "freshCommit"} -> {a \in Accounts : Home[a] = p}
      [] label \in {"deposit", "depositSave", "depositPost", "depositCommit"} ->
            {d \in Deposits : d.pool = p}
      [] label \in {"spend", "spendCommit", "forward"} -> {r \in Spends : r.pool = p}
      [] label = "insert" -> Notes
      [] OTHER -> {}

\* An operator stands on rows of its step, and on at least one where it holds one.
OpOK(o, p) ==
    /\ o = [at |-> o.at, rows |-> o.rows, notes |-> o.notes]
    /\ o.at \in Labels
    /\ o.rows \in Seq(RowSet(o.at, p))
    /\ o.at \in Holding => o.rows # <<>>
    /\ o.notes \in Seq(Notes)

\* Rows of accounts, deposit_tx_requests and input_notes.
AccountRows == [nonce : Nat, ast : [Assets -> Int]]
DepositRows == [status : {"PENDING", "APPROVED"}, hash : BOOLEAN]
InputRows == [id : {n.id : n \in Notes}, asset : Assets, amt : Nat, to : Accounts, consume : BOOLEAN]

\* The steps of process_one_deposit.
DepositSteps == {"deposit", "depositSave", "depositPost", "depositCommit"}

\* Types of the tables and of the operators, and where the sequencer keeps notes.
OperatorTyped ==
    /\ op = [p \in Pools |-> op[p]]
    /\ \A p \in Pools : OpOK(op[p], p)
    /\ created = [p \in Pools |-> created[p]]
    /\ \A p \in Pools : created[p] \in Seq(RowSet("spend", p))
    /\ mailbox \in [Pools -> SUBSET Notes]
    /\ \A p \in Pools : IsFiniteSet(mailbox[p]) /\ \A n \in mailbox[p] : Home[n.to] = p

\* An operator stands on deposit requests that exist.
RowsSubmitted ==
    \A p \in Pools : op[p].at \in DepositSteps =>
        \A i \in DOMAIN op[p].rows : deposit_tx_requests[op[p].rows[i]] # NoRow

\* What an operator checked before it posted a transaction holds until it commits it.
ChecksHold ==
    \A p \in Pools : /\ op[p].at = "depositCommit" => HasRow(p, Row(p).to)
                     /\ op[p].at = "spendCommit" => HasRow(p, Row(p).from) /\ InputsUsable(Row(p))

\* A record put together of rows of its step is in order.
LEMMA OpOKMade ==
    ASSUME NEW p, NEW label \in Labels, NEW rows \in Seq(RowSet(label, p)),
           label \in Holding => rows # <<>>, NEW notes \in Seq(Notes)
    PROVE  OpOK([at |-> label, rows |-> rows, notes |-> notes], p)
BY DEF OpOK

\* What changing a field of it gives.
LEMMA OpFields ==
    ASSUME NEW o, NEW p, OpOK(o, p), NEW x
    PROVE  /\ [o EXCEPT !.rows = x] = [at |-> o.at, rows |-> x, notes |-> o.notes]
           /\ [o EXCEPT !.notes = x] = [at |-> o.at, rows |-> o.rows, notes |-> x]
<1>1. o = [at |-> o.at, rows |-> o.rows, notes |-> o.notes]
  BY DEF OpOK
<1> DEFINE a == o.at
           r == o.rows
           n == o.notes
<1>2. o = [at |-> a, rows |-> r, notes |-> n]
  BY <1>1
<1> HIDE DEF a, r, n
<1>3. /\ [o EXCEPT !.rows = x] = [at |-> a, rows |-> x, notes |-> n]
      /\ [o EXCEPT !.notes = x] = [at |-> a, rows |-> r, notes |-> x]
  BY <1>2
<1> QED
  BY <1>3 DEF a, r, n

\* An idle operator is in order.
LEMMA IdleOK == \A p : OpOK(Idle, p)
BY DEF OpOK, Idle, Labels, Holding, RowSet

\* Moving on to the next row keeps the order.
LEMMA NextRowOK ==
    ASSUME NEW o, NEW p, OpOK(o, p), o.rows # <<>>, o.at \notin {"insert", "idle"}
    PROVE  OpOK([at |-> Job(o.at), rows |-> Tail(o.rows), notes |-> <<>>], p)
<1>1. /\ Job(o.at) \in Labels \ Holding /\ RowSet(Job(o.at), p) = RowSet(o.at, p)
  BY DEF OpOK, Labels, Holding, Job, RowSet
<1>2. Tail(o.rows) \in Seq(RowSet(o.at, p))
  BY DEF OpOK
<1> QED
  BY <1>1, <1>2 DEF OpOK

\* So does going to another step of the same job.
LEMMA GotoOK ==
    ASSUME NEW o, NEW p, OpOK(o, p), o.rows # <<>>,
           NEW label \in Labels, RowSet(label, p) = RowSet(o.at, p)
    PROVE  OpOK([o EXCEPT !.at = label], p)
BY DEF OpOK

\* The head of a list of rows is a row.
LEMMA RowTyped ==
    ASSUME OperatorTyped, NEW p \in Pools, op[p].rows # <<>>
    PROVE  Row(p) \in RowSet(op[p].at, p)
BY DEF OperatorTyped, OpOK, Row

\* The operator of p moves to a state in order.
OpMoves(p) == \E o : OpOK(o, p) /\ op' = [op EXCEPT ![p] = o]

\* Ending a pass does.
LEMMA IdleMoves ==
    ASSUME NEW p, op' = [op EXCEPT ![p] = Idle]
    PROVE  OpMoves(p)
BY IdleOK DEF OpMoves

\* So does going on to the next row.
LEMMA NextRowMoves ==
    ASSUME OperatorTyped, NEW p \in Pools, op[p].rows # <<>>, op[p].at \notin {"insert", "idle"},
           NextRow(p)
    PROVE  OpMoves(p)
<1> DEFINE o == [at |-> Job(op[p].at), rows |-> Tail(op[p].rows), notes |-> <<>>]
<1>1. OpOK(o, p)
  BY NextRowOK DEF OperatorTyped
<1>2. op' = [op EXCEPT ![p] = o]
  BY DEF NextRow, OperatorTyped
<1> QED
  BY <1>1, <1>2 DEF OpMoves

\* And going to another step of the job.
LEMMA GotoMoves ==
    ASSUME OperatorTyped, NEW p \in Pools, op[p].rows # <<>>, NEW label \in Labels,
           RowSet(label, p) = RowSet(op[p].at, p), Goto(p, label)
    PROVE  OpMoves(p)
<1> DEFINE o == [op[p] EXCEPT !.at = label]
<1>1. OpOK(o, p)
  BY GotoOK DEF OperatorTyped
<1>2. op' = [op EXCEPT ![p] = o]
  BY DEF Goto, OperatorTyped
<1> QED
  BY <1>1, <1>2 DEF OpMoves

\* What each job selects are rows of that job.
LEMMA SelectedTyped ==
    ASSUME OperatorTyped, NEW p \in Pools
    PROVE  /\ PendingFresh(p) \in Seq(RowSet("fresh", p))
           /\ PendingDeposits(p) \in Seq({d \in RowSet("deposit", p) : deposit_tx_requests[d] # NoRow})
           /\ PendingDeposits(p) \in Seq(RowSet("deposit", p))
           /\ PendingSpends(p) \in Seq(RowSet("spend", p))
           /\ PendingNotes(p) \in Seq(mailbox[p])
           /\ PendingNotes(p) \in Seq(Notes)
<1> DEFINE F == {a \in Accounts : Home[a] = p /\ freshacc_requests[a] = "PENDING"}
           D == {d \in Deposits : /\ d.pool = p /\ deposit_tx_requests[d] # NoRow
                                  /\ deposit_tx_requests[d].status = "PENDING"}
<1>1. IsFiniteSet(F) /\ IsFiniteSet(D) /\ IsFiniteSet(mailbox[p])
  BY RequestAssumption, FS_Subset DEF OperatorTyped
<1>2. SetToSeq(F) \in Seq(F) /\ SetToSeq(D) \in Seq(D) /\ SetToSeq(mailbox[p]) \in Seq(mailbox[p])
  BY <1>1, SetToSeqTyped
<1>3. /\ F \subseteq RowSet("fresh", p) /\ D \subseteq RowSet("deposit", p)
      /\ D \subseteq {d \in RowSet("deposit", p) : deposit_tx_requests[d] # NoRow}
      /\ mailbox[p] \subseteq Notes
  BY DEF RowSet, OperatorTyped
<1>4. PendingSpends(p) \in Seq(RowSet("spend", p))
  BY KeptElements DEF PendingSpends, OperatorTyped
<1> HIDE DEF F, D
<1>5. /\ SetToSeq(F) \in Seq(RowSet("fresh", p)) /\ SetToSeq(D) \in Seq(RowSet("deposit", p))
      /\ SetToSeq(D) \in Seq({d \in RowSet("deposit", p) : deposit_tx_requests[d] # NoRow})
      /\ SetToSeq(mailbox[p]) \in Seq(Notes)
  BY <1>2, <1>3, SeqMonotonic
<1> QED
  BY <1>2, <1>4, <1>5 DEF PendingFresh, PendingDeposits, PendingNotes, F, D

\* The jobs done before the next one.
LEMMA JobsDoneTyped ==
    ASSUME NEW p, BetweenJobs(p)
    PROVE  JobsDone(p) \in 0..3
<1>1. CASE ~At(p, "idle")
  <2>1. \E j \in 1..3 : Jobs[j] = op[p].at
    <3>1. Jobs[1] = "fresh" /\ Jobs[2] = "deposit" /\ Jobs[3] = "spend"
      BY DEF Jobs
    <3> QED
      BY <1>1, <3>1 DEF BetweenJobs
  <2>2. (CHOOSE j \in 1..3 : Jobs[j] = op[p].at) \in 1..3
    BY <2>1
  <2> QED
    BY <1>1, <2>2 DEF JobsDone
<1> QED
  BY <1>1 DEF JobsDone

\* What a started job stands on.
StartedAs(p, label, rows, notes) == op' = [op EXCEPT ![p] = [at |-> label, rows |-> rows, notes |-> notes]]

\* A job starts on the pending rows of its table.
LEMMA StartJobCases ==
    ASSUME NEW p, StartJob(p)
    PROVE  \/ StartedAs(p, "fresh", PendingFresh(p), <<>>)
           \/ StartedAs(p, "deposit", PendingDeposits(p), <<>>)
           \/ StartedAs(p, "spend", PendingSpends(p), <<>>)
           \/ StartedAs(p, "insert", PendingNotes(p), PendingNotes(p))
<1>1. JobsDone(p) \in 0..3
  BY JobsDoneTyped DEF StartJob
<1>2. PICK i \in (JobsDone(p) + 1)..4 :
         op' = [op EXCEPT ![p] = [at |-> Jobs[i], rows |-> Selected(p)[i],
                                  notes |-> IF i = 4 THEN Selected(p)[i] ELSE <<>>]]
  BY DEF StartJob
<1>3. i \in 1..4
  BY <1>1
<1>4. /\ Jobs[1] = "fresh" /\ Jobs[2] = "deposit" /\ Jobs[3] = "spend" /\ Jobs[4] = "insert"
      /\ Selected(p)[1] = PendingFresh(p) /\ Selected(p)[2] = PendingDeposits(p)
      /\ Selected(p)[3] = PendingSpends(p) /\ Selected(p)[4] = PendingNotes(p)
  BY DEF Jobs, Selected
<1>5. CASE i = 1
  BY <1>2, <1>4, <1>5 DEF StartedAs
<1>6. CASE i = 2
  BY <1>2, <1>4, <1>6 DEF StartedAs
<1>7. CASE i = 3
  BY <1>2, <1>4, <1>7 DEF StartedAs
<1>8. CASE i = 4
  BY <1>2, <1>4, <1>8 DEF StartedAs
<1> QED
  BY <1>3, <1>5, <1>6, <1>7, <1>8

\* Every step of an operator, or fault, moves it to a state in order.
LEMMA TickMoves ==
    ASSUME OperatorTyped, NEW p \in Pools,
           Tick(p) \/ ForwardFails(p) \/ StepFails(p) \/ Crash(p)
    PROVE  OpMoves(p)
<1>0. /\ OpOK(op[p], p)
      /\ op[p].at \in Holding => op[p].rows # <<>>
  BY DEF OperatorTyped, OpOK
<1>1. CASE StartJob(p)
  <2> DEFINE Start(label, rows, notes) == [at |-> label, rows |-> rows, notes |-> notes]
  <2>1. /\ OpOK(Start("fresh", PendingFresh(p), <<>>), p)
        /\ OpOK(Start("deposit", PendingDeposits(p), <<>>), p)
        /\ OpOK(Start("spend", PendingSpends(p), <<>>), p)
        /\ OpOK(Start("insert", PendingNotes(p), PendingNotes(p)), p)
    <3>1. /\ RowSet("insert", p) = Notes
          /\ {"fresh", "deposit", "spend", "insert"} \subseteq Labels \ Holding
          /\ <<>> \in Seq(Notes)
      BY DEF RowSet, Labels, Holding
    <3> QED
      BY <3>1, SelectedTyped, OpOKMade
  <2> QED
    BY <1>1, <2>1, StartJobCases DEF OpMoves, StartedAs
<1>2. CASE EndTick(p) \/ AckNotes(p) \/ Crash(p)
  BY <1>2, IdleMoves DEF EndTick, AckNotes, Crash
<1>3. CASE PostFresh(p) \/ CommitFresh(p)
  <2>1. op[p].at \in {"fresh", "freshCommit"} /\ op[p].rows # <<>>
    BY <1>0, <1>3 DEF PostFresh, CommitFresh, At, Holding
  <2>2. RowSet("freshCommit", p) = RowSet(op[p].at, p) /\ "freshCommit" \in Labels
    BY <2>1 DEF RowSet, Labels, Holding
  <2>3. Goto(p, "freshCommit") \/ NextRow(p)
    BY <1>3 DEF PostFresh, CommitFresh, Post
  <2> QED
    BY <2>1, <2>2, <2>3, GotoMoves, NextRowMoves
<1>4. CASE Broadcast(p) \/ SaveHash(p) \/ ReuseHash(p) \/ PostDeposit(p) \/ CommitDeposit(p)
  <2>1. op[p].at \in {"deposit", "depositSave", "depositPost", "depositCommit"} /\ op[p].rows # <<>>
    BY <1>0, <1>4 DEF Broadcast, SaveHash, ReuseHash, PostDeposit, CommitDeposit, At, Holding
  <2>2. \A l \in {"depositSave", "depositPost", "depositCommit"} :
            RowSet(l, p) = RowSet(op[p].at, p) /\ l \in Labels
    BY <2>1 DEF RowSet, Labels, Holding
  <2>3. \/ \E l \in {"depositSave", "depositPost", "depositCommit"} : Goto(p, l)
        \/ NextRow(p) \/ op' = [op EXCEPT ![p] = Idle]
    BY <1>4 DEF Broadcast, SaveHash, ReuseHash, PostDeposit, CommitDeposit
  <2> QED
    BY <2>1, <2>2, <2>3, GotoMoves, NextRowMoves, IdleMoves
<1>5. CASE PostSpend(p)
  <2>1. op[p].at = "spend" /\ op[p].rows # <<>>
    BY <1>5 DEF PostSpend, At
  <2>2. RowSet("spendCommit", p) = RowSet(op[p].at, p) /\ "spendCommit" \in Labels
    BY <2>1 DEF RowSet, Labels, Holding
  <2>3. Goto(p, "spendCommit") \/ NextRow(p) \/ op' = [op EXCEPT ![p] = Idle]
    BY <1>5 DEF PostSpend, Post
  <2> QED
    BY <2>1, <2>2, <2>3, GotoMoves, NextRowMoves, IdleMoves
<1>6. CASE CommitSpend(p)
  <2> DEFINE o == [at |-> "forward", rows |-> op[p].rows, notes |-> Foreign(p, Row(p).outs)]
  <2>1. op[p].at = "spendCommit" /\ op[p].rows # <<>>
    BY <1>0, <1>6 DEF CommitSpend, At, Holding
  <2>2. Row(p) \in Spends
    BY <2>1, RowTyped DEF RowSet
  <2>3. Foreign(p, Row(p).outs) \in Seq(Notes)
    BY <2>2, RequestAssumption, KeptElements DEF Foreign
  <2>4. OpOK(o, p)
    <3>1. RowSet("forward", p) = RowSet(op[p].at, p) /\ "forward" \in Labels
      BY <2>1 DEF RowSet, Labels, Holding
    <3>3. op[p].rows \in Seq(RowSet("forward", p))
      BY <1>0, <3>1 DEF OpOK
    <3> QED
      BY <2>1, <2>3, <3>1, <3>3, OpOKMade
  <2>5. op' = [op EXCEPT ![p] = o]
    BY <1>6 DEF CommitSpend, OperatorTyped
  <2> QED
    BY <2>4, <2>5 DEF OpMoves
<1>7. CASE ForwardNote(p)
  <2> DEFINE o == [op[p] EXCEPT !.notes = Tail(op[p].notes)]
  <2>1. OpOK(o, p)
    <3>1. o = [at |-> op[p].at, rows |-> op[p].rows, notes |-> Tail(op[p].notes)]
      BY <1>0, OpFields
    <3>2. Tail(op[p].notes) \in Seq(Notes)
      BY <1>0, <1>7 DEF OpOK, ForwardNote
    <3> QED
      BY <1>0, <3>1, <3>2, OpOKMade DEF OpOK
  <2>2. op' = [op EXCEPT ![p] = o]
    BY <1>7 DEF ForwardNote, OperatorTyped
  <2> QED
    BY <2>1, <2>2 DEF OpMoves
<1>8. CASE SpendDone(p) \/ ForwardFails(p)
  <2>1. op[p].at = "forward" /\ op[p].rows # <<>> /\ NextRow(p)
    BY <1>0, <1>8 DEF SpendDone, ForwardFails, At, Holding
  <2> QED
    BY <2>1, NextRowMoves
<1>9. CASE InsertIncoming(p)
  <2> DEFINE o == [op[p] EXCEPT !.rows = Tail(op[p].rows)]
  <2>1. OpOK(o, p)
    <3>1. o = [at |-> op[p].at, rows |-> Tail(op[p].rows), notes |-> op[p].notes]
      BY <1>0, OpFields
    <3>3. Tail(op[p].rows) \in Seq(RowSet(op[p].at, p))
      <4>1. op[p].rows \in Seq(RowSet(op[p].at, p)) /\ op[p].rows # <<>>
        BY <1>0, <1>9 DEF OpOK, InsertIncoming
      <4> QED
        BY <4>1, HeadTailProperties
    <3>2. op[p].at \notin Holding
      BY <1>9 DEF InsertIncoming, At, Holding
    <3> QED
      BY <1>0, <3>1, <3>2, <3>3, OpOKMade DEF OpOK
  <2>2. op' = [op EXCEPT ![p] = o]
    BY <1>9 DEF InsertIncoming, OperatorTyped
  <2> QED
    BY <2>1, <2>2 DEF OpMoves
<1>10. CASE StepFails(p)
  <2>1. CASE At(p, "insert")
    BY <1>10, <2>1, IdleMoves DEF StepFails
  <2>2. CASE ~At(p, "insert")
    <3>1. op[p].rows # <<>> /\ NextRow(p)
      BY <1>10, <2>2 DEF StepFails
    <3>2. op[p].at # "idle"
      BY <1>0, <3>1 DEF OpOK, RowSet
    <3> QED
      BY <2>2, <3>1, <3>2, NextRowMoves DEF At
  <2> QED
    BY <2>1, <2>2
<1> QED
  BY <1>1, <1>2, <1>3, <1>4, <1>5, <1>6, <1>7, <1>8, <1>9, <1>10 DEF Tick

-----------------------------------------------------------------------------
(* Who writes what *)

\* The steps and faults of the operator of p.
OpStep(p) == Tick(p) \/ ForwardFails(p) \/ StepFails(p) \/ Crash(p)

\* A step is a client's request, a sealed batch, or an operator's.
LEMMA StepCases ==
    ASSUME [Next]_vars
    PROVE  \/ UNCHANGED vars
           \/ Requests \/ SealBatch
           \/ \E p \in Pools : OpStep(p)
BY DEF Next, OpStep

\* Requests only add rows.
LEMMA RequestCases ==
    ASSUME Requests
    PROVE  /\ UNCHANGED <<accounts, input_notes, op, seqVars, faults, lost>>
           /\ \/ UNCHANGED <<deposit_tx_requests, spend_tx_requests, created>>
              \/ \E d \in Deposits : SubmitDeposit(d) /\ UNCHANGED <<spend_tx_requests, created>>
              \/ \E r \in Spends : SubmitSpend(r) /\ UNCHANGED deposit_tx_requests
<1>1. ASSUME NEW a, Client(Register(a))
      PROVE  UNCHANGED <<accounts, input_notes, op, seqVars, faults, lost,
                         deposit_tx_requests, spend_tx_requests, created>>
  BY <1>1 DEF Client, Register
<1>2. ASSUME NEW d, Client(SubmitDeposit(d))
      PROVE  /\ UNCHANGED <<accounts, input_notes, op, seqVars, faults, lost>>
             /\ SubmitDeposit(d) /\ UNCHANGED <<spend_tx_requests, created>>
  BY <1>2 DEF Client, SubmitDeposit
<1>3. ASSUME NEW r, Client(SubmitSpend(r))
      PROVE  /\ UNCHANGED <<accounts, input_notes, op, seqVars, faults, lost>>
             /\ SubmitSpend(r) /\ UNCHANGED deposit_tx_requests
  BY <1>3 DEF Client, SubmitSpend
<1> QED
  BY <1>1, <1>2, <1>3 DEF Requests

\* The operator of p writes accounts in CommitFresh, CommitDeposit and CommitSpend; deposit
\* rows in SaveHash and CommitDeposit; spend rows in CommitSpend; input notes in CommitSpend
\* and InsertIncoming; the mailbox in ForwardNote and AckNotes; and mined in Broadcast.
LEMMA OperatorWrites ==
    ASSUME NEW p, OpStep(p)
    PROVE  /\ UNCHANGED created
           /\ UNCHANGED accounts \/ CommitFresh(p) \/ CommitDeposit(p) \/ CommitSpend(p)
           /\ UNCHANGED deposit_tx_requests \/ SaveHash(p) \/ CommitDeposit(p)
           /\ UNCHANGED spend_tx_requests \/ CommitSpend(p)
           /\ UNCHANGED input_notes \/ CommitSpend(p) \/ InsertIncoming(p)
           /\ UNCHANGED mailbox \/ ForwardNote(p) \/ AckNotes(p)
           /\ UNCHANGED mined \/ Broadcast(p)
           /\ UNCHANGED lost \/ ForwardFails(p) \/ Crash(p)
           /\ UNCHANGED posted \/ PostFresh(p) \/ PostSpend(p)
<1> USE DEF dbVars, seqVars
<1>1. CASE StartJob(p) \/ EndTick(p)
  BY <1>1 DEF StartJob, EndTick
<1>2. CASE PostFresh(p)
  BY <1>2 DEF PostFresh
<1>3. CASE CommitFresh(p)
  BY <1>3 DEF CommitFresh
<1>4. CASE Broadcast(p) \/ ReuseHash(p) \/ PostDeposit(p)
  BY <1>4 DEF Broadcast, ReuseHash, PostDeposit
<1>5. CASE SaveHash(p)
  BY <1>5 DEF SaveHash
<1>6. CASE CommitDeposit(p)
  BY <1>6 DEF CommitDeposit
<1>7. CASE PostSpend(p)
  BY <1>7 DEF PostSpend
<1>8. CASE CommitSpend(p)
  BY <1>8 DEF CommitSpend
<1>9. CASE ForwardNote(p) \/ SpendDone(p)
  BY <1>9 DEF ForwardNote, SpendDone
<1>10. CASE InsertIncoming(p)
  BY <1>10 DEF InsertIncoming
<1>11. CASE AckNotes(p)
  BY <1>11 DEF AckNotes
<1>12. CASE ForwardFails(p) \/ StepFails(p) \/ Crash(p)
  BY <1>12 DEF ForwardFails, StepFails, Crash
<1> QED
  BY <1>1, <1>2, <1>3, <1>4, <1>5, <1>6, <1>7, <1>8, <1>9, <1>10, <1>11, <1>12 DEF OpStep, Tick

\* Operators stay in order, and the sequencer keeps each note for its recipient's subpool.
LEMMA NextOperatorTyped == OperatorTyped /\ [Next]_vars => OperatorTyped'
<1> SUFFICES ASSUME OperatorTyped, [Next]_vars PROVE OperatorTyped'
  OBVIOUS
<1>1. CASE UNCHANGED vars \/ SealBatch
  BY <1>1 DEF vars, SealBatch, dbVars, seqVars, OperatorTyped
<1>2. CASE Requests
  <2>1. UNCHANGED <<op, mailbox>>
    BY <1>2, RequestCases DEF seqVars
  <2> DEFINE Typed == /\ created' = [p \in Pools |-> created'[p]]
                      /\ \A p \in Pools : created'[p] \in Seq(RowSet("spend", p))
  <2>2. Typed
    <3>1. CASE UNCHANGED created
      BY <3>1 DEF OperatorTyped
    <3>2. ASSUME NEW r \in Spends, SubmitSpend(r) PROVE Typed
      <4>1. r \in RowSet("spend", r.pool) /\ r.pool \in Pools
        BY RequestAssumption DEF RowSet
      <4>2. created' = [created EXCEPT ![r.pool] = Append(@, r)]
        BY <3>2 DEF SubmitSpend
      <4>3. created[r.pool] \in Seq(RowSet("spend", r.pool))
        BY <4>1 DEF OperatorTyped
      <4>4. Append(created[r.pool], r) \in Seq(RowSet("spend", r.pool))
        BY <4>1, <4>3, AppendProperties
      <4>5. /\ created' = [q \in Pools |-> created'[q]]
            /\ created'[r.pool] = Append(created[r.pool], r)
            /\ \A q \in Pools : q # r.pool => created'[q] = created[q]
        BY <4>1, <4>2 DEF OperatorTyped
      <4> QED
        BY <4>4, <4>5 DEF OperatorTyped
    <3> QED
      BY <1>2, <3>1, <3>2, RequestCases
  <2> QED
    BY <2>1, <2>2 DEF OperatorTyped
<1>3. ASSUME NEW p \in Pools, OpStep(p) PROVE OperatorTyped'
  <2>1. PICK o : OpOK(o, p) /\ op' = [op EXCEPT ![p] = o]
    BY <1>3, TickMoves DEF OpStep, OpMoves
  <2>2. op' = [q \in Pools |-> op'[q]] /\ \A q \in Pools : OpOK(op'[q], q)
    BY <2>1 DEF OperatorTyped
  <2>3. UNCHANGED created
    BY <1>3, OperatorWrites
  <2>4. /\ mailbox' \in [Pools -> SUBSET Notes]
        /\ \A q \in Pools : IsFiniteSet(mailbox'[q]) /\ \A n \in mailbox'[q] : Home[n.to] = q
    <3>1. CASE UNCHANGED mailbox
      BY <3>1 DEF OperatorTyped
    <3>2. CASE ForwardNote(p)
      <4> DEFINE n == Head(op[p].notes)
                 h == Home[n.to]
      <4>1. op[p].notes \in Seq(Notes) /\ op[p].notes # <<>>
        BY <3>2 DEF OperatorTyped, OpOK, ForwardNote
      <4>2. n \in Notes
        BY <4>1
      <4>3. h \in Pools
        BY <4>2, RequestAssumption, DatabaseAssumption
      <4>4. mailbox' = [mailbox EXCEPT ![h] = @ \cup {n}]
        BY <3>2 DEF ForwardNote
      <4> HIDE DEF n
      <4>5. IsFiniteSet(mailbox[h] \cup {n})
        BY <4>3, FS_AddElement DEF OperatorTyped
      <4>6. /\ mailbox'[h] = mailbox[h] \cup {n}
            /\ \A q \in Pools : q # h => mailbox'[q] = mailbox[q]
            /\ mailbox' \in [Pools -> SUBSET Notes]
        BY <4>2, <4>3, <4>4 DEF OperatorTyped
      <4> QED
        BY <4>3, <4>5, <4>6 DEF OperatorTyped
    <3>3. CASE AckNotes(p)
      <4>1. PICK ids : mailbox' = [mailbox EXCEPT ![p] = {n \in @ : n.id \notin ids}]
        BY <3>3 DEF AckNotes
      <4>2. \A q \in Pools : mailbox'[q] \subseteq mailbox[q]
        BY <4>1 DEF OperatorTyped
      <4>3. mailbox' \in [Pools -> SUBSET Notes]
        BY <4>1 DEF OperatorTyped
      <4> QED
        BY <4>2, <4>3, FS_Subset DEF OperatorTyped
    <3> QED
      BY <1>3, <3>1, <3>2, <3>3, OperatorWrites
  <2> QED
    BY <2>2, <2>3, <2>4 DEF OperatorTyped
<1> QED
  BY <1>1, <1>2, <1>3, StepCases

-----------------------------------------------------------------------------
(* Input notes *)

\* The row a note is inserted as.
FreshRow(n) == [id |-> n.id, asset |-> n.asset, amt |-> n.amt, to |-> n.to, consume |-> FALSE]

\* Identifiers are unique in a table.
UniqueIds(rows) == \A m, n \in rows : m.id = n.id => m = n

\* The equation the local function of WithInputNotes solves.
InsertsStepwise(g, rows, notes) ==
    g = [i \in 0..Len(notes) |-> IF i = 0 THEN rows ELSE WithInputNote(g[i - 1], notes[i])]

\* WithInputNotes is the last value of a solution.
LEMMA InsertsUnfolded ==
    ASSUME NEW rows, NEW notes
    PROVE  WithInputNotes(rows, notes)
             = (CHOOSE g : InsertsStepwise(g, rows, notes))[Len(notes)]
BY DEF WithInputNotes, InsertsStepwise

\* There is a solution.
LEMMA InsertsSolved ==
    ASSUME NEW rows, NEW U, NEW notes \in Seq(U)
    PROVE  \E g : InsertsStepwise(g, rows, notes)
<1> DEFINE n == Len(notes)
           V == SUBSET (rows \cup {FreshRow(x) : x \in U})
           step == [i \in 1..n |-> [v \in V |-> WithInputNote(v, notes[i])]]
<1>1. n \in Nat /\ rows \in V /\ \A i \in 1..n : notes[i] \in U
  OBVIOUS
<1>2. ASSUME NEW i \in 1..n, NEW v \in V PROVE step[i][v] \in V
  BY <1>1 DEF WithInputNote, FreshRow
<1>3. PICK F : Recursion(F, n, V, rows, step)
  <2>1. StepsWithin(n, V, step)
    <3> HIDE DEF step, V, n
    <3> QED
      BY <1>2 DEF StepsWithin
  <2> HIDE DEF step, V, n
  <2> QED
    BY <1>1, <2>1, RecursionExists
<1>4. ASSUME NEW i \in 0..n
      PROVE  F[i] = IF i = 0 THEN rows ELSE WithInputNote(F[i - 1], notes[i])
  <2>1. CASE i # 0
    <3>1. i \in 1..n /\ i - 1 \in 0..n
      BY <2>1
    <3>2. F[i - 1] \in V /\ F[i] = step[i][F[i - 1]]
      <4> HIDE DEF V, step
      <4> QED
        BY <1>3, <3>1 DEF Recursion
    <3>3. step[i][F[i - 1]] = WithInputNote(F[i - 1], notes[i])
      <4> HIDE DEF V
      <4> QED
        BY <3>1, <3>2
    <3> QED
      BY <2>1, <3>2, <3>3
  <2> QED
    BY <1>3, <2>1 DEF Recursion
<1>5. InsertsStepwise(F, rows, notes)
  BY <1>3, <1>4 DEF InsertsStepwise, Recursion
<1> QED
  BY <1>5

\* One insert keeps the rows, adds at most the note's row, and leaves a row with its identifier.
LEMMA OneInserted ==
    ASSUME NEW rows, NEW n
    PROVE  /\ rows \subseteq WithInputNote(rows, n)
           /\ WithInputNote(rows, n) \subseteq rows \cup {FreshRow(n)}
           /\ \E m \in WithInputNote(rows, n) : m.id = n.id
           /\ UniqueIds(rows) => UniqueIds(WithInputNote(rows, n))
           /\ IsFiniteSet(rows) => IsFiniteSet(WithInputNote(rows, n))
<1>1. CASE \E m \in rows : m.id = n.id
  BY <1>1 DEF WithInputNote
<1>2. CASE ~\E m \in rows : m.id = n.id
  <2>1. WithInputNote(rows, n) = rows \cup {FreshRow(n)}
    BY <1>2 DEF WithInputNote, FreshRow
  <2>2. FreshRow(n).id = n.id
    BY DEF FreshRow
  <2> HIDE DEF FreshRow
  <2>3. UniqueIds(rows) => UniqueIds(rows \cup {FreshRow(n)})
    BY <1>2, <2>2 DEF UniqueIds
  <2>4. IsFiniteSet(rows) => IsFiniteSet(rows \cup {FreshRow(n)})
    BY FS_AddElement
  <2> QED
    BY <2>1, <2>2, <2>3, <2>4
<1> QED
  BY <1>1, <1>2

\* Inserting a list of notes keeps the rows, adds only rows of the notes, and leaves a row with
\* each identifier of the list.
LEMMA AllInserted ==
    ASSUME NEW rows, NEW U, NEW notes \in Seq(U)
    PROVE  LET table == WithInputNotes(rows, notes)
           IN  /\ rows \subseteq table
               /\ table \subseteq rows \cup {FreshRow(n) : n \in ToSet(notes)}
               /\ \A n \in ToSet(notes) : \E m \in table : m.id = n.id
               /\ UniqueIds(rows) => UniqueIds(table)
               /\ IsFiniteSet(rows) => IsFiniteSet(table)
<1> DEFINE len == Len(notes)
           g == CHOOSE g : InsertsStepwise(g, rows, notes)
           Good(i) == /\ rows \subseteq g[i]
                      /\ g[i] \subseteq rows \cup {FreshRow(n) : n \in ToSet(notes)}
                      /\ \A j \in 1..i : \E m \in g[i] : m.id = notes[j].id
                      /\ UniqueIds(rows) => UniqueIds(g[i])
                      /\ IsFiniteSet(rows) => IsFiniteSet(g[i])
           G == {i \in 0..len : Good(i)}
<1>1. /\ len \in Nat
      /\ g[0] = rows
      /\ \A i \in 1..len : g[i] = WithInputNote(g[i - 1], notes[i])
  <2>1. InsertsStepwise(g, rows, notes)
    BY InsertsSolved
  <2> HIDE DEF g
  <2>2. len \in Nat /\ 0 \in 0..len /\ \A i \in 1..len : i \in 0..len /\ i # 0
    OBVIOUS
  <2>3. \A i \in 0..len : g[i] = IF i = 0 THEN rows ELSE WithInputNote(g[i - 1], notes[i])
    BY <2>1, Zenon DEF InsertsStepwise
  <2> QED
    BY <2>2, <2>3, Zenon
<1> HIDE DEF g
<1>2. 0 \in G
  BY <1>1
<1>3. ASSUME NEW i \in 1..len, i - 1 \in G PROVE i \in G
  <2> DEFINE old == g[i - 1]
             new == g[i]
  <2>1. Good(i - 1)
    BY <1>3
  <2>2. /\ old \subseteq new
        /\ new \subseteq old \cup {FreshRow(notes[i])}
        /\ \E m \in new : m.id = notes[i].id
        /\ UniqueIds(old) => UniqueIds(new)
        /\ IsFiniteSet(old) => IsFiniteSet(new)
    BY <1>1, OneInserted
  <2>3. notes[i] \in ToSet(notes)
    BY DEF ToSet
  <2>4. 1..i = (1..(i - 1)) \cup {i} /\ i \in 0..len
    OBVIOUS
  <2> HIDE DEF old, new, len
  <2>5. Good(i)
    BY <2>1, <2>2, <2>3, <2>4 DEF old, new
  <2> QED
    BY <2>4, <2>5
<1>4. len \in G
  <2>1. len \in 0..len
    BY <1>1
  <2> HIDE DEF G, len
  <2> QED
    BY <1>1, <1>2, <1>3, <2>1, StepInduction
<1>5. WithInputNotes(rows, notes) = g[len]
  BY InsertsUnfolded DEF g
<1>6. \A n \in ToSet(notes) : \E j \in 1..len : n = notes[j]
  BY DEF ToSet
<1> QED
  BY <1>4, <1>5, <1>6

\* Consuming changes flags only.
LEMMA ConsumedRows ==
    ASSUME NEW rows \in SUBSET InputRows, NEW ids
    PROVE  /\ Consume(rows, ids) \in SUBSET InputRows
           /\ \A n \in rows : \E m \in Consume(rows, ids) : m.id = n.id
           /\ \A m \in Consume(rows, ids) : \E n \in rows : m.id = n.id
<1>1. \A n \in rows : /\ [n EXCEPT !.consume = TRUE] \in InputRows
                      /\ [n EXCEPT !.consume = TRUE].id = n.id
  BY DEF InputRows
<1> QED
  BY <1>1 DEF Consume

-----------------------------------------------------------------------------
(* Where a step takes an operator *)

\* The operator of p goes to another step with the same rows.
GoesTo(p, label) == op'[p].at = label /\ op'[p].rows = op[p].rows

\* The ways into each step of a job.
Enters(p) ==
    /\ op'[p].at = "freshCommit" =>
          GoesTo(p, "freshCommit") /\ PostFresh(p) /\ Answer(Nullifier(Row(p), 0)) = "accepted"
    /\ op'[p].at = "deposit" =>
          \/ op[p].at \in DepositSteps /\ op[p].rows # <<>> /\ op'[p].rows = Tail(op[p].rows)
          \/ op'[p].rows = PendingDeposits(p) /\ UNCHANGED dbVars
    /\ op'[p].at = "depositSave" => GoesTo(p, "depositSave") /\ Broadcast(p) /\ Row(p).tx \notin mined
    /\ op'[p].at = "depositPost" => GoesTo(p, "depositPost") /\ (SaveHash(p) \/ ReuseHash(p))
    /\ op'[p].at = "depositCommit" =>
          GoesTo(p, "depositCommit") /\ PostDeposit(p) /\ HasRow(p, Row(p).to)
    /\ op'[p].at = "spendCommit" =>
          /\ GoesTo(p, "spendCommit") /\ PostSpend(p) /\ SpendChecks(p, Row(p))
          /\ Available(Row(p)) >= Total(Row(p).outs)
          /\ \E t \in posted' : t.an = Nullifier(Row(p).from, accounts[Row(p).from].nonce)
    /\ op'[p].at = "forward" =>
          GoesTo(p, "forward") /\ (CommitSpend(p) \/ ForwardNote(p))
    /\ op'[p].at = "insert" =>
          \/ op'[p].rows = op'[p].notes /\ op'[p].notes = PendingNotes(p)
          \/ InsertIncoming(p) /\ op'[p].rows = Tail(op[p].rows) /\ op'[p].notes = op[p].notes

\* What each step of an operator may enter.
LEMMA OperatorEnters ==
    ASSUME OperatorTyped, NEW p \in Pools, OpStep(p)
    PROVE  Enters(p) /\ \A q \in Pools : q # p => op'[q] = op[q]
<1>0. /\ OpOK(op[p], p)
      /\ op[p].at \in Holding => op[p].rows # <<>>
      /\ DOMAIN op = Pools
  BY DEF OperatorTyped, OpOK
<1>a. ASSUME StartedAs(p, "fresh", PendingFresh(p), <<>>) \/ StartedAs(p, "spend", PendingSpends(p), <<>>)
             \/ op' = [op EXCEPT ![p] = Idle]
      PROVE  Enters(p)
  <2>1. op'[p].at \in {"fresh", "spend", "idle"}
    BY <1>0, <1>a DEF StartedAs, Idle
  <2> QED
    BY <2>1 DEF Enters
<1>b. ASSUME NextRow(p), op[p].rows # <<>>
      PROVE  Enters(p)
  <2>1. op'[p].at = Job(op[p].at) /\ op'[p].rows = Tail(op[p].rows)
    BY <1>0, <1>b DEF NextRow
  <2>2. op'[p].at \in {"fresh", "deposit", "spend", "idle"}
    BY <2>1 DEF Job
  <2>3. op'[p].at = "deposit" => op[p].at \in DepositSteps
    BY <2>1 DEF Job, DepositSteps
  <2> QED
    BY <1>b, <2>1, <2>2, <2>3 DEF Enters
<1>c. ASSUME NEW label, Goto(p, label)
      PROVE  GoesTo(p, label)
  <2>1. op[p] = [at |-> op[p].at, rows |-> op[p].rows, notes |-> op[p].notes]
    BY <1>0 DEF OpOK
  <2>2. op'[p] = [op[p] EXCEPT !.at = label]
    BY <1>0, <1>c DEF Goto
  <2>3. op'[p].at = label /\ op'[p].rows = op[p].rows
    BY <2>1, <2>2
  <2> QED
    BY <2>3 DEF GoesTo
<1>d. ASSUME NEW q \in Pools, q # p PROVE op'[q] = op[q]
  <2>1. PICK o : op' = [op EXCEPT ![p] = o]
    BY TickMoves DEF OpStep, OpMoves
  <2> QED
    BY <1>0, <1>d, <2>1
<1> SUFFICES Enters(p)
  BY <1>d
<1>1. CASE StartJob(p)
  <2>1. CASE StartedAs(p, "deposit", PendingDeposits(p), <<>>)
    <3>1. op'[p] = [at |-> "deposit", rows |-> PendingDeposits(p), notes |-> <<>>]
      BY <1>0, <2>1 DEF StartedAs
    <3>2. op'[p].at = "deposit" /\ op'[p].rows = PendingDeposits(p)
      BY <3>1
    <3> QED
      BY <1>1, <3>2 DEF Enters, StartJob
  <2>2. CASE StartedAs(p, "insert", PendingNotes(p), PendingNotes(p))
    <3>1. op'[p] = [at |-> "insert", rows |-> PendingNotes(p), notes |-> PendingNotes(p)]
      BY <1>0, <2>2 DEF StartedAs
    <3>2. op'[p].at = "insert" /\ op'[p].rows = PendingNotes(p) /\ op'[p].notes = PendingNotes(p)
      BY <3>1
    <3> QED
      BY <3>2 DEF Enters
  <2> QED
    BY <1>1, <1>a, <2>1, <2>2, StartJobCases
<1>2. CASE EndTick(p) \/ AckNotes(p) \/ Crash(p)
  BY <1>2, <1>a DEF EndTick, AckNotes, Crash
<1>3. CASE PostFresh(p)
  <2>1. \/ Goto(p, "freshCommit") /\ Answer(Nullifier(Row(p), 0)) = "accepted"
        \/ NextRow(p) /\ op[p].rows # <<>>
    BY <1>3 DEF PostFresh, Post
  <2>2. CASE Goto(p, "freshCommit") /\ Answer(Nullifier(Row(p), 0)) = "accepted"
    BY <1>3, <1>c, <2>2 DEF Enters, GoesTo
  <2> QED
    BY <1>b, <2>1, <2>2
<1>4. CASE CommitFresh(p) \/ CommitDeposit(p) \/ SpendDone(p) \/ ForwardFails(p)
  <2>1. NextRow(p) /\ op[p].rows # <<>>
    BY <1>0, <1>4 DEF CommitFresh, CommitDeposit, SpendDone, ForwardFails, At, Holding
  <2> QED
    BY <1>b, <2>1
<1>5. CASE Broadcast(p)
  <2>1. CASE Goto(p, "depositSave") /\ Row(p).tx \notin mined
    BY <1>5, <1>c, <2>1 DEF Enters, GoesTo
  <2>2. CASE NextRow(p)
    BY <1>5, <1>b, <2>2 DEF Broadcast
  <2> QED
    BY <1>5, <2>1, <2>2 DEF Broadcast
<1>6. CASE SaveHash(p) \/ ReuseHash(p)
  <2>1. Goto(p, "depositPost")
    BY <1>6 DEF SaveHash, ReuseHash
  <2> QED
    BY <1>6, <1>c, <2>1 DEF Enters, GoesTo
<1>7. CASE PostDeposit(p)
  <2>0. op[p].rows # <<>>
    BY <1>0, <1>7 DEF PostDeposit, At, Holding
  <2>1. \/ NextRow(p) \/ op' = [op EXCEPT ![p] = Idle]
        \/ Goto(p, "depositCommit") /\ HasRow(p, Row(p).to)
    BY <1>7 DEF PostDeposit, DepositAccount
  <2>2. CASE Goto(p, "depositCommit") /\ HasRow(p, Row(p).to)
    BY <1>7, <1>c, <2>2 DEF Enters, GoesTo
  <2> QED
    BY <1>a, <1>b, <2>0, <2>1, <2>2
<1>8. CASE PostSpend(p)
  <2> DEFINE r == Row(p)
             an == Nullifier(r.from, accounts[r.from].nonce)
  <2>1. \/ NextRow(p) \/ op' = [op EXCEPT ![p] = Idle]
        \/ /\ SpendChecks(p, r) /\ Available(r) >= Total(r.outs)
           /\ Goto(p, "spendCommit") /\ Answer(an) \in SpendGood /\ Accept(an, r)
    BY <1>8 DEF PostSpend, Post, SpendCovered
  <2>2. CASE /\ SpendChecks(p, r) /\ Available(r) >= Total(r.outs)
             /\ Goto(p, "spendCommit") /\ Answer(an) \in SpendGood /\ Accept(an, r)
    <3>1. CASE Answer(an) = "accepted"
      <4>1. posted' = posted \cup {[an |-> an, by |-> r]}
        BY <2>2, <3>1 DEF Accept
      <4>2. [an |-> an, by |-> r].an = an
        OBVIOUS
      <4>3. \E t \in posted' : t.an = an
        <5> HIDE DEF an
        <5> QED BY <4>1, <4>2
      <4> QED
        BY <1>8, <1>c, <2>2, <4>3 DEF Enters, GoesTo
    <3>2. CASE Answer(an) # "accepted"
      <4>1. posted' = posted /\ \E t \in posted : t.an = an
        BY <2>2, <3>2 DEF Accept, Answer
      <4> QED
        BY <1>8, <1>c, <2>2, <4>1 DEF Enters, GoesTo
    <3> QED
      BY <3>1, <3>2
  <2>3. op[p].rows # <<>>
    BY <1>8 DEF PostSpend
  <2> QED
    BY <1>a, <1>b, <2>1, <2>2, <2>3
<1>9. CASE CommitSpend(p)
  <2>1. op'[p] = [at |-> "forward", rows |-> op[p].rows, notes |-> Foreign(p, Row(p).outs)]
    BY <1>0, <1>9 DEF CommitSpend
  <2>2. op'[p].at = "forward" /\ op'[p].rows = op[p].rows
    BY <2>1
  <2> QED
    BY <1>9, <2>2 DEF Enters, GoesTo
<1>10. CASE ForwardNote(p)
  <2>1. op'[p] = [op[p] EXCEPT !.notes = Tail(op[p].notes)]
    BY <1>0, <1>10 DEF ForwardNote
  <2>2. op'[p] = [at |-> op[p].at, rows |-> op[p].rows, notes |-> Tail(op[p].notes)]
    BY <1>0, <2>1, OpFields
  <2>3. op'[p].at = "forward" /\ op'[p].rows = op[p].rows
    BY <1>10, <2>2 DEF ForwardNote, At
  <2> QED
    BY <1>10, <2>3 DEF Enters, GoesTo
<1>11. CASE InsertIncoming(p)
  <2>1. op'[p] = [op[p] EXCEPT !.rows = Tail(op[p].rows)]
    BY <1>0, <1>11 DEF InsertIncoming
  <2>2. op'[p] = [at |-> op[p].at, rows |-> Tail(op[p].rows), notes |-> op[p].notes]
    BY <1>0, <2>1, OpFields
  <2>3. op'[p].at = "insert" /\ op'[p].rows = Tail(op[p].rows) /\ op'[p].notes = op[p].notes
    BY <1>11, <2>2 DEF InsertIncoming, At
  <2> QED
    BY <1>11, <2>3 DEF Enters
<1>12. CASE StepFails(p)
  <2>1. op' = [op EXCEPT ![p] = Idle] \/ (NextRow(p) /\ op[p].rows # <<>>)
    BY <1>12 DEF StepFails
  <2> QED
    BY <1>a, <1>b, <2>1
<1> QED
  BY <1>1, <1>2, <1>3, <1>4, <1>5, <1>6, <1>7, <1>8, <1>9, <1>10, <1>11, <1>12 DEF OpStep, Tick

-----------------------------------------------------------------------------
(* Deposits *)

\* The request's transaction hash is saved.
HasHash(d) == deposit_tx_requests[d] # NoRow /\ deposit_tx_requests[d].hash

\* A request owns its transaction once its operator broadcast it: the hash is in the row, or
\* about to be saved.
Owns(d) ==
    \/ HasHash(d)
    \/ \E p \in Pools : op[p].at = "depositSave" /\ Row(p) = d

\* A transaction on chain has at most one owner, and only an owner is credited.
DepositInv ==
    /\ deposit_tx_requests \in [Deposits -> DepositRows \cup {NoRow}]
    /\ RowsSubmitted
    /\ \A d \in Deposits : Credited(d) => HasHash(d)
    /\ \A p \in Pools : op[p].at \in {"depositPost", "depositCommit"} => HasHash(Row(p))
    /\ \A d \in Deposits : Owns(d) => d.tx \in mined
    /\ \A d, e \in Deposits : Owns(d) /\ Owns(e) /\ d.tx = e.tx => d = e

\* The rows of an operator are the head and the rest.
LEMMA TailRows ==
    ASSUME NEW U, NEW s \in Seq(U), s # <<>>
    PROVE  /\ Tail(s) \in Seq(U) /\ Head(s) = s[1] /\ 1 \in DOMAIN s
           /\ \A i \in DOMAIN Tail(s) : i + 1 \in DOMAIN s /\ Tail(s)[i] = s[i + 1]
BY HeadTailProperties

\* Requests and operators leave the row of a deposit request alone, insert it, save its hash, or
\* approve it.
LEMMA DepositRowSteps ==
    ASSUME OperatorTyped, DepositInv, [Next]_vars, NEW d \in Deposits
    PROVE  \/ deposit_tx_requests'[d] = deposit_tx_requests[d]
           \/ /\ deposit_tx_requests[d] = NoRow
              /\ deposit_tx_requests'[d] = [status |-> "PENDING", hash |-> FALSE]
           \/ \E p \in Pools : /\ SaveHash(p) /\ Row(p) = d /\ deposit_tx_requests[d] # NoRow
                               /\ deposit_tx_requests'[d] = [deposit_tx_requests[d] EXCEPT !.hash = TRUE]
           \/ \E p \in Pools : /\ CommitDeposit(p) /\ Row(p) = d /\ HasHash(d)
                               /\ deposit_tx_requests'[d] = [deposit_tx_requests[d] EXCEPT !.status = "APPROVED"]
<1>0. DOMAIN deposit_tx_requests = Deposits
  BY DEF DepositInv
<1>1. CASE UNCHANGED deposit_tx_requests
  BY <1>1
<1>2. ASSUME NEW e \in Deposits, SubmitDeposit(e)
      PROVE  \/ deposit_tx_requests'[d] = deposit_tx_requests[d]
             \/ /\ deposit_tx_requests[d] = NoRow
                /\ deposit_tx_requests'[d] = [status |-> "PENDING", hash |-> FALSE]
  BY <1>0, <1>2 DEF SubmitDeposit
<1>3. ASSUME NEW p \in Pools, SaveHash(p) \/ CommitDeposit(p)
      PROVE  /\ Row(p) \in Deposits /\ deposit_tx_requests[Row(p)] # NoRow
             /\ CommitDeposit(p) => HasHash(Row(p))
  <2>1. op[p].at \in {"depositSave", "depositCommit"}
    BY <1>3 DEF SaveHash, CommitDeposit, At
  <2>2. op[p].rows # <<>> /\ op[p].rows \in Seq(RowSet(op[p].at, p))
    BY <2>1 DEF OperatorTyped, OpOK, Holding
  <2>3. Row(p) \in RowSet(op[p].at, p) /\ Row(p) = op[p].rows[1] /\ 1 \in DOMAIN op[p].rows
    BY <2>2, TailRows DEF Row
  <2>4. Row(p) \in Deposits
    BY <2>1, <2>3 DEF RowSet
  <2>5. deposit_tx_requests[Row(p)] # NoRow
    BY <2>1, <2>3 DEF DepositInv, RowsSubmitted, DepositSteps
  <2>6. CommitDeposit(p) => HasHash(Row(p))
    BY DEF DepositInv, CommitDeposit, At
  <2> QED
    BY <2>4, <2>5, <2>6
<1>4. ASSUME NEW p \in Pools, SaveHash(p)
      PROVE  \/ deposit_tx_requests'[d] = deposit_tx_requests[d]
             \/ Row(p) = d /\ deposit_tx_requests'[d] = [deposit_tx_requests[d] EXCEPT !.hash = TRUE]
  BY <1>0, <1>4 DEF SaveHash
<1>5. ASSUME NEW p \in Pools, CommitDeposit(p)
      PROVE  \/ deposit_tx_requests'[d] = deposit_tx_requests[d]
             \/ Row(p) = d /\ deposit_tx_requests'[d] = [deposit_tx_requests[d] EXCEPT !.status = "APPROVED"]
  BY <1>0, <1>5 DEF CommitDeposit
<1>6. CASE UNCHANGED vars \/ SealBatch
  BY <1>6, <1>1 DEF vars, dbVars, SealBatch
<1>7. CASE Requests
  BY <1>1, <1>2, <1>7, RequestCases
<1>8. ASSUME NEW p \in Pools, OpStep(p)
      PROVE  UNCHANGED deposit_tx_requests \/ SaveHash(p) \/ CommitDeposit(p)
  BY <1>8, OperatorWrites
<1> QED
  BY <1>1, <1>3, <1>4, <1>5, <1>6, <1>7, <1>8, StepCases

\* What that means for a request: a row stays, a hash stays, a new hash was just saved, and a
\* credited request has one.
LEMMA DepositRowFacts ==
    ASSUME OperatorTyped, DepositInv, [Next]_vars, NEW d \in Deposits
    PROVE  /\ deposit_tx_requests'[d] \in DepositRows \cup {NoRow}
           /\ deposit_tx_requests[d] # NoRow => deposit_tx_requests'[d] # NoRow
           /\ HasHash(d) => HasHash(d)'
           /\ HasHash(d)' => HasHash(d) \/ \E p \in Pools : SaveHash(p) /\ Row(p) = d
           /\ Credited(d)' => HasHash(d)'
           /\ \A p \in Pools : SaveHash(p) /\ Row(p) = d => HasHash(d)'
<1> DEFINE row == deposit_tx_requests[d]
           new == deposit_tx_requests'[d]
<1>0. row \in DepositRows \cup {NoRow} /\ NoRow \notin DepositRows
  BY NoRowAssumption DEF DepositInv, DepositRows
<1>a. Credited(d) => HasHash(d)
  BY DEF DepositInv
<1>b. ASSUME NEW p \in Pools, SaveHash(p), Row(p) = d
      PROVE  row # NoRow /\ new = [row EXCEPT !.hash = TRUE]
  <2>1. op[p].at = "depositSave"
    BY <1>b DEF SaveHash, At
  <2>2. op[p].rows # <<>> /\ op[p].rows \in Seq(RowSet(op[p].at, p))
    BY <2>1 DEF OperatorTyped, OpOK, Holding
  <2>3. Row(p) = op[p].rows[1] /\ 1 \in DOMAIN op[p].rows
    BY <2>2, TailRows DEF Row
  <2>4. deposit_tx_requests[Row(p)] # NoRow
    BY <2>1, <2>3 DEF DepositInv, RowsSubmitted, DepositSteps
  <2> QED
    BY <1>b, <2>4 DEF SaveHash, DepositInv
<1> DEFINE Saved == row # NoRow /\ new = [row EXCEPT !.hash = TRUE]
           Done == HasHash(d) /\ new = [row EXCEPT !.status = "APPROVED"]
           Here == \E p \in Pools : SaveHash(p) /\ Row(p) = d
<1>1. \/ new = row
      \/ row = NoRow /\ new = [status |-> "PENDING", hash |-> FALSE]
      \/ Saved
      \/ Done
  BY DepositRowSteps
<1>2. Here => Saved
  BY <1>b
<1>3. new # row /\ ~Done /\ row # NoRow => Here
  BY DepositRowSteps
<1> HIDE DEF Here
<1>4. CASE new = row
  <2>1. Saved => row.hash
    <3>1. CASE Saved
      <4>1. row \in DepositRows
        BY <1>0, <3>1
      <4>2. [row EXCEPT !.hash = TRUE].hash = TRUE
        BY <4>1 DEF DepositRows
      <4> QED
        BY <1>4, <3>1, <4>2
    <3> QED
      BY <3>1
  <2>2. \A p \in Pools : SaveHash(p) /\ Row(p) = d => HasHash(d)
    BY <1>b, <2>1 DEF HasHash
  <2>3. (HasHash(d)' <=> HasHash(d)) /\ (Credited(d)' <=> Credited(d))
    BY <1>4 DEF HasHash, Credited
  <2> QED
    BY <1>0, <1>a, <1>4, <2>2, <2>3
<1>5. CASE row = NoRow /\ new = [status |-> "PENDING", hash |-> FALSE]
  <2>1. new \in DepositRows /\ ~new.hash /\ new.status = "PENDING"
    BY <1>5 DEF DepositRows
  <2> QED
    BY <1>2, <1>5, <2>1 DEF HasHash, Credited, Here
<1>6. CASE Saved
  <2>1. new \in DepositRows /\ new.hash
    BY <1>0, <1>6 DEF DepositRows
  <2> QED
    BY <1>0, <1>3, <1>4, <1>6, <2>1 DEF HasHash, Credited, Here
<1>7. CASE Done
  <2>1. new \in DepositRows /\ new.hash
    BY <1>0, <1>7 DEF DepositRows, HasHash
  <2> QED
    BY <1>0, <1>7, <2>1 DEF HasHash, Credited
<1> QED
  BY <1>1, <1>4, <1>5, <1>6, <1>7

\* The table keeps its keys.
LEMMA DepositKeys ==
    ASSUME DepositInv, [Next]_vars
    PROVE  deposit_tx_requests' = [d \in Deposits |-> deposit_tx_requests'[d]]
<1>1. CASE UNCHANGED deposit_tx_requests
  BY <1>1 DEF DepositInv
<1>2. ASSUME NEW d, SubmitDeposit(d) PROVE deposit_tx_requests' = [e \in Deposits |-> deposit_tx_requests'[e]]
  BY <1>2 DEF SubmitDeposit, DepositInv
<1>3. ASSUME NEW p, SaveHash(p) \/ CommitDeposit(p)
      PROVE  deposit_tx_requests' = [e \in Deposits |-> deposit_tx_requests'[e]]
  BY <1>3 DEF SaveHash, CommitDeposit, DepositInv
<1>4. CASE UNCHANGED vars \/ SealBatch
  BY <1>4, <1>1 DEF vars, dbVars, SealBatch
<1>5. CASE Requests
  BY <1>1, <1>2, <1>5, RequestCases
<1>6. ASSUME NEW p \in Pools, OpStep(p)
      PROVE  UNCHANGED deposit_tx_requests \/ SaveHash(p) \/ CommitDeposit(p)
  BY <1>6, OperatorWrites
<1> QED
  BY <1>1, <1>3, <1>4, <1>5, <1>6, StepCases

\* The parts of DepositInv about operators, with every operator where it was.
LEMMA DepositsStill ==
    ASSUME OperatorTyped, DepositInv, [Next]_vars, NEW p \in Pools, op'[p] = op[p]
    PROVE  /\ op'[p].at \in DepositSteps =>
                \A i \in DOMAIN op'[p].rows : deposit_tx_requests'[op'[p].rows[i]] # NoRow
           /\ op'[p].at \in {"depositPost", "depositCommit"} => HasHash(Row(p))'
<1>1. CASE op[p].at \in DepositSteps
  <2>1. op[p].rows \in Seq(Deposits)
    <3>1. op[p].rows \in Seq(RowSet(op[p].at, p)) /\ RowSet(op[p].at, p) \subseteq Deposits
      BY <1>1 DEF OperatorTyped, OpOK, RowSet, DepositSteps
    <3> QED
      BY <3>1, SeqMonotonic
  <2>2. \A i \in DOMAIN op[p].rows :
            op[p].rows[i] \in Deposits /\ deposit_tx_requests[op[p].rows[i]] # NoRow
    BY <1>1, <2>1 DEF DepositInv, RowsSubmitted
  <2>3. \A i \in DOMAIN op[p].rows : deposit_tx_requests'[op[p].rows[i]] # NoRow
    BY <2>2, DepositRowFacts
  <2>4. ASSUME op[p].at \in {"depositPost", "depositCommit"} PROVE HasHash(Row(p))'
    <3>1. op[p].rows # <<>>
      BY <2>4 DEF OperatorTyped, OpOK, Holding
    <3>2. PICK d \in Deposits : d = Head(op[p].rows)
      BY <2>1, <3>1, TailRows
    <3>3. HasHash(d)
      BY <2>4, <3>2 DEF DepositInv, Row
    <3>4. HasHash(d)'
      BY <3>3, DepositRowFacts
    <3> QED
      BY <3>2, <3>4 DEF HasHash, Row
  <2> QED
    BY <2>3, <2>4
<1>2. CASE op[p].at \notin DepositSteps
  BY <1>2 DEF DepositSteps
<1> QED
  BY <1>1, <1>2

\* The same, for the operator that moves.
LEMMA DepositsMove ==
    ASSUME OperatorTyped, DepositInv, [Next]_vars, NEW p \in Pools, OpStep(p)
    PROVE  /\ op'[p].at \in DepositSteps =>
                \A i \in DOMAIN op'[p].rows : deposit_tx_requests'[op'[p].rows[i]] # NoRow
           /\ op'[p].at \in {"depositPost", "depositCommit"} => HasHash(Row(p))'
<1>0. Enters(p)
  BY OperatorEnters
<1>a. ASSUME op[p].at \in DepositSteps
      PROVE  \A i \in DOMAIN op[p].rows : /\ op[p].rows[i] \in Deposits
                                          /\ deposit_tx_requests'[op[p].rows[i]] # NoRow
  <2>1. op[p].rows \in Seq(Deposits)
    <3>1. op[p].rows \in Seq(RowSet(op[p].at, p)) /\ RowSet(op[p].at, p) \subseteq Deposits
      BY <1>a DEF OperatorTyped, OpOK, RowSet, DepositSteps
    <3> QED
      BY <3>1, SeqMonotonic
  <2>2. \A i \in DOMAIN op[p].rows :
            op[p].rows[i] \in Deposits /\ deposit_tx_requests[op[p].rows[i]] # NoRow
    BY <1>a, <2>1 DEF DepositInv, RowsSubmitted
  <2> QED
    BY <2>2, DepositRowFacts
<1>b. op[p].rows # <<>> =>
         /\ Row(p) = op[p].rows[1] /\ 1 \in DOMAIN op[p].rows
         /\ \A i \in DOMAIN Tail(op[p].rows) :
                i + 1 \in DOMAIN op[p].rows /\ Tail(op[p].rows)[i] = op[p].rows[i + 1]
  BY TailRows DEF OperatorTyped, OpOK, Row
<1>1. CASE op'[p].at = "deposit"
  <2>1. CASE op[p].at \in DepositSteps /\ op[p].rows # <<>> /\ op'[p].rows = Tail(op[p].rows)
    BY <1>1, <1>a, <1>b, <2>1
  <2>2. CASE op'[p].rows = PendingDeposits(p) /\ UNCHANGED dbVars
    <3>1. op'[p].rows \in Seq({d \in RowSet("deposit", p) : deposit_tx_requests[d] # NoRow})
      BY <2>2, SelectedTyped
    <3>2. deposit_tx_requests' = deposit_tx_requests
      BY <2>2 DEF dbVars
    <3> QED
      BY <1>1, <3>1, <3>2
  <2> QED
    BY <1>0, <1>1, <2>1, <2>2 DEF Enters
<1>2. CASE op'[p].at \in {"depositSave", "depositPost", "depositCommit"}
  <2>1. op[p].at \in DepositSteps /\ op'[p].rows = op[p].rows /\ op[p].rows # <<>>
    <3>1. /\ op'[p].rows = op[p].rows
          /\ Broadcast(p) \/ SaveHash(p) \/ ReuseHash(p) \/ PostDeposit(p)
      BY <1>0, <1>2 DEF Enters, GoesTo
    <3> QED
      BY <3>1 DEF OperatorTyped, OpOK, Holding, Broadcast, SaveHash, ReuseHash, PostDeposit, At, DepositSteps
  <2>2. ASSUME op'[p].at \in {"depositPost", "depositCommit"} PROVE HasHash(Row(p))'
    <3>1. PICK d \in Deposits : d = Row(p)
      BY <1>a, <1>b, <2>1
    <3>2. HasHash(d)'
      <4>1. CASE SaveHash(p)
        BY <3>1, <4>1, DepositRowFacts
      <4>2. CASE ReuseHash(p)
        <5>1. deposit_tx_requests[d] # NoRow
          BY <1>b, <2>1, <3>1 DEF DepositInv, RowsSubmitted
        <5> QED
          BY <3>1, <4>2, <5>1, DepositRowFacts DEF HasHash, ReuseHash
      <4>3. CASE PostDeposit(p)
        <5>1. HasHash(d)
          BY <3>1, <4>3 DEF PostDeposit, At, DepositInv
        <5> QED
          BY <5>1, DepositRowFacts
      <4> QED
        BY <1>0, <2>2, <4>1, <4>2, <4>3 DEF Enters
    <3> QED
      BY <2>1, <3>1, <3>2 DEF HasHash, Row
  <2> QED
    BY <1>a, <2>1, <2>2
<1> QED
  BY <1>1, <1>2 DEF DepositSteps

\* A request becomes an owner only when its operator broadcasts a transaction that was not on
\* chain.
LEMMA NewOwner ==
    ASSUME OperatorTyped, DepositInv, [Next]_vars, NEW d \in Deposits, Owns(d)'
    PROVE  Owns(d) \/ \E p \in Pools : OpStep(p) /\ Broadcast(p) /\ Row(p) = d /\ d.tx \notin mined
<1>1. CASE HasHash(d)'
  <2>1. HasHash(d) \/ \E p \in Pools : SaveHash(p) /\ Row(p) = d
    BY <1>1, DepositRowFacts
  <2> QED
    BY <2>1 DEF Owns, SaveHash, At
<1>2. ASSUME NEW p \in Pools, op'[p].at = "depositSave", Head(op'[p].rows) = d
      PROVE  Owns(d) \/ (OpStep(p) /\ Broadcast(p) /\ Row(p) = d /\ d.tx \notin mined)
  <2>1. CASE op'[p] = op[p]
    BY <1>2, <2>1 DEF Owns, Row
  <2>2. CASE OpStep(p)
    <3>1. Enters(p)
      BY <2>2, OperatorEnters
    <3> QED
      BY <1>2, <2>2, <3>1 DEF Enters, GoesTo, Row
  <2>3. op' = op \/ \E q \in Pools : OpStep(q)
    BY StepCases, RequestCases DEF vars, SealBatch
  <2> QED
    BY <2>1, <2>2, <2>3, OperatorEnters
<1> QED
  BY <1>1, <1>2 DEF Owns, Row

\* Transactions stay on chain.
LEMMA MinedGrows ==
    ASSUME [Next]_vars
    PROVE  mined \subseteq mined'
<1>1. ASSUME NEW p, Broadcast(p) PROVE mined \subseteq mined'
  BY <1>1 DEF Broadcast
<1>2. ASSUME NEW p \in Pools, OpStep(p) PROVE mined \subseteq mined'
  BY <1>1, <1>2, OperatorWrites
<1> QED
  BY <1>2, StepCases, RequestCases DEF vars, SealBatch, seqVars

\* Every step keeps the deposit invariant.
LEMMA NextDepositInv == OperatorTyped /\ DepositInv /\ [Next]_vars => DepositInv'
<1> SUFFICES ASSUME OperatorTyped, DepositInv, [Next]_vars PROVE DepositInv'
  OBVIOUS
<1>1. deposit_tx_requests' \in [Deposits -> DepositRows \cup {NoRow}]
  BY DepositKeys, DepositRowFacts
<1>2. ASSUME NEW p \in Pools
      PROVE  /\ op'[p].at \in DepositSteps =>
                  \A i \in DOMAIN op'[p].rows : deposit_tx_requests'[op'[p].rows[i]] # NoRow
             /\ op'[p].at \in {"depositPost", "depositCommit"} => HasHash(Row(p))'
  <2>1. op'[p] = op[p] \/ OpStep(p)
    BY StepCases, RequestCases, OperatorEnters DEF vars, SealBatch
  <2> QED
    BY <2>1, DepositsStill, DepositsMove
<1>3. \A d \in Deposits : Credited(d)' => HasHash(d)'
  BY DepositRowFacts
<1>4. ASSUME NEW d \in Deposits, Owns(d)' PROVE d.tx \in mined'
  <2>1. CASE Owns(d)
    BY <2>1, MinedGrows DEF DepositInv
  <2>2. ASSUME NEW p \in Pools, Broadcast(p), Row(p) = d, d.tx \notin mined PROVE d.tx \in mined'
    BY <2>2 DEF Broadcast
  <2> QED
    BY <1>4, <2>1, <2>2, NewOwner
<1>5. ASSUME NEW d \in Deposits, NEW e \in Deposits, Owns(d)', Owns(e)', d.tx = e.tx PROVE d = e
  <2>1. CASE Owns(d) /\ Owns(e)
    BY <1>5, <2>1 DEF DepositInv
  <2>2. CASE ~Owns(d) /\ Owns(e)
    BY <1>5, <2>2, NewOwner DEF DepositInv
  <2>3. CASE Owns(d) /\ ~Owns(e)
    BY <1>5, <2>3, NewOwner DEF DepositInv
  <2>4. CASE ~Owns(d) /\ ~Owns(e)
    <3>1. PICK p \in Pools : OpStep(p) /\ Broadcast(p) /\ Row(p) = d /\ d.tx \notin mined
      BY <1>5, <2>4, NewOwner
    <3>2. PICK q \in Pools : OpStep(q) /\ Broadcast(q) /\ Row(q) = e
      BY <1>5, <2>4, NewOwner
    <3>3. p = q
      <4>1. CASE p # q
        <5>1. op'[p] = op[p] /\ op[p].at = "deposit" /\ op[p].rows # <<>>
          BY <3>1, <3>2, <4>1, OperatorEnters DEF Broadcast, At
        <5>2. Goto(p, "depositSave")
          BY <3>1 DEF Broadcast
        <5>3. op'[p].at = "depositSave"
          BY <5>2 DEF Goto, OperatorTyped, OpOK
        <5> QED
          BY <5>1, <5>3
      <4> QED
        BY <4>1
    <3> QED
      BY <3>1, <3>2, <3>3
  <2> QED
    BY <2>1, <2>2, <2>3, <2>4
<1>6. RowsSubmitted'
  BY <1>2 DEF RowsSubmitted
<1> QED
  BY <1>1, <1>2, <1>3, <1>4, <1>5, <1>6 DEF DepositInv

\* Every table and every operator starts empty.
LEMMA InitOperatorTyped == Init => OperatorTyped
<1> SUFFICES ASSUME Init PROVE OperatorTyped
  OBVIOUS
<1>1. op = [p \in Pools |-> Idle] /\ created = [p \in Pools |-> <<>>] /\ mailbox = [p \in Pools |-> {}]
  BY DEF Init, OpInit, DbInit
<1> QED
  BY <1>1, IdleOK, FS_EmptySet DEF OperatorTyped

\* No deposit has been processed at first.
LEMMA InitDepositInv == Init => DepositInv
<1> SUFFICES ASSUME Init PROVE DepositInv
  OBVIOUS
<1>1. \A p \in Pools : op[p].at = "idle"
  BY DEF Init, OpInit, Idle
<1>2. deposit_tx_requests = [d \in Deposits |-> NoRow]
  BY DEF Init, DbInit
<1> QED
  BY <1>1, <1>2 DEF DepositInv, RowsSubmitted, DepositSteps, Credited, HasHash, Owns

\* Operators and the notes of the sequencer stay in order in every behaviour.
THEOREM OperatorTypes == Spec => []OperatorTyped
BY InitOperatorTyped, NextOperatorTyped, PTL DEF Spec

\* Every credited deposit has a transaction on chain that backs no other credited deposit
\* (process_one_deposit broadcasts a transaction once and reuses only its own saved hash).
THEOREM OneCreditPerTransaction == Spec => []CreditsHaveOwnTx
<1>1. OperatorTyped /\ DepositInv => CreditsHaveOwnTx
  BY DEF DepositInv, CreditsHaveOwnTx, Owns
<1> QED
  BY <1>1, InitDepositInv, NextDepositInv, OperatorTypes, PTL DEF Spec

-----------------------------------------------------------------------------
(* Notes under way *)

\* The recipient has the note in its table.
HasInput(n) == InputRow(Home[n.to], n.id) # {}

\* The note is there, or lost by its only carrier, or still on its way.
UnderWay(n) ==
    \/ HasInput(n) \/ n \in lost \/ n \in mailbox[Home[n.to]]
    \/ \E p \in Pools : op[p].at = "forward" /\ n \in ToSet(op[p].notes)

\* There is a row, or NoRow, for each spend request.
SpendKeys == DOMAIN spend_tx_requests = Spends

\* A note that is polled is in the list of notes to insert until it has a row.
SentInv ==
    /\ input_notes \in [Pools -> SUBSET InputRows]
    /\ \A p \in Pools : op[p].at = "insert" =>
           \A n \in ToSet(op[p].notes) : n \in ToSet(op[p].rows) \/ InputRow(p, n.id) # {}
    /\ SpendKeys
    /\ \A n \in SentNotes : UnderWay(n)

\* The row of a note is a row of the table.
LEMMA FreshRowTyped == \A n \in Notes : FreshRow(n) \in InputRows
BY RequestAssumption DEF FreshRow, InputRows

\* What committing a spend does to the input notes of its subpool.
LEMMA SpendInputs ==
    ASSUME OperatorTyped, input_notes \in [Pools -> SUBSET InputRows], NEW p \in Pools, CommitSpend(p)
    PROVE  /\ Row(p) \in Spends /\ Row(p).pool = p
           /\ \A n \in ToSet(Local(p, Row(p).outs)) : n \in Notes /\ HasRow(p, n.to)
           /\ ToSet(Row(p).outs) \subseteq Notes
           /\ ToSet(Row(p).outs) = ToSet(Local(p, Row(p).outs)) \cup ToSet(Foreign(p, Row(p).outs))
           /\ Local(p, Row(p).outs) \in Seq(Notes) /\ Foreign(p, Row(p).outs) \in Seq(Notes)
           /\ input_notes'[p] = WithInputNotes(Consume(input_notes[p], ToSet(Row(p).ins)), Local(p, Row(p).outs))
           /\ \A q \in Pools : q # p => input_notes'[q] = input_notes[q]
           /\ DOMAIN input_notes' = Pools
<1> DEFINE r == Row(p)
           outs == r.outs
<1>1. op[p].at = "spendCommit" /\ op[p].rows # <<>>
  BY DEF CommitSpend, At, OperatorTyped, OpOK, Holding
<1>2. r \in Spends /\ r.pool = p
  BY <1>1, RowTyped DEF RowSet
<1>3. outs \in Seq(Notes)
  BY <1>2, RequestAssumption
<1>4. ToSet(outs) \subseteq Notes
  BY <1>3 DEF ToSet
<1>5. /\ Local(p, outs) \in Seq(Notes)
      /\ ToSet(Local(p, outs)) = ToSet(outs) \cap {n \in ToSet(outs) : HasRow(p, n.to)}
  BY <1>3, KeptElements DEF Local
<1>6. /\ Foreign(p, outs) \in Seq(Notes)
      /\ ToSet(Foreign(p, outs)) = ToSet(outs) \cap {n \in ToSet(outs) : ~HasRow(p, n.to)}
  BY <1>3, KeptElements DEF Foreign
<1>7. input_notes' = [input_notes EXCEPT ![p] = WithInputNotes(Consume(@, ToSet(r.ins)), Local(p, outs))]
  BY DEF CommitSpend
<1> QED
  BY <1>2, <1>4, <1>5, <1>6, <1>7

\* Input notes stay typed, and an identifier that has a row keeps one.
LEMMA InputsStay ==
    ASSUME OperatorTyped, input_notes \in [Pools -> SUBSET InputRows], [Next]_vars
    PROVE  /\ input_notes' \in [Pools -> SUBSET InputRows]
           /\ \A p \in Pools : \A n \in input_notes[p] : \E m \in input_notes'[p] : m.id = n.id
<1>1. CASE UNCHANGED input_notes
  BY <1>1
<1>2. ASSUME NEW p \in Pools, CommitSpend(p)
      PROVE  /\ input_notes' \in [Pools -> SUBSET InputRows]
             /\ \A q \in Pools : \A n \in input_notes[q] : \E m \in input_notes'[q] : m.id = n.id
  <2> DEFINE rows == Consume(input_notes[p], ToSet(Row(p).ins))
             notes == Local(p, Row(p).outs)
             table == WithInputNotes(rows, notes)
  <2>1. /\ notes \in Seq(Notes) /\ \A n \in ToSet(notes) : n \in Notes
        /\ input_notes'[p] = table
        /\ \A q \in Pools : q # p => input_notes'[q] = input_notes[q]
        /\ input_notes' = [q \in Pools |-> input_notes'[q]]
    <3>1. input_notes' = [q \in Pools |-> input_notes'[q]]
      BY <1>2 DEF CommitSpend
    <3> QED
      BY <1>2, <3>1, SpendInputs
  <2>2. rows \in SUBSET InputRows /\ \A n \in input_notes[p] : \E m \in rows : m.id = n.id
    BY ConsumedRows
  <2>3. rows \subseteq table /\ table \subseteq rows \cup {FreshRow(n) : n \in ToSet(notes)}
    BY <2>1, AllInserted
  <2>4. table \subseteq InputRows
    BY <2>1, <2>2, <2>3, FreshRowTyped
  <2> HIDE DEF rows, notes, table
  <2>5. \A q \in Pools : input_notes'[q] \in SUBSET InputRows
    BY <2>1, <2>4
  <2> QED
    BY <2>1, <2>2, <2>3, <2>5
<1>3. ASSUME NEW p \in Pools, InsertIncoming(p)
      PROVE  /\ input_notes' \in [Pools -> SUBSET InputRows]
             /\ \A q \in Pools : \A n \in input_notes[q] : \E m \in input_notes'[q] : m.id = n.id
  <2>1. Row(p) \in Notes
    BY <1>3, RowTyped DEF InsertIncoming, At, RowSet
  <2>2. input_notes' = [input_notes EXCEPT ![p] = WithInputNote(@, Row(p))]
    BY <1>3 DEF InsertIncoming
  <2>3. /\ input_notes[p] \subseteq WithInputNote(input_notes[p], Row(p))
        /\ WithInputNote(input_notes[p], Row(p)) \subseteq input_notes[p] \cup {FreshRow(Row(p))}
    BY OneInserted
  <2> QED
    BY <2>1, <2>2, <2>3, FreshRowTyped
<1> QED
  BY <1>1, <1>2, <1>3, StepCases, RequestCases, OperatorWrites DEF vars, dbVars, SealBatch

\* An input note, once in the table, stays.
LEMMA RowStays ==
    ASSUME OperatorTyped, input_notes \in [Pools -> SUBSET InputRows], [Next]_vars,
           NEW p \in Pools, NEW id, InputRow(p, id) # {}
    PROVE  InputRow(p, id)' # {}
<1>1. PICK n \in input_notes[p] : n.id = id
  BY DEF InputRow
<1>2. PICK m \in input_notes'[p] : m.id = id
  BY <1>1, InputsStay
<1> QED
  BY <1>2 DEF InputRow

\* The elements of a sequence are its head and those of the rest.
LEMMA HeadAndTail ==
    ASSUME NEW U, NEW s \in Seq(U), s # <<>>
    PROVE  /\ ToSet(s) = {Head(s)} \cup ToSet(Tail(s))
           /\ ToSet(s) \subseteq U
<1>1. /\ Len(s) \in Nat \ {0} /\ Len(Tail(s)) = Len(s) - 1 /\ Head(s) = s[1]
      /\ \A i \in 1..Len(Tail(s)) : Tail(s)[i] = s[i + 1]
      /\ DOMAIN s = 1..Len(s) /\ DOMAIN Tail(s) = 1..Len(Tail(s))
  BY HeadTailProperties, EmptySeq
<1>2. ASSUME NEW i \in 1..Len(s), i # 1 PROVE i - 1 \in 1..Len(Tail(s)) /\ s[i] = Tail(s)[i - 1]
  <2>1. i - 1 \in 1..Len(Tail(s)) /\ (i - 1) + 1 = i
    BY <1>1, <1>2
  <2> QED
    BY <1>1, <2>1
<1>3. \A i \in 1..Len(Tail(s)) : i + 1 \in 1..Len(s)
  BY <1>1
<1>4. 1 \in 1..Len(s)
  BY <1>1
<1>5. ASSUME NEW x \in ToSet(s) PROVE x \in {Head(s)} \cup ToSet(Tail(s))
  <2>1. PICK i \in 1..Len(s) : x = s[i]
    BY <1>1 DEF ToSet
  <2>2. CASE i # 1
    <3>1. i - 1 \in 1..Len(Tail(s)) /\ x = Tail(s)[i - 1]
      BY <1>2, <2>1, <2>2
    <3> QED
      BY <1>1, <3>1 DEF ToSet
  <2> QED
    BY <1>1, <2>1, <2>2
<1>6. {Head(s)} \cup ToSet(Tail(s)) \subseteq ToSet(s)
  BY <1>1, <1>3, <1>4 DEF ToSet
<1>7. ToSet(s) \subseteq U
  BY <1>1 DEF ToSet
<1> QED
  BY <1>5, <1>6, <1>7

\* An operator that forwards notes goes on forwarding, or ends the row with the notes counted
\* as lost.
LEMMA LeavesForward ==
    ASSUME NEW p \in Pools, OpStep(p), op[p].at = "forward"
    PROVE  ForwardNote(p) \/ ForwardFails(p) \/ SpendDone(p) \/ Crash(p)
BY DEF OpStep, Tick, StartJob, EndTick, BetweenJobs, PostFresh, CommitFresh, Broadcast, SaveHash,
       ReuseHash, PostDeposit, CommitDeposit, PostSpend, CommitSpend, InsertIncoming, AckNotes,
       StepFails, At

\* A polled note stays on the list until it has a row.
LEMMA NextInserts ==
    ASSUME OperatorTyped, SentInv, [Next]_vars, NEW p \in Pools, op'[p].at = "insert"
    PROVE  \A n \in ToSet(op'[p].notes) : n \in ToSet(op'[p].rows) \/ InputRow(p, n.id)' # {}
<1>0. input_notes \in [Pools -> SUBSET InputRows]
  BY DEF SentInv
<1>1. CASE op'[p] = op[p]
  BY <1>0, <1>1, RowStays DEF SentInv
<1>2. CASE OpStep(p)
  <2>1. Enters(p)
    BY <1>2, OperatorEnters
  <2>2. CASE op'[p].rows = op'[p].notes
    BY <2>2
  <2>3. CASE InsertIncoming(p) /\ op'[p].rows = Tail(op[p].rows) /\ op'[p].notes = op[p].notes
    <3>1. op[p].at = "insert" /\ op[p].rows # <<>>
      BY <2>3 DEF InsertIncoming, At
    <3>2. op[p].rows \in Seq(Notes)
      BY <3>1 DEF OperatorTyped, OpOK, RowSet
    <3>3. ToSet(op[p].rows) = {Row(p)} \cup ToSet(Tail(op[p].rows))
      BY <3>1, <3>2, HeadAndTail DEF Row
    <3>4. \E m \in input_notes'[p] : m.id = Row(p).id
      <4>1. input_notes'[p] = WithInputNote(input_notes[p], Row(p))
        BY <1>0, <2>3 DEF InsertIncoming
      <4> QED
        BY <4>1, OneInserted
    <3>5. PICK id : id = Row(p).id
      OBVIOUS
    <3>6. InputRow(p, id)' # {}
      <4>1. {m \in input_notes'[p] : m.id = id} # {}
        BY <3>4, <3>5
      <4> QED
        BY <4>1 DEF InputRow
    <3>7. ASSUME NEW n \in ToSet(op[p].notes)
          PROVE  n \in ToSet(Tail(op[p].rows)) \/ InputRow(p, n.id)' # {}
      <4>1. CASE n = Row(p)
        BY <3>5, <3>6, <4>1
      <4>2. CASE InputRow(p, n.id) # {}
        BY <1>0, <4>2, RowStays
      <4> QED
        BY <3>1, <3>3, <4>1, <4>2 DEF SentInv
    <3> QED
      BY <2>3, <3>7
  <2> QED
    BY <1>2, <2>1, <2>2, <2>3 DEF Enters
<1>3. op'[p] = op[p] \/ OpStep(p)
  BY StepCases, RequestCases, OperatorEnters DEF vars, SealBatch
<1> QED
  BY <1>1, <1>2, <1>3

\* Only committing a spend sends notes.
LEMMA NewlySent ==
    ASSUME OperatorTyped, SpendKeys, [Next]_vars, NEW n \in SentNotes'
    PROVE  /\ n \in Notes
           /\ n \in SentNotes \/ \E p \in Pools : CommitSpend(p) /\ n \in ToSet(Row(p).outs)
<1>1. PICK r \in Spends : Approved(r)' /\ n \in ToSet(r.outs)
  BY DEF SentNotes
<1>2. n \in Notes
  BY <1>1 DEF Notes
<1>3. Approved(r) \/ \E p \in Pools : CommitSpend(p) /\ Row(p) = r
  <2>1. CASE UNCHANGED spend_tx_requests
    BY <1>1, <2>1 DEF Approved
  <2>2. ASSUME NEW t \in Spends, SubmitSpend(t) PROVE Approved(r)
    <3>1. spend_tx_requests' = [spend_tx_requests EXCEPT ![t] = [status |-> "PENDING", tx |-> NoRow]]
      BY <2>2 DEF SubmitSpend
    <3>2. spend_tx_requests'[t].status = "PENDING"
      BY <3>1 DEF SpendKeys
    <3> QED
      BY <1>1, <3>1, <3>2 DEF Approved, SpendKeys
  <2>3. ASSUME NEW p \in Pools, CommitSpend(p) PROVE Approved(r) \/ Row(p) = r
    BY <1>1, <2>3 DEF CommitSpend, Approved, SpendKeys
  <2> QED
    BY <2>1, <2>2, <2>3, StepCases, RequestCases, OperatorWrites DEF vars, dbVars, SealBatch
<1> QED
  BY <1>1, <1>2, <1>3 DEF SentNotes

\* The notes of a spend that is committed are on the way.
LEMMA SpentUnderWay ==
    ASSUME OperatorTyped, SentInv, [Next]_vars, NEW p \in Pools, CommitSpend(p),
           NEW n \in ToSet(Row(p).outs)
    PROVE  UnderWay(n)'
<1> DEFINE local == Local(p, Row(p).outs)
           foreign == Foreign(p, Row(p).outs)
<1>0. input_notes \in [Pools -> SUBSET InputRows]
  BY DEF SentInv
<1>1. /\ n \in ToSet(local) \cup ToSet(foreign)
      /\ \A m \in ToSet(local) : HasRow(p, m.to)
      /\ local \in Seq(Notes)
      /\ input_notes'[p] = WithInputNotes(Consume(input_notes[p], ToSet(Row(p).ins)), local)
  BY <1>0, SpendInputs
<1>2. CASE n \in ToSet(local)
  <2>1. \E m \in input_notes'[p] : m.id = n.id
    BY <1>1, <1>2, AllInserted
  <2>2. Home[n.to] = p
    BY <1>1, <1>2 DEF HasRow
  <2> QED
    BY <2>1, <2>2 DEF UnderWay, HasInput, InputRow
<1>3. CASE n \in ToSet(foreign)
  <2>1. op'[p] = [at |-> "forward", rows |-> op[p].rows, notes |-> foreign]
    BY DEF CommitSpend, OperatorTyped
  <2>2. op'[p].at = "forward" /\ op'[p].notes = foreign
    BY <2>1
  <2> QED
    BY <1>3, <2>2 DEF UnderWay
<1> QED
  BY <1>1, <1>2, <1>3

\* A note given up stays given up.
LEMMA LostGrows ==
    ASSUME [Next]_vars
    PROVE  lost \subseteq lost'
<1>1. ASSUME NEW p, ForwardFails(p) \/ Crash(p) PROVE lost \subseteq lost'
  BY <1>1 DEF ForwardFails, Crash
<1>2. ASSUME NEW p \in Pools, OpStep(p) PROVE lost \subseteq lost'
  BY <1>1, <1>2, OperatorWrites
<1> QED
  BY <1>2, StepCases, RequestCases DEF vars, SealBatch

\* A note the sequencer holds is there until its recipient's subpool has a row for it.
LEMMA MailboxKeeps ==
    ASSUME OperatorTyped, SentInv, [Next]_vars, NEW n \in Notes, n \in mailbox[Home[n.to]]
    PROVE  n \in mailbox'[Home[n.to]] \/ HasInput(n)'
<1>0. input_notes \in [Pools -> SUBSET InputRows] /\ Home[n.to] \in Pools
  BY RequestAssumption, DatabaseAssumption DEF SentInv
<1>1. CASE UNCHANGED mailbox
  BY <1>1
<1>2. ASSUME NEW p \in Pools, ForwardNote(p) PROVE n \in mailbox'[Home[n.to]]
  BY <1>0, <1>2 DEF ForwardNote, OperatorTyped
<1>3. ASSUME NEW p \in Pools, AckNotes(p), n \notin mailbox'[Home[n.to]] PROVE HasInput(n)'
  <2>1. Home[n.to] = p /\ \E m \in ToSet(op[p].notes) : m.id = n.id
    BY <1>0, <1>3 DEF AckNotes, OperatorTyped
  <2>2. op[p].at = "insert" /\ ToSet(op[p].rows) = {}
    BY <1>3 DEF AckNotes, At, ToSet
  <2>3. InputRow(p, n.id) # {}
    BY <2>1, <2>2 DEF SentInv
  <2>4. InputRow(p, n.id)' # {}
    BY <1>0, <2>3, RowStays
  <2> QED
    BY <2>1, <2>4 DEF HasInput
<1> QED
  BY <1>1, <1>2, <1>3, StepCases, RequestCases, OperatorWrites DEF vars, seqVars, SealBatch

\* A note on the way stays on the way.
LEMMA StaysUnderWay ==
    ASSUME OperatorTyped, SentInv, [Next]_vars, NEW n \in Notes, UnderWay(n)
    PROVE  UnderWay(n)'
<1>0. input_notes \in [Pools -> SUBSET InputRows] /\ Home[n.to] \in Pools
  BY RequestAssumption, DatabaseAssumption DEF SentInv
<1>1. CASE HasInput(n)
  <2>1. InputRow(Home[n.to], n.id)' # {}
    BY <1>0, <1>1, RowStays DEF HasInput
  <2> QED
    BY <2>1 DEF UnderWay, HasInput
<1>2. CASE n \in lost
  BY <1>2, LostGrows DEF UnderWay
<1>3. CASE n \in mailbox[Home[n.to]]
  BY <1>3, MailboxKeeps DEF UnderWay
<1>4. ASSUME NEW p \in Pools, op[p].at = "forward", n \in ToSet(op[p].notes)
      PROVE  UnderWay(n)'
  <2>1. CASE op'[p] = op[p]
    BY <1>4, <2>1 DEF UnderWay
  <2>2. CASE OpStep(p)
    <3>0. op[p].notes \in Seq(Notes) /\ op[p].notes # <<>>
      BY <1>4 DEF OperatorTyped, OpOK, ToSet
    <3>1. CASE ForwardNote(p)
      <4>1. ToSet(op[p].notes) = {Head(op[p].notes)} \cup ToSet(Tail(op[p].notes))
        BY <3>0, HeadAndTail
      <4>2. CASE n = Head(op[p].notes)
        <5>1. mailbox' = [mailbox EXCEPT ![Home[n.to]] = @ \cup {n}]
          BY <3>1, <4>2 DEF ForwardNote
        <5>2. n \in mailbox'[Home[n.to]]
          BY <1>0, <5>1 DEF OperatorTyped
        <5> QED
          BY <5>2 DEF UnderWay
      <4>3. CASE n \in ToSet(Tail(op[p].notes))
        <5>1. op'[p] = [op[p] EXCEPT !.notes = Tail(op[p].notes)]
          BY <3>1 DEF ForwardNote, OperatorTyped
        <5>2. op'[p] = [at |-> op[p].at, rows |-> op[p].rows, notes |-> Tail(op[p].notes)]
          BY <5>1, OpFields DEF OperatorTyped
        <5>3. op'[p].at = "forward" /\ op'[p].notes = Tail(op[p].notes)
          BY <1>4, <5>2
        <5> QED
          BY <4>3, <5>3 DEF UnderWay
      <4> QED
        BY <1>4, <4>1, <4>2, <4>3
    <3>2. CASE ForwardFails(p) \/ Crash(p)
      <4>1. n \in lost'
        BY <1>4, <3>2 DEF ForwardFails, Crash, At
      <4> QED
        BY <4>1 DEF UnderWay
    <3>3. ~SpendDone(p)
      BY <3>0 DEF SpendDone
    <3> QED
      BY <1>4, <2>2, <3>1, <3>2, <3>3, LeavesForward
  <2>3. op'[p] = op[p] \/ OpStep(p)
    BY StepCases, RequestCases, OperatorEnters DEF vars, SealBatch
  <2> QED
    BY <2>1, <2>2, <2>3
<1> QED
  BY <1>1, <1>2, <1>3, <1>4 DEF UnderWay

\* No step adds or removes a key.
LEMMA SpendKeysStay == SpendKeys /\ [Next]_vars => SpendKeys'
<1> SUFFICES ASSUME SpendKeys, [Next]_vars PROVE SpendKeys'
  OBVIOUS
<1>1. ASSUME NEW r, SubmitSpend(r) PROVE SpendKeys'
  BY <1>1 DEF SpendKeys, SubmitSpend
<1>2. ASSUME NEW p, CommitSpend(p) PROVE SpendKeys'
  BY <1>2 DEF SpendKeys, CommitSpend
<1>3. CASE UNCHANGED spend_tx_requests
  BY <1>3 DEF SpendKeys
<1> QED
  BY <1>1, <1>2, <1>3, StepCases, RequestCases, OperatorWrites DEF vars, dbVars, SealBatch

\* Every step keeps the invariant of notes under way.
LEMMA NextSentInv == OperatorTyped /\ SentInv /\ [Next]_vars => SentInv'
<1> SUFFICES ASSUME OperatorTyped, SentInv, [Next]_vars PROVE SentInv'
  OBVIOUS
<1>1. input_notes' \in [Pools -> SUBSET InputRows]
  BY InputsStay DEF SentInv
<1>2. ASSUME NEW p \in Pools
      PROVE  op'[p].at = "insert" =>
                \A n \in ToSet(op'[p].notes) : n \in ToSet(op'[p].rows) \/ InputRow(p, n.id)' # {}
  BY NextInserts
<1>3. ASSUME NEW n \in SentNotes' PROVE UnderWay(n)'
  <2>1. /\ n \in Notes
        /\ n \in SentNotes \/ \E p \in Pools : CommitSpend(p) /\ n \in ToSet(Row(p).outs)
    BY NewlySent DEF SentInv
  <2> QED
    BY <2>1, SpentUnderWay, StaysUnderWay DEF SentInv
<1>4. SpendKeys'
  BY SpendKeysStay DEF SentInv
<1> QED
  BY <1>1, <1>2, <1>3, <1>4 DEF SentInv

\* Nothing has been sent at first.
LEMMA InitSentInv == Init => SentInv
<1> SUFFICES ASSUME Init PROVE SentInv
  OBVIOUS
<1>1. \A p \in Pools : op[p].at = "idle"
  BY DEF Init, OpInit, Idle
<1>2. spend_tx_requests = [r \in Spends |-> NoRow] /\ input_notes = [p \in Pools |-> {}]
  BY DEF Init, DbInit
<1> QED
  BY <1>1, <1>2 DEF SentInv, SpendKeys, SentNotes, Approved

\* A note of an approved spend is never silently dropped: it has a row in its recipient's
\* subpool, waits, or was given up when its forwarding failed (process_one_spend_tx and
\* poll_incoming_notes, with crashes, retries and repeated deliveries).
THEOREM NoNoteVanishes == Spec => []SentNotesAccountedFor
<1>1. SentInv => SentNotesAccountedFor
  BY DEF SentInv, SentNotesAccountedFor, UnderWay, HasInput, Collided, At
<1> QED
  BY <1>1, InitSentInv, NextSentInv, OperatorTypes, PTL DEF Spec

-----------------------------------------------------------------------------
(* Account states *)

\* A transaction that spends the state is with the sequencer.
Sequenced(an) == \E t \in posted : t.an = an

\* No two approved spends took the same state.
TakenOnce ==
    \A r, s \in Spends :
        Approved(r) /\ Approved(s) /\ spend_tx_requests[s].tx = spend_tx_requests[r].tx => s = r

\* Every row of accounts was registered with the sequencer; an operator about to write a state
\* has the old one sequenced; an approved spend took a state older than the account's.
StatesInv ==
    /\ SpendKeys
    /\ accounts \in [Accounts -> AccountRows \cup {NoRow}]
    /\ ChecksHold
    /\ \A a \in Accounts : accounts[a] # NoRow => Sequenced(Nullifier(a, 0))
    /\ \A p \in Pools :
           /\ op[p].at = "freshCommit" => accounts[Row(p)] = NoRow /\ Sequenced(Nullifier(Row(p), 0))
           /\ op[p].at = "spendCommit" => Sequenced(Nullifier(Row(p).from, accounts[Row(p).from].nonce))
    /\ \A r \in Spends : Approved(r) =>
           /\ accounts[r.from] # NoRow
           /\ spend_tx_requests[r].tx \in [acc : {r.from}, nonce : Nat]
           /\ spend_tx_requests[r].tx.nonce < accounts[r.from].nonce
           /\ Sequenced(spend_tx_requests[r].tx)
    /\ TakenOnce

\* A sum of amounts is one.
LEMMA TotalTyped ==
    ASSUME NEW n \in Nat, NEW notes, DOMAIN notes = 1..n, \A i \in 1..n : notes[i].amt \in Nat
    PROVE  Total(notes) \in Nat
<1> DEFINE f == [i \in 1..n |-> notes[i].amt]
<1>1. Total(notes) = SumFunctionOnSet(f, 1..n)
  BY DEF Total, SumFunction, FoldFunction, SumFunctionOnSet
<1>2. IsFiniteSet(1..n) /\ \A i \in 1..n : f[i] \in Nat
  BY FS_Interval
<1> HIDE DEF f
<1> QED
  BY <1>1, <1>2, SumNat

\* What a spend has and what it pays are integers.
LEMMA AvailableTyped ==
    ASSUME input_notes \in [Pools -> SUBSET InputRows], accounts \in [Accounts -> AccountRows \cup {NoRow}],
           NEW r \in Spends, InputsUsable(r)
    PROVE  /\ \A i \in 1..Len(r.ins) : Inputs(r)[i] \in InputRow(r.pool, r.ins[i])
           /\ Total(Inputs(r)) \in Nat /\ Total(r.outs) \in Nat
           /\ AccountBalance(r.from, r.asset) \in Int
           /\ Available(r) \in Int
<1>0. r.pool \in Pools /\ r.from \in Accounts /\ r.asset \in Assets /\ r.outs \in Seq(Notes) /\ Len(r.ins) \in Nat
  BY RequestAssumption
<1>1. \A i \in 1..Len(r.ins) : InputRow(r.pool, r.ins[i]) # {}
  BY DEF InputsUsable
<1>2. ASSUME NEW i \in 1..Len(r.ins)
      PROVE  Inputs(r)[i] \in InputRow(r.pool, r.ins[i])
  <2>1. Inputs(r)[i] = CHOOSE n \in InputRow(r.pool, r.ins[i]) : TRUE
    BY DEF Inputs
  <2> QED
    BY <1>1, <2>1
<1>3. \A i \in 1..Len(r.ins) : Inputs(r)[i].amt \in Nat
  BY <1>0, <1>2 DEF InputRow, InputRows
<1>4. DOMAIN Inputs(r) = 1..Len(r.ins)
  BY DEF Inputs
<1>5. Total(Inputs(r)) \in Nat
  BY <1>0, <1>3, <1>4, TotalTyped
<1>6. Total(r.outs) \in Nat
  <2>1. /\ Len(r.outs) \in Nat /\ DOMAIN r.outs = 1..Len(r.outs)
        /\ \A i \in 1..Len(r.outs) : r.outs[i].amt \in Nat
    BY <1>0, RequestAssumption
  <2> QED
    BY <2>1, TotalTyped
<1>7. AccountBalance(r.from, r.asset) \in Int
  BY <1>0 DEF AccountBalance, AccountRows
<1> QED
  BY <1>2, <1>5, <1>6, <1>7 DEF Available

\* The account after a transaction.
LEMMA NextAccountTyped ==
    ASSUME NEW acc \in AccountRows, NEW x \in Assets, NEW balance \in Int
    PROVE  /\ NextAccount(acc, x, balance) \in AccountRows
           /\ NextAccount(acc, x, balance).nonce = acc.nonce + 1
           /\ NextAccount(acc, x, balance).ast = [acc.ast EXCEPT ![x] = balance]
BY DEF NextAccount, AccountRows

\* An account is created once, by its own subpool, and otherwise moves on by one state.
LEMMA AccountSteps ==
    ASSUME OperatorTyped, input_notes \in [Pools -> SUBSET InputRows], StatesInv,
           NEW p \in Pools, OpStep(p)
    PROVE  /\ accounts' = [a \in Accounts |-> accounts'[a]]
           /\ \A a \in Accounts :
                \/ accounts'[a] = accounts[a]
                \/ /\ Home[a] = p /\ accounts[a] = NoRow
                   /\ CommitFresh(p) /\ a = Row(p) /\ accounts'[a] = FreshAccount
                \/ /\ Home[a] = p /\ accounts[a] \in AccountRows
                   /\ CommitDeposit(p) /\ a = Row(p).to
                   /\ accounts'[a] = NextAccount(accounts[a], Row(p).asset, DepositBalance(Row(p)))
                \/ /\ Home[a] = p /\ accounts[a] \in AccountRows
                   /\ CommitSpend(p) /\ a = Row(p).from
                   /\ accounts'[a] = NextAccount(accounts[a], Row(p).asset,
                                                 Available(Row(p)) - Total(Row(p).outs))
<1> USE DEF UpdateAccount
<1>0. DOMAIN accounts = Accounts /\ \A a \in Accounts : accounts[a] \in AccountRows \cup {NoRow}
  BY DEF StatesInv
<1>1. CASE UNCHANGED accounts
  BY <1>0, <1>1 DEF StatesInv
<1>2. CASE CommitFresh(p)
  <2>1. op[p].at = "freshCommit" /\ op[p].rows # <<>>
    BY <1>2 DEF CommitFresh, At, OperatorTyped, OpOK, Holding
  <2>2. Home[Row(p)] = p /\ accounts[Row(p)] = NoRow
    BY <2>1, RowTyped DEF RowSet, StatesInv
  <2>3. accounts' = [accounts EXCEPT ![Row(p)] = FreshAccount]
    BY <1>2 DEF CommitFresh
  <2> QED
    BY <1>0, <1>2, <2>2, <2>3
<1>3. CASE CommitDeposit(p)
  <2>1. op[p].at = "depositCommit" /\ op[p].rows # <<>>
    BY <1>3 DEF CommitDeposit, At, OperatorTyped, OpOK, Holding
  <2>2. Home[Row(p).to] = p /\ accounts[Row(p).to] # NoRow
    BY <2>1 DEF StatesInv, ChecksHold, HasRow
  <2>3. accounts' = [accounts EXCEPT ![Row(p).to] =
                        NextAccount(accounts[Row(p).to], Row(p).asset, DepositBalance(Row(p)))]
    BY <1>3 DEF CommitDeposit
  <2> QED
    BY <1>0, <1>3, <2>2, <2>3
<1>4. CASE CommitSpend(p)
  <2>1. op[p].at = "spendCommit" /\ op[p].rows # <<>>
    BY <1>4 DEF CommitSpend, At, OperatorTyped, OpOK, Holding
  <2>2. Home[Row(p).from] = p /\ accounts[Row(p).from] # NoRow
    BY <2>1 DEF StatesInv, ChecksHold, HasRow
  <2>3. accounts' = [accounts EXCEPT ![Row(p).from] =
                        NextAccount(accounts[Row(p).from], Row(p).asset, Available(Row(p)) - Total(Row(p).outs))]
    BY <1>4 DEF CommitSpend
  <2> QED
    BY <1>0, <1>4, <2>2, <2>3
<1> QED
  BY <1>1, <1>2, <1>3, <1>4, OperatorWrites

\* Rows are typed, an account stays, its state only moves on, and only its own subpool writes it.
LEMMA AccountFacts ==
    ASSUME OperatorTyped, input_notes \in [Pools -> SUBSET InputRows], StatesInv, [Next]_vars
    PROVE  /\ accounts' \in [Accounts -> AccountRows \cup {NoRow}]
           /\ \A a \in Accounts :
                /\ accounts[a] # NoRow => /\ accounts[a] \in AccountRows /\ accounts'[a] \in AccountRows
                                          /\ accounts'[a] # NoRow /\ accounts[a].nonce <= accounts'[a].nonce
                /\ accounts[a] = NoRow /\ accounts'[a] # NoRow =>
                     \E p \in Pools : CommitFresh(p) /\ Row(p) = a
                /\ accounts'[a] # accounts[a] => OpStep(Home[a])
<1>0. /\ accounts \in [Accounts -> AccountRows \cup {NoRow}]
      /\ NoRow \notin AccountRows
      /\ \A acc \in AccountRows : acc.nonce \in Nat
  BY NoRowAssumption DEF StatesInv, AccountRows
<1>1. CASE UNCHANGED accounts
  <2>1. \A a \in Accounts : accounts[a] # NoRow => accounts[a].nonce <= accounts[a].nonce
    BY <1>0
  <2> QED
    BY <1>0, <1>1, <2>1
<1>2. ASSUME NEW p \in Pools, OpStep(p), NEW a \in Accounts
      PROVE  /\ accounts'[a] \in AccountRows \cup {NoRow}
             /\ accounts[a] # NoRow => /\ accounts[a] \in AccountRows /\ accounts'[a] \in AccountRows
                                       /\ accounts[a].nonce <= accounts'[a].nonce
             /\ accounts[a] = NoRow /\ accounts'[a] # NoRow => CommitFresh(p) /\ Row(p) = a
             /\ accounts'[a] # accounts[a] => OpStep(Home[a])
  <2>1. CASE accounts'[a] = accounts[a]
    <3>1. accounts[a] # NoRow => accounts[a] \in AccountRows /\ accounts[a].nonce <= accounts[a].nonce
      BY <1>0
    <3> QED
      BY <1>0, <2>1, <3>1
  <2>2. CASE /\ Home[a] = p /\ accounts[a] = NoRow
             /\ CommitFresh(p) /\ a = Row(p) /\ accounts'[a] = FreshAccount
    <3>1. FreshAccount \in AccountRows
      BY DEF FreshAccount, AccountRows
    <3> QED
      BY <1>2, <2>2, <3>1
  <2>3. CASE /\ Home[a] = p /\ accounts[a] \in AccountRows
             /\ CommitDeposit(p) /\ a = Row(p).to
             /\ accounts'[a] = NextAccount(accounts[a], Row(p).asset, DepositBalance(Row(p)))
    <3>1. op[p].at = "depositCommit" /\ op[p].rows # <<>>
      BY <2>3 DEF CommitDeposit, At, OperatorTyped, OpOK, Holding
    <3>2. Row(p) \in Deposits
      BY <3>1, RowTyped DEF RowSet
    <3>3. Row(p).asset \in Assets /\ DepositBalance(Row(p)) \in Int
      BY <2>3, <3>2, RequestAssumption DEF DepositBalance, AccountBalance, AccountRows
    <3>4. accounts'[a] \in AccountRows /\ accounts'[a].nonce = accounts[a].nonce + 1
      <4>1. PICK x \in Assets, b \in Int, acc \in AccountRows :
                x = Row(p).asset /\ b = DepositBalance(Row(p)) /\ acc = accounts[a]
        BY <2>3, <3>3
      <4>2. accounts'[a] = NextAccount(acc, x, b)
        BY <2>3, <4>1
      <4> QED
        <5>1. NextAccount(acc, x, b) \in AccountRows /\ NextAccount(acc, x, b).nonce = acc.nonce + 1
          BY NextAccountTyped
        <5> QED
          BY <4>1, <4>2, <5>1
    <3>5. accounts[a].nonce <= accounts'[a].nonce
      BY <1>0, <2>3, <3>4
    <3> QED
      BY <1>0, <1>2, <2>3, <3>4, <3>5
  <2>4. CASE /\ Home[a] = p /\ accounts[a] \in AccountRows
             /\ CommitSpend(p) /\ a = Row(p).from
             /\ accounts'[a] = NextAccount(accounts[a], Row(p).asset, Available(Row(p)) - Total(Row(p).outs))
    <3>1. op[p].at = "spendCommit" /\ op[p].rows # <<>>
      BY <2>4 DEF CommitSpend, At, OperatorTyped, OpOK, Holding
    <3>2. Row(p) \in Spends /\ InputsUsable(Row(p))
      BY <3>1, RowTyped DEF RowSet, StatesInv, ChecksHold
    <3>3. Row(p).asset \in Assets /\ Available(Row(p)) - Total(Row(p).outs) \in Int
      BY <1>0, <3>2, AvailableTyped, RequestAssumption
    <3>4. accounts'[a] \in AccountRows /\ accounts'[a].nonce = accounts[a].nonce + 1
      <4>1. PICK x \in Assets, b \in Int, acc \in AccountRows :
                x = Row(p).asset /\ b = Available(Row(p)) - Total(Row(p).outs) /\ acc = accounts[a]
        BY <2>4, <3>3
      <4>2. accounts'[a] = NextAccount(acc, x, b)
        BY <2>4, <4>1
      <4> QED
        <5>1. NextAccount(acc, x, b) \in AccountRows /\ NextAccount(acc, x, b).nonce = acc.nonce + 1
          BY NextAccountTyped
        <5> QED
          BY <4>1, <4>2, <5>1
    <3>5. accounts[a].nonce <= accounts'[a].nonce
      BY <1>0, <2>4, <3>4
    <3> QED
      BY <1>0, <1>2, <2>4, <3>4, <3>5
  <2> QED
    BY <1>2, <2>1, <2>2, <2>3, <2>4, AccountSteps
<1>3. ASSUME NEW p \in Pools, OpStep(p)
      PROVE  accounts' \in [Accounts -> AccountRows \cup {NoRow}]
  <2>1. accounts' = [a \in Accounts |-> accounts'[a]]
    BY <1>3, AccountSteps
  <2> QED
    BY <1>2, <1>3, <2>1
<1>4. UNCHANGED accounts \/ \E p \in Pools : OpStep(p)
  BY StepCases, RequestCases DEF vars, dbVars, SealBatch
<1> QED
  BY <1>0, <1>1, <1>2, <1>3, <1>4

\* What the sequencer accepted stays accepted.
LEMMA SequencedStays ==
    ASSUME [Next]_vars
    PROVE  posted \subseteq posted'
<1>1. ASSUME NEW p, PostFresh(p) \/ PostSpend(p) PROVE posted \subseteq posted'
  BY <1>1 DEF PostFresh, PostSpend, Post, Accept
<1>2. ASSUME NEW p \in Pools, OpStep(p) PROVE posted \subseteq posted'
  BY <1>1, <1>2, OperatorWrites
<1> QED
  BY <1>2, StepCases, RequestCases DEF vars, SealBatch, seqVars

\* Only its own operator writes the input notes of a subpool.
LEMMA InputsElsewhere ==
    ASSUME OperatorTyped, input_notes \in [Pools -> SUBSET InputRows], [Next]_vars,
           NEW p \in Pools, input_notes'[p] # input_notes[p]
    PROVE  OpStep(p)
<1>1. ASSUME NEW q \in Pools, OpStep(q), q # p PROVE input_notes'[p] = input_notes[p]
  BY <1>1, OperatorWrites DEF CommitSpend, InsertIncoming
<1> QED
  BY <1>1, StepCases, RequestCases DEF vars, dbVars, SealBatch

\* The rows of input_notes.
InputsTyped == input_notes \in [Pools -> SUBSET InputRows]

\* What an operator checked still holds, if another one moves.
LEMMA ChecksStill ==
    ASSUME OperatorTyped, InputsTyped, StatesInv, [Next]_vars, NEW p \in Pools,
           op'[p] = op[p], ~OpStep(p)
    PROVE  /\ op'[p].at = "depositCommit" => HasRow(p, Row(p).to)'
           /\ op'[p].at = "spendCommit" =>
                /\ HasRow(p, Row(p).from)' /\ InputsUsable(Row(p))'
                /\ Sequenced(Nullifier(Row(p).from, accounts[Row(p).from].nonce))'
           /\ op'[p].at = "freshCommit" =>
                (accounts[Row(p)] = NoRow)' /\ Sequenced(Nullifier(Row(p), 0))'
<1>0. op'[p].at = op[p].at /\ Row(p)' = Row(p)
  BY DEF Row
<1>a. posted \subseteq posted'
  BY SequencedStays
<1>b. ASSUME NEW a \in Accounts, Home[a] = p PROVE accounts'[a] = accounts[a]
  BY <1>b, AccountFacts DEF InputsTyped
<1>c. input_notes'[p] = input_notes[p]
  BY InputsElsewhere DEF InputsTyped
<1>1. CASE op[p].at = "depositCommit"
  <2>1. PICK d \in Deposits : d = Row(p)
    BY <1>1, RowTyped DEF OperatorTyped, OpOK, Holding, RowSet
  <2>2. HasRow(p, d.to) /\ d.to \in Accounts
    BY <1>1, <2>1, RequestAssumption DEF StatesInv, ChecksHold
  <2>3. HasRow(p, d.to)'
    BY <1>b, <2>2 DEF HasRow
  <2> QED
    BY <1>0, <1>1, <2>1, <2>3
<1>2. CASE op[p].at = "spendCommit"
  <2>1. PICK r \in Spends : r = Row(p) /\ r.pool = p
    BY <1>2, RowTyped DEF OperatorTyped, OpOK, Holding, RowSet
  <2>2. HasRow(p, r.from) /\ r.from \in Accounts /\ InputsUsable(r)
    BY <1>2, <2>1, RequestAssumption DEF StatesInv, ChecksHold
  <2>3. accounts'[r.from] = accounts[r.from]
    BY <1>b, <2>2 DEF HasRow
  <2>4. HasRow(p, r.from)' /\ InputsUsable(r)'
    BY <1>c, <2>1, <2>2, <2>3 DEF HasRow, InputsUsable, InputRow
  <2>5. Sequenced(Nullifier(r.from, accounts[r.from].nonce))
    BY <1>2, <2>1 DEF StatesInv
  <2>6. Sequenced(Nullifier(r.from, accounts[r.from].nonce))'
    BY <1>a, <2>3, <2>5 DEF Sequenced, Nullifier
  <2> QED
    BY <1>0, <1>2, <2>1, <2>4, <2>6
<1>3. CASE op[p].at = "freshCommit"
  <2>1. PICK a \in Accounts : a = Row(p) /\ Home[a] = p
    BY <1>3, RowTyped DEF OperatorTyped, OpOK, Holding, RowSet
  <2>2. accounts[a] = NoRow /\ Sequenced(Nullifier(a, 0))
    BY <1>3, <2>1 DEF StatesInv
  <2>3. accounts'[a] = NoRow /\ Sequenced(Nullifier(a, 0))'
    BY <1>a, <1>b, <2>1, <2>2 DEF Sequenced, Nullifier
  <2> QED
    BY <1>0, <1>3, <2>1, <2>3
<1> QED
  BY <1>0, <1>1, <1>2, <1>3

\* An operator that moves on has just checked, and has its transaction accepted.
LEMMA ChecksMove ==
    ASSUME OperatorTyped, InputsTyped, StatesInv, [Next]_vars, NEW p \in Pools, OpStep(p)
    PROVE  /\ op'[p].at = "depositCommit" => HasRow(p, Row(p).to)'
           /\ op'[p].at = "spendCommit" =>
                /\ HasRow(p, Row(p).from)' /\ InputsUsable(Row(p))'
                /\ Sequenced(Nullifier(Row(p).from, accounts[Row(p).from].nonce))'
           /\ op'[p].at = "freshCommit" =>
                (accounts[Row(p)] = NoRow)' /\ Sequenced(Nullifier(Row(p), 0))'
<1>0. Enters(p)
  BY OperatorEnters
<1>1. CASE op'[p].at = "depositCommit"
  <2>1. PostDeposit(p) /\ Row(p)' = Row(p) /\ HasRow(p, Row(p).to)
    BY <1>0, <1>1 DEF Enters, GoesTo, Row
  <2>2. UNCHANGED accounts
    BY <2>1 DEF PostDeposit, dbVars
  <2> QED
    BY <1>1, <2>1, <2>2 DEF HasRow
<1>2. CASE op'[p].at = "spendCommit"
  <2>1. PICK r : r = Row(p)
    OBVIOUS
  <2>2. /\ PostSpend(p) /\ Row(p)' = r /\ SpendChecks(p, r)
        /\ \E t \in posted' : t.an = Nullifier(r.from, accounts[r.from].nonce)
    BY <1>0, <1>2, <2>1 DEF Enters, GoesTo, Row
  <2>3. UNCHANGED <<accounts, input_notes>>
    BY <2>2 DEF PostSpend, dbVars
  <2>4. HasRow(p, r.from)' /\ InputsUsable(r)'
    BY <2>2, <2>3 DEF SpendChecks, HasRow, InputsUsable, InputRow
  <2>5. Sequenced(Nullifier(r.from, accounts[r.from].nonce))'
    BY <2>2, <2>3 DEF Sequenced, Nullifier
  <2> QED
    BY <1>2, <2>2, <2>4, <2>5
<1>3. CASE op'[p].at = "freshCommit"
  <2>0. PostFresh(p) /\ Row(p)' = Row(p) /\ Answer(Nullifier(Row(p), 0)) = "accepted"
    BY <1>0, <1>3 DEF Enters, GoesTo, Row
  <2>1. PICK a \in Accounts : a = Row(p)
    BY <2>0, RowTyped DEF PostFresh, At, RowSet
  <2> DEFINE t == [an |-> Nullifier(a, 0), by |-> a]
  <2>2. posted' = posted \cup {t}
    BY <2>0, <2>1 DEF PostFresh, Post, Accept
  <2>3. t.an = Nullifier(a, 0) /\ t \in posted'
    <3>1. t.an = Nullifier(a, 0)
      OBVIOUS
    <3> HIDE DEF t
    <3> QED
      BY <2>2, <3>1
  <2> HIDE DEF t
  <2>4. Sequenced(Nullifier(a, 0))'
    BY <2>3 DEF Sequenced, Nullifier
  <2>5. ~Sequenced(Nullifier(a, 0))
    BY <2>0, <2>1 DEF Answer, Sequenced
  <2>6. accounts[a] = NoRow
    BY <2>5 DEF StatesInv
  <2>7. UNCHANGED accounts
    BY <2>0 DEF PostFresh, dbVars
  <2> QED
    BY <1>3, <2>0, <2>1, <2>4, <2>6, <2>7
<1> QED
  BY <1>1, <1>2, <1>3

\* A spend row of a step: the row is there already, or its spend has just been committed.
LEMMA SpendRowSteps ==
    ASSUME OperatorTyped, SpendKeys, [Next]_vars, NEW r \in Spends, Approved(r)'
    PROVE  \/ Approved(r) /\ spend_tx_requests'[r] = spend_tx_requests[r]
           \/ \E p \in Pools : /\ OpStep(p) /\ CommitSpend(p) /\ Row(p) = r
                               /\ spend_tx_requests'[r].tx = Nullifier(r.from, accounts[r.from].nonce)
<1>1. CASE UNCHANGED spend_tx_requests
  BY <1>1 DEF Approved
<1>2. ASSUME NEW t \in Spends, SubmitSpend(t)
      PROVE Approved(r) /\ spend_tx_requests'[r] = spend_tx_requests[r]
  <2>1. spend_tx_requests' = [spend_tx_requests EXCEPT ![t] = [status |-> "PENDING", tx |-> NoRow]]
    BY <1>2 DEF SubmitSpend
  <2>2. spend_tx_requests'[t].status = "PENDING"
    BY <2>1 DEF SpendKeys
  <2> QED
    BY <2>1, <2>2 DEF Approved, SpendKeys
<1>3. ASSUME NEW p \in Pools, CommitSpend(p)
      PROVE  \/ Approved(r) /\ spend_tx_requests'[r] = spend_tx_requests[r]
             \/ Row(p) = r /\ spend_tx_requests'[r].tx = Nullifier(r.from, accounts[r.from].nonce)
  <2>1. spend_tx_requests' = [spend_tx_requests EXCEPT ![Row(p)] =
            [status |-> "APPROVED", tx |-> Nullifier(Row(p).from, accounts[Row(p).from].nonce)]]
    BY <1>3 DEF CommitSpend
  <2>2. CASE Row(p) = r
    <3>1. spend_tx_requests'[r] = [status |-> "APPROVED", tx |-> Nullifier(r.from, accounts[r.from].nonce)]
      BY <2>1, <2>2 DEF SpendKeys
    <3> QED
      BY <2>2, <3>1
  <2> QED
    BY <2>1, <2>2 DEF Approved, SpendKeys
<1> QED
  BY <1>1, <1>2, <1>3, StepCases, RequestCases, OperatorWrites DEF vars, dbVars, SealBatch

\* What committing a spend takes: the sequenced current state of the account, which moves on.
LEMMA CommittedState ==
    ASSUME OperatorTyped, InputsTyped, StatesInv, NEW p \in Pools, CommitSpend(p)
    PROVE  LET a == Row(p).from
           IN  /\ Row(p) \in Spends /\ a \in Accounts
               /\ accounts[a] \in AccountRows /\ accounts[a].nonce \in Nat
               /\ accounts'[a] \in AccountRows /\ accounts'[a] # NoRow
               /\ accounts'[a].nonce = accounts[a].nonce + 1
               /\ Sequenced(Nullifier(a, accounts[a].nonce))
<1> DEFINE r == Row(p)
           a == r.from
<1>1. op[p].at = "spendCommit" /\ op[p].rows # <<>>
  BY DEF CommitSpend, At, OperatorTyped, OpOK, Holding
<1>2. r \in Spends /\ InputsUsable(r) /\ HasRow(p, a) /\ Sequenced(Nullifier(a, accounts[a].nonce))
  BY <1>1, RowTyped DEF RowSet, StatesInv, ChecksHold
<1>3. a \in Accounts /\ r.asset \in Assets
  BY <1>2, RequestAssumption
<1>4. accounts[a] \in AccountRows /\ accounts \in [Accounts -> AccountRows \cup {NoRow}]
  BY <1>2, <1>3 DEF StatesInv, HasRow
<1>5. Available(r) - Total(r.outs) \in Int
  BY <1>2, <1>4, AvailableTyped DEF InputsTyped
<1>6. PICK x \in Assets, b \in Int, acc \in AccountRows :
          x = r.asset /\ b = Available(r) - Total(r.outs) /\ acc = accounts[a]
  BY <1>3, <1>4, <1>5
<1>7. accounts'[a] = NextAccount(acc, x, b)
  BY <1>3, <1>4, <1>6 DEF CommitSpend, UpdateAccount
<1>8. NextAccount(acc, x, b) \in AccountRows /\ NextAccount(acc, x, b).nonce = acc.nonce + 1
  BY NextAccountTyped
<1>9. acc.nonce \in Nat /\ NoRow \notin AccountRows
  BY NoRowAssumption DEF AccountRows
<1> QED
  BY <1>2, <1>3, <1>6, <1>7, <1>8, <1>9

\* Every step keeps the invariant of account states.
LEMMA NextStatesInv == OperatorTyped /\ InputsTyped /\ StatesInv /\ [Next]_vars => StatesInv'
<1> SUFFICES ASSUME OperatorTyped, InputsTyped, StatesInv, [Next]_vars PROVE StatesInv'
  OBVIOUS
<1>0. posted \subseteq posted' /\ SpendKeys
  BY SequencedStays DEF StatesInv
<1>1. accounts' \in [Accounts -> AccountRows \cup {NoRow}]
  BY AccountFacts DEF InputsTyped
<1>2. ASSUME NEW p \in Pools
      PROVE  /\ op'[p].at = "depositCommit" => HasRow(p, Row(p).to)'
             /\ op'[p].at = "spendCommit" =>
                  /\ HasRow(p, Row(p).from)' /\ InputsUsable(Row(p))'
                  /\ Sequenced(Nullifier(Row(p).from, accounts[Row(p).from].nonce))'
             /\ op'[p].at = "freshCommit" =>
                  (accounts[Row(p)] = NoRow)' /\ Sequenced(Nullifier(Row(p), 0))'
  <2>1. (op'[p] = op[p] /\ ~OpStep(p)) \/ OpStep(p)
    BY StepCases, RequestCases, OperatorEnters DEF vars, SealBatch
  <2> QED
    BY <2>1, ChecksStill, ChecksMove
<1>3. ASSUME NEW a \in Accounts, accounts'[a] # NoRow PROVE Sequenced(Nullifier(a, 0))'
  <2>1. Sequenced(Nullifier(a, 0))
    <3>1. CASE accounts[a] = NoRow
      BY <1>3, <3>1, AccountFacts DEF InputsTyped, CommitFresh, At, StatesInv
    <3> QED
      BY <3>1 DEF StatesInv
  <2> QED
    BY <1>0, <2>1 DEF Sequenced, Nullifier
<1> DEFINE Tx(r) == spend_tx_requests'[r].tx
<1>4. ASSUME NEW r \in Spends, Approved(r)'
      PROVE  /\ accounts'[r.from] # NoRow
             /\ Tx(r) \in [acc : {r.from}, nonce : Nat]
             /\ Tx(r).nonce < accounts'[r.from].nonce
             /\ \E t \in posted' : t.an = Tx(r)
  <2>1. CASE Approved(r) /\ spend_tx_requests'[r] = spend_tx_requests[r]
    <3>1. /\ accounts[r.from] # NoRow /\ spend_tx_requests[r].tx \in [acc : {r.from}, nonce : Nat]
          /\ spend_tx_requests[r].tx.nonce < accounts[r.from].nonce
          /\ Sequenced(spend_tx_requests[r].tx) /\ r.from \in Accounts
      BY <2>1, RequestAssumption DEF StatesInv
    <3>2. /\ accounts'[r.from] # NoRow /\ accounts[r.from].nonce <= accounts'[r.from].nonce
          /\ accounts[r.from].nonce \in Nat /\ accounts'[r.from].nonce \in Nat
      BY <3>1, AccountFacts DEF InputsTyped, AccountRows
    <3>3. Tx(r) = spend_tx_requests[r].tx /\ spend_tx_requests[r].tx.nonce \in Nat
      BY <2>1, <3>1
    <3>4. Tx(r).nonce < accounts'[r.from].nonce
      BY <3>1, <3>2, <3>3
    <3> QED
      BY <1>0, <3>1, <3>2, <3>3, <3>4 DEF Sequenced
  <2>2. ASSUME NEW p \in Pools, CommitSpend(p), Row(p) = r,
               Tx(r) = Nullifier(r.from, accounts[r.from].nonce)
        PROVE  /\ accounts'[r.from] # NoRow
               /\ Tx(r) \in [acc : {r.from}, nonce : Nat]
               /\ Tx(r).nonce < accounts'[r.from].nonce
               /\ \E t \in posted' : t.an = Tx(r)
    <3>1. /\ accounts[r.from].nonce \in Nat
          /\ accounts'[r.from] # NoRow /\ accounts'[r.from].nonce = accounts[r.from].nonce + 1
          /\ Sequenced(Nullifier(r.from, accounts[r.from].nonce))
      BY <2>2, CommittedState
    <3>2. Tx(r) \in [acc : {r.from}, nonce : Nat] /\ Tx(r).nonce = accounts[r.from].nonce
      BY <2>2, <3>1 DEF Nullifier
    <3> QED
      BY <1>0, <2>2, <3>1, <3>2 DEF Sequenced
  <2> QED
    BY <1>0, <1>4, <2>1, <2>2, SpendRowSteps
<1>5. ASSUME NEW r \in Spends, NEW s \in Spends, Approved(r)', Approved(s)', Tx(s) = Tx(r)
      PROVE  s = r
  <2> DEFINE New(q, x) == /\ OpStep(q) /\ CommitSpend(q) /\ Row(q) = x
                          /\ Tx(x) = Nullifier(x.from, accounts[x.from].nonce)
             Old(x) == Approved(x) /\ spend_tx_requests'[x] = spend_tx_requests[x]
  <2>1. /\ Old(r) \/ \E q \in Pools : New(q, r)
        /\ Old(s) \/ \E q \in Pools : New(q, s)
    BY <1>0, <1>5, SpendRowSteps
  <2>2. ASSUME NEW x \in Spends, NEW y \in Spends, NEW q \in Pools, New(q, x), Old(y), Tx(y) = Tx(x)
        PROVE  FALSE
    <3>1. Tx(y).nonce < accounts[y.from].nonce /\ Tx(y) \in [acc : {y.from}, nonce : Nat]
      BY <2>2 DEF StatesInv
    <3>2. accounts[x.from].nonce \in Nat
      BY <2>2, CommittedState
    <3>3. Tx(x).acc = x.from /\ Tx(x).nonce = accounts[x.from].nonce
      BY <2>2 DEF Nullifier
    <3>4. y.from = x.from
      BY <2>2, <3>1, <3>3
    <3> QED
      BY <2>2, <3>1, <3>2, <3>3, <3>4
  <2>3. CASE Old(r) /\ Old(s)
    BY <1>5, <2>3 DEF StatesInv, TakenOnce
  <2>4. ASSUME NEW p \in Pools, NEW q \in Pools, New(p, r), New(q, s) PROVE s = r
    <3>1. CASE p # q
      <4>1. op'[p] = op[p] /\ op[p].at = "spendCommit"
        BY <2>4, <3>1, OperatorEnters DEF CommitSpend, At
      <4>2. op'[p] = [at |-> "forward", rows |-> op[p].rows, notes |-> Foreign(p, Row(p).outs)]
        BY <2>4 DEF CommitSpend, OperatorTyped
      <4> QED
        BY <4>1, <4>2
    <3>2. CASE p = q
      BY <2>4, <3>2
    <3> QED
      BY <3>1, <3>2
  <2> QED
    BY <1>5, <2>1, <2>2, <2>3, <2>4
<1>6. TakenOnce'
  BY <1>5 DEF TakenOnce
<1>7. ChecksHold'
  BY <1>2 DEF ChecksHold
<1>8. SpendKeys'
  BY <1>0, SpendKeysStay
<1> QED
  BY <1>1, <1>2, <1>3, <1>4, <1>6, <1>7, <1>8 DEF StatesInv, Sequenced

\* No account is registered at first.
LEMMA InitStatesInv == Init => StatesInv
<1> SUFFICES ASSUME Init PROVE StatesInv
  OBVIOUS
<1>1. \A p \in Pools : op[p].at = "idle"
  BY DEF Init, OpInit, Idle
<1>2. spend_tx_requests = [r \in Spends |-> NoRow] /\ accounts = [a \in Accounts |-> NoRow]
  BY DEF Init, DbInit
<1> QED
  BY <1>1, <1>2 DEF StatesInv, SpendKeys, Approved, ChecksHold, TakenOnce

\* Who posted what.  The states after an account's first are spent by its own requests.
PostsTyped ==
    /\ faults \in Nat
    /\ \A a \in Accounts : accounts[a] # NoRow => accounts[a].nonce > 0
    /\ \A t \in posted :
           /\ t.an.acc \in Accounts /\ t.an.nonce \in Nat
           /\ t.an.nonce > 0 => accounts[t.an.acc] # NoRow /\ t.by \in Spends /\ t.by.from = t.an.acc

\* Without a fault, the current state of an account is spent at the sequencer only by the
\* request its operator is about to commit.
OwnPosts ==
    faults = 0 =>
        \A t \in posted :
            accounts[t.an.acc] # NoRow /\ t.an.nonce >= accounts[t.an.acc].nonce =>
                /\ t.an.nonce = accounts[t.an.acc].nonce
                /\ op[Home[t.an.acc]].at = "spendCommit"
                /\ t.by = Row(Home[t.an.acc])

\* An approved spend has its transaction, or after a fault one of its account, sequenced.
TakenByOwn ==
    \A r \in Spends : Approved(r) =>
        \E t \in posted : /\ t.an = spend_tx_requests[r].tx
                          /\ t.by = r \/ (faults > 0 /\ t.by \in Spends /\ t.by.from = r.from)

PostsInv == PostsTyped /\ OwnPosts /\ TakenByOwn

\* A step counts a fault or none.
LEMMA FaultSteps ==
    ASSUME faults \in Nat, [Next]_vars
    PROVE  faults' \in Nat /\ faults <= faults'
<1> USE DEF seqVars
<1>1. ASSUME NEW p, Tick(p) PROVE faults' = faults \/ faults' = faults + 1
  <2>1. CASE PostFresh(p) \/ PostSpend(p)
    BY <2>1 DEF PostFresh, PostSpend, Post, Fault
  <2>2. CASE StartJob(p) \/ EndTick(p) \/ CommitFresh(p) \/ CommitDeposit(p) \/ CommitSpend(p)
    BY <2>2 DEF StartJob, EndTick, CommitFresh, CommitDeposit, CommitSpend
  <2>3. CASE Broadcast(p) \/ SaveHash(p) \/ ReuseHash(p) \/ PostDeposit(p)
    BY <2>3 DEF Broadcast, SaveHash, ReuseHash, PostDeposit
  <2>4. CASE ForwardNote(p) \/ SpendDone(p) \/ InsertIncoming(p) \/ AckNotes(p)
    BY <2>4 DEF ForwardNote, SpendDone, InsertIncoming, AckNotes
  <2> QED
    BY <1>1, <2>1, <2>2, <2>3, <2>4 DEF Tick
<1>2. ASSUME NEW p, OpStep(p) PROVE faults' = faults \/ faults' = faults + 1
  BY <1>1, <1>2 DEF OpStep, ForwardFails, StepFails, Crash, Fault
<1>3. faults' = faults \/ faults' = faults + 1
  BY <1>2, StepCases, RequestCases DEF vars, SealBatch
<1> QED
  BY <1>3

\* What is added to the accepted transactions: the first state of an account that has no row,
\* or the current state of an account by the request whose commit comes next.
NewFresh(p, t) ==
    /\ PostFresh(p) /\ Row(p) \in Accounts /\ t.an = Nullifier(Row(p), 0)
NewSpend(p, t) ==
    /\ PostSpend(p) /\ Row(p) \in Spends /\ HasRow(p, Row(p).from) /\ t.by = Row(p)
    /\ t.an = Nullifier(Row(p).from, accounts[Row(p).from].nonce)
    /\ Goto(p, "spendCommit") \/ faults' = faults + 1

LEMMA PostedSteps ==
    ASSUME OperatorTyped, [Next]_vars, NEW t \in posted', t \notin posted
    PROVE  \E p \in Pools : OpStep(p) /\ (NewFresh(p, t) \/ NewSpend(p, t))
<1>1. PICK p \in Pools : OpStep(p) /\ (PostFresh(p) \/ PostSpend(p))
  BY StepCases, RequestCases, OperatorWrites DEF vars, SealBatch, seqVars
<1>2. ASSUME NEW an, NEW by, Accept(an, by) PROVE t = [an |-> an, by |-> by]
  BY <1>2 DEF Accept
<1>3. ASSUME NEW an, NEW by, t = [an |-> an, by |-> by] PROVE t.an = an /\ t.by = by
  BY <1>3
<1>4. CASE PostFresh(p)
  <2>1. Row(p) \in Accounts
    BY <1>4, RowTyped DEF PostFresh, At, RowSet
  <2>2. Accept(Nullifier(Row(p), 0), Row(p))
    BY <1>4 DEF PostFresh, Post
  <2>3. t.an = Nullifier(Row(p), 0)
    BY <1>2, <1>3, <2>2
  <2> QED
    BY <1>1, <1>4, <2>1, <2>3 DEF NewFresh
<1>5. CASE PostSpend(p)
  <2> DEFINE r == Row(p)
             an == Nullifier(r.from, accounts[r.from].nonce)
  <2>1. r \in Spends
    BY <1>5, RowTyped DEF PostSpend, At, RowSet
  <2>2. posted' # posted
    OBVIOUS
  <2>3. SpendChecks(p, r) /\ Post(an, r, p, SpendGood, "spendCommit")
    BY <1>5, <2>2 DEF PostSpend
  <2>4. Accept(an, r) /\ t.an = an /\ t.by = r
    BY <1>2, <1>3, <2>3 DEF Post
  <2>5. Answer(an) = "accepted"
    BY <2>2, <2>4 DEF Accept
  <2>6. Goto(p, "spendCommit") \/ faults' = faults + 1
    BY <2>3, <2>5 DEF Post, SpendGood, Fault
  <2> QED
    BY <1>1, <1>5, <2>1, <2>3, <2>4, <2>6 DEF NewSpend, SpendChecks
<1> QED
  BY <1>1, <1>4, <1>5

\* An operator leaves its commit by making it, or with a fault.
LEMMA LeavesCommit ==
    ASSUME NEW p \in Pools, OpStep(p), op[p].at = "spendCommit", faults \in Nat, faults' = 0
    PROVE  CommitSpend(p)
<1>1. ~(StartJob(p) \/ EndTick(p))
  BY DEF StartJob, EndTick, BetweenJobs, At
<1>2. ~(PostFresh(p) \/ CommitFresh(p) \/ Broadcast(p) \/ SaveHash(p) \/ ReuseHash(p) \/ PostDeposit(p)
        \/ CommitDeposit(p) \/ PostSpend(p) \/ ForwardNote(p) \/ SpendDone(p) \/ InsertIncoming(p) \/ AckNotes(p))
  BY DEF PostFresh, CommitFresh, Broadcast, SaveHash, ReuseHash, PostDeposit, CommitDeposit, PostSpend,
         ForwardNote, SpendDone, InsertIncoming, AckNotes, At
<1>3. ~(ForwardFails(p) \/ StepFails(p) \/ Crash(p))
  BY DEF ForwardFails, StepFails, Crash, Fault
<1> QED
  BY <1>1, <1>2, <1>3 DEF OpStep, Tick

\* Every step keeps account of who posted what.
LEMMA NextPostsInv ==
    ASSUME OperatorTyped, InputsTyped, StatesInv, PostsInv, [Next]_vars
    PROVE  PostsInv'
<1>0. faults \in Nat /\ faults' \in Nat /\ faults <= faults' /\ posted \subseteq posted'
  BY FaultSteps, SequencedStays DEF PostsInv, PostsTyped
<1>a. ASSUME NEW a \in Accounts, accounts[a] # NoRow
      PROVE  /\ accounts'[a] # NoRow /\ accounts[a].nonce \in Nat /\ accounts'[a].nonce \in Nat
             /\ accounts[a].nonce <= accounts'[a].nonce /\ accounts[a].nonce > 0
             /\ accounts'[a] # accounts[a] => OpStep(Home[a])
  BY <1>a, AccountFacts DEF InputsTyped, AccountRows, PostsInv, PostsTyped
<1>b. ASSUME NEW a \in Accounts, accounts[a] = NoRow, accounts'[a] # NoRow
      PROVE  accounts'[a].nonce = 1
  <2>1. PICK p \in Pools : CommitFresh(p) /\ Row(p) = a
    BY <1>b, AccountFacts DEF InputsTyped
  <2>2. accounts'[a] = FreshAccount
    BY <2>1 DEF CommitFresh, UpdateAccount, StatesInv
  <2> QED
    BY <2>2 DEF FreshAccount
<1>1. ASSUME NEW a \in Accounts, accounts'[a] # NoRow PROVE accounts'[a].nonce > 0
  <2>1. CASE accounts[a] = NoRow
    BY <1>1, <1>b, <2>1
  <2>2. CASE accounts[a] # NoRow
    BY <1>a, <2>2
  <2> QED
    BY <2>1, <2>2
<1>c. ASSUME NEW p \in Pools, NEW t, NewFresh(p, t)
      PROVE  UNCHANGED accounts /\ t.an.acc \in Accounts /\ t.an.nonce = 0
  BY <1>c DEF NewFresh, Nullifier, PostFresh, dbVars
<1>d. ASSUME NEW p \in Pools, NEW t, NewSpend(p, t)
      PROVE  /\ UNCHANGED accounts /\ t.by \in Spends /\ t.by = Row(p) /\ t.an.acc = t.by.from
             /\ t.an.acc \in Accounts /\ accounts[t.an.acc] # NoRow /\ Home[t.an.acc] = p
             /\ t.an.nonce = accounts[t.an.acc].nonce /\ t.an.nonce \in Nat
             /\ Goto(p, "spendCommit") \/ faults' = faults + 1
  <2>1. /\ UNCHANGED accounts /\ t.by \in Spends /\ t.by = Row(p) /\ t.an.acc = t.by.from
        /\ t.an.nonce = accounts[t.by.from].nonce /\ HasRow(p, t.by.from)
        /\ Goto(p, "spendCommit") \/ faults' = faults + 1
    BY <1>d DEF NewSpend, Nullifier, PostSpend, dbVars
  <2>2. t.by.from \in Accounts
    BY <2>1, RequestAssumption
  <2> QED
    BY <2>1, <2>2, <1>a DEF HasRow
<1>2. ASSUME NEW t \in posted'
      PROVE  /\ t.an.acc \in Accounts /\ t.an.nonce \in Nat
             /\ t.an.nonce > 0 => accounts'[t.an.acc] # NoRow /\ t.by \in Spends /\ t.by.from = t.an.acc
  <2>1. CASE t \in posted
    BY <1>a, <2>1 DEF PostsInv, PostsTyped
  <2>2. CASE t \notin posted
    <3>1. PICK p \in Pools : NewFresh(p, t) \/ NewSpend(p, t)
      BY <2>2, PostedSteps
    <3> QED
      BY <1>c, <1>d, <3>1
  <2> QED
    BY <2>1, <2>2
<1>3. PostsTyped'
  BY <1>0, <1>1, <1>2 DEF PostsTyped
<1>4. ASSUME faults' = 0, NEW t \in posted', accounts'[t.an.acc] # NoRow,
             t.an.nonce >= accounts'[t.an.acc].nonce
      PROVE  /\ t.an.nonce = accounts'[t.an.acc].nonce
             /\ op'[Home[t.an.acc]].at = "spendCommit"
             /\ t.by = Row(Home[t.an.acc])'
  <2> DEFINE a == t.an.acc
             p == Home[a]
  <2>0. a \in Accounts /\ p \in Pools /\ t.an.nonce \in Nat /\ faults = 0
    BY <1>0, <1>2, <1>4, DatabaseAssumption
  <2>1. CASE t \in posted
    <3>1. accounts[a] # NoRow
      BY <1>4, <1>b, <2>0, <2>1 DEF PostsInv, PostsTyped
    <3>2. t.an.nonce >= accounts[a].nonce
      BY <1>4, <1>a, <2>0, <3>1
    <3>3. t.an.nonce = accounts[a].nonce /\ op[p].at = "spendCommit" /\ t.by = Row(p)
      BY <2>0, <2>1, <3>1, <3>2 DEF PostsInv, OwnPosts
    <3>4. ~OpStep(p)
      <4> SUFFICES ASSUME OpStep(p) PROVE FALSE
        OBVIOUS
      <4>1. CommitSpend(p)
        BY <1>4, <2>0, <3>3, LeavesCommit
      <4>2. HasRow(p, Row(p).from) /\ accounts'[Row(p).from].nonce = accounts[Row(p).from].nonce + 1
        BY <2>0, <3>3, <4>1, CommittedState DEF StatesInv, ChecksHold
      <4>3. Row(p).from = a
        BY <2>0, <2>1, <3>1, <3>3, <1>a DEF PostsInv, PostsTyped
      <4> QED
        BY <1>4, <1>a, <2>0, <3>1, <3>3, <4>2, <4>3
    <3>5. op'[p] = op[p] /\ accounts'[a] = accounts[a]
      BY <1>a, <2>0, <3>1, <3>4, StepCases, RequestCases, OperatorEnters DEF vars, SealBatch
    <3> QED
      BY <3>3, <3>5 DEF Row
  <2>2. CASE t \notin posted
    <3>1. PICK q \in Pools : OpStep(q) /\ (NewFresh(q, t) \/ NewSpend(q, t))
      BY <2>2, PostedSteps
    <3>2. CASE NewFresh(q, t)
      BY <1>4, <1>c, <1>1, <2>0, <3>2, <1>a
    <3>3. CASE NewSpend(q, t)
      <4>1. /\ UNCHANGED accounts /\ t.by = Row(q) /\ p = q
            /\ t.an.nonce = accounts[a].nonce /\ Goto(q, "spendCommit")
        BY <1>4, <1>d, <2>0, <3>3
      <4>2. op'[q] = [op[q] EXCEPT !.at = "spendCommit"]
        BY <4>1 DEF Goto, OperatorTyped
      <4>3. op'[q].at = "spendCommit" /\ op'[q].rows = op[q].rows
        BY <4>2, OpFields DEF OperatorTyped, OpOK
      <4> QED
        BY <4>1, <4>3 DEF Row
    <3> QED
      BY <3>1, <3>2, <3>3
  <2> QED
    BY <2>1, <2>2
<1>5. OwnPosts'
  BY <1>4 DEF OwnPosts
<1>6. ASSUME NEW r \in Spends, Approved(r)'
      PROVE  \E t \in posted' : /\ t.an = spend_tx_requests'[r].tx
                                /\ t.by = r \/ (faults' > 0 /\ t.by \in Spends /\ t.by.from = r.from)
  <2>1. CASE Approved(r) /\ spend_tx_requests'[r] = spend_tx_requests[r]
    <3>1. PICK t \in posted : /\ t.an = spend_tx_requests[r].tx
                              /\ t.by = r \/ (faults > 0 /\ t.by \in Spends /\ t.by.from = r.from)
      BY <2>1 DEF PostsInv, TakenByOwn
    <3>2. faults > 0 => faults' > 0
      BY <1>0
    <3> QED
      BY <1>0, <2>1, <3>1, <3>2
  <2>2. ASSUME NEW p \in Pools, CommitSpend(p), Row(p) = r,
               spend_tx_requests'[r].tx = Nullifier(r.from, accounts[r.from].nonce)
        PROVE  \E t \in posted' : /\ t.an = spend_tx_requests'[r].tx
                                  /\ t.by = r \/ (faults' > 0 /\ t.by \in Spends /\ t.by.from = r.from)
    <3>1. op[p].at = "spendCommit" /\ HasRow(p, r.from) /\ r.from \in Accounts
      BY <2>2, CommittedState DEF CommitSpend, At, StatesInv, ChecksHold
    <3>2. PICK t \in posted : t.an = Nullifier(r.from, accounts[r.from].nonce)
      BY <2>2, CommittedState DEF Sequenced
    <3>3. t.an.acc = r.from /\ t.an.nonce = accounts[r.from].nonce
      BY <3>2 DEF Nullifier
    <3>4. accounts[r.from].nonce \in Nat /\ accounts[r.from].nonce > 0
      BY <1>a, <3>1 DEF HasRow
    <3>5. t.by \in Spends /\ t.by.from = r.from
      BY <3>3, <3>4 DEF PostsInv, PostsTyped
    <3>6. faults = 0 => t.by = r
      BY <2>2, <3>1, <3>3, <3>4 DEF PostsInv, OwnPosts, HasRow
    <3>7. faults' = faults
      BY <2>2 DEF CommitSpend
    <3> QED
      BY <1>0, <2>2, <3>2, <3>5, <3>6, <3>7
  <2> QED
    BY <1>6, <2>1, <2>2, SpendRowSteps DEF StatesInv
<1>7. TakenByOwn'
  BY <1>6 DEF TakenByOwn
<1> QED
  BY <1>3, <1>5, <1>7 DEF PostsInv

\* Nothing is posted at first.
LEMMA InitPostsInv == Init => PostsInv
BY DEF Init, OpInit, DbInit, PostsInv, PostsTyped, OwnPosts, TakenByOwn, Approved

\* Every approved spend took a state of its account whose transaction the sequencer accepted,
\* its own as long as no fault happened and one of the account's requests in any case, and no
\* two approved spends took the same state, whatever answers were lost and whenever operators
\* died.
THEOREM StatesSpentOnce == Spec => []SpentStatesAreSequenced
<1>1. SentInv => InputsTyped
  BY DEF SentInv, InputsTyped
<1>2. StatesInv /\ PostsInv => SpentStatesAreSequenced
  BY DEF StatesInv, PostsInv, TakenByOwn, TakenOnce, SpentStatesAreSequenced
<1> QED
  BY <1>1, <1>2, InitSentInv, NextSentInv, InitStatesInv, NextStatesInv, InitPostsInv, NextPostsInv,
     OperatorTypes, PTL DEF Spec

-----------------------------------------------------------------------------
(* The ledger *)

\* Two notes, or a note and a row, with the same content.
SameNote(m, n) == m.id = n.id /\ m.asset = n.asset /\ m.amt = n.amt /\ m.to = n.to

\* Note identifiers are random: no two subpools are asked for the same note.  Within one
\* subpool the database sees to it.
NotesDiffer ==
    \A r, s \in Spends : r.pool # s.pool =>
        \A n \in ToSet(r.outs), m \in ToSet(s.outs) : ~SameNote(n, m)

Submitted(r) == spend_tx_requests[r] # NoRow
Distinct(s) == \A i, j \in DOMAIN s : s[i] = s[j] => i = j

\* The outputs of a submitted request are of its asset and have identifiers of their own.
OutputsOwn ==
    /\ DOMAIN output_notes = Pools
    /\ \A r \in Spends : Submitted(r) =>
           /\ \A n \in ToSet(r.outs) : n.asset = r.asset /\ n \in output_notes[r.pool]
           /\ \A i, j \in DOMAIN r.outs : r.outs[i].id = r.outs[j].id => i = j
    /\ \A r, s \in Spends : Submitted(r) /\ Submitted(s) /\ r.pool = s.pool /\ r # s =>
           \A n \in ToSet(r.outs), m \in ToSet(s.outs) : n.id # m.id

\* An operator holds a request once, and none that is approved, the one it forwards excepted.
SpendSteps == {"spend", "spendCommit", "forward"}
DepositsOpen(p) ==
    Distinct(op[p].rows) /\ \A i \in DOMAIN op[p].rows : ~Credited(op[p].rows[i])
SpendsOpen(p) ==
    /\ Distinct(op[p].rows)
    /\ \A i \in DOMAIN op[p].rows :
           /\ Submitted(op[p].rows[i])
           /\ ~(op[p].at = "forward" /\ i = 1) => ~Approved(op[p].rows[i])
RowsOpen ==
    /\ \A p \in Pools : op[p].at \in DepositSteps => DepositsOpen(p)
    /\ \A p \in Pools : op[p].at \in SpendSteps => SpendsOpen(p)
    /\ \A p \in Pools : Distinct(created[p]) /\ \A r \in ToSet(created[p]) : Submitted(r)

\* Every input note, and every note under way, was sent.
NotesSent ==
    /\ \A p \in Pools : /\ UniqueIds(input_notes[p]) /\ IsFiniteSet(input_notes[p])
                        /\ \A m \in input_notes[p] : Home[m.to] = p /\ \E n \in SentNotes : SameNote(m, n)
    /\ \A p \in Pools : mailbox[p] \subseteq SentNotes
    /\ \A p \in Pools : op[p].at = "forward" => ToSet(op[p].notes) \subseteq SentNotes
    /\ \A p \in Pools : op[p].at = "insert" =>
           \A n \in ToSet(op[p].rows) : n \in SentNotes /\ Home[n.to] = p

\* What an approved spend took in stays consumed.
InputsConsumed ==
    \A r \in Spends : Approved(r) =>
        \A i \in 1..Len(r.ins) : \E m \in InputRow(r.pool, r.ins[i]) : m.consume

-----------------------------------------------------------------------------
(* Sums of notes *)

\* Finitely many notes or rows, with amounts.
Countable(N) == IsFiniteSet(N) /\ \A n \in N : n.amt \in Nat

\* The total of a set as a sum of any function that gives the amounts.
LEMMA TotalSetSum ==
    ASSUME NEW N, Countable(N), NEW f, \A n \in N : f[n] = n.amt
    PROVE  TotalSet(N) = SumFunctionOnSet(f, N)
<1> DEFINE g == [n \in N |-> n.amt]
<1>1. TotalSet(N) = SumFunctionOnSet(g, N)
  BY DEF TotalSet, SumFunction, FoldFunction, SumFunctionOnSet
<1>2. \A n \in N : g[n] = f[n] /\ g[n] \in Int
  BY DEF Countable
<1> HIDE DEF g
<1> QED
  BY <1>1, <1>2, SumCongruence DEF Countable

\* It is a natural number.
LEMMA TotalSetNat ==
    ASSUME NEW N, Countable(N)
    PROVE  TotalSet(N) \in Nat
<1> DEFINE f == [n \in N |-> n.amt]
<1>1. \A n \in N : f[n] = n.amt /\ f[n] \in Nat
  BY DEF Countable
<1> HIDE DEF f
<1>2. TotalSet(N) = SumFunctionOnSet(f, N)
  BY <1>1, TotalSetSum
<1>3. SumFunctionOnSet(f, N) \in Nat
  BY <1>1, SumNat DEF Countable
<1> QED
  BY <1>2, <1>3

\* Totals of disjoint sets add up.
LEMMA TotalSetUnion ==
    ASSUME NEW N, NEW M, Countable(N), Countable(M), N \cap M = {}
    PROVE  Countable(N \cup M) /\ TotalSet(N \cup M) = TotalSet(N) + TotalSet(M)
<1> DEFINE f == [n \in N \cup M |-> n.amt]
<1>1. Countable(N \cup M)
  BY FS_Union DEF Countable
<1>2. \A n \in N \cup M : f[n] = n.amt /\ f[n] \in Int
  BY <1>1 DEF Countable
<1> HIDE DEF f
<1>3. SumFunctionOnSet(f, N \cup M) = SumFunctionOnSet(f, N) + SumFunctionOnSet(f, M)
  BY <1>2, SumUnion DEF Countable
<1>4. /\ TotalSet(N \cup M) = SumFunctionOnSet(f, N \cup M)
      /\ TotalSet(N) = SumFunctionOnSet(f, N) /\ TotalSet(M) = SumFunctionOnSet(f, M)
  BY <1>1, <1>2, TotalSetSum
<1> QED
  BY <1>1, <1>3, <1>4

\* The total of one note.
LEMMA TotalSetOne ==
    ASSUME NEW n, n.amt \in Nat
    PROVE  Countable({n}) /\ TotalSet({n}) = n.amt
<1> DEFINE f == [m \in {n} |-> m.amt]
<1>1. Countable({n})
  BY FS_Singleton DEF Countable
<1>2. f[n] = n.amt /\ \A m \in {n} : f[m] = m.amt
  OBVIOUS
<1> HIDE DEF f
<1>3. TotalSet({n}) = SumFunctionOnSet(f, {n})
  BY <1>1, <1>2, TotalSetSum
<1>4. SumFunctionOnSet(f, {n}) = f[n]
  <2>1. IsFiniteSet({n}) /\ n \in {n} /\ f[n] \in Int /\ \A y \in {n} \ {n} : f[y] = 0
    BY <1>1, <1>2 DEF Countable
  <2> QED
    BY <2>1, SumSingle
<1> QED
  BY <1>1, <1>2, <1>3, <1>4

\* A part of a countable set is countable.
LEMMA CountablePart ==
    ASSUME NEW N, Countable(N), NEW M, M \subseteq N
    PROVE  Countable(M)
BY FS_Subset DEF Countable

\* Taking a part away.
LEMMA TotalSetMinus ==
    ASSUME NEW N, Countable(N), NEW M, M \subseteq N
    PROVE  /\ Countable(M) /\ Countable(N \ M)
           /\ TotalSet(N) = TotalSet(N \ M) + TotalSet(M)
<1>1. Countable(M) /\ Countable(N \ M)
  BY CountablePart
<1>2. (N \ M) \cup M = N /\ (N \ M) \cap M = {}
  OBVIOUS
<1> QED
  BY <1>1, <1>2, TotalSetUnion

\* A one-to-one map that keeps amounts keeps the total.
LEMMA TotalSetMapped ==
    ASSUME NEW N, Countable(N), NEW m, NEW M, M = {m[n] : n \in N},
           \A n, k \in N : m[n] = m[k] => n = k, \A n \in N : m[n].amt = n.amt
    PROVE  Countable(M) /\ TotalSet(M) = TotalSet(N)
<1> DEFINE f == [x \in M |-> x.amt]
           g == [n \in N |-> f[m[n]]]
<1>1. Countable(M)
  BY FiniteImage DEF Countable
<1>2. \A x \in M : f[x] = x.amt
  OBVIOUS
<1>3. \A n \in N : m[n] \in M /\ f[m[n]] = n.amt /\ f[m[n]] \in Int
  BY <1>2 DEF Countable
<1>4. \A n \in N : g[n] = n.amt
  BY <1>3
<1>5. SumFunctionOnSet(f, M) = SumFunctionOnSet(g, N)
  <2>1. IsFiniteSet(N) /\ \A n \in N : f[m[n]] \in Int
    BY <1>3 DEF Countable
  <2>2. SumFunctionOnSet(f, M) = SumFunctionOnSet([n \in N |-> f[m[n]]], N)
    <3> HIDE DEF f
    <3> QED
      BY <2>1, SumReindex
  <2> QED
    BY <2>2
<1> HIDE DEF f, g
<1>6. TotalSet(M) = SumFunctionOnSet(f, M)
  BY <1>1, <1>2, TotalSetSum
<1>7. TotalSet(N) = SumFunctionOnSet(g, N)
  BY <1>4, TotalSetSum
<1> QED
  BY <1>1, <1>5, <1>6, <1>7

\* The total of a list without repetitions is that of its elements.
LEMMA TotalDistinct ==
    ASSUME NEW U, NEW s \in Seq(U), \A u \in U : u.amt \in Nat, Distinct(s)
    PROVE  Countable(ToSet(s)) /\ Total(s) = TotalSet(ToSet(s)) /\ Total(s) \in Nat
<1> DEFINE A == 1..Len(s)
           N == ToSet(s)
           f == [n \in N |-> n.amt]
           g == [i \in A |-> f[s[i]]]
           h == [i \in A |-> s[i].amt]
<1>1. Len(s) \in Nat /\ DOMAIN s = A /\ IsFiniteSet(A) /\ N = {s[i] : i \in A} /\ \A i \in A : s[i] \in U
  BY FS_Interval DEF ToSet
<1>2. Countable(N)
  <2>1. IsFiniteSet(N)
    <3> HIDE DEF A, N
    <3> QED
      BY <1>1, FiniteImage
  <2> QED
    BY <1>1, <2>1 DEF Countable
<1>3. \A i \in A : s[i] \in N /\ f[s[i]] = s[i].amt /\ f[s[i]] \in Int
  BY <1>1
<1>4. \A i, j \in A : s[i] = s[j] => i = j
  BY <1>1 DEF Distinct
<1>5. SumFunctionOnSet(f, N) = SumFunctionOnSet(g, A)
  <2>1. /\ IsFiniteSet(A) /\ N = {s[i] : i \in A}
        /\ \A i, j \in A : s[i] = s[j] => i = j
        /\ \A i \in A : f[s[i]] \in Int
    BY <1>1, <1>3, <1>4
  <2>2. SumFunctionOnSet(f, N) = SumFunctionOnSet([i \in A |-> f[s[i]]], A)
    <3> HIDE DEF f, A, N
    <3> QED
      BY <2>1, SumReindex
  <2> QED
    BY <2>2
<1>6. g = h
  BY <1>3
<1>7. Total(s) = SumFunctionOnSet(h, A)
  BY <1>1 DEF Total, SumFunction, FoldFunction, SumFunctionOnSet
<1>8. TotalSet(N) = SumFunctionOnSet(f, N)
  <2>1. \A n \in N : f[n] = n.amt
    OBVIOUS
  <2> HIDE DEF f, N
  <2> QED
    BY <1>2, <2>1, TotalSetSum
<1> QED
  BY <1>2, <1>5, <1>6, <1>7, <1>8, TotalSetNat

\* A sum of which one term changes.
ChangesAt(f, g, A, b, d) ==
    (\A a \in A : f[a] \in Int) /\ g[b] = f[b] + d /\ \A a \in A \ {b} : g[a] = f[a]
LEMMA SumChange ==
    ASSUME NEW A, IsFiniteSet(A), NEW f, NEW g, NEW b \in A, NEW d \in Int, ChangesAt(f, g, A, b, d)
    PROVE  SumFunctionOnSet(g, A) = SumFunctionOnSet(f, A) + d
<1> USE DEF ChangesAt
<1>1. \A a \in A : g[a] \in Int
  <2>1. g[b] \in Int
    OBVIOUS
  <2> QED
    BY <2>1
<1>2. SumFunctionOnSet(f, A) = f[b] + SumFunctionOnSet(f, A \ {b})
  BY SumRemove
<1>3. SumFunctionOnSet(g, A) = g[b] + SumFunctionOnSet(g, A \ {b})
  BY <1>1, SumRemove
<1>4. IsFiniteSet(A \ {b}) /\ \A a \in A \ {b} : f[a] = g[a] /\ f[a] \in Int
  BY FS_Subset
<1>5. SumFunctionOnSet(f, A \ {b}) = SumFunctionOnSet(g, A \ {b})
  BY <1>4, SumCongruence
<1>6. SumFunctionOnSet(f, A \ {b}) \in Int
  BY <1>4, SumInt
<1> QED
  BY <1>2, <1>3, <1>5, <1>6

-----------------------------------------------------------------------------
(* What notes are worth *)

\* Tables of input notes.
Tables(T) ==
    /\ T \in [Pools -> SUBSET InputRows]
    /\ \A p \in Pools : UniqueIds(T[p]) /\ IsFiniteSet(T[p])

\* Sets of sent notes.
Sent(S) == S \subseteq Notes /\ IsFiniteSet(S) /\ \A m, n \in S : SameNote(m, n) => m = n

\* Rows that are an account's to spend, notes that have no row, and what both are worth.
OpenRows(T, a, x) == {m \in T[Home[a]] : m.to = a /\ ~m.consume /\ m.asset = x}
Reached(T, n) == \E m \in T[Home[n.to]] : SameNote(m, n)
Unreached(T, S, x) == {n \in S : n.asset = x /\ ~Reached(T, n)}
InHand(T, x) == SumFunctionOnSet([a \in Accounts |-> TotalSet(OpenRows(T, a, x))], Accounts)
Worth(T, S, x) == InHand(T, x) + TotalSet(Unreached(T, S, x))

\* These are finite sums.
LEMMA WorthTyped ==
    ASSUME NEW T, Tables(T), NEW S, Sent(S), NEW x
    PROVE  /\ \A a \in Accounts : Countable(OpenRows(T, a, x)) /\ TotalSet(OpenRows(T, a, x)) \in Nat
           /\ Countable(Unreached(T, S, x)) /\ TotalSet(Unreached(T, S, x)) \in Nat
           /\ InHand(T, x) \in Int /\ Worth(T, S, x) \in Int
<1>1. ASSUME NEW a \in Accounts
      PROVE  Countable(OpenRows(T, a, x)) /\ TotalSet(OpenRows(T, a, x)) \in Nat
  <2>1. Home[a] \in Pools
    BY DatabaseAssumption
  <2>2. Countable(T[Home[a]])
    BY <2>1 DEF Tables, Countable, InputRows
  <2>3. OpenRows(T, a, x) \subseteq T[Home[a]]
    BY DEF OpenRows
  <2>4. Countable(OpenRows(T, a, x))
    BY <2>2, <2>3, CountablePart
  <2> QED
    BY <2>4, TotalSetNat
<1>2. Countable(Unreached(T, S, x))
  <2>1. Countable(S)
    BY RequestAssumption DEF Sent, Countable
  <2>2. Unreached(T, S, x) \subseteq S
    BY DEF Unreached
  <2> QED
    BY <2>1, <2>2, CountablePart
<1>3. TotalSet(Unreached(T, S, x)) \in Nat
  BY <1>2, TotalSetNat
<1>4. InHand(T, x) \in Int
  <2> DEFINE f == [a \in Accounts |-> TotalSet(OpenRows(T, a, x))]
  <2>1. \A a \in Accounts : f[a] \in Int
    BY <1>1
  <2>2. InHand(T, x) = SumFunctionOnSet(f, Accounts)
    BY DEF InHand
  <2> HIDE DEF f
  <2> QED
    BY <2>1, <2>2, SumInt, RequestAssumption
<1> QED
  BY <1>1, <1>2, <1>3, <1>4 DEF Worth

\* The worth in hand when one account's rows gain or lose value.
LEMMA InHandChange ==
    ASSUME NEW T, NEW S, Tables(T), Sent(S), NEW T2, NEW x, NEW b \in Accounts, NEW d \in Int,
           TotalSet(OpenRows(T2, b, x)) = TotalSet(OpenRows(T, b, x)) + d,
           \A a \in Accounts \ {b} : TotalSet(OpenRows(T2, a, x)) = TotalSet(OpenRows(T, a, x))
    PROVE  InHand(T2, x) = InHand(T, x) + d
<1> DEFINE f == [a \in Accounts |-> TotalSet(OpenRows(T, a, x))]
           g == [a \in Accounts |-> TotalSet(OpenRows(T2, a, x))]
<1>1. \A a \in Accounts : f[a] \in Int
  BY WorthTyped
<1>2. g[b] = f[b] + d /\ \A a \in Accounts \ {b} : g[a] = f[a]
  OBVIOUS
<1>3. InHand(T, x) = SumFunctionOnSet(f, Accounts) /\ InHand(T2, x) = SumFunctionOnSet(g, Accounts)
  BY DEF InHand
<1> HIDE DEF f, g
<1>4. SumFunctionOnSet(g, Accounts) = SumFunctionOnSet(f, Accounts) + d
  <2>1. IsFiniteSet(Accounts)
    BY RequestAssumption
  <2>2. ChangesAt(f, g, Accounts, b, d)
    BY <1>1, <1>2 DEF ChangesAt
  <2> QED
    BY <2>1, <2>2, SumChange
<1> QED
  BY <1>3, <1>4

\* Inserting a sent note moves its value from the notes under way to its recipient.
LEMMA InsertWorth ==
    ASSUME NEW T, Tables(T), NEW S, Sent(S), NEW p \in Pools, NEW n \in S, Home[n.to] = p,
           NEW T2, T2[p] = WithInputNote(T[p], n), \A q \in Pools \ {p} : T2[q] = T[q], NEW x
    PROVE  Worth(T2, S, x) = Worth(T, S, x)
<1>0. /\ n.to \in Accounts /\ n.amt \in Nat
      /\ \A m \in S : m.to \in Accounts /\ Home[m.to] \in Pools
      /\ \A a \in Accounts : Home[a] \in Pools
  BY RequestAssumption, DatabaseAssumption DEF Sent
<1>1. CASE \E m \in T[p] : m.id = n.id
  <2>1. \A q \in Pools : T2[q] = T[q]
    BY <1>1 DEF WithInputNote
  <2>2. Unreached(T2, S, x) = Unreached(T, S, x)
    BY <1>0, <2>1 DEF Unreached, Reached
  <2>3. \A a \in Accounts : OpenRows(T2, a, x) = OpenRows(T, a, x)
    BY <1>0, <2>1 DEF OpenRows
  <2>4. InHand(T2, x) = InHand(T, x)
    BY <2>3 DEF InHand
  <2> QED
    BY <2>2, <2>4 DEF Worth
<1>2. CASE ~\E m \in T[p] : m.id = n.id
  <2> DEFINE row == FreshRow(n)
             b == n.to
  <2>1. T2[p] = T[p] \cup {row} /\ row \notin T[p]
    BY <1>2 DEF WithInputNote, FreshRow
  <2>2. row.id = n.id /\ row.asset = n.asset /\ row.amt = n.amt /\ row.to = n.to /\ row.consume = FALSE
    BY DEF FreshRow
  <2> HIDE DEF row
  <2>3. ~Reached(T, n)
    BY <1>2 DEF Reached, SameNote
  <2>4. ASSUME NEW a \in Accounts, a # b PROVE OpenRows(T2, a, x) = OpenRows(T, a, x)
    <3>1. T2[Home[a]] = T[Home[a]] \/ T2[Home[a]] = T[Home[a]] \cup {row}
      BY <1>0, <2>1
    <3> QED
      BY <2>2, <2>4, <3>1 DEF OpenRows
  <2>5. ASSUME NEW m \in S PROVE Reached(T2, m) <=> Reached(T, m) \/ m = n
    <3>1. CASE Home[m.to] # p
      BY <1>0, <3>1 DEF Reached
    <3>2. CASE Home[m.to] = p
      <4>1. Reached(T2, m) <=> Reached(T, m) \/ SameNote(row, m)
        BY <2>1, <3>2 DEF Reached
      <4>2. SameNote(row, m) <=> SameNote(n, m)
        BY <2>2 DEF SameNote
      <4>3. SameNote(n, m) <=> m = n
        BY DEF Sent, SameNote
      <4> QED
        BY <4>1, <4>2, <4>3
    <3> QED
      BY <3>1, <3>2
  <2>6. /\ \A a \in Accounts : Countable(OpenRows(T, a, x)) /\ TotalSet(OpenRows(T, a, x)) \in Nat
        /\ Countable(Unreached(T, S, x)) /\ TotalSet(Unreached(T, S, x)) \in Nat
        /\ InHand(T, x) \in Int
    BY WorthTyped
  <2>7. CASE n.asset = x
    <3>1. OpenRows(T2, b, x) = OpenRows(T, b, x) \cup {row} /\ OpenRows(T, b, x) \cap {row} = {}
      BY <2>1, <2>2, <2>7 DEF OpenRows
    <3>2. Countable({row}) /\ TotalSet({row}) = n.amt
      BY <1>0, <2>2, TotalSetOne
    <3>3. TotalSet(OpenRows(T2, b, x)) = TotalSet(OpenRows(T, b, x)) + n.amt
      BY <1>0, <2>6, <3>1, <3>2, TotalSetUnion
    <3>4. InHand(T2, x) = InHand(T, x) + n.amt
      <4>1. n.amt \in Int /\ \A a \in Accounts \ {b} : TotalSet(OpenRows(T2, a, x)) = TotalSet(OpenRows(T, a, x))
        BY <1>0, <2>4
      <4> QED
        BY <1>0, <3>3, <4>1, InHandChange
    <3>5. Unreached(T2, S, x) = Unreached(T, S, x) \ {n} /\ {n} \subseteq Unreached(T, S, x)
      BY <2>3, <2>5, <2>7 DEF Unreached
    <3>6. TotalSet(Unreached(T, S, x)) = TotalSet(Unreached(T2, S, x)) + n.amt
      <4>1. TotalSet({n}) = n.amt
        BY <1>0, TotalSetOne
      <4> QED
        BY <2>6, <3>5, <4>1, TotalSetMinus
    <3>7. TotalSet(Unreached(T2, S, x)) \in Nat
      <4>1. Countable(Unreached(T2, S, x))
        BY <2>6, <3>5, CountablePart
      <4> QED
        BY <4>1, TotalSetNat
    <3> QED
      BY <1>0, <2>6, <3>4, <3>6, <3>7 DEF Worth
  <2>8. CASE n.asset # x
    <3>1. OpenRows(T2, b, x) = OpenRows(T, b, x)
      BY <2>1, <2>2, <2>8 DEF OpenRows
    <3>2. \A a \in Accounts : OpenRows(T2, a, x) = OpenRows(T, a, x)
      BY <2>4, <3>1
    <3>3. InHand(T2, x) = InHand(T, x)
      BY <3>2 DEF InHand
    <3>4. Unreached(T2, S, x) = Unreached(T, S, x)
      BY <2>5, <2>8 DEF Unreached
    <3> QED
      BY <3>3, <3>4 DEF Worth
  <2> QED
    BY <2>7, <2>8
<1> QED
  BY <1>1, <1>2

\* Inserting keeps tables in order.
LEMMA InsertTables ==
    ASSUME NEW T, Tables(T), NEW p \in Pools, NEW n \in Notes
    PROVE  Tables([T EXCEPT ![p] = WithInputNote(T[p], n)])
<1> DEFINE new == WithInputNote(T[p], n)
           T2 == [T EXCEPT ![p] = new]
<1>1. new \subseteq T[p] \cup {FreshRow(n)} /\ UniqueIds(new) /\ IsFiniteSet(new)
  BY OneInserted DEF Tables
<1>2. T[p] \in SUBSET InputRows /\ FreshRow(n) \in InputRows
  BY FreshRowTyped DEF Tables
<1>3. new \in SUBSET InputRows
  BY <1>1, <1>2
<1> HIDE DEF new
<1>4. T2[p] = new /\ \A q \in Pools \ {p} : T2[q] = T[q]
  BY DEF Tables
<1>5. T2 \in [Pools -> SUBSET InputRows]
  BY <1>3 DEF Tables
<1> HIDE DEF T2
<1>6. \A q \in Pools : UniqueIds(T2[q]) /\ IsFiniteSet(T2[q])
  BY <1>1, <1>4 DEF Tables
<1>7. Tables(T2)
  BY <1>5, <1>6 DEF Tables
<1> QED
  BY <1>7 DEF T2, new

\* Sent notes that have their home in p.
Arriving(S, p, notes) == notes \in Seq(Notes) /\ \A n \in ToSet(notes) : n \in S /\ Home[n.to] = p

\* So does inserting many, and what was sent is worth the same.
LEMMA InsertAllWorth ==
    ASSUME NEW T, Tables(T), NEW S, Sent(S), NEW p \in Pools, NEW notes, Arriving(S, p, notes), NEW x
    PROVE  LET T2 == [T EXCEPT ![p] = WithInputNotes(T[p], notes)]
           IN  Tables(T2) /\ Worth(T2, S, x) = Worth(T, S, x)
<1> USE DEF Arriving
<1> DEFINE len == Len(notes)
           g == CHOOSE g : InsertsStepwise(g, T[p], notes)
           U(i) == [T EXCEPT ![p] = g[i]]
           G == {i \in 0..len : Tables(U(i)) /\ Worth(U(i), S, x) = Worth(T, S, x)}
<1>1. /\ len \in Nat
      /\ g[0] = T[p]
      /\ \A i \in 1..len : g[i] = WithInputNote(g[i - 1], notes[i])
  <2>1. InsertsStepwise(g, T[p], notes)
    BY InsertsSolved
  <2> HIDE DEF g
  <2>2. len \in Nat /\ 0 \in 0..len /\ \A i \in 1..len : i \in 0..len /\ i # 0
    OBVIOUS
  <2>3. \A i \in 0..len : g[i] = IF i = 0 THEN T[p] ELSE WithInputNote(g[i - 1], notes[i])
    BY <2>1, Zenon DEF InsertsStepwise
  <2> QED
    BY <2>2, <2>3, Zenon
<1> HIDE DEF g
<1>a. DOMAIN T = Pools /\ T = [q \in Pools |-> T[q]]
  BY DEF Tables
<1>2. 0 \in G
  <2>1. U(0) = T
    BY <1>1, <1>a
  <2> QED
    BY <1>1, <2>1
<1>3. ASSUME NEW i \in 1..len, i - 1 \in G PROVE i \in G
  <2> DEFINE V == U(i - 1)
             W == U(i)
             n == notes[i]
  <2>1. Tables(V) /\ Worth(V, S, x) = Worth(T, S, x)
    BY <1>3
  <2>2. n \in S /\ n \in Notes /\ Home[n.to] = p
    <3>1. notes[i] \in ToSet(notes) /\ notes[i] \in Notes
      BY DEF ToSet
    <3> QED
      BY <3>1
  <2>3. V[p] = g[i - 1] /\ W[p] = WithInputNote(V[p], n) /\ \A q \in Pools \ {p} : W[q] = V[q]
    BY <1>1, <1>a
  <2>4. W = [V EXCEPT ![p] = WithInputNote(V[p], n)]
    BY <1>1, <1>a
  <2> HIDE DEF V, W, n
  <2>5. Tables(W)
    <3>1. Tables([V EXCEPT ![p] = WithInputNote(V[p], n)])
      BY <2>1, <2>2, InsertTables
    <3> QED
      BY <2>4, <3>1
  <2>6. Worth(W, S, x) = Worth(V, S, x)
    BY <2>1, <2>2, <2>3, InsertWorth
  <2>7. i \in 0..len
    BY <1>1
  <2> QED
    BY <2>1, <2>5, <2>6, <2>7 DEF W
<1>4. len \in G
  <2>1. len \in 0..len
    BY <1>1
  <2> HIDE DEF G, len
  <2> QED
    BY <1>1, <1>2, <1>3, <2>1, StepInduction
<1>5. WithInputNotes(T[p], notes) = g[len]
  BY InsertsUnfolded DEF g
<1> QED
  BY <1>4, <1>5

\* Rows with these identifiers are an account's to spend.
OwnOpen(T, b, ids) == \A m \in T[Home[b]] : m.id \in ids => m.to = b /\ m.consume = FALSE

\* Consuming an account's rows takes their value.
LEMMA ConsumeWorth ==
    ASSUME NEW T, Tables(T), NEW S, Sent(S), NEW b \in Accounts, NEW ids, OwnOpen(T, b, ids), NEW x
    PROVE  LET T2 == [T EXCEPT ![Home[b]] = Consume(T[Home[b]], ids)]
               N == {m \in T[Home[b]] : m.id \in ids /\ m.asset = x}
           IN  /\ Tables(T2) /\ Countable(N)
               /\ Worth(T2, S, x) = Worth(T, S, x) - TotalSet(N)
<1> USE DEF OwnOpen
<1> DEFINE p == Home[b]
           new == Consume(T[p], ids)
           T2 == [T EXCEPT ![p] = new]
           N == {m \in T[p] : m.id \in ids /\ m.asset = x}
           taken(m) == [m EXCEPT !.consume = TRUE]
<1>0. /\ p \in Pools /\ \A a \in Accounts : Home[a] \in Pools
      /\ \A n \in S : Home[n.to] \in Pools
      /\ T[p] \in SUBSET InputRows /\ UniqueIds(T[p]) /\ IsFiniteSet(T[p])
  BY DatabaseAssumption, RequestAssumption DEF Tables, Sent
<1>1. \A m \in T[p] : /\ taken(m) \in InputRows /\ taken(m).consume = TRUE
                      /\ taken(m).id = m.id /\ SameNote(taken(m), m)
                      /\ m.consume \in BOOLEAN /\ m.amt \in Nat
  BY <1>0 DEF InputRows, SameNote
<1> DEFINE h == [m \in T[p] |-> IF m.id \in ids THEN taken(m) ELSE m]
<1>2. new = {h[m] : m \in T[p]}
  BY DEF Consume
<1>3. \A m \in T[p] : /\ h[m] = IF m.id \in ids THEN taken(m) ELSE m
                      /\ h[m] \in InputRows /\ h[m].id = m.id /\ SameNote(h[m], m)
                      /\ (h[m].consume = TRUE \/ m.id \notin ids)
  BY <1>0, <1>1 DEF SameNote
<1> HIDE DEF h, new
<1>4. new \in SUBSET InputRows /\ UniqueIds(new) /\ IsFiniteSet(new)
  <2>1. new \in SUBSET InputRows
    BY <1>2, <1>3
  <2>2. UniqueIds(new)
    <3>1. ASSUME NEW m \in T[p], NEW k \in T[p], h[m].id = h[k].id PROVE h[m] = h[k]
      <4>1. h[m].id = m.id /\ h[k].id = k.id
        BY <1>3
      <4>2. m.id = k.id
        BY <3>1, <4>1
      <4>3. m = k
        BY <1>0, <4>2 DEF UniqueIds
      <4> QED
        BY <4>3
    <3> QED
      BY <1>2, <3>1 DEF UniqueIds
  <2>3. IsFiniteSet(new)
    BY <1>0, <1>2, FiniteImage
  <2> QED
    BY <2>1, <2>2, <2>3
<1>5. T2[p] = new /\ (\A q \in Pools \ {p} : T2[q] = T[q]) /\ Tables(T2)
  BY <1>0, <1>4 DEF Tables
<1> HIDE DEF T2, p
<1>6. Unreached(T2, S, x) = Unreached(T, S, x)
  <2>1. ASSUME NEW n \in S PROVE Reached(T2, n) <=> Reached(T, n)
    <3>1. CASE Home[n.to] = p
      <4>1. ASSUME NEW m \in T[p] PROVE SameNote(h[m], n) <=> SameNote(m, n)
        BY <1>3 DEF SameNote
      <4> QED
        BY <1>2, <1>5, <3>1, <4>1 DEF Reached
    <3> QED
      BY <1>0, <1>5, <3>1 DEF Reached
  <2> QED
    BY <2>1 DEF Unreached
<1>7. OpenRows(T2, b, x) = OpenRows(T, b, x) \ N /\ N \subseteq OpenRows(T, b, x)
  <2>1. Home[b] = p
    BY DEF p
  <2>2. N \subseteq OpenRows(T, b, x)
    BY <2>1 DEF OpenRows
  <2>3. ASSUME NEW m \in OpenRows(T2, b, x) PROVE m \in OpenRows(T, b, x) \ N
    <3>1. m \in new /\ m.to = b /\ ~m.consume /\ m.asset = x
      BY <1>5, <2>1 DEF OpenRows
    <3>2. PICK k \in T[p] : m = h[k]
      BY <1>2, <3>1
    <3>3. k.id \notin ids /\ m = k
      BY <1>3, <3>1, <3>2
    <3> QED
      BY <2>1, <3>1, <3>3 DEF OpenRows
  <2>4. ASSUME NEW m \in OpenRows(T, b, x) \ N PROVE m \in OpenRows(T2, b, x)
    <3>1. m \in T[p] /\ m.to = b /\ ~m.consume /\ m.asset = x /\ m.id \notin ids
      BY <2>1 DEF OpenRows
    <3>2. h[m] = m
      BY <1>3, <3>1
    <3> QED
      BY <1>2, <1>5, <2>1, <3>1, <3>2 DEF OpenRows
  <2> QED
    BY <2>2, <2>3, <2>4
<1>8. ASSUME NEW a \in Accounts, a # b PROVE OpenRows(T2, a, x) = OpenRows(T, a, x)
  <2>1. CASE Home[a] = p
    <3>1. ASSUME NEW m \in T[p], m.to = a PROVE h[m] = m
      BY <1>3, <1>8, <3>1 DEF p
    <3>2. ASSUME NEW m \in T[p], h[m].to = a PROVE h[m] = m
      <4>1. m.to = a
        BY <1>3, <3>2 DEF SameNote
      <4> QED
        BY <3>1, <4>1
    <3> QED
      BY <1>2, <1>5, <2>1, <3>1, <3>2 DEF OpenRows
  <2> QED
    BY <1>0, <1>5, <2>1 DEF OpenRows
<1>9. /\ Countable(OpenRows(T, b, x)) /\ TotalSet(OpenRows(T, b, x)) \in Nat
      /\ TotalSet(Unreached(T, S, x)) \in Nat /\ InHand(T, x) \in Int
  BY WorthTyped
<1>10. /\ Countable(N) /\ TotalSet(N) \in Nat /\ TotalSet(OpenRows(T2, b, x)) \in Nat
       /\ TotalSet(OpenRows(T, b, x)) = TotalSet(OpenRows(T2, b, x)) + TotalSet(N)
  <2> HIDE DEF N
  <2>1. /\ Countable(N) /\ Countable(OpenRows(T, b, x) \ N)
        /\ TotalSet(OpenRows(T, b, x)) = TotalSet(OpenRows(T, b, x) \ N) + TotalSet(N)
    BY <1>7, <1>9, TotalSetMinus
  <2> QED
    BY <1>7, <2>1, TotalSetNat
<1>11. InHand(T2, x) = InHand(T, x) + (-TotalSet(N))
  <2> HIDE DEF N
  <2>1. /\ -TotalSet(N) \in Int
        /\ TotalSet(OpenRows(T2, b, x)) = TotalSet(OpenRows(T, b, x)) + (-TotalSet(N))
        /\ \A a \in Accounts \ {b} : TotalSet(OpenRows(T2, a, x)) = TotalSet(OpenRows(T, a, x))
    BY <1>8, <1>10
  <2>2. PICK d \in Int : d = -TotalSet(N)
    BY <2>1
  <2> QED
    BY <2>1, <2>2, InHandChange
<1>12. Worth(T2, S, x) = Worth(T, S, x) - TotalSet(N)
  <2> HIDE DEF N
  <2> QED
    BY <1>6, <1>9, <1>10, <1>11 DEF Worth
<1> QED
  BY <1>5, <1>10, <1>12 DEF T2, new, p

\* Notes of an asset that were not sent and have no row.
NewNotes(T, S, N, y) ==
    /\ Sent(S) /\ Sent(N) /\ Sent(S \cup N) /\ S \cap N = {}
    /\ \A n \in N : ~Reached(T, n) /\ n.asset = y

\* What notes of asset y add to asset x.
Added(N, y, x) == IF x = y THEN TotalSet(N) ELSE 0

\* Sending notes adds their value, as long as none of them has a row.
LEMMA SendWorth ==
    ASSUME NEW T, Tables(T), NEW S, NEW N, NEW y, NewNotes(T, S, N, y), NEW x
    PROVE  Worth(T, S \cup N, x) = Worth(T, S, x) + Added(N, y, x)
<1> USE DEF NewNotes, Added
<1>1. /\ Countable(Unreached(T, S, x)) /\ TotalSet(Unreached(T, S, x)) \in Nat
      /\ InHand(T, x) \in Int
  BY WorthTyped
<1>2. Countable(N)
  BY RequestAssumption DEF Sent, Countable
<1>3. CASE x = y
  <2>1. Unreached(T, S \cup N, x) = Unreached(T, S, x) \cup N /\ Unreached(T, S, x) \cap N = {}
    BY <1>3 DEF Unreached
  <2>2. TotalSet(Unreached(T, S \cup N, x)) = TotalSet(Unreached(T, S, x)) + TotalSet(N)
    BY <1>1, <1>2, <2>1, TotalSetUnion
  <2>3. TotalSet(N) \in Nat
    BY <1>2, TotalSetNat
  <2> QED
    BY <1>1, <1>3, <2>2, <2>3 DEF Worth
<1>4. CASE x # y
  <2>1. Unreached(T, S \cup N, x) = Unreached(T, S, x)
    BY <1>4 DEF Unreached
  <2> QED
    BY <1>1, <1>4, <2>1 DEF Worth
<1> QED
  BY <1>3, <1>4

-----------------------------------------------------------------------------
(* Lists without repetitions *)

\* Appending a new element.
LEMMA AppendDistinct ==
    ASSUME NEW U, NEW t \in Seq(U), NEW e \in U, e \notin ToSet(t), Distinct(t)
    PROVE  Distinct(Append(t, e)) /\ ToSet(Append(t, e)) = ToSet(t) \cup {e}
<1> DEFINE u == Append(t, e)
           n == Len(t)
<1>1. /\ n \in Nat /\ DOMAIN t = 1..n /\ DOMAIN u = 1..(n + 1) /\ u[n + 1] = e
      /\ \A j \in 1..n : u[j] = t[j]
  OBVIOUS
<1>2. 1..(n + 1) = (1..n) \cup {n + 1}
  BY <1>1
<1>3. \A j \in 1..n : t[j] # e
  BY <1>1 DEF ToSet
<1> HIDE DEF u, n
<1>4. \A i, j \in 1..(n + 1) : u[i] = u[j] => i = j
  <2>1. \A i, j \in 1..n : t[i] = t[j] => i = j
    BY <1>1 DEF Distinct
  <2> QED
    BY <1>1, <1>2, <1>3, <2>1
<1>5. ToSet(u) = ToSet(t) \cup {e}
  BY <1>1, <1>2 DEF ToSet
<1> QED
  BY <1>1, <1>4, <1>5 DEF Distinct, u

\* The rest of a list.
LEMMA TailDistinct ==
    ASSUME NEW U, NEW s \in Seq(U), s # <<>>, Distinct(s)
    PROVE  Distinct(Tail(s)) /\ \A i \in DOMAIN Tail(s) : Tail(s)[i] # Head(s)
<1>1. /\ Tail(s) \in Seq(U) /\ Head(s) = s[1] /\ 1 \in DOMAIN s
      /\ \A i \in DOMAIN Tail(s) : i + 1 \in DOMAIN s /\ Tail(s)[i] = s[i + 1]
  BY TailRows
<1>2. \A i \in DOMAIN Tail(s) : i \in Nat /\ i >= 1
  BY <1>1
<1>3. ASSUME NEW i \in DOMAIN Tail(s), NEW j \in DOMAIN Tail(s), Tail(s)[i] = Tail(s)[j] PROVE i = j
  <2>1. s[i + 1] = s[j + 1] /\ i + 1 \in DOMAIN s /\ j + 1 \in DOMAIN s
    BY <1>1, <1>3
  <2>2. i + 1 = j + 1
    BY <2>1 DEF Distinct
  <2> QED
    BY <1>2, <2>2
<1>4. ASSUME NEW i \in DOMAIN Tail(s), Tail(s)[i] = Head(s) PROVE FALSE
  <2>1. s[i + 1] = s[1] /\ i + 1 \in DOMAIN s
    BY <1>1, <1>4
  <2>2. i + 1 = 1
    BY <1>1, <2>1 DEF Distinct
  <2> QED
    BY <1>2, <2>2
<1> QED
  BY <1>3, <1>4 DEF Distinct

\* The elements of a list.
LEMMA ElementOf ==
    ASSUME NEW U, NEW s \in Seq(U), NEW i \in DOMAIN s
    PROVE  s[i] \in U /\ s[i] \in ToSet(s)
BY DEF ToSet

\* The elements Kept keeps.
LEMMA KeptDistinct ==
    ASSUME NEW U, NEW s \in Seq(U), NEW S, Distinct(s)
    PROVE  Distinct(Kept(s, S))
<1> DEFINE n == Len(s)
           g == CHOOSE g : KeepsStepwise(g, s, S)
           Upto(i) == {s[j] : j \in 1..i}
           G == {i \in 0..n : g[i] \in Seq(U) /\ ToSet(g[i]) \subseteq Upto(i) /\ Distinct(g[i])}
<1>1. /\ n \in Nat
      /\ g[0] = <<>>
      /\ \A i \in 1..n : g[i] = IF s[i] \in S THEN Append(g[i - 1], s[i]) ELSE g[i - 1]
  <2>1. KeepsStepwise(g, s, S)
    BY KeptSolved
  <2> HIDE DEF g
  <2>2. n \in Nat /\ 0 \in 0..n /\ \A i \in 1..n : i \in 0..n /\ i # 0
    OBVIOUS
  <2>3. \A i \in 0..n : g[i] = IF i = 0 THEN <<>>
                               ELSE IF s[i] \in S THEN Append(g[i - 1], s[i]) ELSE g[i - 1]
    BY <2>1, Zenon DEF KeepsStepwise
  <2> QED
    BY <2>2, <2>3, Zenon
<1> HIDE DEF g
<1>2. 0 \in G
  <2>1. g[0] \in Seq(U) /\ DOMAIN g[0] = {}
    BY <1>1
  <2>2. ToSet(g[0]) = {} /\ Distinct(g[0])
    BY <2>1 DEF ToSet, Distinct
  <2>3. 0 \in 0..n /\ ToSet(g[0]) \subseteq Upto(0)
    BY <1>1, <2>2
  <2> HIDE DEF Upto, n
  <2> QED
    BY <2>1, <2>2, <2>3
<1>3. ASSUME NEW i \in 1..n, i - 1 \in G PROVE i \in G
  <2>1. /\ g[i - 1] \in Seq(U) /\ ToSet(g[i - 1]) \subseteq Upto(i - 1) /\ Distinct(g[i - 1])
        /\ s[i] \in U /\ i \in 0..n
    BY <1>3
  <2>2. Upto(i - 1) \subseteq Upto(i) /\ s[i] \in Upto(i)
    <3>1. 1..i = (1..(i - 1)) \cup {i}
      OBVIOUS
    <3> QED
      BY <3>1
  <2>3. s[i] \notin Upto(i - 1)
    <3>1. ASSUME NEW j \in 1..(i - 1) PROVE s[j] # s[i]
      <4>1. j \in DOMAIN s /\ i \in DOMAIN s /\ j # i
        OBVIOUS
      <4> QED
        BY <4>1 DEF Distinct
    <3> QED
      BY <3>1
  <2>4. CASE s[i] \in S
    <3>1. g[i] = Append(g[i - 1], s[i])
      BY <1>1, <2>4
    <3>2. Distinct(g[i]) /\ ToSet(g[i]) = ToSet(g[i - 1]) \cup {s[i]} /\ g[i] \in Seq(U)
      <4>1. s[i] \notin ToSet(g[i - 1])
        BY <2>1, <2>3
      <4>2. PICK t \in Seq(U), e \in U : t = g[i - 1] /\ e = s[i]
        BY <2>1
      <4>3. Distinct(Append(t, e)) /\ ToSet(Append(t, e)) = ToSet(t) \cup {e}
        BY <2>1, <4>1, <4>2, AppendDistinct
      <4>4. Append(t, e) \in Seq(U)
        OBVIOUS
      <4> QED
        BY <3>1, <4>2, <4>3, <4>4
    <3> QED
      BY <2>1, <2>2, <3>2
  <2>5. CASE s[i] \notin S
    BY <1>1, <2>1, <2>2, <2>5
  <2> QED
    BY <2>4, <2>5
<1>4. n \in G
  <2>1. n \in 0..n
    BY <1>1
  <2> HIDE DEF G, n
  <2> QED
    BY <1>1, <1>2, <1>3, <2>1, StepInduction
<1>5. Kept(s, S) = g[n]
  BY KeptUnfolded DEF g
<1> QED
  BY <1>4, <1>5

\* SetToSeq lists each element once.
LEMMA SetToSeqDistinct ==
    ASSUME NEW S, IsFiniteSet(S)
    PROVE  Distinct(SetToSeq(S)) /\ \A i \in DOMAIN SetToSeq(S) : SetToSeq(S)[i] \in S
<1>1. Cardinality(S) \in Nat /\ ExistsBijection(1..Cardinality(S), S)
  BY FS_CardinalityType
<1>2. \E f \in [1..Cardinality(S) -> S] : IsInjective(f)
  BY <1>1 DEF ExistsBijection, Bijection, Injection, IsInjective
<1>3. SetToSeq(S) \in [1..Cardinality(S) -> S] /\ IsInjective(SetToSeq(S))
  BY <1>2 DEF SetToSeq
<1> QED
  BY <1>3 DEF Distinct, IsInjective

-----------------------------------------------------------------------------
(* Requests *)

\* What the proof of the ledger takes from the invariants above.
Base == OperatorTyped /\ InputsTyped /\ DepositInv /\ StatesInv

\* The tables of spends change when a request is submitted and when it is committed.
LEMMA SpendTables ==
    ASSUME [Next]_vars
    PROVE  \/ UNCHANGED <<spend_tx_requests, created, output_notes>>
           \/ \E t \in Spends : SubmitSpend(t) /\ UNCHANGED <<op, mailbox>>
           \/ \E p \in Pools : OpStep(p) /\ CommitSpend(p) /\ UNCHANGED <<created, output_notes>>
<1>1. CASE Requests
  <2>1. ASSUME NEW a, Client(Register(a)) PROVE UNCHANGED <<spend_tx_requests, created, output_notes>>
    BY <2>1 DEF Client, Register
  <2>2. ASSUME NEW d, Client(SubmitDeposit(d)) PROVE UNCHANGED <<spend_tx_requests, created, output_notes>>
    BY <2>2 DEF Client, SubmitDeposit
  <2>3. ASSUME NEW r, Client(SubmitSpend(r)) PROVE SubmitSpend(r) /\ UNCHANGED <<op, mailbox>>
    BY <2>3 DEF Client, seqVars
  <2> QED
    BY <1>1, <2>1, <2>2, <2>3 DEF Requests
<1>2. ASSUME NEW p \in Pools, OpStep(p)
      PROVE  \/ UNCHANGED <<spend_tx_requests, created, output_notes>>
             \/ CommitSpend(p) /\ UNCHANGED <<created, output_notes>>
  <2>1. UNCHANGED output_notes
    BY <1>2 DEF OpStep, Tick, StartJob, EndTick, PostFresh, CommitFresh, Broadcast, SaveHash,
                ReuseHash, PostDeposit, CommitDeposit, PostSpend, CommitSpend, ForwardNote, SpendDone,
                InsertIncoming, AckNotes, ForwardFails, StepFails, Crash, dbVars
  <2> QED
    BY <1>2, <2>1, OperatorWrites
<1> QED
  BY <1>1, <1>2, StepCases DEF vars, dbVars, SealBatch

\* The request an operator commits.
LEMMA CommittedSpend ==
    ASSUME Base, RowsOpen, NEW p \in Pools, CommitSpend(p)
    PROVE  /\ op[p].at = "spendCommit" /\ op[p].rows # <<>> /\ Row(p) = op[p].rows[1]
           /\ 1 \in DOMAIN op[p].rows
           /\ Row(p) \in Spends /\ Row(p).pool = p /\ Submitted(Row(p)) /\ ~Approved(Row(p))
           /\ \A r \in Spends \ {Row(p)} : spend_tx_requests'[r] = spend_tx_requests[r]
           /\ spend_tx_requests'[Row(p)] =
                 [status |-> "APPROVED", tx |-> Nullifier(Row(p).from, accounts[Row(p).from].nonce)]
           /\ Row(p)' = Row(p) /\ Submitted(Row(p))' /\ Approved(Row(p))'
           /\ InputsUsable(Row(p)) /\ HasRow(p, Row(p).from)
<1>1. op[p].at = "spendCommit" /\ op[p].rows # <<>> /\ op[p].rows \in Seq(RowSet(op[p].at, p))
  BY DEF Base, CommitSpend, At, OperatorTyped, OpOK, Holding
<1>2. Row(p) = op[p].rows[1] /\ 1 \in DOMAIN op[p].rows
  BY <1>1, TailRows DEF Row
<1>3. Row(p) \in Spends /\ Row(p).pool = p
  BY <1>1, RowTyped DEF Base, RowSet
<1>4. Submitted(Row(p)) /\ ~Approved(Row(p))
  BY <1>1, <1>2 DEF RowsOpen, SpendSteps, SpendsOpen
<1> DEFINE new == [status |-> "APPROVED", tx |-> Nullifier(Row(p).from, accounts[Row(p).from].nonce)]
<1>5. /\ \A r \in Spends \ {Row(p)} : spend_tx_requests'[r] = spend_tx_requests[r]
      /\ spend_tx_requests'[Row(p)] = new
  BY <1>3 DEF CommitSpend, Base, StatesInv, SpendKeys
<1>6. new # NoRow /\ new.status = "APPROVED"
  <2>1. Row(p).from \in Accounts /\ accounts[Row(p).from].nonce \in Nat
    BY CommittedState DEF Base
  <2>2. new \in [status : {"PENDING", "APPROVED"}, tx : [acc : Accounts, nonce : Nat] \cup {NoRow}]
    BY <2>1 DEF Nullifier
  <2> QED
    BY <2>2, NoRowAssumption
<1>7. Row(p)' = Row(p) /\ Submitted(Row(p))' /\ Approved(Row(p))'
  <2> HIDE DEF new
  <2>1. PICK r : r = Row(p)
    OBVIOUS
  <2>2. spend_tx_requests'[r] # NoRow /\ spend_tx_requests'[r].status = "APPROVED"
    BY <1>5, <1>6, <2>1
  <2>3. Row(p)' = r
    BY <1>1, <2>1 DEF Row, CommitSpend, Base, OperatorTyped
  <2> QED
    BY <2>1, <2>2, <2>3 DEF Submitted, Approved
<1>8. InputsUsable(Row(p)) /\ HasRow(p, Row(p).from)
  BY <1>1 DEF Base, StatesInv, ChecksHold
<1> QED
  BY <1>1, <1>2, <1>3, <1>4, <1>5, <1>7, <1>8

\* A row of a request stays, and is made by submitting it.
LEMMA SubmittedSteps ==
    ASSUME Base, RowsOpen, [Next]_vars, NEW r \in Spends
    PROVE  /\ Submitted(r) => Submitted(r)'
           /\ Submitted(r)' => Submitted(r) \/ SubmitSpend(r)
           /\ Approved(r) => Approved(r)'
           /\ Approved(r)' => Approved(r) \/ \E p \in Pools : OpStep(p) /\ CommitSpend(p) /\ Row(p) = r
<1>1. CASE UNCHANGED spend_tx_requests
  BY <1>1 DEF Submitted, Approved
<1>2. ASSUME NEW t \in Spends, SubmitSpend(t)
      PROVE  /\ Submitted(r) => Submitted(r)'
             /\ Submitted(r)' => Submitted(r) \/ r = t
             /\ Approved(r)' <=> Approved(r)
  <2> DEFINE new == [status |-> "PENDING", tx |-> NoRow]
  <2>1. /\ \A s \in Spends \ {t} : spend_tx_requests'[s] = spend_tx_requests[s]
        /\ spend_tx_requests'[t] = new /\ spend_tx_requests[t] = NoRow
    BY <1>2 DEF SubmitSpend, Base, StatesInv, SpendKeys
  <2>2. new.status # "APPROVED" /\ new # NoRow
    BY NoRowAssumption
  <2> HIDE DEF new
  <2> QED
    BY <2>1, <2>2 DEF Submitted, Approved
<1>3. ASSUME NEW p \in Pools, OpStep(p), CommitSpend(p)
      PROVE  /\ Submitted(r) => Submitted(r)'
             /\ Submitted(r)' => Submitted(r)
             /\ Approved(r) => Approved(r)'
             /\ Approved(r)' => Approved(r) \/ Row(p) = r
  <2>1. CASE r = Row(p)
    BY <1>3, <2>1, CommittedSpend
  <2>2. CASE r # Row(p)
    <3>1. spend_tx_requests'[r] = spend_tx_requests[r]
      BY <1>3, <2>2, CommittedSpend
    <3> QED
      BY <3>1 DEF Submitted, Approved
  <2> QED
    BY <2>1, <2>2
<1> QED
  BY <1>1, <1>2, <1>3, SpendTables

\* Outputs keep their identifiers to themselves.
LEMMA NextOutputsOwn ==
    ASSUME Base, RowsOpen, OutputsOwn, [Next]_vars
    PROVE  OutputsOwn'
<1>1. CASE /\ UNCHANGED output_notes
           /\ \A r \in Spends : Submitted(r)' <=> Submitted(r)
  BY <1>1 DEF OutputsOwn
<1>2. ASSUME NEW t \in Spends, SubmitSpend(t) PROVE OutputsOwn'
  <2> DEFINE N == ToSet(t.outs)
  <2>0. t.outs \in Seq(Notes) /\ t.pool \in Pools /\ DOMAIN t.outs = 1..Len(t.outs)
    BY RequestAssumption
  <2>1. /\ \A q \in Pools : output_notes[q] \subseteq output_notes'[q]
        /\ N \subseteq output_notes'[t.pool] /\ DOMAIN output_notes' = Pools
    BY <1>2, <2>0 DEF SubmitSpend, OutputsOwn
  <2>2. /\ \A n \in N : n.asset = t.asset /\ \A m \in output_notes[t.pool] : m.id # n.id
        /\ \A i, j \in DOMAIN t.outs : t.outs[i].id = t.outs[j].id => i = j
    <3>1. /\ \A i \in 1..Len(t.outs) : t.outs[i].asset = t.asset
          /\ \A i \in 1..Len(t.outs) : /\ \A m \in output_notes[t.pool] : m.id # t.outs[i].id
                                       /\ \A j \in 1..(i - 1) : t.outs[j].id # t.outs[i].id
      BY <1>2 DEF SubmitSpend, SubmitAccepts
    <3>2. \A n \in N : n.asset = t.asset /\ \A m \in output_notes[t.pool] : m.id # n.id
      BY <2>0, <3>1 DEF ToSet
    <3>3. ASSUME NEW i \in 1..Len(t.outs), NEW j \in 1..Len(t.outs), t.outs[i].id = t.outs[j].id, i # j PROVE FALSE
      <4>1. j \in 1..(i - 1) \/ i \in 1..(j - 1)
        BY <2>0, <3>3
      <4> QED
        BY <3>1, <3>3, <4>1
    <3> QED
      BY <2>0, <3>2, <3>3
  <2>3. \A r \in Spends : Submitted(r)' => Submitted(r) \/ r = t
    <3>1. \A r \in Spends \ {t} : spend_tx_requests'[r] = spend_tx_requests[r]
      BY <1>2 DEF SubmitSpend, Base, StatesInv, SpendKeys
    <3> QED
      BY <3>1 DEF Submitted
  <2>4. ASSUME NEW r \in Spends, Submitted(r), r.pool = t.pool, NEW n \in ToSet(r.outs), NEW m \in N
        PROVE  n.id # m.id
    BY <2>2, <2>4 DEF OutputsOwn
  <2>5. ASSUME NEW r \in Spends, Submitted(r)'
        PROVE  /\ \A n \in ToSet(r.outs) : n.asset = r.asset /\ n \in output_notes'[r.pool]
               /\ \A i, j \in DOMAIN r.outs : r.outs[i].id = r.outs[j].id => i = j
    <3>1. CASE r = t
      BY <2>1, <2>2, <3>1
    <3>2. CASE Submitted(r)
      <4>1. r.pool \in Pools
        BY RequestAssumption
      <4> QED
        BY <2>1, <3>2, <4>1 DEF OutputsOwn
    <3> QED
      BY <2>3, <2>5, <3>1, <3>2
  <2>6. ASSUME NEW r \in Spends, NEW s \in Spends, Submitted(r)', Submitted(s)', r.pool = s.pool, r # s,
               NEW n \in ToSet(r.outs), NEW m \in ToSet(s.outs)
        PROVE  n.id # m.id
    <3>1. CASE Submitted(r) /\ Submitted(s)
      BY <2>6, <3>1 DEF OutputsOwn
    <3>2. CASE r = t /\ Submitted(s)
      BY <2>4, <2>6, <3>2
    <3>3. CASE s = t /\ Submitted(r)
      BY <2>4, <2>6, <3>3
    <3> QED
      BY <2>3, <2>6, <3>1, <3>2, <3>3
  <2> QED
    BY <2>1, <2>5, <2>6 DEF OutputsOwn
<1>3. CASE UNCHANGED <<spend_tx_requests, created, output_notes>>
  BY <1>1, <1>3 DEF Submitted
<1>4. ASSUME NEW p \in Pools, OpStep(p), CommitSpend(p), UNCHANGED <<created, output_notes>>
      PROVE  OutputsOwn'
  <2>1. \A r \in Spends : Submitted(r)' <=> Submitted(r)
    <3>1. /\ \A r \in Spends \ {Row(p)} : spend_tx_requests'[r] = spend_tx_requests[r]
          /\ Row(p) \in Spends /\ Submitted(Row(p)) /\ Row(p)' = Row(p) /\ Submitted(Row(p))'
      BY <1>4, CommittedSpend
    <3> QED
      BY <3>1 DEF Submitted
  <2> QED
    BY <1>1, <1>4, <2>1
<1> QED
  BY <1>2, <1>3, <1>4, SpendTables

\* A request is credited once its operator commits it.
LEMMA CreditedSteps ==
    ASSUME Base, [Next]_vars, NEW d \in Deposits
    PROVE  /\ Credited(d) => Credited(d)'
           /\ Credited(d)' => Credited(d) \/ \E p \in Pools : CommitDeposit(p) /\ Row(p) = d
<1> DEFINE row == deposit_tx_requests[d]
           new == deposit_tx_requests'[d]
<1>0. row \in DepositRows \cup {NoRow} /\ NoRow \notin DepositRows
  BY NoRowAssumption DEF Base, DepositInv, DepositRows
<1>1. \/ new = row
      \/ row = NoRow /\ new = [status |-> "PENDING", hash |-> FALSE]
      \/ row # NoRow /\ new = [row EXCEPT !.hash = TRUE]
      \/ /\ \E p \in Pools : CommitDeposit(p) /\ Row(p) = d
         /\ row # NoRow /\ new = [row EXCEPT !.status = "APPROVED"]
  BY DepositRowSteps DEF Base, HasHash
<1>2. CASE new = row
  BY <1>2 DEF Credited
<1>3. CASE row = NoRow /\ new = [status |-> "PENDING", hash |-> FALSE]
  <2>1. new.status = "PENDING"
    BY <1>3
  <2> QED
    BY <1>3, <2>1 DEF Credited
<1>4. CASE row # NoRow /\ new = [row EXCEPT !.hash = TRUE]
  <2>1. new \in DepositRows /\ new.status = row.status
    BY <1>0, <1>4 DEF DepositRows
  <2> QED
    BY <1>0, <1>4, <2>1 DEF Credited
<1>5. CASE /\ \E p \in Pools : CommitDeposit(p) /\ Row(p) = d
           /\ row # NoRow /\ new = [row EXCEPT !.status = "APPROVED"]
  <2>1. new \in DepositRows /\ new.status = "APPROVED"
    BY <1>0, <1>5 DEF DepositRows
  <2> QED
    BY <1>0, <1>5, <2>1 DEF Credited
<1> QED
  BY <1>1, <1>2, <1>3, <1>4, <1>5

\* The deposit an operator commits.
LEMMA CommittedDeposit ==
    ASSUME Base, RowsOpen, NEW p \in Pools, CommitDeposit(p)
    PROVE  /\ op[p].at = "depositCommit" /\ op[p].rows # <<>> /\ Row(p) = op[p].rows[1]
           /\ 1 \in DOMAIN op[p].rows
           /\ Row(p) \in Deposits /\ Row(p).pool = p /\ ~Credited(Row(p)) /\ HasRow(p, Row(p).to)
           /\ op'[p].at = "deposit" /\ op'[p].rows = Tail(op[p].rows)
<1>1. op[p].at = "depositCommit" /\ op[p].rows # <<>> /\ op[p].rows \in Seq(RowSet(op[p].at, p))
  BY DEF Base, CommitDeposit, At, OperatorTyped, OpOK, Holding
<1>2. Row(p) = op[p].rows[1] /\ 1 \in DOMAIN op[p].rows
  BY <1>1, TailRows DEF Row
<1>3. Row(p) \in Deposits /\ Row(p).pool = p
  BY <1>1, RowTyped DEF Base, RowSet
<1>4. ~Credited(Row(p))
  BY <1>1, <1>2 DEF RowsOpen, DepositSteps, DepositsOpen
<1>5. op'[p] = [at |-> Job(op[p].at), rows |-> Tail(op[p].rows), notes |-> <<>>]
  BY DEF CommitDeposit, NextRow, Base, OperatorTyped
<1>6. op'[p].at = "deposit" /\ op'[p].rows = Tail(op[p].rows)
  BY <1>1, <1>5 DEF Job
<1>7. HasRow(p, Row(p).to)
  BY <1>1 DEF Base, StatesInv, ChecksHold
<1> QED
  BY <1>1, <1>2, <1>3, <1>4, <1>6, <1>7

\* Where the rows of a spend step come from.
LEMMA SpendEnters ==
    ASSUME Base, NEW p \in Pools, OpStep(p), op'[p].at = "spend"
    PROVE  /\ \/ op[p].at \in SpendSteps /\ op[p].rows # <<>> /\ op'[p].rows = Tail(op[p].rows)
              \/ op'[p].rows = PendingSpends(p)
           /\ ~CommitSpend(p)
<1>0. /\ OpOK(op[p], p) /\ DOMAIN op = Pools
      /\ op[p].at \in Holding => op[p].rows # <<>>
  BY DEF Base, OperatorTyped, OpOK
<1>a. ~CommitSpend(p)
  <2>1. ASSUME CommitSpend(p) PROVE FALSE
    <3>1. op'[p] = [at |-> "forward", rows |-> op[p].rows, notes |-> Foreign(p, Row(p).outs)]
      BY <1>0, <2>1 DEF CommitSpend
    <3> QED
      BY <3>1
  <2> QED
    BY <2>1
<1>b. ASSUME NextRow(p), op[p].rows # <<>>
      PROVE  op[p].at \in SpendSteps /\ op[p].rows # <<>> /\ op'[p].rows = Tail(op[p].rows)
  <2>1. op'[p] = [at |-> Job(op[p].at), rows |-> Tail(op[p].rows), notes |-> <<>>]
    BY <1>0, <1>b DEF NextRow
  <2> QED
    BY <1>b, <2>1 DEF Job, SpendSteps
<1>c. ASSUME NEW label, label # "spend", Goto(p, label) PROVE FALSE
  <2>1. op'[p] = [op[p] EXCEPT !.at = label] /\ op[p] = [at |-> op[p].at, rows |-> op[p].rows, notes |-> op[p].notes]
    BY <1>0, <1>c DEF Goto, OpOK
  <2>2. op'[p].at = label
    BY <2>1
  <2> QED
    BY <1>c, <2>2
<1>d. op' # [op EXCEPT ![p] = Idle]
  BY <1>0 DEF Idle
<1>1. CASE StartJob(p)
  <2>1. ASSUME NEW label, NEW rows, NEW notes, StartedAs(p, label, rows, notes)
        PROVE  label = "spend" /\ op'[p].rows = rows
    <3>1. op'[p] = [at |-> label, rows |-> rows, notes |-> notes]
      BY <1>0, <2>1 DEF StartedAs
    <3> QED
      BY <3>1
  <2>2. \/ StartedAs(p, "fresh", PendingFresh(p), <<>>)
        \/ StartedAs(p, "deposit", PendingDeposits(p), <<>>)
        \/ StartedAs(p, "spend", PendingSpends(p), <<>>)
        \/ StartedAs(p, "insert", PendingNotes(p), PendingNotes(p))
    BY <1>1, StartJobCases DEF Base
  <2> QED
    BY <1>a, <2>1, <2>2
<1>2. CASE EndTick(p) \/ AckNotes(p) \/ Crash(p)
  BY <1>2, <1>d DEF EndTick, AckNotes, Crash
<1>3. CASE PostFresh(p)
  BY <1>3, <1>a, <1>b, <1>c DEF PostFresh, Post
<1>4. CASE CommitFresh(p) \/ CommitDeposit(p) \/ SpendDone(p) \/ ForwardFails(p)
  <2>1. NextRow(p) /\ op[p].rows # <<>>
    BY <1>0, <1>4 DEF CommitFresh, CommitDeposit, SpendDone, ForwardFails, At, Holding
  <2> QED
    BY <1>a, <1>b, <2>1
<1>5. CASE Broadcast(p)
  BY <1>5, <1>a, <1>b, <1>c DEF Broadcast
<1>6. CASE SaveHash(p) \/ ReuseHash(p)
  BY <1>6, <1>c DEF SaveHash, ReuseHash
<1>7. CASE PostDeposit(p)
  <2>0. op[p].rows # <<>>
    BY <1>0, <1>7 DEF PostDeposit, At, Holding
  <2>1. NextRow(p) \/ op' = [op EXCEPT ![p] = Idle] \/ Goto(p, "depositCommit")
    BY <1>7 DEF PostDeposit
  <2> QED
    BY <1>a, <1>b, <1>c, <1>d, <2>0, <2>1
<1>8. CASE PostSpend(p)
  <2>1. op[p].rows # <<>> /\ (NextRow(p) \/ op' = [op EXCEPT ![p] = Idle] \/ Goto(p, "spendCommit"))
    BY <1>8 DEF PostSpend, Post
  <2> QED
    BY <1>a, <1>b, <1>c, <1>d, <2>1
<1>9. CASE ForwardNote(p) \/ InsertIncoming(p)
  <2>1. op'[p].at = op[p].at /\ op[p].at \in {"forward", "insert"}
    <3>1. PICK x : op'[p] = [op[p] EXCEPT !.notes = x] \/ op'[p] = [op[p] EXCEPT !.rows = x]
      BY <1>0, <1>9 DEF ForwardNote, InsertIncoming
    <3>2. op'[p].at = op[p].at
      <4>1. \/ op'[p] = [at |-> op[p].at, rows |-> x, notes |-> op[p].notes]
            \/ op'[p] = [at |-> op[p].at, rows |-> op[p].rows, notes |-> x]
        BY <1>0, <3>1, OpFields
      <4> QED
        BY <4>1
    <3> QED
      BY <1>9, <3>2 DEF ForwardNote, InsertIncoming, At
  <2> QED
    BY <2>1
<1>10. CASE StepFails(p)
  <2>1. op' = [op EXCEPT ![p] = Idle] \/ (NextRow(p) /\ op[p].rows # <<>>)
    BY <1>10 DEF StepFails
  <2> QED
    BY <1>a, <1>b, <1>d, <2>1
<1> QED
  BY <1>1, <1>2, <1>3, <1>4, <1>5, <1>6, <1>7, <1>8, <1>9, <1>10, <1>a DEF OpStep, Tick

\* An operator moves or stands still.
LEMMA Moves ==
    ASSUME Base, [Next]_vars, NEW p \in Pools
    PROVE  OpStep(p) \/ (op'[p] = op[p] /\ ~OpStep(p))
BY StepCases, RequestCases, OperatorEnters DEF vars, SealBatch, Base

\* Deposits of an operator stay open until it commits them.
LEMMA NextDepositsOpen ==
    ASSUME Base, RowsOpen, [Next]_vars, NEW p \in Pools, op'[p].at \in DepositSteps
    PROVE  DepositsOpen(p)'
<1>0. PICK s : s = op'[p].rows
  OBVIOUS
<1> SUFFICES Distinct(s) /\ \A i \in DOMAIN s : ~Credited(s[i])'
  BY <1>0 DEF DepositsOpen, Credited
<1>a. ASSUME NEW d \in Deposits, d.pool = p, ~Credited(d), Credited(d)'
      PROVE  CommitDeposit(p) /\ Row(p) = d
  <2>1. PICK q \in Pools : CommitDeposit(q) /\ Row(q) = d
    BY <1>a, CreditedSteps
  <2>2. q = p
    BY <1>a, <2>1, CommittedDeposit
  <2> QED
    BY <2>1, <2>2
<1>b. ASSUME op[p].at \in DepositSteps
      PROVE  /\ op[p].rows \in Seq({d \in Deposits : d.pool = p}) /\ Distinct(op[p].rows)
             /\ \A i \in DOMAIN op[p].rows :
                  op[p].rows[i] \in Deposits /\ op[p].rows[i].pool = p /\ ~Credited(op[p].rows[i])
  <2>1. op[p].rows \in Seq({d \in Deposits : d.pool = p})
    BY <1>b DEF Base, OperatorTyped, OpOK, RowSet, DepositSteps
  <2> QED
    BY <1>b, <2>1 DEF RowsOpen, DepositsOpen
<1>1. ASSUME s = op[p].rows, op[p].at \in DepositSteps, ~CommitDeposit(p)
      PROVE  Distinct(s) /\ \A i \in DOMAIN s : ~Credited(s[i])'
  BY <1>1, <1>a, <1>b
<1>2. CASE op'[p] = op[p] /\ ~OpStep(p)
  <2>1. ~CommitDeposit(p)
    BY <1>2 DEF OpStep, Tick
  <2> QED
    BY <1>0, <1>1, <1>2, <2>1
<1>3. CASE OpStep(p)
  <2>1. Enters(p)
    BY <1>3, OperatorEnters DEF Base
  <2>2. CASE op'[p].at = "deposit" /\ op[p].at \in DepositSteps /\ op[p].rows # <<>> /\ s = Tail(op[p].rows)
    <3>1. /\ Distinct(Tail(op[p].rows))
          /\ \A i \in DOMAIN Tail(op[p].rows) : Tail(op[p].rows)[i] # Row(p)
      BY <1>b, <2>2, TailDistinct DEF Row
    <3>2. \A i \in DOMAIN Tail(op[p].rows) :
             i + 1 \in DOMAIN op[p].rows /\ Tail(op[p].rows)[i] = op[p].rows[i + 1]
      BY <1>b, <2>2, TailRows
    <3>3. ASSUME NEW i \in DOMAIN s PROVE ~Credited(s[i])'
      <4>1. PICK d \in Deposits : d = s[i] /\ d.pool = p /\ ~Credited(d) /\ d # Row(p)
        BY <1>b, <2>2, <3>1, <3>2
      <4>2. ~Credited(d)'
        BY <1>a, <4>1
      <4> QED
        BY <4>1, <4>2
    <3> QED
      BY <2>2, <3>1, <3>3
  <2>3. CASE op'[p].at = "deposit" /\ s = PendingDeposits(p) /\ UNCHANGED dbVars
    <3> DEFINE D == {d \in Deposits : /\ d.pool = p /\ deposit_tx_requests[d] # NoRow
                                      /\ deposit_tx_requests[d].status = "PENDING"}
    <3>1. IsFiniteSet(D) /\ s = SetToSeq(D)
      BY <2>3, FS_Subset, RequestAssumption DEF PendingDeposits
    <3>2. \A d \in D : ~Credited(d)'
      BY <2>3 DEF Credited, dbVars
    <3> HIDE DEF D
    <3>3. Distinct(s) /\ \A i \in DOMAIN s : s[i] \in D
      BY <3>1, SetToSeqDistinct
    <3> QED
      BY <3>2, <3>3
  <2>4. CASE op'[p].at # "deposit"
    <3>1. s = op[p].rows /\ op[p].at \in DepositSteps
      BY <1>0, <2>1, <2>4 DEF Enters, GoesTo, DepositSteps, Broadcast, SaveHash, ReuseHash, PostDeposit, At
    <3>2. ~CommitDeposit(p)
      BY <2>4, CommittedDeposit
    <3> QED
      BY <1>1, <3>1, <3>2
  <2> QED
    BY <1>0, <2>1, <2>2, <2>3, <2>4 DEF Enters
<1> QED
  BY <1>2, <1>3, Moves

\* So do its spends.
LEMMA NextSpendsOpen ==
    ASSUME Base, RowsOpen, [Next]_vars, NEW p \in Pools, op'[p].at \in SpendSteps
    PROVE  SpendsOpen(p)'
<1>0. PICK s : s = op'[p].rows
  OBVIOUS
<1> SUFFICES /\ Distinct(s)
             /\ \A i \in DOMAIN s : /\ Submitted(s[i])'
                                    /\ ~(op'[p].at = "forward" /\ i = 1) => ~Approved(s[i])'
  BY <1>0 DEF SpendsOpen, Submitted, Approved
<1>a. ASSUME NEW r \in Spends, r.pool = p, ~Approved(r), Approved(r)'
      PROVE  CommitSpend(p) /\ Row(p) = r
  <2>1. PICK q \in Pools : CommitSpend(q) /\ Row(q) = r
    BY <1>a, SubmittedSteps
  <2>2. q = p
    BY <1>a, <2>1, CommittedSpend
  <2> QED
    BY <2>1, <2>2
<1>b. ASSUME op[p].at \in SpendSteps
      PROVE  /\ op[p].rows \in Seq({r \in Spends : r.pool = p}) /\ Distinct(op[p].rows)
             /\ \A i \in DOMAIN op[p].rows :
                  /\ op[p].rows[i] \in Spends /\ op[p].rows[i].pool = p /\ Submitted(op[p].rows[i])
                  /\ ~(op[p].at = "forward" /\ i = 1) => ~Approved(op[p].rows[i])
  <2>1. op[p].rows \in Seq({r \in Spends : r.pool = p})
    BY <1>b DEF Base, OperatorTyped, OpOK, RowSet, SpendSteps
  <2> QED
    BY <1>b, <2>1 DEF RowsOpen, SpendsOpen
<1>c. CommitSpend(p) => op'[p].at = "forward"
  <2>1. ASSUME CommitSpend(p) PROVE op'[p].at = "forward"
    <3>1. op'[p] = [at |-> "forward", rows |-> op[p].rows, notes |-> Foreign(p, Row(p).outs)]
      BY <2>1 DEF CommitSpend, Base, OperatorTyped
    <3> QED
      BY <3>1
  <2> QED
    BY <2>1
<1>1. ASSUME s = op[p].rows, op[p].at \in SpendSteps, ~CommitSpend(p),
             op[p].at = "forward" => op'[p].at = "forward"
      PROVE  /\ Distinct(s)
             /\ \A i \in DOMAIN s :
                    /\ Submitted(s[i])'
                    /\ ~(op'[p].at = "forward" /\ i = 1) => ~Approved(s[i])'
  BY <1>1, <1>a, <1>b, SubmittedSteps
<1>2. CASE op'[p] = op[p] /\ ~OpStep(p)
  <2>1. ~CommitSpend(p)
    BY <1>2 DEF OpStep, Tick
  <2> QED
    BY <1>0, <1>1, <1>2, <2>1
<1>3. CASE OpStep(p)
  <2>1. Enters(p)
    BY <1>3, OperatorEnters DEF Base
  <2>2. CASE op'[p].at = "spend" /\ op[p].at \in SpendSteps /\ op[p].rows # <<>> /\ s = Tail(op[p].rows)
    <3>1. Distinct(Tail(op[p].rows))
      BY <1>b, <2>2, TailDistinct
    <3>2. \A i \in DOMAIN Tail(op[p].rows) :
             i + 1 \in DOMAIN op[p].rows /\ Tail(op[p].rows)[i] = op[p].rows[i + 1] /\ i + 1 # 1
      <4>1. Tail(op[p].rows) \in Seq({r \in Spends : r.pool = p})
        BY <1>b, <2>2, TailRows
      <4>2. \A i \in DOMAIN Tail(op[p].rows) : i \in Nat /\ i >= 1
        BY <4>1
      <4>3. \A i \in DOMAIN Tail(op[p].rows) :
               i + 1 \in DOMAIN op[p].rows /\ Tail(op[p].rows)[i] = op[p].rows[i + 1]
        BY <1>b, <2>2, TailRows
      <4> QED
        BY <4>2, <4>3
    <3>3. ASSUME NEW i \in DOMAIN s
          PROVE  Submitted(s[i])' /\ ~Approved(s[i])'
      <4>1. PICK r \in Spends : r = s[i] /\ r.pool = p /\ Submitted(r) /\ ~Approved(r)
        BY <1>b, <2>2, <3>2
      <4>2. Submitted(r)' /\ ~Approved(r)'
        BY <1>a, <1>c, <2>2, <4>1, SubmittedSteps
      <4> QED
        BY <4>1, <4>2
    <3> QED
      BY <2>2, <3>1, <3>3
  <2>3. CASE op'[p].at = "spend" /\ s = PendingSpends(p)
    <3> DEFINE c == created[p]
               R == {r \in ToSet(c) : spend_tx_requests[r].status = "PENDING"}
    <3>1. c \in Seq(RowSet("spend", p)) /\ Distinct(c) /\ \A r \in ToSet(c) : Submitted(r)
      BY DEF Base, OperatorTyped, RowsOpen
    <3>2. Kept(c, R) \in Seq(RowSet("spend", p)) /\ ToSet(Kept(c, R)) = ToSet(c) \cap R /\ Distinct(Kept(c, R))
      BY <3>1, KeptElements, KeptDistinct
    <3>3. s = Kept(c, R)
      BY <2>3 DEF PendingSpends
    <3>4. ASSUME NEW i \in DOMAIN s
          PROVE  Submitted(s[i])' /\ ~Approved(s[i])'
      <4>1. s[i] \in ToSet(c) \cap R /\ s[i] \in RowSet("spend", p)
        <5>1. PICK k \in Seq(RowSet("spend", p)) : k = Kept(c, R)
          BY <3>2
        <5>2. i \in DOMAIN k /\ k[i] \in ToSet(k) /\ k[i] \in RowSet("spend", p)
          BY <3>3, <5>1, ElementOf
        <5> HIDE DEF c, R
        <5> QED
          BY <3>2, <3>3, <5>1, <5>2
      <4>2. PICK r \in Spends : r = s[i] /\ r.pool = p /\ Submitted(r) /\ ~Approved(r)
        BY <3>1, <4>1 DEF RowSet, Approved
      <4>3. Submitted(r)' /\ ~Approved(r)'
        BY <1>a, <1>c, <2>3, <4>2, SubmittedSteps
      <4> QED
        BY <4>2, <4>3
    <3> QED
      BY <3>2, <3>3, <3>4
  <2>4. CASE op'[p].at = "spendCommit"
    <3>1. s = op[p].rows /\ op[p].at = "spend"
      BY <1>0, <2>1, <2>4 DEF Enters, GoesTo, PostSpend, At
    <3>2. ~CommitSpend(p)
      BY <1>c, <2>4
    <3> QED
      BY <1>1, <3>1, <3>2 DEF SpendSteps
  <2>5. CASE op'[p].at = "forward" /\ ForwardNote(p)
    <3>1. s = op[p].rows /\ op[p].at = "forward"
      BY <1>0, <2>1, <2>5 DEF Enters, GoesTo, ForwardNote, At
    <3>2. ~CommitSpend(p)
      BY <3>1 DEF CommitSpend, At
    <3> QED
      BY <1>1, <2>5, <3>1, <3>2 DEF SpendSteps
  <2>6. CASE op'[p].at = "forward" /\ CommitSpend(p)
    <3>1. /\ s = op[p].rows /\ op[p].at = "spendCommit"
          /\ 1 \in DOMAIN op[p].rows /\ Row(p) = op[p].rows[1]
      BY <1>0, <2>1, <2>6, CommittedSpend DEF Enters, GoesTo
    <3>2. ASSUME NEW i \in DOMAIN s
          PROVE  Submitted(s[i])' /\ (i # 1 => ~Approved(s[i])')
      <4>1. PICK r \in Spends : r = s[i] /\ r.pool = p /\ Submitted(r) /\ ~Approved(r)
        BY <1>b, <3>1 DEF SpendSteps
      <4>2. i # 1 => r # Row(p)
        BY <1>b, <3>1, <4>1 DEF Distinct, SpendSteps
      <4>3. Submitted(r)' /\ (i # 1 => ~Approved(r)')
        BY <1>a, <4>1, <4>2, SubmittedSteps
      <4> QED
        BY <4>1, <4>3
    <3>3. Distinct(s)
      BY <1>b, <3>1 DEF SpendSteps
    <3> QED
      BY <2>6, <3>2, <3>3
  <2>7. CASE op'[p].at = "spend"
    BY <1>0, <1>3, <2>2, <2>3, <2>7, SpendEnters
  <2>8. CASE op'[p].at = "forward"
    BY <2>1, <2>5, <2>6, <2>8 DEF Enters
  <2> QED
    BY <2>4, <2>7, <2>8 DEF SpendSteps
<1> QED
  BY <1>2, <1>3, Moves

\* Requests stay open until they are committed, and are listed once.
LEMMA NextRowsOpen ==
    ASSUME Base, RowsOpen, [Next]_vars
    PROVE  RowsOpen'
<1>1. ASSUME NEW p \in Pools
      PROVE  Distinct(created'[p]) /\ \A r \in ToSet(created'[p]) : Submitted(r)'
  <2>0. /\ created[p] \in Seq(RowSet("spend", p)) /\ DOMAIN created = Pools
        /\ Distinct(created[p]) /\ \A r \in ToSet(created[p]) : Submitted(r) /\ r \in Spends
    <3>1. created[p] \in Seq(RowSet("spend", p)) /\ DOMAIN created = Pools
      BY DEF Base, OperatorTyped
    <3>2. ToSet(created[p]) \subseteq Spends
      BY <3>1 DEF ToSet, RowSet
    <3> QED
      BY <3>1, <3>2 DEF RowsOpen
  <2>1. CASE created'[p] = created[p]
    BY <2>0, <2>1, SubmittedSteps
  <2>2. ASSUME NEW t \in Spends, SubmitSpend(t), created'[p] # created[p]
        PROVE  Distinct(created'[p]) /\ \A r \in ToSet(created'[p]) : Submitted(r)'
    <3>1. p = t.pool /\ created'[p] = Append(created[p], t) /\ ~Submitted(t)
      BY <2>0, <2>2 DEF SubmitSpend, Submitted
    <3>2. t \in RowSet("spend", p) /\ t \notin ToSet(created[p])
      BY <2>0, <3>1 DEF RowSet
    <3>3. Distinct(Append(created[p], t)) /\ ToSet(Append(created[p], t)) = ToSet(created[p]) \cup {t}
      BY <2>0, <3>2, AppendDistinct
    <3>4. Submitted(t)'
      <4> DEFINE new == [status |-> "PENDING", tx |-> NoRow]
      <4>1. spend_tx_requests'[t] = new
        BY <2>2 DEF SubmitSpend, Base, StatesInv, SpendKeys
      <4>2. new # NoRow
        BY NoRowAssumption
      <4> QED
        BY <4>1, <4>2 DEF Submitted
    <3> QED
      BY <2>0, <3>1, <3>3, <3>4, SubmittedSteps
  <2>3. UNCHANGED created \/ \E t \in Spends : SubmitSpend(t)
    BY SpendTables
  <2> QED
    BY <2>1, <2>2, <2>3
<1> QED
  BY <1>1, NextDepositsOpen, NextSpendsOpen DEF RowsOpen

-----------------------------------------------------------------------------
(* Sent notes *)

\* Committing a spend sends its outputs, and nothing else sends notes.
LEMMA SentSteps ==
    ASSUME Base, RowsOpen, [Next]_vars
    PROVE  /\ SentNotes \subseteq SentNotes'
           /\ \A p \in Pools : CommitSpend(p) => SentNotes' = SentNotes \cup ToSet(Row(p).outs)
           /\ (\A p \in Pools : ~CommitSpend(p)) => SentNotes' = SentNotes
<1>1. \A r \in Spends : Approved(r) => Approved(r)'
  BY SubmittedSteps
<1>2. ASSUME NEW p \in Pools, CommitSpend(p) PROVE SentNotes' = SentNotes \cup ToSet(Row(p).outs)
  <2>1. PICK r \in Spends : r = Row(p) /\ Row(p)' = r /\ Approved(r)'
    <3>1. Row(p) \in Spends /\ Row(p)' = Row(p) /\ Approved(Row(p))'
      BY <1>2, CommittedSpend
    <3> QED
      BY <3>1
  <2>2. \A t \in Spends : t # r => (Approved(t)' <=> Approved(t))
    <3>1. \A t \in Spends \ {Row(p)} : spend_tx_requests'[t] = spend_tx_requests[t]
      BY <1>2, CommittedSpend
    <3> QED
      BY <2>1, <3>1 DEF Approved
  <2> QED
    BY <2>1, <2>2 DEF SentNotes
<1>3. ASSUME \A p \in Pools : ~CommitSpend(p) PROVE SentNotes' = SentNotes
  <2>1. \A r \in Spends : Approved(r)' <=> Approved(r)
    BY <1>3, SubmittedSteps
  <2> QED
    BY <2>1 DEF SentNotes
<1> QED
  BY <1>1, <1>2, <1>3 DEF SentNotes

\* Consuming keeps a table in order and its notes what they are; consumed rows stay.
LEMMA ConsumedTable ==
    ASSUME NEW rows \in SUBSET InputRows, NEW ids, UniqueIds(rows), IsFiniteSet(rows)
    PROVE  /\ UniqueIds(Consume(rows, ids)) /\ IsFiniteSet(Consume(rows, ids))
           /\ \A m \in Consume(rows, ids) : \E k \in rows : SameNote(m, k)
           /\ \A m \in rows : m.consume => m \in Consume(rows, ids)
           /\ \A k \in rows : k.id \in ids =>
                \E m \in Consume(rows, ids) : SameNote(m, k) /\ m.consume = TRUE
<1> DEFINE h == [m \in rows |-> IF m.id \in ids THEN [m EXCEPT !.consume = TRUE] ELSE m]
           new == Consume(rows, ids)
<1>1. \A m \in rows : /\ SameNote(h[m], m) /\ h[m].id = m.id
                      /\ m.id \in ids => h[m].consume = TRUE
                      /\ m.consume => h[m] = m
  BY DEF InputRows, SameNote
<1>2. new = {h[m] : m \in rows}
  BY DEF Consume
<1> HIDE DEF h, new
<1>3. UniqueIds(new)
  <2>1. ASSUME NEW m \in rows, NEW k \in rows, h[m].id = h[k].id PROVE h[m] = h[k]
    <3>1. m.id = k.id
      BY <1>1, <2>1
    <3>2. m = k
      BY <3>1 DEF UniqueIds
    <3> QED
      BY <3>2
  <2> QED
    BY <1>2, <2>1 DEF UniqueIds
<1>4. IsFiniteSet(new)
  BY <1>2, FiniteImage
<1>5. /\ \A m \in new : \E k \in rows : SameNote(m, k)
      /\ \A m \in rows : m.consume => m \in new
      /\ \A k \in rows : k.id \in ids => \E m \in new : SameNote(m, k) /\ m.consume = TRUE
  BY <1>1, <1>2
<1> QED
  BY <1>3, <1>4, <1>5 DEF new

\* The tables hold sent notes, each at home.
TableSent(p) ==
    /\ UniqueIds(input_notes[p]) /\ IsFiniteSet(input_notes[p])
    /\ \A m \in input_notes[p] : Home[m.to] = p /\ \E n \in SentNotes : SameNote(m, n)

\* Commits and inserts keep it so.
LEMMA NextTableSent ==
    ASSUME Base, RowsOpen, NotesSent, [Next]_vars, NEW p \in Pools
    PROVE  TableSent(p)'
<1>0. SentNotes \subseteq SentNotes' /\ InputsTyped
  BY SentSteps DEF Base
<1>a. /\ UniqueIds(input_notes[p]) /\ IsFiniteSet(input_notes[p])
      /\ \A m \in input_notes[p] : Home[m.to] = p /\ \E n \in SentNotes : SameNote(m, n)
      /\ input_notes[p] \in SUBSET InputRows
  BY <1>0 DEF NotesSent, InputsTyped
<1>1. CASE input_notes'[p] = input_notes[p]
  BY <1>0, <1>a, <1>1 DEF TableSent
<1>2. CASE CommitSpend(p)
  <2> DEFINE r == Row(p)
             rows == Consume(input_notes[p], ToSet(r.ins))
             notes == Local(p, r.outs)
             table == WithInputNotes(rows, notes)
  <2>1. /\ \A n \in ToSet(notes) : n \in Notes /\ HasRow(p, n.to)
        /\ ToSet(notes) \subseteq ToSet(r.outs) /\ notes \in Seq(Notes)
        /\ input_notes'[p] = table
    BY <1>0, <1>2, SpendInputs DEF InputsTyped, Base
  <2>2. ToSet(r.outs) \subseteq SentNotes'
    BY <1>2, SentSteps
  <2>3. /\ UniqueIds(rows) /\ IsFiniteSet(rows)
        /\ \A m \in rows : \E k \in input_notes[p] : SameNote(m, k)
    BY <1>a, ConsumedTable
  <2>4. /\ table \subseteq rows \cup {FreshRow(n) : n \in ToSet(notes)}
        /\ UniqueIds(table) /\ IsFiniteSet(table)
    BY <2>1, <2>3, AllInserted
  <2> HIDE DEF rows, notes, table
  <2>5. ASSUME NEW m \in rows PROVE Home[m.to] = p /\ \E n \in SentNotes' : SameNote(m, n)
    <3>1. PICK k \in input_notes[p] : SameNote(m, k)
      BY <2>3
    <3>2. PICK n \in SentNotes : SameNote(k, n) /\ Home[k.to] = p
      BY <1>a
    <3>3. SameNote(m, n) /\ Home[m.to] = p
      BY <3>1, <3>2 DEF SameNote
    <3> QED
      BY <1>0, <3>3
  <2>6. ASSUME NEW n \in ToSet(notes)
        PROVE  Home[FreshRow(n).to] = p /\ n \in SentNotes' /\ SameNote(FreshRow(n), n)
    BY <2>1, <2>2 DEF FreshRow, SameNote, HasRow
  <2>7. \A m \in table : Home[m.to] = p /\ \E n \in SentNotes' : SameNote(m, n)
    BY <2>4, <2>5, <2>6
  <2> QED
    BY <2>1, <2>4, <2>7 DEF TableSent
<1>3. CASE InsertIncoming(p)
  <2> DEFINE n == Row(p)
             table == WithInputNote(input_notes[p], n)
  <2>1. n \in SentNotes /\ Home[n.to] = p
    <3>1. op[p].at = "insert" /\ op[p].rows # <<>> /\ op[p].rows \in Seq(Notes)
      BY <1>3 DEF InsertIncoming, At, Base, OperatorTyped, OpOK, RowSet
    <3>2. Row(p) \in ToSet(op[p].rows)
      BY <3>1, HeadAndTail DEF Row
    <3> QED
      BY <3>1, <3>2 DEF NotesSent
  <2>2. input_notes'[p] = table
    BY <1>0, <1>3 DEF InsertIncoming, InputsTyped
  <2>3. table \subseteq input_notes[p] \cup {FreshRow(n)} /\ UniqueIds(table) /\ IsFiniteSet(table)
    BY <1>a, OneInserted
  <2>4. Home[FreshRow(n).to] = p /\ SameNote(FreshRow(n), n)
    BY <2>1 DEF FreshRow, SameNote
  <2> HIDE DEF table, n
  <2>5. \A m \in table : Home[m.to] = p /\ \E k \in SentNotes' : SameNote(m, k)
    BY <1>0, <1>a, <2>1, <2>3, <2>4
  <2> QED
    BY <2>2, <2>3, <2>5 DEF TableSent
<1>4. input_notes'[p] = input_notes[p] \/ CommitSpend(p) \/ InsertIncoming(p)
  <2>1. CASE OpStep(p)
    BY <2>1, OperatorWrites
  <2>2. CASE ~OpStep(p)
    BY <2>2, InputsElsewhere DEF Base, InputsTyped
  <2> QED
    BY <2>1, <2>2
<1> QED
  BY <1>1, <1>2, <1>3, <1>4

\* Notes in a mailbox, on the way to one, and polled from one stay sent notes.
LEMMA NextCarriers ==
    ASSUME Base, RowsOpen, NotesSent, [Next]_vars, NEW p \in Pools
    PROVE  /\ mailbox'[p] \subseteq SentNotes'
           /\ op'[p].at = "forward" => ToSet(op'[p].notes) \subseteq SentNotes'
           /\ op'[p].at = "insert" => \A n \in ToSet(op'[p].rows) : n \in SentNotes' /\ Home[n.to] = p
<1>0. /\ SentNotes \subseteq SentNotes' /\ DOMAIN op = Pools /\ DOMAIN mailbox = Pools
      /\ \A q \in Pools : OpOK(op[q], q)
  BY SentSteps DEF Base, OperatorTyped
<1>1. mailbox'[p] \subseteq SentNotes'
  <2>1. CASE UNCHANGED mailbox
    BY <1>0, <2>1 DEF NotesSent
  <2>2. ASSUME NEW q \in Pools, ForwardNote(q) PROVE mailbox'[p] \subseteq SentNotes'
    <3> DEFINE n == Head(op[q].notes)
    <3>1. op[q].at = "forward" /\ op[q].notes # <<>> /\ op[q].notes \in Seq(Notes)
      BY <1>0, <2>2 DEF ForwardNote, At, OpOK
    <3>2. n \in ToSet(op[q].notes)
      BY <3>1, HeadAndTail
    <3>3. n \in SentNotes
      BY <3>1, <3>2 DEF NotesSent
    <3>4. mailbox'[p] \subseteq mailbox[p] \cup {n}
      BY <1>0, <2>2 DEF ForwardNote
    <3> HIDE DEF n
    <3> QED
      BY <1>0, <3>3, <3>4 DEF NotesSent
  <2>3. ASSUME NEW q \in Pools, AckNotes(q) PROVE mailbox'[p] \subseteq SentNotes'
    <3>1. mailbox'[p] \subseteq mailbox[p]
      BY <1>0, <2>3 DEF AckNotes
    <3> QED
      BY <1>0, <3>1 DEF NotesSent
  <2> QED
    BY <2>1, <2>2, <2>3, StepCases, RequestCases, OperatorWrites DEF vars, seqVars, SealBatch
<1>2. CASE op'[p] = op[p] /\ ~OpStep(p)
  BY <1>0, <1>1, <1>2 DEF NotesSent
<1>3. CASE OpStep(p)
  <2>1. Enters(p)
    BY <1>3, OperatorEnters DEF Base
  <2>2. ASSUME CommitSpend(p) PROVE ToSet(op'[p].notes) \subseteq SentNotes'
    <3>1. op'[p] = [at |-> "forward", rows |-> op[p].rows, notes |-> Foreign(p, Row(p).outs)]
      BY <1>0, <2>2 DEF CommitSpend
    <3>2. op'[p].notes = Foreign(p, Row(p).outs)
      BY <3>1
    <3>3. ToSet(Foreign(p, Row(p).outs)) \subseteq ToSet(Row(p).outs)
      BY <2>2, SpendInputs DEF Base, InputsTyped
    <3>4. ToSet(Row(p).outs) \subseteq SentNotes'
      BY <2>2, SentSteps
    <3> QED
      BY <3>2, <3>3, <3>4
  <2>3. ASSUME ForwardNote(p) PROVE ToSet(op'[p].notes) \subseteq SentNotes'
    <3>1. op[p].at = "forward" /\ op[p].notes # <<>> /\ op[p].notes \in Seq(Notes)
      BY <1>0, <2>3 DEF ForwardNote, At, OpOK
    <3>2. op'[p] = [op[p] EXCEPT !.notes = Tail(op[p].notes)]
      BY <1>0, <2>3 DEF ForwardNote
    <3>3. op'[p] = [at |-> op[p].at, rows |-> op[p].rows, notes |-> Tail(op[p].notes)]
      BY <1>0, <3>2, OpFields
    <3>4. op'[p].notes = Tail(op[p].notes)
      BY <3>3
    <3>5. ToSet(Tail(op[p].notes)) \subseteq ToSet(op[p].notes)
      BY <3>1, HeadAndTail
    <3> QED
      BY <1>0, <3>1, <3>4, <3>5 DEF NotesSent
  <2>4. CASE op'[p].at = "insert" /\ op'[p].rows = PendingNotes(p)
    <3>1. IsFiniteSet(mailbox[p]) /\ mailbox[p] \subseteq SentNotes /\ \A n \in mailbox[p] : Home[n.to] = p
      BY DEF NotesSent, Base, OperatorTyped
    <3>2. \A i \in DOMAIN op'[p].rows : op'[p].rows[i] \in mailbox[p]
      BY <2>4, <3>1, SetToSeqDistinct DEF PendingNotes
    <3> QED
      BY <1>0, <1>1, <2>4, <3>1, <3>2 DEF ToSet
  <2>5. CASE op'[p].at = "insert" /\ InsertIncoming(p) /\ op'[p].rows = Tail(op[p].rows)
    <3>1. op[p].at = "insert" /\ op[p].rows # <<>> /\ op[p].rows \in Seq(Notes)
      BY <1>0, <2>5 DEF InsertIncoming, At, OpOK, RowSet
    <3>2. ToSet(Tail(op[p].rows)) \subseteq ToSet(op[p].rows)
      BY <3>1, HeadAndTail
    <3> QED
      BY <1>0, <1>1, <2>5, <3>1, <3>2 DEF NotesSent
  <2>6. op'[p].at = "forward" => ToSet(op'[p].notes) \subseteq SentNotes'
    BY <2>1, <2>2, <2>3 DEF Enters
  <2>7. op'[p].at = "insert" => \A n \in ToSet(op'[p].rows) : n \in SentNotes' /\ Home[n.to] = p
    BY <2>1, <2>4, <2>5 DEF Enters
  <2> QED
    BY <1>1, <2>6, <2>7
<1> QED
  BY <1>2, <1>3, Moves

\* Every step keeps what was sent in view.
LEMMA NextNotesSent ==
    ASSUME Base, RowsOpen, NotesSent, [Next]_vars
    PROVE  NotesSent'
<1>1. \A p \in Pools : TableSent(p)'
  BY NextTableSent
<1> QED
  BY <1>1, NextCarriers DEF NotesSent, TableSent

\* A consumed row stays.
LEMMA ConsumedStays ==
    ASSUME Base, NotesSent, [Next]_vars, NEW p \in Pools, NEW m \in input_notes[p], m.consume
    PROVE  m \in input_notes'[p]
<1>0. /\ input_notes[p] \in SUBSET InputRows /\ DOMAIN input_notes = Pools
      /\ UniqueIds(input_notes[p]) /\ IsFiniteSet(input_notes[p])
  BY DEF Base, InputsTyped, NotesSent
<1>1. CASE input_notes'[p] = input_notes[p]
  BY <1>1
<1>2. CASE CommitSpend(p)
  <2> DEFINE rows == Consume(input_notes[p], ToSet(Row(p).ins))
  <2>1. m \in rows
    BY <1>0, ConsumedTable
  <2>2. rows \subseteq WithInputNotes(rows, Local(p, Row(p).outs))
    <3>1. Local(p, Row(p).outs) \in Seq(Notes)
      BY <1>2, SpendInputs DEF Base, InputsTyped
    <3> QED
      BY <3>1, AllInserted
  <2>3. input_notes'[p] = WithInputNotes(rows, Local(p, Row(p).outs))
    BY <1>2, SpendInputs DEF Base, InputsTyped
  <2> QED
    BY <2>1, <2>2, <2>3
<1>3. CASE InsertIncoming(p)
  <2>1. input_notes'[p] = WithInputNote(input_notes[p], Row(p))
    BY <1>0, <1>3 DEF InsertIncoming
  <2> QED
    BY <2>1, OneInserted
<1>4. input_notes'[p] = input_notes[p] \/ CommitSpend(p) \/ InsertIncoming(p)
  <2>1. CASE OpStep(p)
    BY <2>1, OperatorWrites
  <2>2. CASE ~OpStep(p)
    BY <2>2, InputsElsewhere DEF Base, InputsTyped
  <2> QED
    BY <2>1, <2>2
<1> QED
  BY <1>1, <1>2, <1>3, <1>4

\* The rows a spend consumes, before and after its commit.
LEMMA SpentRows ==
    ASSUME Base, RowsOpen, NotesSent, NEW p \in Pools, CommitSpend(p)
    PROVE  LET r == Row(p)
               rows == Consume(input_notes[p], ToSet(r.ins))
           IN  /\ rows \subseteq input_notes'[p]
               /\ \A i \in 1..Len(r.ins) : \E k \in InputRow(p, r.ins[i]) :
                    /\ k \in input_notes[p] /\ k.consume = FALSE /\ k.to = r.from
                    /\ \E m \in rows : SameNote(m, k) /\ m.consume = TRUE
<1> DEFINE r == Row(p)
           rows == Consume(input_notes[p], ToSet(r.ins))
<1>0. /\ input_notes[p] \in SUBSET InputRows
      /\ UniqueIds(input_notes[p]) /\ IsFiniteSet(input_notes[p])
  BY DEF Base, InputsTyped, NotesSent
<1>1. r \in Spends /\ r.pool = p /\ InputsUsable(r)
  BY CommittedSpend
<1>2. DOMAIN r.ins = 1..Len(r.ins)
  BY <1>1, RequestAssumption
<1>3. rows \subseteq input_notes'[p]
  <2>1. Local(p, r.outs) \in Seq(Notes) /\ input_notes'[p] = WithInputNotes(rows, Local(p, r.outs))
    BY SpendInputs DEF Base, InputsTyped
  <2> HIDE DEF rows
  <2> QED
    BY <2>1, AllInserted
<1>4. ASSUME NEW i \in 1..Len(r.ins)
      PROVE  \E k \in InputRow(p, r.ins[i]) :
                    /\ k \in input_notes[p] /\ k.consume = FALSE /\ k.to = r.from
                    /\ \E m \in rows : SameNote(m, k) /\ m.consume = TRUE
  <2>1. PICK k \in InputRow(p, r.ins[i]) : ~k.consume /\ k.to = r.from
    BY <1>1 DEF InputsUsable
  <2>2. k \in input_notes[p] /\ k.id = r.ins[i]
    BY <2>1 DEF InputRow
  <2>3. k.consume = FALSE
    BY <1>0, <2>1, <2>2 DEF InputRows
  <2>4. k.id \in ToSet(r.ins)
    BY <1>2, <2>2 DEF ToSet
  <2>5. \E m \in rows : SameNote(m, k) /\ m.consume = TRUE
    BY <1>0, <2>2, <2>4, ConsumedTable
  <2> QED
    BY <2>1, <2>2, <2>3, <2>5
<1> QED
  BY <1>3, <1>4

\* What an approved spend took in stays consumed.
LEMMA NextInputsConsumed ==
    ASSUME Base, RowsOpen, NotesSent, InputsConsumed, [Next]_vars
    PROVE  InputsConsumed'
<1>1. ASSUME NEW r \in Spends, Approved(r)', NEW i \in 1..Len(r.ins)
      PROVE  \E m \in input_notes'[r.pool] : m.id = r.ins[i] /\ m.consume
  <2>0. r.pool \in Pools
    BY RequestAssumption
  <2>1. CASE Approved(r)
    <3>1. PICK m \in input_notes[r.pool] : m.id = r.ins[i] /\ m.consume
      BY <2>1 DEF InputsConsumed, InputRow
    <3>2. m \in input_notes'[r.pool]
      BY <2>0, <3>1, ConsumedStays
    <3> QED
      BY <3>1, <3>2
  <2>2. ASSUME NEW p \in Pools, CommitSpend(p), Row(p) = r
        PROVE  \E m \in input_notes'[r.pool] : m.id = r.ins[i] /\ m.consume
    <3>1. r.pool = p
      BY <2>2, CommittedSpend
    <3>2. PICK k \in InputRow(p, r.ins[i]), m \in input_notes'[p] : SameNote(m, k) /\ m.consume = TRUE
      BY <2>2, SpentRows
    <3>3. m.id = r.ins[i]
      BY <3>2 DEF SameNote, InputRow
    <3> QED
      BY <3>1, <3>2, <3>3
  <2> QED
    BY <1>1, <2>1, <2>2, SubmittedSteps
<1> QED
  BY <1>1 DEF InputsConsumed, InputRow

-----------------------------------------------------------------------------
(* The sides of the equation *)

\* What the accounts hold of an asset.
Balance(A, a, x) == IF A[a] = NoRow THEN 0 ELSE A[a].ast[x]
Funds(A, x) == SumFunctionOnSet([a \in Accounts |-> Balance(A, a, x)], Accounts)

\* These are integers.
LEMMA FundsTyped ==
    ASSUME NEW A \in [Accounts -> AccountRows \cup {NoRow}], NEW x \in Assets
    PROVE  (\A a \in Accounts : Balance(A, a, x) \in Int) /\ Funds(A, x) \in Int
<1> DEFINE f == [a \in Accounts |-> Balance(A, a, x)]
<1>1. \A a \in Accounts : Balance(A, a, x) \in Int
  BY DEF Balance, AccountRows
<1>2. \A a \in Accounts : f[a] \in Int
  BY <1>1
<1>3. Funds(A, x) = SumFunctionOnSet(f, Accounts)
  BY DEF Funds
<1> HIDE DEF f
<1> QED
  BY <1>1, <1>2, <1>3, SumInt, RequestAssumption

\* Writing one account.
LEMMA FundsChange ==
    ASSUME NEW A \in [Accounts -> AccountRows \cup {NoRow}], NEW x \in Assets, NEW A2,
           NEW b \in Accounts, NEW d \in Int, Balance(A2, b, x) = Balance(A, b, x) + d,
           \A a \in Accounts \ {b} : A2[a] = A[a]
    PROVE  Funds(A2, x) = Funds(A, x) + d
<1> DEFINE f == [a \in Accounts |-> Balance(A, a, x)]
           g == [a \in Accounts |-> Balance(A2, a, x)]
<1>1. \A a \in Accounts : f[a] \in Int
  BY FundsTyped
<1>2. g[b] = f[b] + d /\ \A a \in Accounts \ {b} : g[a] = f[a]
  BY DEF Balance
<1>3. Funds(A, x) = SumFunctionOnSet(f, Accounts) /\ Funds(A2, x) = SumFunctionOnSet(g, Accounts)
  BY DEF Funds
<1> HIDE DEF f, g
<1>4. SumFunctionOnSet(g, Accounts) = SumFunctionOnSet(f, Accounts) + d
  <2>1. IsFiniteSet(Accounts)
    BY RequestAssumption
  <2>2. ChangesAt(f, g, Accounts, b, d)
    BY <1>1, <1>2 DEF ChangesAt
  <2> QED
    BY <2>1, <2>2, SumChange
<1> QED
  BY <1>3, <1>4

\* The rows a request lists, and what it gains by what it lists.
Took(T, r) == [i \in 1..Len(r.ins) |-> CHOOSE n \in {m \in T[r.pool] : m.id = r.ins[i]} : TRUE]
Listed(T, r) == \A i \in 1..Len(r.ins) : \E m \in T[r.pool] : m.id = r.ins[i]
Taken(T, r, x) == {m \in T[r.pool] : m.id \in ToSet(r.ins) /\ m.asset = x}
Summed(T, r, x) == IF r.asset = x THEN Total(Took(T, r)) ELSE 0
Gain(T, r, x) == Summed(T, r, x) - TotalSet({n \in ToSet(Took(T, r)) : n.asset = x})

\* Each listed identifier has its row.
LEMMA TookRows ==
    ASSUME NEW T, Tables(T), NEW r \in Spends, Listed(T, r)
    PROVE  /\ Len(r.ins) \in Nat /\ DOMAIN Took(T, r) = 1..Len(r.ins)
           /\ \A i \in 1..Len(r.ins) : Took(T, r)[i] \in T[r.pool] /\ Took(T, r)[i].id = r.ins[i]
           /\ r.pool \in Pools /\ T[r.pool] \in SUBSET InputRows
<1>1. Len(r.ins) \in Nat /\ r.pool \in Pools
  BY RequestAssumption
<1>2. ASSUME NEW i \in 1..Len(r.ins)
      PROVE  Took(T, r)[i] \in T[r.pool] /\ Took(T, r)[i].id = r.ins[i]
  <2>1. Took(T, r)[i] = CHOOSE n \in {m \in T[r.pool] : m.id = r.ins[i]} : TRUE
    BY DEF Took
  <2>2. \E n \in {m \in T[r.pool] : m.id = r.ins[i]} : TRUE
    BY DEF Listed
  <2> QED
    BY <2>1, <2>2
<1> QED
  BY <1>1, <1>2 DEF Took, Tables

\* The rows are those with a listed identifier; the gain is an integer.
LEMMA TookTyped ==
    ASSUME NEW T, Tables(T), NEW r \in Spends, Listed(T, r), NEW x
    PROVE  /\ {n \in ToSet(Took(T, r)) : n.asset = x} = Taken(T, r, x)
           /\ Countable(Taken(T, r, x)) /\ TotalSet(Taken(T, r, x)) \in Nat
           /\ Total(Took(T, r)) \in Nat /\ Summed(T, r, x) \in Nat
           /\ Gain(T, r, x) = Summed(T, r, x) - TotalSet(Taken(T, r, x))
           /\ Gain(T, r, x) \in Int
<1> DEFINE t == Took(T, r)
           n == Len(r.ins)
<1>1. /\ n \in Nat /\ DOMAIN t = 1..n
      /\ \A i \in 1..n : t[i] \in T[r.pool] /\ t[i].id = r.ins[i]
      /\ r.pool \in Pools /\ T[r.pool] \in SUBSET InputRows
  BY TookRows
<1>2. UniqueIds(T[r.pool]) /\ IsFiniteSet(T[r.pool]) /\ DOMAIN r.ins = 1..n
  BY <1>1, RequestAssumption DEF Tables
<1> HIDE DEF t, n
<1>3. {m \in ToSet(t) : m.asset = x} = Taken(T, r, x)
  <2>1. ToSet(t) = {t[i] : i \in 1..n} /\ ToSet(r.ins) = {r.ins[i] : i \in 1..n}
    BY <1>1, <1>2 DEF ToSet
  <2>2. \A m \in T[r.pool] : m.id \in ToSet(r.ins) => m \in ToSet(t)
    BY <1>1, <1>2, <2>1 DEF UniqueIds
  <2>3. \A m \in ToSet(t) : m \in T[r.pool] /\ m.id \in ToSet(r.ins)
    BY <1>1, <2>1
  <2> QED
    BY <2>2, <2>3 DEF Taken
<1>4. Countable(Taken(T, r, x))
  <2>1. Countable(T[r.pool])
    BY <1>1, <1>2 DEF Countable, InputRows
  <2>2. Taken(T, r, x) \subseteq T[r.pool]
    BY DEF Taken
  <2> QED
    BY <2>1, <2>2, CountablePart
<1>5. TotalSet(Taken(T, r, x)) \in Nat
  BY <1>4, TotalSetNat
<1>6. Total(t) \in Nat
  <2>1. \A i \in 1..n : t[i].amt \in Nat
    BY <1>1 DEF InputRows
  <2> QED
    BY <1>1, <2>1, TotalTyped
<1>7. Summed(T, r, x) \in Nat
  BY <1>6 DEF Summed, t
<1>8. Gain(T, r, x) = Summed(T, r, x) - TotalSet(Taken(T, r, x))
  BY <1>3 DEF Gain, t
<1> QED
  BY <1>3, <1>4, <1>5, <1>6, <1>7, <1>8 DEF t

\* A request whose rows stay keeps its gain.
LEMMA GainStays ==
    ASSUME NEW T, Tables(T), NEW T2, Tables(T2), NEW r \in Spends,
           \A i \in 1..Len(r.ins) : \E m \in T[r.pool] : m.id = r.ins[i] /\ m \in T2[r.pool], NEW x
    PROVE  Gain(T2, r, x) = Gain(T, r, x)
<1> DEFINE n == Len(r.ins)
<1>1. Listed(T, r) /\ Listed(T2, r)
  BY DEF Listed
<1>2. /\ n \in Nat /\ DOMAIN Took(T, r) = 1..n /\ DOMAIN Took(T2, r) = 1..n
      /\ r.pool \in Pools /\ UniqueIds(T[r.pool]) /\ UniqueIds(T2[r.pool])
      /\ \A i \in 1..n : /\ Took(T, r)[i] \in T[r.pool] /\ Took(T, r)[i].id = r.ins[i]
                         /\ Took(T2, r)[i] \in T2[r.pool] /\ Took(T2, r)[i].id = r.ins[i]
  BY <1>1, TookRows DEF Tables
<1>3. ASSUME NEW i \in 1..n PROVE Took(T2, r)[i] = Took(T, r)[i]
  <2>1. PICK m \in T[r.pool] : m.id = r.ins[i] /\ m \in T2[r.pool]
    OBVIOUS
  <2>2. Took(T, r)[i] = m
    BY <1>2, <2>1 DEF UniqueIds
  <2>3. Took(T2, r)[i] = m
    BY <1>2, <2>1 DEF UniqueIds
  <2> QED
    BY <2>2, <2>3
<1>4. Took(T2, r) = Took(T, r)
  <2>1. /\ Took(T, r) = [i \in 1..n |-> Took(T, r)[i]]
        /\ Took(T2, r) = [i \in 1..n |-> Took(T2, r)[i]]
    BY DEF Took
  <2> QED
    BY <1>3, <2>1
<1> QED
  BY <1>4 DEF Gain, Summed

\* Marking rows, and adding others, does not change what they are worth.
LEMMA GainKept ==
    ASSUME NEW T, Tables(T), NEW T2, Tables(T2), NEW r \in Spends, Listed(T, r),
           \A m \in T[r.pool] : m.id \in ToSet(r.ins) => \E k \in T2[r.pool] : SameNote(k, m), NEW x
    PROVE  /\ Listed(T2, r)
           /\ Gain(T2, r, x) = Summed(T, r, x) - TotalSet(Taken(T, r, x))
<1> DEFINE n == Len(r.ins)
           N == Taken(T, r, x)
           M == Taken(T2, r, x)
           h == [m \in N |-> CHOOSE k \in T2[r.pool] : SameNote(k, m)]
<1>1. /\ n \in Nat /\ DOMAIN Took(T, r) = 1..n /\ r.pool \in Pools /\ DOMAIN r.ins = 1..n
      /\ UniqueIds(T[r.pool]) /\ UniqueIds(T2[r.pool])
      /\ \A i \in 1..n : Took(T, r)[i] \in T[r.pool] /\ Took(T, r)[i].id = r.ins[i]
  BY TookRows, RequestAssumption DEF Tables
<1>2. \A i \in 1..n : r.ins[i] \in ToSet(r.ins)
  BY <1>1 DEF ToSet
<1>3. ASSUME NEW i \in 1..n PROVE \E k \in T2[r.pool] : SameNote(k, Took(T, r)[i])
  BY <1>1, <1>2
<1>4. Listed(T2, r)
  BY <1>1, <1>3 DEF Listed, SameNote
<1>5. /\ DOMAIN Took(T2, r) = 1..n
      /\ \A i \in 1..n : Took(T2, r)[i] \in T2[r.pool] /\ Took(T2, r)[i].id = r.ins[i]
  BY <1>4, TookRows
<1>6. ASSUME NEW i \in 1..n PROVE Took(T2, r)[i].amt = Took(T, r)[i].amt
  <2>1. PICK k \in T2[r.pool] : SameNote(k, Took(T, r)[i])
    BY <1>3
  <2>2. Took(T2, r)[i] = k
    BY <1>1, <1>5, <2>1 DEF UniqueIds, SameNote
  <2> QED
    BY <2>1, <2>2 DEF SameNote
<1>7. Total(Took(T2, r)) = Total(Took(T, r))
  <2>1. [i \in 1..n |-> Took(T2, r)[i].amt] = [i \in 1..n |-> Took(T, r)[i].amt]
    BY <1>6
  <2> QED
    BY <1>1, <1>5, <2>1 DEF Total
<1>8. \A m \in N : h[m] \in T2[r.pool] /\ SameNote(h[m], m)
  <2> SUFFICES ASSUME NEW m \in N PROVE h[m] \in T2[r.pool] /\ SameNote(h[m], m)
    OBVIOUS
  <2>1. \E k \in T2[r.pool] : SameNote(k, m)
    BY DEF Taken
  <2>2. h[m] = CHOOSE k \in T2[r.pool] : SameNote(k, m)
    OBVIOUS
  <2> QED
    BY <2>1, <2>2
<1> HIDE DEF h
<1>9. Countable(N)
  BY TookTyped
<1>10. \A m \in N : m \in T[r.pool] /\ m.id \in ToSet(r.ins) /\ m.asset = x
  BY DEF Taken
<1>11. M = {h[m] : m \in N}
  <2>1. \A m \in N : h[m] \in M
    BY <1>8, <1>10 DEF Taken, SameNote
  <2>2. ASSUME NEW k \in M PROVE \E m \in N : k = h[m]
    <3>1. k \in T2[r.pool] /\ k.id \in ToSet(r.ins) /\ k.asset = x
      BY DEF Taken
    <3>2. PICK i \in 1..n : k.id = r.ins[i]
      BY <1>1, <3>1 DEF ToSet
    <3>3. PICK j \in T2[r.pool] : SameNote(j, Took(T, r)[i])
      BY <1>3
    <3>4. j = k
      BY <1>1, <3>1, <3>2, <3>3 DEF UniqueIds, SameNote
    <3>5. Took(T, r)[i] \in N
      BY <1>1, <1>2, <3>1, <3>3, <3>4 DEF Taken, SameNote
    <3>6. h[Took(T, r)[i]] = k
      BY <1>1, <1>8, <3>1, <3>3, <3>4, <3>5 DEF UniqueIds, SameNote
    <3> QED
      BY <3>5, <3>6
  <2> QED
    BY <2>1, <2>2
<1>12. /\ \A m, k \in N : h[m] = h[k] => m = k
       /\ \A m \in N : h[m].amt = m.amt
  <2>1. \A m, k \in N : h[m] = h[k] => m.id = k.id
    BY <1>8 DEF SameNote
  <2> QED
    BY <1>1, <1>8, <1>10, <2>1 DEF UniqueIds, SameNote
<1>13. TotalSet(M) = TotalSet(N)
  <2> HIDE DEF M, N
  <2> QED
    BY <1>9, <1>11, <1>12, TotalSetMapped
<1>14. Gain(T2, r, x) = Summed(T2, r, x) - TotalSet(M)
  BY <1>4, TookTyped
<1> QED
  BY <1>4, <1>7, <1>13, <1>14 DEF Summed

\* The gains of the approved requests.
Gains(T, R, x) == SumFunctionOnSet([r \in R |-> Gain(T, r, x)], R)

\* They are an integer.
LEMMA GainsTyped ==
    ASSUME NEW T, Tables(T), NEW R, R \subseteq Spends, \A r \in R : Listed(T, r), NEW x
    PROVE  Gains(T, R, x) \in Int
<1> DEFINE f == [r \in R |-> Gain(T, r, x)]
<1>1. IsFiniteSet(R)
  BY FS_Subset, RequestAssumption
<1>2. \A r \in R : f[r] \in Int
  BY TookTyped
<1>3. Gains(T, R, x) = SumFunctionOnSet(f, R)
  BY DEF Gains
<1> HIDE DEF f
<1> QED
  BY <1>1, <1>2, <1>3, SumInt

\* They stay if every request's does.
LEMMA GainsStay ==
    ASSUME NEW T, NEW T2, NEW R, NEW x, \A r \in R : Gain(T2, r, x) = Gain(T, r, x)
    PROVE  Gains(T2, R, x) = Gains(T, R, x)
<1>1. [r \in R |-> Gain(T2, r, x)] = [r \in R |-> Gain(T, r, x)]
  OBVIOUS
<1> QED
  BY <1>1 DEF Gains

\* One more request.
LEMMA GainsAdd ==
    ASSUME NEW T, Tables(T), NEW R, R \subseteq Spends, NEW t \in Spends, t \notin R,
           \A r \in R \cup {t} : Listed(T, r), NEW x
    PROVE  Gains(T, R \cup {t}, x) = Gains(T, R, x) + Gain(T, t, x)
<1> DEFINE f == [r \in R \cup {t} |-> Gain(T, r, x)]
           g == [r \in R |-> Gain(T, r, x)]
<1>1. IsFiniteSet(R)
  BY FS_Subset, RequestAssumption
<1>2. \A r \in R \cup {t} : f[r] = Gain(T, r, x) /\ f[r] \in Int
  BY TookTyped
<1>3. \A r \in R : g[r] = f[r] /\ g[r] \in Int
  BY <1>2
<1>4. Gains(T, R \cup {t}, x) = SumFunctionOnSet(f, R \cup {t}) /\ Gains(T, R, x) = SumFunctionOnSet(g, R)
  BY DEF Gains
<1> HIDE DEF f, g
<1>5. SumFunctionOnSet(g, R) = SumFunctionOnSet(f, R)
  BY <1>1, <1>3, SumCongruence
<1>6. SumFunctionOnSet(f, R \cup {t}) = f[t] + SumFunctionOnSet(f, R)
  BY <1>1, <1>2, SumAdd
<1>7. SumFunctionOnSet(f, R) \in Int
  BY <1>1, <1>2, SumInt
<1> QED
  BY <1>2, <1>4, <1>5, <1>6, <1>7

\* A request that can be committed: its inputs are open rows of the sender, its outputs new.
Committable(T, S, r) ==
    /\ Home[r.from] = r.pool
    /\ \A i \in 1..Len(r.ins) : \E m \in T[r.pool] : m.id = r.ins[i] /\ m.consume = FALSE /\ m.to = r.from
    /\ Sent(ToSet(r.outs)) /\ Sent(S \cup ToSet(r.outs)) /\ S \cap ToSet(r.outs) = {}
    /\ \A n \in ToSet(r.outs) : n.asset = r.asset /\ ~Reached(T, n)
    /\ Distinct(r.outs)

\* Outputs for recipients in the request's own subpool.
HandedOut(r, notes) ==
    notes \in Seq(Notes) /\ \A n \in ToSet(notes) : n \in ToSet(r.outs) /\ Home[n.to] = r.pool

\* Committing it takes its inputs and adds its outputs.
LEMMA SpendWorth ==
    ASSUME NEW T, Tables(T), NEW S, Sent(S), NEW r \in Spends, Committable(T, S, r),
           NEW notes, HandedOut(r, notes), NEW x
    PROVE  LET T2 == [T EXCEPT ![r.pool] = WithInputNotes(Consume(T[r.pool], ToSet(r.ins)), notes)]
           IN  /\ Tables(T2)
               /\ Worth(T2, S \cup ToSet(r.outs), x) =
                    (Worth(T, S, x) - TotalSet(Taken(T, r, x))) + (IF x = r.asset THEN Total(r.outs) ELSE 0)
               /\ Gain(T2, r, x) = Summed(T, r, x) - TotalSet(Taken(T, r, x))
               /\ Listed(T, r) /\ Listed(T2, r)
<1> USE DEF HandedOut
<1> DEFINE p == r.pool
           b == r.from
           ids == ToSet(r.ins)
           N == ToSet(r.outs)
           T1 == [T EXCEPT ![p] = Consume(T[p], ids)]
           T2 == [T EXCEPT ![p] = WithInputNotes(Consume(T[p], ids), notes)]
<1>0. /\ p \in Pools /\ b \in Accounts /\ Home[b] = p /\ r.outs \in Seq(Notes)
      /\ DOMAIN r.ins = 1..Len(r.ins) /\ DOMAIN T = Pools
      /\ T[p] \in SUBSET InputRows /\ UniqueIds(T[p]) /\ IsFiniteSet(T[p])
      /\ \A n \in N : Home[n.to] \in Pools
  BY RequestAssumption, DatabaseAssumption DEF Committable, Tables, Sent
<1>1. \A m \in T[p] : m.id \in ids => m.to = b /\ m.consume = FALSE
  <2> SUFFICES ASSUME NEW m \in T[p], m.id \in ids PROVE m.to = b /\ m.consume = FALSE
    OBVIOUS
  <2>1. PICK i \in 1..Len(r.ins) : m.id = r.ins[i]
    BY <1>0 DEF ToSet
  <2>2. PICK k \in T[p] : k.id = r.ins[i] /\ k.consume = FALSE /\ k.to = b
    BY DEF Committable
  <2>3. k = m
    BY <1>0, <2>1, <2>2 DEF UniqueIds
  <2> QED
    BY <2>2, <2>3
<1>2. Listed(T, r)
  BY DEF Committable, Listed
<1>3. /\ Tables(T1)
      /\ Worth(T1, S, x) = Worth(T, S, x) - TotalSet(Taken(T, r, x))
  <2>1. OwnOpen(T, b, ids)
    BY <1>0, <1>1 DEF OwnOpen
  <2>2. LET U == [T EXCEPT ![Home[b]] = Consume(T[Home[b]], ids)]
            V == {m \in T[Home[b]] : m.id \in ids /\ m.asset = x}
        IN  Tables(U) /\ Countable(V) /\ Worth(U, S, x) = Worth(T, S, x) - TotalSet(V)
    <3>1. b \in Accounts
      BY <1>0
    <3> HIDE DEF b, ids
    <3> QED
      BY <2>1, <3>1, ConsumeWorth
  <2>3. {m \in T[Home[b]] : m.id \in ids /\ m.asset = x} = Taken(T, r, x)
    BY <1>0 DEF Taken
  <2> QED
    BY <1>0, <2>2, <2>3
<1>4. /\ T1[p] = Consume(T[p], ids) /\ \A q \in Pools \ {p} : T1[q] = T[q]
      /\ T2 = [T1 EXCEPT ![p] = WithInputNotes(T1[p], notes)]
      /\ T2[p] = WithInputNotes(T1[p], notes)
  BY <1>0
<1>5. /\ \A m \in T1[p] : \E k \in T[p] : SameNote(m, k)
      /\ \A k \in T[p] : k.id \in ids => \E m \in T1[p] : SameNote(m, k)
  BY <1>0, <1>4, ConsumedTable
<1>6. \A n \in N : ~Reached(T1, n)
  <2> SUFFICES ASSUME NEW n \in N, NEW m \in T1[Home[n.to]], SameNote(m, n) PROVE FALSE
    BY DEF Reached
  <2>1. ~Reached(T, n) /\ Home[n.to] \in Pools
    BY <1>0 DEF Committable
  <2>2. CASE Home[n.to] = p
    <3>1. PICK k \in T[p] : SameNote(m, k)
      BY <1>5, <2>2
    <3> QED
      BY <2>1, <2>2, <3>1 DEF Reached, SameNote
  <2>3. CASE Home[n.to] # p
    BY <1>4, <2>1, <2>3 DEF Reached
  <2> QED
    BY <2>2, <2>3
<1>7. Worth(T1, S \cup N, x) = Worth(T1, S, x) + (IF x = r.asset THEN TotalSet(N) ELSE 0)
  <2>1. Sent(N) /\ Sent(S \cup N) /\ S \cap N = {} /\ \A n \in N : n.asset = r.asset
    BY DEF Committable
  <2> DEFINE y == r.asset
  <2>2. NewNotes(T1, S, N, y)
    BY <1>6, <2>1 DEF NewNotes
  <2> HIDE DEF N, T1, y
  <2>3. Worth(T1, S \cup N, x) = Worth(T1, S, x) + Added(N, y, x)
    <3>1. Tables(T1)
      BY <1>3
    <3> QED
      BY <2>2, <3>1, SendWorth
  <2> QED
    BY <2>3 DEF y, Added
<1>8. Total(r.outs) = TotalSet(N)
  BY <1>0, TotalDistinct, RequestAssumption DEF Committable
<1>9. Tables(T2) /\ Worth(T2, S \cup N, x) = Worth(T1, S \cup N, x)
  <2> DEFINE M == S \cup N
  <2>1. p \in Pools /\ Tables(T1) /\ Sent(M) /\ Arriving(M, p, notes)
    BY <1>0, <1>3 DEF Committable, Arriving
  <2>2. LET U == [T1 EXCEPT ![p] = WithInputNotes(T1[p], notes)]
        IN  Tables(U) /\ Worth(U, M, x) = Worth(T1, M, x)
    <3> HIDE DEF N, M, T1, T2, p
    <3> QED
      BY <2>1, InsertAllWorth
  <2> QED
    BY <1>4, <2>2
<1>10. T1[p] \subseteq T2[p]
  <2>1. T1[p] \subseteq WithInputNotes(T1[p], notes)
    BY AllInserted
  <2> QED
    BY <1>4, <2>1
<1>11. \A m \in T[p] : m.id \in ids => \E k \in T2[p] : SameNote(k, m)
  BY <1>5, <1>10
<1>12. /\ Listed(T2, r)
       /\ Gain(T2, r, x) = Summed(T, r, x) - TotalSet(Taken(T, r, x))
  <2> HIDE DEF T2
  <2> QED
    BY <1>2, <1>9, <1>11, GainKept
<1> QED
  BY <1>2, <1>3, <1>7, <1>8, <1>9, <1>12

-----------------------------------------------------------------------------
(* The ledger in a state *)

\* The input notes are tables.
LEMMA TablesHeld ==
    ASSUME Base, NotesSent
    PROVE  Tables(input_notes)
BY DEF Base, InputsTyped, NotesSent, Tables

\* The outputs of a submitted request are a set of notes without repetitions.
LEMMA OutputsSent ==
    ASSUME OutputsOwn, NEW r \in Spends, Submitted(r)
    PROVE  Sent(ToSet(r.outs)) /\ Distinct(r.outs)
<1> DEFINE n == Len(r.outs)
           s == r.outs
<1>1. /\ s \in Seq(Notes) /\ n \in Nat /\ DOMAIN s = 1..n /\ IsFiniteSet(1..n)
      /\ ToSet(s) = {s[i] : i \in 1..n} /\ \A i \in 1..n : s[i] \in Notes
  <2>1. s \in Seq(Notes)
    BY RequestAssumption
  <2>2. n \in Nat /\ DOMAIN s = 1..n /\ \A i \in 1..n : s[i] \in Notes
    BY <2>1
  <2>3. IsFiniteSet(1..n)
    BY <2>2, FS_Interval
  <2> HIDE DEF n, s
  <2> QED
    BY <2>1, <2>2, <2>3 DEF ToSet
<1>2. \A i, j \in 1..n : s[i].id = s[j].id => i = j
  BY <1>1 DEF OutputsOwn
<1> HIDE DEF n, s
<1>3. IsFiniteSet(ToSet(s))
  BY <1>1, FiniteImage
<1>4. ToSet(s) \subseteq Notes
  BY <1>1
<1>5. \A k, m \in ToSet(s) : SameNote(k, m) => k = m
  BY <1>1, <1>2 DEF SameNote
<1>6. Distinct(s)
  BY <1>1, <1>2 DEF Distinct
<1> QED
  BY <1>3, <1>4, <1>5, <1>6 DEF Sent, s

\* No two requests create the same note.
LEMMA OutputsApart ==
    ASSUME NotesDiffer, OutputsOwn, NEW r \in Spends, NEW s \in Spends, Submitted(r), Submitted(s),
           NEW n \in ToSet(r.outs), NEW m \in ToSet(s.outs), SameNote(n, m)
    PROVE  r = s /\ n = m
<1>1. r.pool = s.pool
  BY DEF NotesDiffer
<1>2. r = s
  BY <1>1 DEF OutputsOwn, SameNote
<1> QED
  BY <1>2, OutputsSent DEF Sent

\* The sent notes are a set of notes without repetitions.
LEMMA SentHeld ==
    ASSUME NotesDiffer, OutputsOwn
    PROVE  Sent(SentNotes)
<1> DEFINE R == {s \in Spends : Approved(s)}
           h == [r \in R |-> ToSet(r.outs)]
           C == {h[r] : r \in R}
<1>1. \A r \in R : r \in Spends /\ Submitted(r)
  BY DEF Approved, Submitted
<1>2. \A r \in R : Sent(h[r]) /\ h[r] = ToSet(r.outs)
  BY <1>1, OutputsSent
<1>3. IsFiniteSet(R)
  BY FS_Subset, RequestAssumption
<1>4. SentNotes = UNION C
  BY DEF SentNotes
<1>5. IsFiniteSet(SentNotes)
  <2>1. IsFiniteSet(C)
    <3> HIDE DEF R, h
    <3> QED
      BY <1>3, FiniteImage
  <2>2. \A c \in C : IsFiniteSet(c)
    BY <1>2 DEF Sent
  <2> HIDE DEF C
  <2> QED
    BY <1>4, <2>1, <2>2, FS_UNION
<1>6. SentNotes \subseteq Notes
  BY <1>2, <1>4 DEF Sent
<1>7. ASSUME NEW m \in SentNotes, NEW n \in SentNotes, SameNote(m, n) PROVE m = n
  <2>1. PICK r \in R : m \in ToSet(r.outs)
    BY <1>2, <1>4
  <2>2. PICK s \in R : n \in ToSet(s.outs)
    BY <1>2, <1>4
  <2> QED
    BY <1>1, <1>7, <2>1, <2>2, OutputsApart
<1> QED
  BY <1>5, <1>6, <1>7 DEF Sent

\* A request about to be committed can be.
LEMMA CommitsNew ==
    ASSUME NotesDiffer, Base, RowsOpen, OutputsOwn, NotesSent, NEW p \in Pools, CommitSpend(p)
    PROVE  Committable(input_notes, SentNotes, Row(p))
<1>0. PICK r : r = Row(p)
  OBVIOUS
<1>1. r \in Spends /\ r.pool = p /\ Submitted(r) /\ ~Approved(r) /\ InputsUsable(r) /\ HasRow(p, r.from)
  BY <1>0, CommittedSpend
<1> DEFINE N == ToSet(r.outs)
<1>2. Sent(N) /\ Distinct(r.outs) /\ Sent(SentNotes)
  BY <1>1, OutputsSent, SentHeld
<1>3. ASSUME NEW n \in N, NEW m \in SentNotes, SameNote(n, m) PROVE FALSE
  <2>1. PICK s \in Spends : Approved(s) /\ m \in ToSet(s.outs)
    BY DEF SentNotes
  <2>2. Submitted(s)
    BY <2>1 DEF Approved, Submitted
  <2> QED
    BY <1>1, <1>3, <2>1, <2>2, OutputsApart
<1>4. SentNotes \cap N = {}
  BY <1>3 DEF SameNote
<1>5. Sent(SentNotes \cup N)
  <2>1. IsFiniteSet(SentNotes \cup N)
    BY <1>2, FS_Union DEF Sent
  <2>2. ASSUME NEW m \in SentNotes \cup N, NEW n \in SentNotes \cup N, SameNote(m, n) PROVE m = n
    <3>1. SameNote(n, m)
      BY <2>2 DEF SameNote
    <3> QED
      BY <1>2, <1>3, <2>2, <3>1 DEF Sent
  <2> QED
    BY <1>2, <2>1, <2>2 DEF Sent
<1>6. \A n \in N : n.asset = r.asset
  BY <1>1 DEF OutputsOwn
<1>7. ASSUME NEW n \in N, Reached(input_notes, n) PROVE FALSE
  <2>1. PICK m \in input_notes[Home[n.to]] : SameNote(m, n)
    BY <1>7 DEF Reached
  <2>2. Home[n.to] \in Pools
    BY <1>2, RequestAssumption, DatabaseAssumption DEF Sent
  <2>3. PICK k \in SentNotes : SameNote(m, k)
    BY <2>2 DEF NotesSent
  <2>4. SameNote(n, k)
    BY <2>1, <2>3 DEF SameNote
  <2> QED
    BY <1>3, <2>4
<1>8. ASSUME NEW i \in 1..Len(r.ins)
      PROVE  \E m \in input_notes[r.pool] : m.id = r.ins[i] /\ m.consume = FALSE /\ m.to = r.from
  <2>1. PICK m \in InputRow(r.pool, r.ins[i]) : ~m.consume /\ m.to = r.from
    BY <1>1 DEF InputsUsable
  <2>2. m \in input_notes[r.pool] /\ m.id = r.ins[i]
    BY DEF InputRow
  <2>3. m \in InputRows
    BY <1>1, <2>2 DEF Base, InputsTyped
  <2>4. m.consume = FALSE
    BY <2>1, <2>3 DEF InputRows
  <2> QED
    BY <2>1, <2>2, <2>4
<1>9. Home[r.from] = r.pool
  BY <1>1 DEF HasRow
<1>10. Committable(input_notes, SentNotes, r)
  BY <1>2, <1>4, <1>5, <1>6, <1>7, <1>8, <1>9 DEF Committable
<1> QED
  BY <1>0, <1>10

\* Deposits credited in an asset, and approved spends.
CreditedOf(x) == {d \in Deposits : Credited(d) /\ d.asset = x}
ApprovedSpends == {r \in Spends : Approved(r)}

\* The equation of LedgerBalances, with accounts and notes apart.
Balances(x) ==
    Funds(accounts, x) + Worth(input_notes, SentNotes, x)
        = TotalSet(CreditedOf(x)) + Gains(input_notes, ApprovedSpends, x)
LedgerInv == \A x \in Assets : Balances(x)

\* What the API shows, with the notes under way, is funds and worth.
LEMMA HoldingsApart ==
    ASSUME NotesDiffer, Base, OutputsOwn, NotesSent, NEW x \in Assets
    PROVE  Holdings(x) = Funds(accounts, x) + Worth(input_notes, SentNotes, x)
<1> DEFINE f == [a \in Accounts |-> Balance(accounts, a, x)]
           g == [a \in Accounts |-> TotalSet(OpenRows(input_notes, a, x))]
           h == [a \in Accounts |-> AccountBalance(a, x) + NotesBalance(Home[a], a, x)]
           W == OfAsset({n \in SentNotes : ~Delivered(n)}, x)
<1>1. Tables(input_notes) /\ Sent(SentNotes) /\ accounts \in [Accounts -> AccountRows \cup {NoRow}]
  BY TablesHeld, SentHeld DEF Base, StatesInv
<1>2. \A a \in Accounts : AccountBalance(a, x) = Balance(accounts, a, x)
  BY DEF AccountBalance, Balance
<1>3. ASSUME NEW a \in Accounts PROVE NotesBalance(Home[a], a, x) = TotalSet(OpenRows(input_notes, a, x))
  <2>1. {n \in Unconsumed(Home[a], a) : n.asset = x} = OpenRows(input_notes, a, x)
    BY DEF Unconsumed, OpenRows
  <2> QED
    BY <2>1 DEF NotesBalance
<1>4. \A a \in Accounts : f[a] \in Int /\ g[a] \in Int /\ h[a] = f[a] + g[a]
  <2>1. \A a \in Accounts : Balance(accounts, a, x) \in Int
    BY <1>1, FundsTyped
  <2>2. \A a \in Accounts : TotalSet(OpenRows(input_notes, a, x)) \in Nat
    BY <1>1, WorthTyped
  <2> QED
    BY <1>2, <1>3, <2>1, <2>2
<1>5. W = Unreached(input_notes, SentNotes, x)
  <2>1. \A n : Delivered(n) <=> Reached(input_notes, n)
    BY DEF Delivered, Reached, InputRow, SameNote
  <2> QED
    BY <2>1 DEF OfAsset, Unreached
<1>6. /\ Funds(accounts, x) = SumFunctionOnSet(f, Accounts)
      /\ InHand(input_notes, x) = SumFunctionOnSet(g, Accounts)
  BY DEF Funds, InHand
<1>7. Holdings(x) = SumFunctionOnSet(h, Accounts) + TotalSet(W)
  BY DEF Holdings, SumOver, SumFunction, FoldFunction, SumFunctionOnSet
<1>8. /\ Funds(accounts, x) \in Int /\ InHand(input_notes, x) \in Int
      /\ TotalSet(Unreached(input_notes, SentNotes, x)) \in Nat
  BY <1>1, FundsTyped, WorthTyped
<1> HIDE DEF f, g, h, W
<1>9. SumFunctionOnSet(h, Accounts) = SumFunctionOnSet(f, Accounts) + SumFunctionOnSet(g, Accounts)
  <2>1. IsFiniteSet(Accounts)
    BY RequestAssumption
  <2> QED
    BY <1>4, <2>1, SumPlus
<1> QED
  BY <1>5, <1>6, <1>7, <1>8, <1>9 DEF Worth

\* So the ledger balances.
LEMMA LedgerRead ==
    ASSUME NotesDiffer, Base, OutputsOwn, NotesSent, LedgerInv
    PROVE  LedgerBalances
<1> SUFFICES ASSUME NEW x \in Assets
             PROVE  Holdings(x) =
                      SumOver({d \in Deposits : Credited(d) /\ d.asset = x}, LAMBDA d : d.amt)
                    + SumOver({r \in Spends : Approved(r)}, LAMBDA r : CountedIn(r, x) - ConsumedIn(r, x))
  BY DEF LedgerBalances
<1>1. SumOver({d \in Deposits : Credited(d) /\ d.asset = x}, LAMBDA d : d.amt) = TotalSet(CreditedOf(x))
  BY DEF SumOver, TotalSet, CreditedOf
<1>2. \A r \in Spends : CountedIn(r, x) - ConsumedIn(r, x) = Gain(input_notes, r, x)
  <2>1. \A r \in Spends : Inputs(r) = Took(input_notes, r)
    BY DEF Inputs, Took, InputRow
  <2> QED
    BY <2>1 DEF CountedIn, ConsumedIn, Gain, Summed, OfAsset
<1>3. SumOver({r \in Spends : Approved(r)}, LAMBDA r : CountedIn(r, x) - ConsumedIn(r, x))
        = Gains(input_notes, ApprovedSpends, x)
  <2>1. [r \in ApprovedSpends |-> CountedIn(r, x) - ConsumedIn(r, x)]
          = [r \in ApprovedSpends |-> Gain(input_notes, r, x)]
    BY <1>2 DEF ApprovedSpends
  <2>2. SumOver(ApprovedSpends, LAMBDA r : CountedIn(r, x) - ConsumedIn(r, x))
          = SumFunctionOnSet([r \in ApprovedSpends |-> CountedIn(r, x) - ConsumedIn(r, x)], ApprovedSpends)
    BY DEF SumOver, SumFunction, FoldFunction, SumFunctionOnSet
  <2> QED
    BY <2>1, <2>2 DEF Gains, ApprovedSpends
<1> QED
  BY <1>1, <1>3, HoldingsApart DEF LedgerInv, Balances

-----------------------------------------------------------------------------
(* The ledger from state to state *)

\* The tables stay tables.
LEMMA NextTables ==
    ASSUME Base, RowsOpen, NotesSent, [Next]_vars
    PROVE  Tables(input_notes')
<1>1. input_notes' \in [Pools -> SUBSET InputRows]
  BY InputsStay DEF Base, InputsTyped
<1>2. NotesSent'
  BY NextNotesSent
<1> QED
  BY <1>1, <1>2 DEF NotesSent, Tables

\* What approved spends gained stays as it was.
LEMMA GainsHold ==
    ASSUME Base, RowsOpen, NotesSent, InputsConsumed, [Next]_vars, NEW x
    PROVE  /\ \A r \in ApprovedSpends : Listed(input_notes, r) /\ Listed(input_notes', r)
           /\ Gains(input_notes', ApprovedSpends, x) = Gains(input_notes, ApprovedSpends, x)
           /\ Gains(input_notes, ApprovedSpends, x) \in Int
<1>0. Tables(input_notes) /\ Tables(input_notes')
  BY TablesHeld, NextTables
<1>1. ASSUME NEW r \in ApprovedSpends, NEW i \in 1..Len(r.ins)
      PROVE  \E m \in input_notes[r.pool] : m.id = r.ins[i] /\ m \in input_notes'[r.pool]
  <2>1. r \in Spends /\ Approved(r) /\ r.pool \in Pools
    BY RequestAssumption DEF ApprovedSpends
  <2>2. PICK m \in InputRow(r.pool, r.ins[i]) : m.consume
    BY <2>1 DEF InputsConsumed
  <2>3. m \in input_notes[r.pool] /\ m.id = r.ins[i]
    BY DEF InputRow
  <2>4. m \in input_notes'[r.pool]
    BY <2>1, <2>2, <2>3, ConsumedStays
  <2> QED
    BY <2>3, <2>4
<1>2. \A r \in ApprovedSpends : Listed(input_notes, r) /\ Listed(input_notes', r)
  BY <1>1 DEF Listed
<1>3. ApprovedSpends \subseteq Spends
  BY DEF ApprovedSpends
<1> DEFINE T == input_notes
           T2 == input_notes'
           R == ApprovedSpends
<1>4. ASSUME NEW r \in R PROVE Gain(T2, r, x) = Gain(T, r, x)
  <2>1. r \in Spends /\ \A i \in 1..Len(r.ins) : \E m \in T[r.pool] : m.id = r.ins[i] /\ m \in T2[r.pool]
    BY <1>1, <1>3
  <2>2. Tables(T) /\ Tables(T2)
    BY <1>0
  <2> HIDE DEF T, T2, R
  <2> QED
    BY <2>1, <2>2, GainStays
<1>5. Gains(T2, R, x) = Gains(T, R, x)
  <2> HIDE DEF T, T2, R
  <2> QED
    BY <1>4, GainsStay
<1>6. Gains(T, R, x) \in Int
  <2>1. Tables(T) /\ R \subseteq Spends /\ \A r \in R : Listed(T, r)
    BY <1>0, <1>2, <1>3
  <2> HIDE DEF T, R
  <2> QED
    BY <2>1, GainsTyped
<1> QED
  BY <1>2, <1>5, <1>6

\* Credited deposits have a total.
LEMMA CreditsTyped ==
    ASSUME NEW D, D \subseteq Deposits
    PROVE  Countable(D) /\ TotalSet(D) \in Nat
<1>1. Countable(D)
  BY FS_Subset, RequestAssumption DEF Countable
<1> QED
  BY <1>1, TotalSetNat

\* A fresh account brings nothing.
LEMMA FreshBalances ==
    ASSUME Base, RowsOpen, NotesSent, [Next]_vars, NEW p \in Pools, CommitFresh(p), NEW x \in Assets,
           Balances(x)
    PROVE  Balances(x)'
<1>1. UNCHANGED <<input_notes, spend_tx_requests, deposit_tx_requests>>
  BY DEF CommitFresh
<1>2. /\ SentNotes' = SentNotes /\ ApprovedSpends' = ApprovedSpends /\ CreditedOf(x)' = CreditedOf(x)
  BY <1>1 DEF SentNotes, ApprovedSpends, CreditedOf, Approved, Credited
<1>3. accounts \in [Accounts -> AccountRows \cup {NoRow}]
  BY DEF Base, StatesInv
<1>4. PICK a \in Accounts : a = Row(p) /\ accounts[a] = NoRow
  <2>1. op[p].at = "freshCommit" /\ op[p].rows # <<>> /\ Row(p) \in RowSet(op[p].at, p)
    BY RowTyped DEF CommitFresh, At, Base, OperatorTyped, OpOK, Holding
  <2>2. Row(p) \in Accounts /\ accounts[Row(p)] = NoRow
    BY <2>1 DEF RowSet, Base, StatesInv
  <2> QED
    BY <2>2
<1>5. accounts'[a] = FreshAccount /\ \A b \in Accounts \ {a} : accounts'[b] = accounts[b]
  BY <1>3, <1>4 DEF CommitFresh, UpdateAccount
<1>6. FreshAccount # NoRow /\ FreshAccount.ast[x] = 0
  <2>1. FreshAccount \in AccountRows
    BY DEF FreshAccount, AccountRows
  <2> QED
    BY <2>1, NoRowAssumption DEF AccountRows, FreshAccount
<1>7. Balance(accounts', a, x) = Balance(accounts, a, x) + 0
  BY <1>4, <1>5, <1>6 DEF Balance
<1> DEFINE A == accounts
           A2 == accounts'
<1>8. Funds(A2, x) = Funds(A, x) + 0
  <2>1. /\ A \in [Accounts -> AccountRows \cup {NoRow}] /\ Balance(A2, a, x) = Balance(A, a, x) + 0
        /\ \A b \in Accounts \ {a} : A2[b] = A[b]
    BY <1>3, <1>5, <1>7
  <2> HIDE DEF A, A2
  <2> QED
    BY <2>1, FundsChange
<1>9. Funds(A, x) \in Int
  BY <1>3, FundsTyped
<1>10. Funds(accounts', x) = Funds(accounts, x)
  BY <1>8, <1>9
<1> QED
  BY <1>1, <1>2, <1>10 DEF Balances

\* A note that arrives was under way.
LEMMA InsertBalances ==
    ASSUME NotesDiffer, Base, RowsOpen, OutputsOwn, NotesSent, InputsConsumed, [Next]_vars,
           NEW p \in Pools, InsertIncoming(p), NEW x \in Assets, Balances(x)
    PROVE  Balances(x)'
<1>1. UNCHANGED <<accounts, spend_tx_requests, deposit_tx_requests>>
  BY DEF InsertIncoming
<1>2. /\ SentNotes' = SentNotes /\ ApprovedSpends' = ApprovedSpends /\ CreditedOf(x)' = CreditedOf(x)
  BY <1>1 DEF SentNotes, ApprovedSpends, CreditedOf, Approved, Credited
<1>3. Tables(input_notes) /\ Sent(SentNotes)
  BY TablesHeld, SentHeld
<1>4. PICK n \in SentNotes : n = Row(p) /\ Home[n.to] = p
  <2>1. op[p].at = "insert" /\ op[p].rows # <<>> /\ op[p].rows \in Seq(RowSet(op[p].at, p))
    BY DEF InsertIncoming, At, Base, OperatorTyped, OpOK
  <2>2. Row(p) \in ToSet(op[p].rows)
    BY <2>1, HeadAndTail DEF Row
  <2> QED
    BY <2>1, <2>2 DEF NotesSent
<1>5. /\ input_notes'[p] = WithInputNote(input_notes[p], n)
      /\ \A q \in Pools \ {p} : input_notes'[q] = input_notes[q]
  BY <1>3, <1>4 DEF InsertIncoming, Tables
<1> DEFINE T == input_notes
           T2 == input_notes'
           S == SentNotes
<1>6. Worth(T2, S, x) = Worth(T, S, x)
  <2>1. /\ Tables(T) /\ Sent(S) /\ n \in S /\ T2[p] = WithInputNote(T[p], n)
        /\ \A q \in Pools \ {p} : T2[q] = T[q]
    BY <1>3, <1>5
  <2> HIDE DEF T, T2, S
  <2> QED
    BY <1>4, <2>1, InsertWorth
<1>7. Gains(input_notes', ApprovedSpends, x) = Gains(input_notes, ApprovedSpends, x)
  BY GainsHold
<1> QED
  BY <1>1, <1>2, <1>6, <1>7 DEF Balances

\* A credited deposit is added to the recipient's account.
LEMMA DepositBalances ==
    ASSUME Base, RowsOpen, NotesSent, InputsConsumed, OutputsOwn, NotesDiffer, [Next]_vars,
           NEW p \in Pools, CommitDeposit(p), NEW x \in Assets, Balances(x)
    PROVE  Balances(x)'
<1>1. UNCHANGED <<input_notes, spend_tx_requests>>
  BY DEF CommitDeposit
<1>2. SentNotes' = SentNotes /\ ApprovedSpends' = ApprovedSpends
  BY <1>1 DEF SentNotes, ApprovedSpends, Approved
<1>3. /\ accounts \in [Accounts -> AccountRows \cup {NoRow}]
      /\ deposit_tx_requests \in [Deposits -> DepositRows \cup {NoRow}]
  BY DEF Base, StatesInv, DepositInv
<1>4. PICK d \in Deposits : d = Row(p) /\ ~Credited(d) /\ HasRow(p, d.to)
  BY CommittedDeposit
<1>5. PICK a \in Accounts : a = d.to
  BY RequestAssumption
<1>6. d.asset \in Assets /\ d.amt \in Nat
  BY RequestAssumption
<1>7. accounts[a] # NoRow /\ accounts[a] \in AccountRows
  BY <1>3, <1>4, <1>5 DEF HasRow
<1>8. /\ accounts'[a] = NextAccount(accounts[a], d.asset, DepositBalance(d))
      /\ \A b \in Accounts \ {a} : accounts'[b] = accounts[b]
  BY <1>3, <1>4, <1>5 DEF CommitDeposit, UpdateAccount
<1>9. DepositBalance(d) = accounts[a].ast[d.asset] + d.amt
  BY <1>5, <1>7 DEF DepositBalance, AccountBalance
<1> DEFINE e == IF d.asset = x THEN d.amt ELSE 0
           A == accounts
           A2 == accounts'
<1>10. Balance(A2, a, x) = Balance(A, a, x) + e
  <2>1. accounts[a].nonce \in Nat /\ accounts[a].ast \in [Assets -> Int]
    BY <1>7 DEF AccountRows
  <2>2. accounts'[a] = [nonce |-> accounts[a].nonce + 1,
                        ast |-> [accounts[a].ast EXCEPT ![d.asset] = accounts[a].ast[d.asset] + d.amt]]
    BY <1>8, <1>9 DEF NextAccount
  <2>3. [accounts[a].ast EXCEPT ![d.asset] = accounts[a].ast[d.asset] + d.amt] \in [Assets -> Int]
    BY <1>6, <2>1
  <2>4. accounts'[a] # NoRow
    BY <2>1, <2>2, <2>3, NoRowAssumption
  <2>5. accounts'[a].ast[x] = accounts[a].ast[x] + e
    BY <1>6, <2>1, <2>2
  <2> QED
    BY <1>7, <2>4, <2>5 DEF Balance
<1>11. e \in Int
  BY <1>6
<1>12. Funds(A2, x) = Funds(A, x) + e
  <2>1. /\ A \in [Accounts -> AccountRows \cup {NoRow}] /\ \A b \in Accounts \ {a} : A2[b] = A[b]
    BY <1>3, <1>8
  <2> HIDE DEF A, A2, e
  <2> QED
    BY <1>10, <1>11, <2>1, FundsChange
<1>13. TotalSet(CreditedOf(x)') = TotalSet(CreditedOf(x)) + e
  <2> DEFINE C == CreditedOf(x)
             C2 == CreditedOf(x)'
  <2>1. ~Credited(d) /\ Credited(d)' /\ \A f \in Deposits \ {d} : Credited(f)' <=> Credited(f)
    <3>1. /\ deposit_tx_requests'[d] = [deposit_tx_requests[d] EXCEPT !.status = "APPROVED"]
          /\ \A f \in Deposits \ {d} : deposit_tx_requests'[f] = deposit_tx_requests[f]
      BY <1>3, <1>4 DEF CommitDeposit
    <3>2. deposit_tx_requests[d] \in DepositRows
      <4>1. HasHash(d)
        BY <1>4 DEF Base, DepositInv, CommitDeposit, At
      <4> QED
        BY <1>3, <4>1 DEF HasHash
    <3>3. deposit_tx_requests'[d] \in DepositRows /\ deposit_tx_requests'[d].status = "APPROVED"
      BY <3>1, <3>2 DEF DepositRows
    <3>4. deposit_tx_requests'[d] # NoRow
      BY <3>3, NoRowAssumption DEF DepositRows
    <3> QED
      BY <1>4, <3>1, <3>3, <3>4 DEF Credited
  <2>2. C \subseteq Deposits /\ d \notin C /\ C2 = IF d.asset = x THEN C \cup {d} ELSE C
    BY <2>1 DEF CreditedOf
  <2>3. Countable(C) /\ TotalSet(C) \in Nat
    BY <2>2, CreditsTyped
  <2> HIDE DEF C, C2
  <2>4. CASE d.asset = x
    <3>1. Countable({d}) /\ TotalSet({d}) = d.amt
      BY <1>6, TotalSetOne
    <3>2. C \cap {d} = {} /\ C2 = C \cup {d}
      BY <2>2, <2>4
    <3>3. TotalSet(C \cup {d}) = TotalSet(C) + TotalSet({d})
      BY <2>3, <3>1, <3>2, TotalSetUnion
    <3>4. TotalSet(C2) = TotalSet(C) + d.amt
      BY <3>1, <3>2, <3>3
    <3> QED
      BY <2>4, <3>4 DEF C, C2
  <2>5. CASE d.asset # x
    <3>1. TotalSet(C2) = TotalSet(C) + 0
      BY <2>2, <2>3, <2>5
    <3> QED
      BY <2>5, <3>1 DEF C, C2
  <2> QED
    BY <2>4, <2>5
<1>14. /\ Funds(A, x) \in Int /\ TotalSet(CreditedOf(x)) \in Int
       /\ Worth(input_notes, SentNotes, x) \in Int /\ Gains(input_notes, ApprovedSpends, x) \in Int
  <2>1. Tables(input_notes) /\ Sent(SentNotes)
    BY TablesHeld, SentHeld
  <2>2. TotalSet(CreditedOf(x)) \in Nat
    BY CreditsTyped DEF CreditedOf
  <2>3. Worth(input_notes, SentNotes, x) \in Int
    BY <2>1, WorthTyped
  <2>4. Gains(input_notes, ApprovedSpends, x) \in Int
    BY GainsHold
  <2> QED
    BY <1>3, <2>2, <2>3, <2>4, FundsTyped
<1> HIDE DEF e
<1>15. /\ Worth(input_notes', SentNotes', x) = Worth(input_notes, SentNotes, x)
       /\ Gains(input_notes', ApprovedSpends', x) = Gains(input_notes, ApprovedSpends, x)
  BY <1>1, <1>2
<1>16. Funds(accounts', x) + Worth(input_notes', SentNotes', x)
         = TotalSet(CreditedOf(x)') + Gains(input_notes', ApprovedSpends', x)
  <2> DEFINE f == Funds(accounts, x)
             f2 == Funds(accounts', x)
             w == Worth(input_notes, SentNotes, x)
             c == TotalSet(CreditedOf(x))
             c2 == TotalSet(CreditedOf(x)')
             g == Gains(input_notes, ApprovedSpends, x)
  <2>1. f + w = c + g
    BY DEF Balances
  <2>2. f2 = f + e /\ c2 = c + e
    BY <1>12, <1>13
  <2>3. f \in Int /\ w \in Int /\ c \in Int /\ g \in Int /\ e \in Int
    BY <1>11, <1>14
  <2> HIDE DEF f, f2, w, c, c2, g
  <2>4. f2 + w = c2 + g
    BY <2>1, <2>2, <2>3
  <2> QED
    BY <1>15, <2>4 DEF f2, w, c2, g
<1> QED
  BY <1>16 DEF Balances

\* A spend takes its inputs and the outputs from the sender's account, and sends the outputs.
LEMMA SpendBalances ==
    ASSUME NotesDiffer, Base, RowsOpen, OutputsOwn, NotesSent, InputsConsumed, [Next]_vars,
           NEW p \in Pools, CommitSpend(p), NEW x \in Assets, Balances(x)
    PROVE  Balances(x)'
<1>0. PICK r : r = Row(p)
  OBVIOUS
<1>1. r \in Spends /\ r.pool = p /\ ~Approved(r) /\ HasRow(p, r.from)
  BY <1>0, CommittedSpend
<1>2. /\ Tables(input_notes) /\ Sent(SentNotes) /\ Tables(input_notes')
      /\ accounts \in [Accounts -> AccountRows \cup {NoRow}]
  BY TablesHeld, SentHeld, NextTables DEF Base, StatesInv
<1>3. UNCHANGED deposit_tx_requests
  BY DEF CommitSpend
<1>4. CreditedOf(x)' = CreditedOf(x)
  BY <1>3 DEF CreditedOf, Credited
<1>5. SentNotes' = SentNotes \cup ToSet(r.outs)
  BY <1>0, SentSteps
<1>6. ApprovedSpends' = ApprovedSpends \cup {r} /\ r \notin ApprovedSpends /\ ApprovedSpends \subseteq Spends
  <2>1. \A t \in Spends \ {r} : spend_tx_requests'[t] = spend_tx_requests[t]
    BY <1>0, CommittedSpend
  <2>2. spend_tx_requests'[r].status = "APPROVED" /\ spend_tx_requests'[r] # NoRow
    <3>1. Row(p)' = Row(p) /\ Approved(Row(p))'
      BY CommittedSpend
    <3> QED
      BY <1>0, <3>1 DEF Approved
  <2>3. Approved(r)' /\ \A t \in Spends \ {r} : Approved(t)' <=> Approved(t)
    BY <2>1, <2>2 DEF Approved
  <2> QED
    BY <1>1, <2>3 DEF ApprovedSpends
<1> DEFINE T == input_notes
           T2 == input_notes'
           S == SentNotes
           notes == Local(p, r.outs)
           in == Summed(T, r, x)
           taken == TotalSet(Taken(T, r, x))
           out == IF x = r.asset THEN Total(r.outs) ELSE 0
<1>7. Committable(T, S, r)
  BY <1>0, CommitsNew
<1>8. HandedOut(r, notes)
  <2>1. /\ Local(p, r.outs) \in Seq(Notes)
        /\ ToSet(r.outs) = ToSet(Local(p, r.outs)) \cup ToSet(Foreign(p, r.outs))
        /\ \A n \in ToSet(Local(p, r.outs)) : HasRow(p, n.to)
    BY <1>0, SpendInputs DEF Base, InputsTyped
  <2> QED
    BY <1>1, <2>1 DEF HasRow, HandedOut
<1>9. T2 = [T EXCEPT ![r.pool] = WithInputNotes(Consume(T[r.pool], ToSet(r.ins)), notes)]
  BY <1>0, <1>1, <1>2 DEF CommitSpend, Tables
<1>10. /\ Worth(T2, S \cup ToSet(r.outs), x) = (Worth(T, S, x) - taken) + out
       /\ Gain(T2, r, x) = in - taken
       /\ Listed(T, r) /\ Listed(T2, r)
  <2>1. LET U == [T EXCEPT ![r.pool] = WithInputNotes(Consume(T[r.pool], ToSet(r.ins)), notes)]
        IN  /\ Tables(U)
            /\ Worth(U, S \cup ToSet(r.outs), x) =
                 (Worth(T, S, x) - TotalSet(Taken(T, r, x))) + (IF x = r.asset THEN Total(r.outs) ELSE 0)
            /\ Gain(U, r, x) = Summed(T, r, x) - TotalSet(Taken(T, r, x))
            /\ Listed(T, r) /\ Listed(U, r)
    <3>1. Tables(T) /\ Sent(S)
      BY <1>2
    <3> HIDE DEF T, S, notes
    <3> QED
      BY <1>1, <1>7, <1>8, <3>1, SpendWorth
  <2> HIDE DEF T, T2, S, notes
  <2> QED
    BY <1>9, <2>1
<1>11. in \in Nat /\ taken \in Nat /\ Total(Took(T, r)) \in Nat
  <2>1. Tables(T)
    BY <1>2
  <2> HIDE DEF T
  <2> QED
    BY <1>1, <1>10, <2>1, TookTyped
<1>12. Total(r.outs) \in Nat
  <2>1. r.outs \in Seq(Notes) /\ \A n \in Notes : n.amt \in Nat
    BY <1>1, RequestAssumption
  <2>2. Distinct(r.outs)
    BY <1>7 DEF Committable
  <2> QED
    BY <2>1, <2>2, TotalDistinct
<1>13. out \in Nat
  BY <1>12
<1>14. Gains(T2, ApprovedSpends \cup {r}, x) = Gains(T, ApprovedSpends, x) + (in - taken)
  <2> DEFINE R == ApprovedSpends
  <2>1. /\ \A t \in R : Listed(T2, t)
        /\ Gains(T2, R, x) = Gains(T, R, x)
    BY GainsHold
  <2>2. Tables(T2) /\ R \subseteq Spends /\ r \in Spends /\ r \notin R /\ \A t \in R \cup {r} : Listed(T2, t)
    BY <1>1, <1>2, <1>6, <1>10, <2>1
  <2> HIDE DEF T, T2, R, in, taken
  <2>3. Gains(T2, R \cup {r}, x) = Gains(T2, R, x) + Gain(T2, r, x)
    BY <2>2, GainsAdd
  <2> QED
    BY <1>10, <2>1, <2>3 DEF R
<1>15. Funds(accounts', x) = Funds(accounts, x) + (in - out)
  <2> DEFINE a == r.from
             A == accounts
             A2 == accounts'
             y == r.asset
             e == Total(Took(T, r)) - Total(r.outs)
  <2>1. a \in Accounts /\ y \in Assets /\ A[a] # NoRow /\ A[a] \in AccountRows
    BY <1>1, <1>2, RequestAssumption DEF HasRow
  <2>2. Inputs(r) = Took(T, r)
    BY DEF Inputs, Took, InputRow
  <2>3. e \in Int
    BY <1>11, <1>12
  <2>4. A[a].nonce \in Nat /\ A[a].ast \in [Assets -> Int]
    BY <2>1 DEF AccountRows
  <2>5. Available(r) - Total(r.outs) = A[a].ast[y] + e
    <3>1. Available(r) = A[a].ast[y] + Total(Took(T, r))
      BY <2>1, <2>2 DEF Available, AccountBalance
    <3>2. A[a].ast[y] \in Int
      BY <2>1, <2>4
    <3> HIDE DEF a, A, y, T
    <3> QED
      BY <1>11, <1>12, <3>1, <3>2
  <2>6. /\ A2[a] = [nonce |-> A[a].nonce + 1, ast |-> [A[a].ast EXCEPT ![y] = A[a].ast[y] + e]]
        /\ \A b \in Accounts \ {a} : A2[b] = A[b]
    <3>1. accounts' = [accounts EXCEPT ![a] = NextAccount(A[a], y, Available(r) - Total(r.outs))]
      BY <1>0 DEF CommitSpend, UpdateAccount
    <3>2. accounts' = [accounts EXCEPT ![a] = NextAccount(A[a], y, A[a].ast[y] + e)]
      BY <2>5, <3>1
    <3> HIDE DEF e
    <3> QED
      BY <1>2, <2>1, <3>2 DEF NextAccount
  <2>7. in - out = IF x = y THEN e ELSE 0
    BY DEF Summed
  <2>8. Balance(A2, a, x) = Balance(A, a, x) + (in - out)
    <3>1. [A[a].ast EXCEPT ![y] = A[a].ast[y] + e] \in [Assets -> Int]
      BY <2>1, <2>3, <2>4
    <3>2. A2[a] # NoRow
      BY <2>4, <2>6, <3>1, NoRowAssumption
    <3>3. A2[a].ast[x] = A[a].ast[x] + (IF x = y THEN e ELSE 0)
      <4> HIDE DEF e, A, A2, a, y
      <4> QED
        BY <2>1, <2>3, <2>4, <2>6
    <3> QED
      BY <2>1, <2>7, <3>2, <3>3 DEF Balance
  <2>9. in - out \in Int /\ A \in [Accounts -> AccountRows \cup {NoRow}]
    BY <1>2, <1>11, <1>13
  <2> HIDE DEF a, A, A2, in, out
  <2>10. Funds(A2, x) = Funds(A, x) + (in - out)
    BY <2>1, <2>6, <2>8, <2>9, FundsChange
  <2> QED
    BY <2>10 DEF A, A2
<1>16. /\ Funds(accounts, x) \in Int /\ TotalSet(CreditedOf(x)) \in Int
       /\ Worth(T, S, x) \in Int /\ Gains(T, ApprovedSpends, x) \in Int
  <2>1. TotalSet(CreditedOf(x)) \in Nat
    BY CreditsTyped DEF CreditedOf
  <2>2. Worth(input_notes, SentNotes, x) \in Int
    BY <1>2, WorthTyped
  <2>3. Gains(input_notes, ApprovedSpends, x) \in Int
    BY GainsHold
  <2> QED
    BY <1>2, <2>1, <2>2, <2>3, FundsTyped
<1> HIDE DEF in, out, taken
<1>17. /\ Worth(input_notes', SentNotes', x) = (Worth(input_notes, SentNotes, x) - taken) + out
       /\ Gains(input_notes', ApprovedSpends', x) = Gains(input_notes, ApprovedSpends, x) + (in - taken)
       /\ TotalSet(CreditedOf(x)') = TotalSet(CreditedOf(x))
  BY <1>4, <1>5, <1>6, <1>10, <1>14
<1>18. Funds(accounts', x) + Worth(input_notes', SentNotes', x)
         = TotalSet(CreditedOf(x)') + Gains(input_notes', ApprovedSpends', x)
  <2>1. Funds(accounts, x) + Worth(input_notes, SentNotes, x)
          = TotalSet(CreditedOf(x)) + Gains(input_notes, ApprovedSpends, x)
    BY DEF Balances
  <2> QED
    BY <1>11, <1>13, <1>15, <1>16, <1>17, <2>1
<1> QED
  BY <1>18 DEF Balances

\* Every step keeps the ledger.
LEMMA NextLedgerInv ==
    ASSUME NotesDiffer, Base, RowsOpen, OutputsOwn, NotesSent, InputsConsumed, LedgerInv, [Next]_vars
    PROVE  LedgerInv'
<1> SUFFICES ASSUME NEW x \in Assets PROVE Balances(x)'
  BY DEF LedgerInv
<1>0. Balances(x)
  BY DEF LedgerInv
<1>1. ASSUME NEW p \in Pools, CommitFresh(p) \/ CommitDeposit(p) \/ CommitSpend(p) \/ InsertIncoming(p)
      PROVE  Balances(x)'
  BY <1>0, <1>1, FreshBalances, DepositBalances, SpendBalances, InsertBalances
<1>2. ASSUME \A p \in Pools : ~CommitFresh(p) /\ ~CommitDeposit(p) /\ ~CommitSpend(p) /\ ~InsertIncoming(p)
      PROVE  Balances(x)'
  <2>1. UNCHANGED <<accounts, input_notes>>
    BY <1>2, StepCases, RequestCases, OperatorWrites DEF vars, dbVars, SealBatch
  <2>2. SentNotes' = SentNotes
    BY <1>2, SentSteps
  <2>3. CreditedOf(x)' = CreditedOf(x)
    <3>1. \A d \in Deposits : Credited(d)' <=> Credited(d)
      BY <1>2, CreditedSteps
    <3> QED
      BY <3>1 DEF CreditedOf
  <2>4. ApprovedSpends' = ApprovedSpends
    <3>1. \A r \in Spends : Approved(r)' <=> Approved(r)
      BY <1>2, SubmittedSteps
    <3> QED
      BY <3>1 DEF ApprovedSpends
  <2> QED
    BY <1>0, <2>1, <2>2, <2>3, <2>4 DEF Balances
<1> QED
  BY <1>1, <1>2

\* At first there are no accounts, no notes and no requests.
LEMMA InitLedger == Init => OutputsOwn /\ RowsOpen /\ NotesSent /\ InputsConsumed /\ LedgerInv
<1> SUFFICES ASSUME Init PROVE OutputsOwn /\ RowsOpen /\ NotesSent /\ InputsConsumed /\ LedgerInv
  OBVIOUS
<1>1. /\ accounts = [a \in Accounts |-> NoRow] /\ deposit_tx_requests = [d \in Deposits |-> NoRow]
      /\ spend_tx_requests = [r \in Spends |-> NoRow] /\ created = [p \in Pools |-> <<>>]
      /\ input_notes = [p \in Pools |-> {}] /\ output_notes = [p \in Pools |-> {}]
  BY DEF Init, DbInit
<1>2. (\A p \in Pools : op[p].at = "idle") /\ mailbox = [p \in Pools |-> {}]
  BY DEF Init, OpInit, Idle
<1>3. /\ \A r \in Spends : ~Submitted(r) /\ ~Approved(r)
      /\ \A d \in Deposits : ~Credited(d)
  BY <1>1 DEF Submitted, Approved, Credited
<1>4. SentNotes = {} /\ ApprovedSpends = {} /\ \A x : CreditedOf(x) = {}
  BY <1>3 DEF SentNotes, ApprovedSpends, CreditedOf
<1>5. OutputsOwn
  BY <1>1, <1>3 DEF OutputsOwn
<1>6. RowsOpen
  BY <1>1, <1>2 DEF RowsOpen, DepositSteps, SpendSteps, Distinct, ToSet
<1>7. NotesSent
  BY <1>1, <1>2, FS_EmptySet DEF NotesSent, UniqueIds
<1>8. InputsConsumed
  BY <1>3 DEF InputsConsumed
<1>9. \A f : SumFunctionOnSet(f, {}) = 0
  BY SumEmpty
<1>10. TotalSet({}) = 0
  BY <1>9 DEF TotalSet, SumFunction, FoldFunction, SumFunctionOnSet
<1>11. ASSUME NEW x \in Assets PROVE Balances(x)
  <2>1. Funds(accounts, x) = 0
    <3> DEFINE f == [a \in Accounts |-> Balance(accounts, a, x)]
    <3>1. \A a \in Accounts : f[a] = 0
      BY <1>1 DEF Balance
    <3>2. Funds(accounts, x) = SumFunctionOnSet(f, Accounts)
      BY DEF Funds
    <3> HIDE DEF f
    <3> QED
      BY <3>1, <3>2, SumZero, RequestAssumption
  <2>2. InHand(input_notes, x) = 0
    <3> DEFINE f == [a \in Accounts |-> TotalSet(OpenRows(input_notes, a, x))]
    <3>1. \A a \in Accounts : OpenRows(input_notes, a, x) = {}
      BY <1>1, DatabaseAssumption DEF OpenRows
    <3>2. \A a \in Accounts : f[a] = 0
      BY <1>10, <3>1
    <3>3. InHand(input_notes, x) = SumFunctionOnSet(f, Accounts)
      BY DEF InHand
    <3> HIDE DEF f
    <3> QED
      BY <3>2, <3>3, SumZero, RequestAssumption
  <2>3. TotalSet(Unreached(input_notes, SentNotes, x)) = 0
    <3>1. Unreached(input_notes, SentNotes, x) = {}
      BY <1>4 DEF Unreached
    <3> QED
      BY <1>10, <3>1
  <2>4. Gains(input_notes, ApprovedSpends, x) = 0
    BY <1>4, <1>9 DEF Gains
  <2> QED
    BY <1>4, <1>10, <2>1, <2>2, <2>3, <2>4 DEF Balances, Worth
<1> QED
  BY <1>5, <1>6, <1>7, <1>8, <1>11 DEF LedgerInv

\* Everything the ledger rests on.
BookInv == Base /\ RowsOpen /\ OutputsOwn /\ NotesSent /\ InputsConsumed /\ LedgerInv

\* Value is conserved in every asset whatever operators, clients, crashes and redelivery do
\* (process_one_deposit credits a request once, process_one_spend_tx takes from the sender what it
\* sends, insert_approved_input_note adds a note once): what accounts, unconsumed notes and notes
\* under way are worth is what deposits credited, up to what a spend gains by listing a note twice
\* or a note of another asset.
THEOREM LedgerBalanced ==
    ASSUME NotesDiffer
    PROVE  Spec => []LedgerBalances
<1>1. Init => OperatorTyped /\ SentInv /\ BookInv
  BY InitOperatorTyped, InitSentInv, InitDepositInv, InitStatesInv, InitLedger
     DEF BookInv, Base, SentInv, InputsTyped
<1>2. OperatorTyped /\ SentInv /\ BookInv /\ [Next]_vars => OperatorTyped' /\ SentInv' /\ BookInv'
  <2> SUFFICES ASSUME OperatorTyped, SentInv, BookInv, [Next]_vars
               PROVE  OperatorTyped' /\ SentInv' /\ BookInv'
    OBVIOUS
  <2>1. Base /\ RowsOpen /\ OutputsOwn /\ NotesSent /\ InputsConsumed /\ LedgerInv
    BY DEF BookInv
  <2>2. OperatorTyped' /\ SentInv' /\ DepositInv' /\ StatesInv'
    BY <2>1, NextOperatorTyped, NextSentInv, NextDepositInv, NextStatesInv DEF Base
  <2>3. Base'
    BY <2>2 DEF Base, SentInv, InputsTyped
  <2>4. RowsOpen' /\ OutputsOwn' /\ NotesSent' /\ InputsConsumed' /\ LedgerInv'
    BY <2>1, NextRowsOpen, NextOutputsOwn, NextNotesSent, NextInputsConsumed, NextLedgerInv
  <2> QED
    BY <2>2, <2>3, <2>4 DEF BookInv
<1>3. BookInv => LedgerBalances
  BY LedgerRead DEF BookInv
<1> QED
  BY <1>1, <1>2, <1>3, PTL DEF Spec
=============================================================================

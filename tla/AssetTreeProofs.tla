--------------------------- MODULE AssetTreeProofs ---------------------------
(***************************************************************************)
(* What the operations on an account's balances preserve (AssetTree): the  *)
(* map indexes the leaves of the tree, and the funds change by what an     *)
(* update adds or takes.  The builders of private and bridge transactions  *)
(* rest on these facts.                                                    *)
(***************************************************************************)
EXTENDS AssetTree, SumTheorems

\* A sequence, of whatever elements.
IsSeq(s) == \E S : s \in Seq(S)

\* The map has one entry per leaf, which names the leaf's position and holds its amount.
Entry(t, a) ==
    /\ DOMAIN t.assets[a] = {"index", "amount"}
    /\ t.assets[a].index \in 0 .. Len(t.leaves) - 1
    /\ t.assets[a].amount \in Nat
    /\ t.leaves[t.assets[a].index + 1] = Leaf(a, t.assets[a].amount)
AstOK(t) ==
    /\ DOMAIN t = {"leaves", "assets"}
    /\ IsSeq(t.leaves)
    /\ IsFiniteSet(Tracked(t)) /\ Cardinality(Tracked(t)) = Len(t.leaves)
    /\ \A a \in Tracked(t) : Entry(t, a)

\* All the funds of an account, whatever the asset.
Funds(t) == SumFunction([a \in Tracked(t) |-> t.assets[a].amount])

-----------------------------------------------------------------------------

\* Appending to a sequence keeps what is there.
LEMMA AppendKeeps ==
    ASSUME NEW s, IsSeq(s), NEW x
    PROVE  /\ IsSeq(Append(s, x))
           /\ Len(s) \in Nat /\ Len(Append(s, x)) = Len(s) + 1
           /\ \A i \in 1 .. Len(s) : Append(s, x)[i] = s[i]
           /\ Append(s, x)[Len(s) + 1] = x
<1>1. PICK S : s \in Seq(S) BY DEF IsSeq
<1>2. s \in Seq(S \cup {x}) BY <1>1
<1>3. Append(s, x) \in Seq(S \cup {x}) BY <1>2
<1>4. IsSeq(Append(s, x)) BY <1>3 DEF IsSeq
<1> QED BY <1>2, <1>4

\* The funds as a sum over the tracked assets.
LEMMA FundsSum ==
    ASSUME NEW t, AstOK(t)
    PROVE  /\ Funds(t) = SumFunctionOnSet([a \in Tracked(t) |-> t.assets[a].amount], Tracked(t))
           /\ Funds(t) \in Nat
<1> DEFINE f == [a \in Tracked(t) |-> t.assets[a].amount]
<1>1. Funds(t) = SumFunctionOnSet(f, Tracked(t)) BY DEF Funds, SumFunction
<1>2. \A a \in Tracked(t) : f[a] \in Nat BY DEF AstOK, Entry
<1>3. IsFiniteSet(Tracked(t)) BY DEF AstOK
<1> HIDE DEF f
<1>4. SumFunctionOnSet(f, Tracked(t)) \in Nat BY <1>2, <1>3, SumNat
<1> QED BY <1>1, <1>4 DEF f

\* insert_asset of an asset that is not tracked appends its leaf and adds the amount.
LEMMA InsertOK ==
    ASSUME NEW t, AstOK(t), NEW a, a \notin Tracked(t), NEW amount \in Nat, NEW r, r = _insert_asset(t, a, amount)
    PROVE  /\ AstOK(r) /\ Tracked(r) = Tracked(t) \cup {a}
           /\ r.assets[a].amount = amount /\ \A b \in Tracked(t) : r.assets[b] = t.assets[b]
           /\ Funds(r) = Funds(t) + amount
<1>1. /\ DOMAIN r = {"leaves", "assets"} /\ r.leaves = Append(t.leaves, Leaf(a, amount))
      /\ Tracked(r) = Tracked(t) \cup {a}
      /\ r.assets[a] = [index |-> Len(t.leaves), amount |-> amount]
      /\ \A b \in Tracked(t) : r.assets[b] = t.assets[b]
  BY DEF _insert_asset, Tracked
<1>2. /\ IsSeq(r.leaves) /\ Len(t.leaves) \in Nat /\ Len(r.leaves) = Len(t.leaves) + 1
      /\ \A i \in 1 .. Len(t.leaves) : r.leaves[i] = t.leaves[i]
      /\ r.leaves[Len(t.leaves) + 1] = Leaf(a, amount)
  BY <1>1, AppendKeeps DEF AstOK
<1>3. IsFiniteSet(Tracked(r)) /\ Cardinality(Tracked(r)) = Cardinality(Tracked(t)) + 1
  <2>1. IsFiniteSet(Tracked(t)) BY DEF AstOK
  <2>2. /\ IsFiniteSet(Tracked(t) \cup {a})
        /\ Cardinality(Tracked(t) \cup {a}) = Cardinality(Tracked(t)) + 1
    BY <2>1, FS_AddElement
  <2> QED BY <1>1, <2>2
<1>4. Entry(r, a)
  <2>1. r.assets[a].index = Len(t.leaves) /\ r.assets[a].amount = amount
        /\ DOMAIN r.assets[a] = {"index", "amount"}
    BY <1>1
  <2> QED BY <2>1, <1>2 DEF Entry
<1>5. ASSUME NEW b \in Tracked(t) PROVE Entry(r, b)
  <2>1. Entry(t, b) BY DEF AstOK
  <2>2. t.assets[b].index + 1 \in 1 .. Len(t.leaves) BY <2>1, <1>2 DEF Entry
  <2>3. r.leaves[t.assets[b].index + 1] = t.leaves[t.assets[b].index + 1] BY <2>2, <1>2
  <2>4. t.assets[b].index \in 0 .. Len(r.leaves) - 1 BY <2>1, <1>2 DEF Entry
  <2>5. r.assets[b] = t.assets[b] BY <1>1
  <2> QED BY <2>1, <2>3, <2>4, <2>5 DEF Entry
<1>6. AstOK(r) BY <1>1, <1>2, <1>3, <1>4, <1>5 DEF AstOK
<1>7. Funds(r) = Funds(t) + amount
  <2> DEFINE f == [b \in Tracked(t) |-> t.assets[b].amount]
             g == [b \in Tracked(r) |-> r.assets[b].amount]
  <2>1. Funds(t) = SumFunctionOnSet(f, Tracked(t)) /\ Funds(t) \in Nat BY FundsSum
  <2>2. Funds(r) = SumFunctionOnSet(g, Tracked(r)) BY <1>6, FundsSum
  <2>3. g[a] = amount /\ \A b \in Tracked(t) : f[b] \in Int /\ g[b] = f[b] BY <1>1 DEF AstOK, Entry
  <2>4. IsFiniteSet(Tracked(t)) BY DEF AstOK
  <2> HIDE DEF f, g
  <2>5. SumFunctionOnSet(g, Tracked(t) \cup {a}) = g[a] + SumFunctionOnSet(g, Tracked(t))
    BY <2>3, <2>4, SumAdd
  <2>6. SumFunctionOnSet(f, Tracked(t)) = SumFunctionOnSet(g, Tracked(t)) BY <2>3, <2>4, SumCongruence
  <2> QED BY <1>1, <2>1, <2>2, <2>3, <2>5, <2>6
<1> QED BY <1>1, <1>6, <1>7

\* update_asset rewrites one leaf and one entry.
LEMMA UpdateOK ==
    ASSUME NEW t, AstOK(t), NEW a \in Tracked(t), NEW amount \in Nat, NEW r, r = update_asset(t, a, amount)
    PROVE  /\ AstOK(r) /\ Tracked(r) = Tracked(t)
           /\ r.assets[a].amount = amount /\ \A b \in Tracked(t) \ {a} : r.assets[b] = t.assets[b]
           /\ Funds(r) + t.assets[a].amount = Funds(t) + amount
<1>0. Entry(t, a) BY DEF AstOK
<1>1. /\ DOMAIN r = {"leaves", "assets"}
      /\ r.leaves = [t.leaves EXCEPT ![t.assets[a].index + 1] = Leaf(a, amount)]
      /\ Tracked(r) = Tracked(t)
      /\ r.assets[a] = [t.assets[a] EXCEPT !.amount = amount]
      /\ \A b \in Tracked(t) \ {a} : r.assets[b] = t.assets[b]
  BY DEF update_asset, Tracked
<1>2. /\ r.assets[a].amount = amount /\ r.assets[a].index = t.assets[a].index
      /\ DOMAIN r.assets[a] = {"index", "amount"}
  BY <1>0, <1>1 DEF Entry
<1>3. /\ IsSeq(r.leaves) /\ Len(t.leaves) \in Nat /\ Len(r.leaves) = Len(t.leaves)
      /\ \A j \in 1 .. Len(t.leaves) : r.leaves[j] = IF j = t.assets[a].index + 1 THEN Leaf(a, amount) ELSE t.leaves[j]
  <2>1. IsSeq(t.leaves) /\ Len(t.leaves) \in Nat BY AppendKeeps DEF AstOK
  <2>2. t.assets[a].index + 1 \in 1 .. Len(t.leaves) BY <1>0, <2>1 DEF Entry
  <2>3. PICK S : t.leaves \in Seq(S) BY <2>1 DEF IsSeq
  <2>4. t.leaves \in Seq(S \cup {Leaf(a, amount)}) BY <2>3
  <2> DEFINE i == t.assets[a].index + 1
  <2>5. i \in 1 .. Len(t.leaves) /\ r.leaves = [t.leaves EXCEPT ![i] = Leaf(a, amount)] BY <1>1, <2>2
  <2> HIDE DEF i
  <2>6. /\ r.leaves \in Seq(S \cup {Leaf(a, amount)}) /\ Len(r.leaves) = Len(t.leaves)
        /\ \A j \in 1 .. Len(t.leaves) : r.leaves[j] = IF j = i THEN Leaf(a, amount) ELSE t.leaves[j]
    BY <2>4, <2>5
  <2>7. IsSeq(r.leaves) BY <2>6 DEF IsSeq
  <2> QED BY <2>1, <2>6, <2>7 DEF i
<1>4. Entry(r, a)
  <2>1. t.assets[a].index + 1 \in 1 .. Len(t.leaves) BY <1>0, <1>3 DEF Entry
  <2> QED BY <1>0, <1>2, <1>3, <2>1 DEF Entry
<1>5. ASSUME NEW b \in Tracked(t), b # a PROVE Entry(r, b)
  <2>1. Entry(t, b) /\ r.assets[b] = t.assets[b] BY <1>1, <1>5 DEF AstOK
  <2>2. t.assets[b].index + 1 \in 1 .. Len(t.leaves) BY <2>1, <1>3 DEF Entry
  <2>3. t.assets[b].index # t.assets[a].index
    <3>1. Leaf(a, t.assets[a].amount) # Leaf(b, t.assets[b].amount) BY <1>5 DEF Leaf
    <3> QED BY <3>1, <1>0, <2>1 DEF Entry
  <2>4. t.assets[b].index \in Nat /\ t.assets[a].index \in Nat BY <1>0, <2>1, <1>3 DEF Entry
  <2>5. r.leaves[t.assets[b].index + 1] = t.leaves[t.assets[b].index + 1]
    <3>1. t.assets[b].index + 1 # t.assets[a].index + 1 BY <2>3, <2>4
    <3> QED BY <1>3, <2>2, <3>1
  <2> QED BY <2>1, <2>5, <1>3 DEF Entry
<1>6. AstOK(r) BY <1>1, <1>3, <1>4, <1>5 DEF AstOK
<1>7. Funds(r) + t.assets[a].amount = Funds(t) + amount
  <2> DEFINE f == [b \in Tracked(t) |-> t.assets[b].amount]
             g == [b \in Tracked(t) |-> r.assets[b].amount]
             S == Tracked(t) \ {a}
  <2>1. Funds(t) = SumFunctionOnSet(f, Tracked(t)) /\ Funds(t) \in Nat BY FundsSum
  <2>2. Funds(r) = SumFunctionOnSet(g, Tracked(t)) /\ Funds(r) \in Nat BY <1>1, <1>6, FundsSum
  <2>3. /\ f[a] = t.assets[a].amount /\ f[a] \in Nat /\ g[a] = amount
        /\ \A b \in Tracked(t) : f[b] \in Int /\ g[b] \in Int
        /\ \A b \in S : g[b] = f[b]
    BY <1>1, <1>2, SMTT(30) DEF AstOK, Entry
  <2>4. IsFiniteSet(Tracked(t)) BY DEF AstOK
  <2>5. IsFiniteSet(S) BY <2>4, FS_Subset
  <2> HIDE DEF f, g
  <2>6. SumFunctionOnSet(f, Tracked(t)) = f[a] + SumFunctionOnSet(f, S) BY <2>3, <2>4, SumRemove
  <2>7. SumFunctionOnSet(g, Tracked(t)) = g[a] + SumFunctionOnSet(g, S) BY <2>3, <2>4, SumRemove
  <2>8. SumFunctionOnSet(f, S) = SumFunctionOnSet(g, S) /\ SumFunctionOnSet(f, S) \in Int
    BY <2>3, <2>5, SumCongruence, SumInt
  <2> QED BY <2>1, <2>2, <2>3, <2>6, <2>7, <2>8
<1> QED BY <1>1, <1>2, <1>6, <1>7

\* insert_or_update_asset, in terms of the balance the callers read first.
LEMMA InsertOrUpdateOK ==
    ASSUME NEW t, AstOK(t), NEW a, NEW amount \in Nat, NEW r, r = insert_or_update_asset(t, a, amount)
    PROVE  /\ AstOK(r)
           /\ AmountOrNext(t, a).amount \in Nat
           /\ AmountOrNext(r, a).amount = amount
           /\ \A b : b # a => AmountOrNext(r, b).amount = AmountOrNext(t, b).amount
           /\ Funds(r) + AmountOrNext(t, a).amount = Funds(t) + amount
<1>1. CASE a \in Tracked(t)
  <2>1. /\ AstOK(r) /\ Tracked(r) = Tracked(t)
        /\ r.assets[a].amount = amount /\ \A b \in Tracked(t) \ {a} : r.assets[b] = t.assets[b]
        /\ Funds(r) + t.assets[a].amount = Funds(t) + amount
    BY <1>1, UpdateOK DEF insert_or_update_asset
  <2>2. Entry(t, a) BY <1>1 DEF AstOK
  <2> QED BY <1>1, <2>1, <2>2 DEF AmountOrNext, Entry
<1>2. CASE a \notin Tracked(t)
  <2>1. /\ AstOK(r) /\ Tracked(r) = Tracked(t) \cup {a}
        /\ r.assets[a].amount = amount /\ \A b \in Tracked(t) : r.assets[b] = t.assets[b]
        /\ Funds(r) = Funds(t) + amount
    BY <1>2, InsertOK DEF insert_or_update_asset
  <2>2. Funds(t) \in Nat BY FundsSum
  <2> QED BY <1>2, <2>1, <2>2 DEF AmountOrNext
<1> QED BY <1>1, <1>2

\* A new tree holds the default asset.
LEMMA NewAstOK == AstOK(NewAst) /\ Tracked(NewAst) = {DefaultAsset} /\ Funds(NewAst) = 0
<1> DEFINE t == [leaves |-> <<>>, assets |-> <<>>]
<1>1. DOMAIN t = {"leaves", "assets"} /\ t.leaves = <<>> /\ Tracked(t) = {} BY DEF Tracked
<1>2. IsSeq(<<>>) /\ Len(<<>>) = 0
  <2>1. <<>> \in Seq({}) OBVIOUS
  <2> QED BY <2>1 DEF IsSeq
<1>3. IsFiniteSet({}) /\ Cardinality({}) = 0 BY FS_EmptySet
<1> HIDE DEF t
<1>4. AstOK(t) BY <1>1, <1>2, <1>3 DEF AstOK
<1>5. Funds(t) = 0
  <2>1. Funds(t) = SumFunctionOnSet([a \in Tracked(t) |-> t.assets[a].amount], {}) BY <1>1, <1>4, FundsSum
  <2> QED BY <2>1, SumEmpty
<1>6. NewAst = _insert_asset(t, DefaultAsset, 0) BY DEF NewAst, t
<1>7. DefaultAsset \notin Tracked(t) /\ 0 \in Nat BY <1>1
<1>8. /\ AstOK(NewAst) /\ Tracked(NewAst) = Tracked(t) \cup {DefaultAsset}
      /\ Funds(NewAst) = Funds(t) + 0
  BY <1>4, <1>6, <1>7, InsertOK
<1> QED BY <1>1, <1>5, <1>8
-----------------------------------------------------------------------------
(* Roots *)

\* A tracked asset's leaf is under the root, at the position the map names.
LEMMA EntryRoot ==
    ASSUME NEW t, AstOK(t), Len(t.leaves) <= 2^AstDepth, NEW a \in Tracked(t)
    PROVE  /\ t.assets[a].index \in DOMAIN AstRoot(t)
           /\ t.assets[a].index < 2^AstDepth /\ t.assets[a].index < Len(t.leaves) /\ t.assets[a].index \in Nat
           /\ AstRoot(t)[t.assets[a].index] = Leaf(a, t.assets[a].amount)
<1>1. Entry(t, a) BY DEF AstOK
<1>2. Len(t.leaves) \in Nat BY AppendKeeps DEF AstOK
<1> DEFINE i == t.assets[a].index
<1>3. i \in Nat /\ i < Len(t.leaves) /\ t.leaves[i + 1] = Leaf(a, t.assets[a].amount) BY <1>1, <1>2 DEF Entry
<1> HIDE DEF i
<1>4. i \in 0 .. (2^AstDepth - 1) BY <1>2, <1>3, AstWidthAssumption
<1>5. AstRoot(t)[i] = t.leaves[i + 1] BY <1>3, <1>4 DEF AstRoot
<1>6. DOMAIN AstRoot(t) = 0 .. (2^AstDepth - 1) BY DEF AstRoot
<1>7. i < 2^AstDepth BY <1>4, AstWidthAssumption
<1> QED BY <1>3, <1>4, <1>5, <1>6, <1>7 DEF i

\* The next position of a tree that is not full is a default leaf.
LEMMA FreeRoot ==
    ASSUME NEW t, AstOK(t), Room(t)
    PROVE  /\ Len(t.leaves) \in Nat /\ Len(t.leaves) \in DOMAIN AstRoot(t)
           /\ AstRoot(t)[Len(t.leaves)] = DefaultLeaf
<1>1. Len(t.leaves) \in Nat BY AppendKeeps DEF AstOK
<1>2. Len(t.leaves) \in 0 .. (2^AstDepth - 1) BY <1>1, AstWidthAssumption DEF Room
<1>3. DOMAIN AstRoot(t) = 0 .. (2^AstDepth - 1) BY DEF AstRoot
<1>4. ~(Len(t.leaves) < Len(t.leaves)) BY <1>1
<1> QED BY <1>1, <1>2, <1>3, <1>4 DEF AstRoot

\* Two roots that agree at every position are the same.
LEMMA SameRoot ==
    ASSUME NEW t, NEW f, DOMAIN f = DOMAIN AstRoot(t), f = [i \in DOMAIN f |-> f[i]],
           \A i \in DOMAIN AstRoot(t) : AstRoot(t)[i] = f[i]
    PROVE  AstRoot(t) = f
<1>1. AstRoot(t) = [i \in DOMAIN AstRoot(t) |-> AstRoot(t)[i]] BY DEF AstRoot
<1> QED BY <1>1

\* Under the root, update_asset changes the asset's leaf.
LEMMA UpdateRoot ==
    ASSUME NEW t, AstOK(t), Len(t.leaves) <= 2^AstDepth, NEW a \in Tracked(t), NEW amount,
           NEW r, r = update_asset(t, a, amount)
    PROVE  /\ AstRoot(r) = [AstRoot(t) EXCEPT ![t.assets[a].index] = Leaf(a, amount)]
           /\ Len(r.leaves) = Len(t.leaves)
           /\ \A b \in Tracked(t) : r.assets[b].index = t.assets[b].index
<1> DEFINE i == t.assets[a].index
           f == [AstRoot(t) EXCEPT ![i] = Leaf(a, amount)]
<1>1. i \in DOMAIN AstRoot(t) /\ i \in Nat /\ i < Len(t.leaves) BY EntryRoot
<1>2. /\ r.leaves = [t.leaves EXCEPT ![i + 1] = Leaf(a, amount)]
      /\ r.assets = [t.assets EXCEPT ![a].amount = amount]
  BY DEF update_asset
<1>3. \A b \in Tracked(t) : r.assets[b].index = t.assets[b].index
  <2>1. \A b \in Tracked(t) : Entry(t, b) BY DEF AstOK
  <2> QED BY <1>2, <2>1 DEF Tracked, Entry
<1>4. PICK S : t.leaves \in Seq(S) BY DEF AstOK, IsSeq
<1> HIDE DEF i
<1>5. Len(t.leaves) \in Nat /\ i + 1 \in 1 .. Len(t.leaves) BY <1>1, <1>4
<1>6. /\ Len(r.leaves) = Len(t.leaves)
      /\ \A j \in 1 .. Len(t.leaves) : r.leaves[j] = IF j = i + 1 THEN Leaf(a, amount) ELSE t.leaves[j]
  <2>1. t.leaves \in Seq(S \cup {Leaf(a, amount)}) BY <1>4
  <2>2. r.leaves \in Seq(S \cup {Leaf(a, amount)}) BY <1>2, <1>5, <2>1
  <2> QED BY <1>2, <1>4, <1>5, <2>1, <2>2
<1>7. DOMAIN AstRoot(r) = 0 .. (2^AstDepth - 1) /\ DOMAIN AstRoot(t) = 0 .. (2^AstDepth - 1) BY DEF AstRoot
<1>8. ASSUME NEW j \in 0 .. (2^AstDepth - 1) PROVE AstRoot(r)[j] = f[j]
  <2>0. j \in Nat BY AstWidthAssumption
  <2>1. AstRoot(r)[j] = IF j < Len(t.leaves) THEN r.leaves[j + 1] ELSE DefaultLeaf BY <1>6 DEF AstRoot
  <2>2. AstRoot(t)[j] = IF j < Len(t.leaves) THEN t.leaves[j + 1] ELSE DefaultLeaf BY DEF AstRoot
  <2>3. f[j] = IF j = i THEN Leaf(a, amount) ELSE AstRoot(t)[j] BY <1>7
  <2>4. j < Len(t.leaves) => j + 1 \in 1 .. Len(t.leaves) BY <1>5, <2>0
  <2>5. j + 1 = i + 1 <=> j = i BY <1>1, <2>0
  <2> HIDE DEF f
  <2> QED BY <1>1, <1>6, <2>1, <2>2, <2>3, <2>4, <2>5
<1>9. DOMAIN f = DOMAIN AstRoot(r) /\ f = [j \in DOMAIN f |-> f[j]] BY <1>7
<1> HIDE DEF f
<1>10. \A j \in DOMAIN AstRoot(r) : AstRoot(r)[j] = f[j] BY <1>7, <1>8
<1>11. AstRoot(r) = f BY <1>9, <1>10, SameRoot, ZenonT(40)
<1> QED BY <1>3, <1>6, <1>11 DEF f, i

\* Under the root, insert_asset changes the first default leaf.
LEMMA InsertRoot ==
    ASSUME NEW t, AstOK(t), Room(t), NEW a, NEW amount, NEW r, r = _insert_asset(t, a, amount)
    PROVE  /\ AstRoot(r) = [AstRoot(t) EXCEPT ![Len(t.leaves)] = Leaf(a, amount)]
           /\ Len(r.leaves) = Len(t.leaves) + 1
<1> DEFINE i == Len(t.leaves)
           f == [AstRoot(t) EXCEPT ![i] = Leaf(a, amount)]
<1>1. i \in Nat /\ i \in DOMAIN AstRoot(t) BY FreeRoot
<1>2. r.leaves = Append(t.leaves, Leaf(a, amount)) BY DEF _insert_asset
<1>3. /\ Len(r.leaves) = i + 1 /\ \A j \in 1 .. i : r.leaves[j] = t.leaves[j]
      /\ r.leaves[i + 1] = Leaf(a, amount)
  BY <1>2, AppendKeeps DEF AstOK
<1>4. DOMAIN AstRoot(r) = 0 .. (2^AstDepth - 1) /\ DOMAIN AstRoot(t) = 0 .. (2^AstDepth - 1) BY DEF AstRoot
<1>5. ASSUME NEW j \in 0 .. (2^AstDepth - 1) PROVE AstRoot(r)[j] = f[j]
  <2>0. j \in Nat BY AstWidthAssumption
  <2>1. AstRoot(r)[j] = IF j < i + 1 THEN r.leaves[j + 1] ELSE DefaultLeaf BY <1>3 DEF AstRoot
  <2>2. AstRoot(t)[j] = IF j < i THEN t.leaves[j + 1] ELSE DefaultLeaf BY DEF AstRoot
  <2>3. f[j] = IF j = i THEN Leaf(a, amount) ELSE AstRoot(t)[j] BY <1>4
  <2>4. j < i => j + 1 \in 1 .. i BY <1>1, <2>0
  <2> HIDE DEF f, i
  <2> QED BY <1>1, <1>3, <2>0, <2>1, <2>2, <2>3, <2>4
<1>6. DOMAIN f = DOMAIN AstRoot(r) /\ f = [j \in DOMAIN f |-> f[j]] BY <1>4
<1> HIDE DEF f
<1>7. \A j \in DOMAIN AstRoot(r) : AstRoot(r)[j] = f[j] BY <1>4, <1>5
<1>8. AstRoot(r) = f BY <1>6, <1>7, SameRoot, ZenonT(40)
<1> QED BY <1>3, <1>8 DEF f, i

\* Writing what is there already leaves a root as it is.
LEMMA RootRewritten ==
    ASSUME NEW t, NEW i, i \in DOMAIN AstRoot(t), NEW x, x = AstRoot(t)[i]
    PROVE  [AstRoot(t) EXCEPT ![i] = x] = AstRoot(t)
<1> DEFINE f == AstRoot(t)
<1>1. f = [j \in DOMAIN f |-> f[j]] BY DEF AstRoot
<1> HIDE DEF f
<1>2. [f EXCEPT ![i] = f[i]] = f BY <1>1 DEF f
<1> QED BY <1>2 DEF f

\* The tree of a new account has one leaf, of the default asset.
LEMMA NewAstRoot ==
    /\ Len(NewAst.leaves) = 1 /\ Room(NewAst)
    /\ 0 \in DOMAIN AstRoot(NewAst) /\ AstRoot(NewAst)[0] = Leaf(DefaultAsset, 0)
    /\ NewAst.assets[DefaultAsset].index = 0 /\ NewAst.assets[DefaultAsset].amount = 0
<1>1. AstOK(NewAst) /\ Tracked(NewAst) = {DefaultAsset} BY NewAstOK
<1>2. NewAst.leaves = Append(<<>>, Leaf(DefaultAsset, 0)) BY DEF NewAst, _insert_asset
<1>3. Len(NewAst.leaves) = 1
  <2>1. <<>> \in Seq({}) OBVIOUS
  <2>2. IsSeq(<<>>) /\ Len(<<>>) = 0 BY <2>1 DEF IsSeq
  <2> QED BY <1>2, <2>2, AppendKeeps
<1>4. Room(NewAst) /\ Len(NewAst.leaves) <= 2^AstDepth BY <1>3, AstWidthAssumption DEF Room
<1>5. NewAst.assets[DefaultAsset] = [index |-> 0, amount |-> 0] BY DEF NewAst, _insert_asset, Tracked
<1>6. /\ 0 \in DOMAIN AstRoot(NewAst) /\ AstRoot(NewAst)[0] = Leaf(DefaultAsset, 0)
  BY <1>1, <1>4, <1>5, EntryRoot
<1> QED BY <1>3, <1>4, <1>5, <1>6

\* Under the root, insert_or_update_asset changes one leaf: the asset's own, or the first
\* default leaf.
LEMMA InsertOrUpdateRoot ==
    ASSUME NEW t, AstOK(t), Len(t.leaves) <= 2^AstDepth, NEW a, CanInsertOrUpdate(t, a), NEW amount \in Nat
    PROVE  LET old == AmountOrNext(t, a)
               r   == insert_or_update_asset(t, a, amount)
           IN  /\ [AstRoot(t) EXCEPT ![old.index] = IF old.exists THEN Leaf(a, old.amount) ELSE DefaultLeaf] = AstRoot(t)
               /\ ~old.exists => old.amount = 0
               /\ [AstRoot(t) EXCEPT ![old.index] = Leaf(a, amount)] = AstRoot(r)
               /\ AmountOrNext(r, a).index = old.index /\ AmountOrNext(r, a).exists = TRUE
               /\ Len(r.leaves) <= 2^AstDepth
<1> DEFINE old == AmountOrNext(t, a)
           r   == insert_or_update_asset(t, a, amount)
<1>0. old = AmountOrNext(t, a) /\ r = insert_or_update_asset(t, a, amount) OBVIOUS
<1> HIDE DEF old, r
<1> SUFFICES /\ [AstRoot(t) EXCEPT ![old.index] = IF old.exists THEN Leaf(a, old.amount) ELSE DefaultLeaf] = AstRoot(t)
             /\ ~old.exists => old.amount = 0
             /\ [AstRoot(t) EXCEPT ![old.index] = Leaf(a, amount)] = AstRoot(r)
             /\ AmountOrNext(r, a).index = old.index /\ AmountOrNext(r, a).exists = TRUE
             /\ Len(r.leaves) <= 2^AstDepth
  BY DEF old, r
<1>1. CASE a \in Tracked(t)
  <2>1. r = update_asset(t, a, amount) BY <1>0, <1>1 DEF insert_or_update_asset
  <2>2. Tracked(r) = Tracked(t) BY <1>1, <2>1, UpdateOK
  <2> DEFINE x == t.assets[a].index
  <2>3. old.index = x /\ old.amount = t.assets[a].amount /\ old.exists = TRUE BY <1>0, <1>1 DEF AmountOrNext
  <2>4. x \in DOMAIN AstRoot(t) /\ AstRoot(t)[x] = Leaf(a, old.amount) BY <1>1, <2>3, EntryRoot
  <2>5. /\ AstRoot(r) = [AstRoot(t) EXCEPT ![x] = Leaf(a, amount)] /\ Len(r.leaves) = Len(t.leaves)
        /\ r.assets[a].index = x
    BY <1>1, <2>1, UpdateRoot
  <2>6. AmountOrNext(r, a).index = x /\ AmountOrNext(r, a).exists = TRUE BY <1>1, <2>2, <2>5 DEF AmountOrNext
  <2> HIDE DEF x
  <2>7. [AstRoot(t) EXCEPT ![x] = Leaf(a, old.amount)] = AstRoot(t) BY <2>4, RootRewritten
  <2> QED BY <2>3, <2>5, <2>6, <2>7
<1>2. CASE a \notin Tracked(t)
  <2>1. r = _insert_asset(t, a, amount) /\ Room(t) BY <1>0, <1>2 DEF insert_or_update_asset, CanInsertOrUpdate
  <2>2. Tracked(r) = Tracked(t) \cup {a} BY <1>2, <2>1, InsertOK
  <2> DEFINE x == Len(t.leaves)
  <2>3. old.index = x /\ old.amount = 0 /\ old.exists = FALSE BY <1>0, <1>2 DEF AmountOrNext, next_index
  <2>4. x \in Nat /\ x \in DOMAIN AstRoot(t) /\ AstRoot(t)[x] = DefaultLeaf BY <2>1, FreeRoot
  <2>5. AstRoot(r) = [AstRoot(t) EXCEPT ![x] = Leaf(a, amount)] /\ Len(r.leaves) = x + 1
    BY <2>1, InsertRoot
  <2>6. x < 2^AstDepth BY <2>1 DEF Room
  <2>7. r.assets[a].index = x BY <2>1 DEF _insert_asset
  <2>8. AmountOrNext(r, a).index = x /\ AmountOrNext(r, a).exists = TRUE BY <2>2, <2>7 DEF AmountOrNext
  <2> HIDE DEF x
  <2>9. [AstRoot(t) EXCEPT ![x] = DefaultLeaf] = AstRoot(t) BY <2>4, RootRewritten
  <2>10. Len(r.leaves) <= 2^AstDepth BY <2>4, <2>5, <2>6, AstWidthAssumption
  <2> QED BY <2>3, <2>5, <2>8, <2>9, <2>10
<1> QED BY <1>1, <1>2
=============================================================================

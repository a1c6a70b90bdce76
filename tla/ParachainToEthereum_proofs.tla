--------------------- MODULE ParachainToEthereum_proofs ---------------------
(***************************************************************************)
(* Two results about messages to Ethereum.                                 *)
(*                                                                         *)
(* First, the Merkle trees by which messages and parachain heads are       *)
(* proved: for every row of leaves, the pallet's proofs and the relayer's  *)
(* paths lead to one root.  The argument follows a leaf up the rows (after *)
(* each turn of the pallet's loop, the proof collected so far hashes the   *)
(* leaf to the item at its position: Leads), then compares the levels of   *)
(* the relayer's tree with those rows.  What a loop computes is shown by   *)
(* induction on its turns (UpTo).                                          *)
(*                                                                         *)
(* Second, exactly-once, in-order delivery, for any number of sources,     *)
(* blocks, crashes and races.  Nothing is assumed of the relay: the proof  *)
(* never looks at its variables.                                           *)
(***************************************************************************)
EXTENDS ParachainToEthereum, MerkleTrees, WellFoundedInduction, TLAPS

\* Leaves are for Zenon; SMTT marks those that need arithmetic, sequences or records. A prover
\* may work a minute on a leaf, so that a busy machine checks the same proofs: few take seconds.
USE ZenonT(60)

----------------------------------------------------------------------------
(* Merkle trees                                                            *)

\* Induction on the numbers up to n, with the numbers it holds of as a set.
LEMMA UpTo ==
    ASSUME NEW n \in Nat, NEW P, 0 \in P, \A k \in 1 .. n : k - 1 \in P => k \in P
    PROVE  0 .. n \subseteq P
<1> DEFINE S == (0 .. n) \ P
<1>1. SUFFICES ASSUME S # {} PROVE FALSE
  OBVIOUS
<1>2. PICK k \in S : \A j \in S : ~(<<j, k>> \in OpToRel(<, Nat))
  <2>1. S \in SUBSET Nat  BY SMTT(60)
  <2> HIDE DEF S
  <2>2. QED  BY <1>1, <2>1, NatLessThanWellFounded, WFMin
<1>3. \A j \in S : ~(j < k)
  <2>1. k \in Nat /\ \A j \in S : j \in Nat
    BY SMTT(60)
  <2> HIDE DEF S
  <2>2. QED  BY <1>2, <2>1 DEF OpToRel
<1>4. k \in 1 .. n /\ k - 1 \in 0 .. n
  BY SMTT(60)
<1>5. k - 1 \notin S
  BY <1>3, <1>4, SMTT(60)
<1>6. QED  BY <1>4, <1>5

\* The loop of processProof defines its hashes.
hashes(proof, leaf) ==
    CHOOSE hash : hash = [i \in 0 .. Len(proof) |-> IF i = 0 THEN leaf ELSE Hash(hash[i - 1], proof[i])]

\* processProof is the last of those hashes, each made from the one before.
LEMMA HashesAre ==
    ASSUME NEW proof, NEW leaf, Len(proof) \in Nat
    PROVE  /\ processProof(proof, leaf) = hashes(proof, leaf)[Len(proof)]
           /\ hashes(proof, leaf)[0] = leaf
           /\ \A i \in 1 .. Len(proof) : hashes(proof, leaf)[i] = Hash(hashes(proof, leaf)[i - 1], proof[i])
<1> DEFINE n == Len(proof)
           body(f) == [i \in 0 .. n |-> IF i = 0 THEN leaf ELSE Hash(f[i - 1], proof[i])]
           upTo(f, k) == f[0] = leaf /\ \A i \in 1 .. k : f[i] = Hash(f[i - 1], proof[i])
           P == {k \in 0 .. n : \E f : upTo(f, k)}
<1>1. 0 \in P
  <2>1. upTo([i \in 0 .. n |-> leaf], 0)
    BY SMTT(60)
  <2> HIDE DEF upTo
  <2>2. QED  BY <2>1, SMTT(60)
<1>2. ASSUME NEW k \in 1 .. n, k - 1 \in P PROVE k \in P
  <2>1. PICK f : upTo(f, k - 1)
    BY <1>2
  <2> DEFINE g == [i \in 0 .. n |-> IF i = k THEN Hash(f[k - 1], proof[k]) ELSE f[i]]
  <2>2. g[k] = Hash(f[k - 1], proof[k]) /\ \A i \in 0 .. k - 1 : g[i] = f[i]
    BY SMTT(60)
  <2> HIDE DEF g
  <2>3. upTo(g, k)
    BY <2>1, <2>2, SMTT(60)
  <2> HIDE DEF upTo
  <2>4. QED  BY <2>3, SMTT(60)
<1>3. \E f : upTo(f, n)
  <2> HIDE DEF P, n
  <2>1. \A k \in 1 .. n : k - 1 \in P => k \in P
    BY <1>2
  <2>2. 0 .. n \subseteq P
    BY <1>1, <2>1, UpTo DEF n
  <2>3. n \in P
    BY <2>2, SMTT(60) DEF n
  <2>4. QED  BY <2>3 DEF P
<1>4. PICK f : upTo(f, n)
  BY <1>3
<1> DEFINE h == [i \in 0 .. n |-> f[i]]
<1>5. h = body(h)
  <2>1. \A i \in 0 .. n : h[i] = f[i]
    OBVIOUS
  <2>2. \A i \in 0 .. n : h[i] = IF i = 0 THEN leaf ELSE Hash(h[i - 1], proof[i])
    <3> HIDE DEF h
    <3> QED  BY <1>4, <2>1, SMTT(60)
  <2>3. QED  BY <2>2
<1>6. hashes(proof, leaf) = body(hashes(proof, leaf))
  <2> HIDE DEF h
  <2> QED  BY <1>5 DEF hashes
<1>7. processProof(proof, leaf) = hashes(proof, leaf)[n]
  BY DEF processProof, hashes
<1>8. QED
  <2> HIDE DEF hashes
  <2> QED  BY <1>6, <1>7, SMTT(60)

\* One more item of a proof is one more hash.
LEMMA OneMoreHash ==
    ASSUME NEW S, NEW proof \in Seq(S), NEW x \in S, NEW leaf
    PROVE  processProof(proof \o <<x>>, leaf) = Hash(processProof(proof, leaf), x)
<1> DEFINE n == Len(proof)
           longer == proof \o <<x>>
           f == hashes(proof, leaf)
           g == hashes(longer, leaf)
           P == {k \in 0 .. n : g[k] = f[k]}
<1>1. /\ n \in Nat /\ Len(longer) = n + 1 /\ longer[n + 1] = x
      /\ \A i \in 1 .. n : longer[i] = proof[i]
  BY SMTT(60)
<1> HIDE DEF longer
<1>2. /\ processProof(proof, leaf) = f[n] /\ f[0] = leaf
      /\ \A i \in 1 .. n : f[i] = Hash(f[i - 1], proof[i])
  BY <1>1, HashesAre, SMTT(60)
<1>3. /\ processProof(longer, leaf) = g[n + 1] /\ g[0] = leaf
      /\ \A i \in 1 .. n + 1 : g[i] = Hash(g[i - 1], longer[i])
  BY <1>1, HashesAre, SMTT(60)
<1> HIDE DEF n, f, g
<1>4. 0 \in P
  BY <1>1, <1>2, <1>3, SMTT(60)
<1>5. \A k \in 1 .. n : k - 1 \in P => k \in P
  BY <1>1, <1>2, <1>3, SMTT(60)
<1>6. n \in P
  <2> HIDE DEF P
  <2>1. 0 .. n \subseteq P
    BY <1>1, <1>4, <1>5, UpTo
  <2>2. QED  BY <1>1, <2>1, SMTT(60)
<1>7. processProof(longer, leaf) = Hash(processProof(proof, leaf), x)
  BY <1>1, <1>2, <1>3, <1>6, SMTT(60)
<1>8. QED  BY <1>7 DEF longer

\* The items that the row above a row of items S can have.
Above(S) == S \cup {Hash(x, y) : x \in S, y \in S}

\* The row above is half as long, and has the pair's hash, or the odd item, in the place of
\* both.
LEMMA RowAbove ==
    ASSUME NEW S, NEW row \in Seq(S), Len(row) > 0
    PROVE  /\ merkelize_row(row) \in Seq(Above(S))
           /\ Len(merkelize_row(row)) = (Len(row) + 1) \div 2
           /\ \A k \in 1 .. (Len(row) + 1) \div 2 : merkelize_row(row)[k] =
                  IF 2 * k <= Len(row) THEN Hash(row[2 * k - 1], row[2 * k]) ELSE row[2 * k - 1]
<1> DEFINE m == (Len(row) + 1) \div 2
           item(k) == IF 2 * k <= Len(row) THEN Hash(row[2 * k - 1], row[2 * k]) ELSE row[2 * k - 1]
<1>1. m \in Nat
  BY SMTT(60)
<1>2. ASSUME NEW k \in 1 .. m PROVE item(k) \in Above(S)
  <2>1. CASE 2 * k <= Len(row)
    <3>1. row[2 * k - 1] \in S /\ row[2 * k] \in S
      BY <2>1, SMTT(60)
    <3>2. QED  BY <2>1, <3>1, SMTT(60) DEF Above
  <2>2. CASE ~(2 * k <= Len(row))
    <3>1. row[2 * k - 1] \in S
      BY <2>2, SMTT(60)
    <3>2. QED  BY <2>2, <3>1, SMTT(60) DEF Above
  <2>3. QED  BY <2>1, <2>2
<1>3. merkelize_row(row) = [k \in 1 .. m |-> item(k)]
  BY DEF merkelize_row
<1> HIDE DEF m, item
<1>4. [k \in 1 .. m |-> item(k)] \in Seq(Above(S)) /\ Len([k \in 1 .. m |-> item(k)]) = m
  BY <1>1, <1>2, SMTT(60)
<1>5. \A k \in 1 .. m : merkelize_row(row)[k] = item(k)
  BY <1>3
<1>6. QED  BY <1>3, <1>4, <1>5 DEF m, item

\* The hash of two items does not depend on their order.
LEMMA EitherOrder == ASSUME NEW x, NEW y PROVE Hash(x, y) = Hash(y, x)
  BY DEF Hash

\* What a turn finds of the leaf: the proof so far leads from it to the item at the position.
Leads(v, leaf) ==
    /\ v.position \in 0 .. Len(v.row) - 1
    /\ processProof(v.proof, leaf) = v.row[v.position + 1]

\* A visit collects the neighbour, if there is one.
LEMMA VisitIs ==
    ASSUME NEW S, NEW row \in Seq(S), NEW pos \in 0 .. Len(row) - 1
    PROVE  /\ pos % 2 = 0 /\ pos + 2 <= Len(row) => visit(row, pos) = <<row[pos + 2]>>
           /\ pos % 2 = 0 /\ ~(pos + 2 <= Len(row)) => visit(row, pos) = <<>>
           /\ pos % 2 # 0 => visit(row, pos) = <<row[pos]>>
<1>1. CASE pos % 2 = 0
  BY <1>1, SMTT(60) DEF visit
<1>2. CASE pos % 2 # 0
  <2>1. pos % 2 = 1
    BY <1>2, SMTT(60)
  <2>2. QED  BY <2>1, SMTT(60) DEF visit
<1>3. QED  BY <1>1, <1>2

\* A turn of the loop keeps the proof leading from the leaf to its place.
LEMMA TurnLeads ==
    ASSUME NEW S, NEW v, v.row \in Seq(S), v.proof \in Seq(S), NEW leaf, Leads(v, leaf)
    PROVE  LET w == move_up(v)
           IN  /\ w.row \in Seq(Above(S))
               /\ w.proof \in Seq(Above(S))
               /\ Len(w.row) = (Len(v.row) + 1) \div 2
               /\ Leads(w, leaf)
<1> DEFINE w == move_up(v)
           row == v.row
           pos == v.position
           up == pos \div 2
<1>1. /\ row \in Seq(S) /\ Len(row) \in Nat /\ pos \in 0 .. Len(row) - 1
      /\ processProof(v.proof, leaf) = row[pos + 1]
  BY SMTT(60) DEF Leads
<1>2. w.row = merkelize_row(row) /\ w.position = up /\ w.proof = v.proof \o visit(row, pos)
  BY DEF move_up
<1>0. S \subseteq Above(S)
  BY SMTT(60) DEF Above
<1> HIDE DEF w, row, pos
<1>3. /\ w.row \in Seq(Above(S)) /\ Len(w.row) = (Len(row) + 1) \div 2
      /\ \A k \in 1 .. (Len(row) + 1) \div 2 : w.row[k] =
             IF 2 * k <= Len(row) THEN Hash(row[2 * k - 1], row[2 * k]) ELSE row[2 * k - 1]
  <2>1. Len(row) > 0
    BY <1>1, SMTT(60)
  <2>2. QED  BY <1>1, <1>2, <2>1, RowAbove
<1>4. up \in 0 .. Len(w.row) - 1
  BY <1>1, <1>3, SMTT(60)
<1>5. ASSUME pos % 2 = 0 /\ pos + 2 <= Len(row)
      PROVE  w.proof \in Seq(Above(S)) /\ Leads(w, leaf)
  <2>1. row[pos + 2] \in S /\ visit(row, pos) = <<row[pos + 2]>>
    BY <1>1, <1>5, VisitIs, SMTT(60)
  <2>2. processProof(w.proof, leaf) = Hash(row[pos + 1], row[pos + 2])
    BY <1>1, <1>2, <2>1, OneMoreHash, SMTT(60)
  <2>3. w.row[up + 1] = Hash(row[pos + 1], row[pos + 2])
    BY <1>1, <1>3, <1>4, <1>5, SMTT(60)
  <2>4. w.proof \in Seq(Above(S))
    BY <1>0, <1>2, <2>1, SMTT(60)
  <2>5. Leads(w, leaf)
    BY <1>2, <1>4, <2>2, <2>3 DEF Leads
  <2>6. QED  BY <2>4, <2>5
<1>6. ASSUME pos % 2 = 0 /\ ~(pos + 2 <= Len(row))
      PROVE  w.proof \in Seq(Above(S)) /\ Leads(w, leaf)
  <2>1. visit(row, pos) = <<>>
    BY <1>1, <1>6, VisitIs
  <2>2. w.proof = v.proof
    BY <1>2, <2>1, SMTT(60)
  <2>3. w.row[up + 1] = row[pos + 1]
    <3>1. up + 1 \in 1 .. (Len(row) + 1) \div 2
      BY <1>3, <1>4, SMTT(60)
    <3>2. ~(2 * (up + 1) <= Len(row)) /\ 2 * (up + 1) - 1 = pos + 1
      BY <1>1, <1>6, SMTT(60)
    <3>3. QED  BY <1>3, <3>1, <3>2, SMTT(60)
  <2>4. w.proof \in Seq(Above(S))
    BY <1>0, <2>2, SMTT(60)
  <2>5. Leads(w, leaf)
    BY <1>1, <1>2, <1>4, <2>2, <2>3 DEF Leads
  <2>6. QED  BY <2>4, <2>5
<1>7. ASSUME pos % 2 # 0
      PROVE  w.proof \in Seq(Above(S)) /\ Leads(w, leaf)
  <2>1. row[pos] \in S /\ visit(row, pos) = <<row[pos]>>
    BY <1>1, <1>7, VisitIs, SMTT(60)
  <2>2. processProof(w.proof, leaf) = Hash(row[pos + 1], row[pos])
    BY <1>1, <1>2, <2>1, OneMoreHash, SMTT(60)
  <2>3. w.row[up + 1] = Hash(row[pos], row[pos + 1])
    BY <1>1, <1>3, <1>4, <1>7, SMTT(60)
  <2>4. w.proof \in Seq(Above(S))
    BY <1>0, <1>2, <2>1, SMTT(60)
  <2>5. Leads(w, leaf)
    BY <1>2, <1>4, <2>2, <2>3, EitherOrder DEF Leads
  <2>6. QED  BY <2>4, <2>5
<1>8. /\ w.row \in Seq(Above(S)) /\ w.proof \in Seq(Above(S))
      /\ Len(w.row) = (Len(row) + 1) \div 2 /\ Leads(w, leaf)
  BY <1>1, <1>3, <1>5, <1>6, <1>7
<1>9. QED  BY <1>8 DEF w, row

----------------------------------------------------------------------------
\* The loop of merkelize defines its turns.
LEMMA TurnsAre ==
    ASSUME NEW row, NEW pos, Len(row) \in Nat
    PROVE  /\ turns(row, pos)[0] = [row |-> row, position |-> pos, proof |-> <<>>]
           /\ \A k \in 1 .. Len(row) : turns(row, pos)[k] = move_up(turns(row, pos)[k - 1])
<1> DEFINE n == Len(row)
           first == [row |-> row, position |-> pos, proof |-> <<>>]
           body(f) == [i \in 0 .. n |-> IF i = 0 THEN first ELSE move_up(f[i - 1])]
           upTo(f, k) == f[0] = first /\ \A i \in 1 .. k : f[i] = move_up(f[i - 1])
           P == {k \in 0 .. n : \E f : upTo(f, k)}
<1>0. n \in Nat
  OBVIOUS
<1> HIDE DEF first
<1>1. 0 \in P
  <2>1. upTo([i \in 0 .. n |-> first], 0)
    BY SMTT(60)
  <2> HIDE DEF upTo
  <2>2. QED  BY <2>1, SMTT(60)
<1>2. ASSUME NEW k \in 1 .. n, k - 1 \in P PROVE k \in P
  <2>1. PICK f : upTo(f, k - 1)
    BY <1>2
  <2> DEFINE g == [i \in 0 .. n |-> IF i = k THEN move_up(f[k - 1]) ELSE f[i]]
  <2>2. g[k] = move_up(f[k - 1]) /\ \A i \in 0 .. k - 1 : g[i] = f[i]
    BY SMTT(60)
  <2> HIDE DEF g
  <2>3. upTo(g, k)
    <3>1. ASSUME NEW i \in 1 .. k PROVE g[i] = move_up(g[i - 1])
      <4>1. i - 1 \in 0 .. k - 1 /\ g[i - 1] = f[i - 1]
        BY <2>2, SMTT(60)
      <4>2. CASE i = k
        BY <2>2, <4>1, <4>2
      <4>3. CASE i # k
        <5>1. i \in 1 .. k - 1 /\ i \in 0 .. k - 1
          BY <4>3, SMTT(60)
        <5>2. QED  BY <2>1, <2>2, <4>1, <5>1
      <4>4. QED  BY <4>2, <4>3
    <3>2. g[0] = first
      BY <2>1, <2>2, SMTT(60)
    <3>3. QED  BY <3>1, <3>2
  <2> HIDE DEF upTo
  <2>4. QED  BY <2>3, SMTT(60)
<1>3. \E f : upTo(f, n)
  <2> HIDE DEF P, n
  <2>1. \A k \in 1 .. n : k - 1 \in P => k \in P
    BY <1>2
  <2>2. 0 .. n \subseteq P
    BY <1>0, <1>1, <2>1, UpTo
  <2>3. n \in P
    BY <1>0, <2>2, SMTT(60)
  <2>4. QED  BY <2>3 DEF P
<1>4. PICK f : upTo(f, n)
  BY <1>3
<1> DEFINE h == [i \in 0 .. n |-> f[i]]
<1>5. h = body(h)
  <2>1. \A i \in 0 .. n : h[i] = f[i]
    OBVIOUS
  <2>2. \A i \in 0 .. n : h[i] = IF i = 0 THEN first ELSE move_up(h[i - 1])
    <3> HIDE DEF h
    <3> QED  BY <1>4, <2>1, SMTT(60)
  <2>3. QED  BY <2>2
<1> DEFINE v == turns(row, pos)
<1>6. v = CHOOSE g : g = body(g)
  BY DEF turns, first
<1>7. v = body(v)
  <2> HIDE DEF h, v, body
  <2> QED  BY <1>5, <1>6
<1>8. v[0] = first /\ \A k \in 1 .. n : v[k] = move_up(v[k - 1])
  <2> HIDE DEF v
  <2> QED  BY <1>0, <1>7, SMTT(60)
<1>9. QED  BY <1>8 DEF first

\* A turn whose proof leads from leaf to its place in the row.
Sound(v, leaf) == \E S : v.row \in Seq(S) /\ v.proof \in Seq(S) /\ Leads(v, leaf)

\* So does the turn after it, on a row of half the length.
LEMMA NextIsSound ==
    ASSUME NEW v, NEW leaf, Sound(v, leaf)
    PROVE  /\ Sound(move_up(v), leaf)
           /\ Len(v.row) \in Nat /\ Len(v.row) > 0
           /\ Len(move_up(v).row) = (Len(v.row) + 1) \div 2
<1>1. PICK S : v.row \in Seq(S) /\ v.proof \in Seq(S) /\ Leads(v, leaf)
  BY DEF Sound
<1>2. /\ move_up(v).row \in Seq(Above(S)) /\ move_up(v).proof \in Seq(Above(S))
      /\ Len(move_up(v).row) = (Len(v.row) + 1) \div 2 /\ Leads(move_up(v), leaf)
  BY <1>1, TurnLeads
<1>3. Len(v.row) \in Nat /\ Len(v.row) > 0
  BY <1>1, SMTT(60) DEF Leads
<1>4. Sound(move_up(v), leaf)
  BY <1>2 DEF Sound
<1>5. QED  BY <1>2, <1>3, <1>4

\* Every turn is sound, and the rows shrink until one item is left.
LEMMA TurnsAreSound ==
    ASSUME NEW S, NEW row \in Seq(S), NEW pos \in 0 .. Len(row) - 1
    PROVE  \A k \in 0 .. Len(row) :
               /\ Sound(turns(row, pos)[k], row[pos + 1])
               /\ Len(turns(row, pos)[k].row) = 1 \/ Len(turns(row, pos)[k].row) + k <= Len(row)
<1> DEFINE n == Len(row)
           v == turns(row, pos)
           leaf == row[pos + 1]
           P == {k \in 0 .. n : Sound(v[k], leaf) /\ (Len(v[k].row) = 1 \/ Len(v[k].row) + k <= n)}
<1>1. n \in Nat /\ pos \in 0 .. n - 1
  BY SMTT(60)
<1>2. /\ v[0] = [row |-> row, position |-> pos, proof |-> <<>>]
      /\ \A k \in 1 .. n : v[k] = move_up(v[k - 1])
  BY <1>1, TurnsAre
<1> HIDE DEF v
<1>3. 0 \in P
  <2>1. v[0].row = row /\ v[0].proof = <<>> /\ v[0].position = pos
    BY <1>2, SMTT(60)
  <2>2. <<>> \in Seq(S) /\ Len(<<>>) = 0
    BY SMTT(60)
  <2>3. processProof(<<>>, leaf) = leaf
    BY <2>2, HashesAre, SMTT(60)
  <2>4. Leads(v[0], leaf)
    BY <1>1, <2>1, <2>3 DEF Leads
  <2>5. Sound(v[0], leaf)
    BY <2>1, <2>2, <2>4 DEF Sound
  <2>6. QED  BY <1>1, <2>1, <2>5, SMTT(60)
<1> HIDE DEF n, leaf
<1>4. ASSUME NEW k \in 1 .. n, k - 1 \in P PROVE k \in P
  <2>1. Sound(v[k - 1], leaf) /\ (Len(v[k - 1].row) = 1 \/ Len(v[k - 1].row) + (k - 1) <= n)
    BY <1>4
  <2>2. /\ Sound(v[k], leaf) /\ Len(v[k - 1].row) \in Nat /\ Len(v[k - 1].row) > 0
        /\ Len(v[k].row) = (Len(v[k - 1].row) + 1) \div 2
    BY <1>2, <2>1, NextIsSound
  <2> DEFINE a == Len(v[k - 1].row)
             b == Len(v[k].row)
  <2>3. a \in Nat /\ a > 0 /\ b = (a + 1) \div 2 /\ (a = 1 \/ a + (k - 1) <= n)
    BY <2>1, <2>2
  <2>4. b = 1 \/ b + k <= n
    <3> HIDE DEF a, b
    <3>1. a = 1 \/ a = 2 \/ a > 2
      BY <2>3, SMTT(60)
    <3>2. a > 2 => b + 1 <= a
      BY <2>3, SMTT(60)
    <3>3. b \in Nat
      BY <2>3, SMTT(60)
    <3>4. QED  BY <1>1, <2>3, <3>1, <3>2, <3>3, SMTT(60)
  <2>5. k \in 0 .. n
    BY <1>1, SMTT(60)
  <2>6. QED  BY <2>2, <2>4, <2>5
<1>5. 0 .. n \subseteq P
  <2> HIDE DEF P
  <2>1. \A k \in 1 .. n : k - 1 \in P => k \in P
    BY <1>4
  <2>2. QED  BY <1>1, <1>3, <2>1, UpTo
<1>6. QED  BY <1>5 DEF n, v, leaf

\* The rows do not depend on the position.
LEMMA RowsAreOne ==
    ASSUME NEW row, Len(row) \in Nat, NEW p, NEW q
    PROVE  \A k \in 0 .. Len(row) : turns(row, p)[k].row = turns(row, q)[k].row
<1> DEFINE n == Len(row)
           v == turns(row, p)
           w == turns(row, q)
           P == {k \in 0 .. n : v[k].row = w[k].row}
<1>1. /\ v[0] = [row |-> row, position |-> p, proof |-> <<>>]
      /\ \A k \in 1 .. n : v[k] = move_up(v[k - 1])
  BY TurnsAre
<1>2. /\ w[0] = [row |-> row, position |-> q, proof |-> <<>>]
      /\ \A k \in 1 .. n : w[k] = move_up(w[k - 1])
  BY TurnsAre
<1> HIDE DEF v, w
<1>3. 0 \in P
  BY <1>1, <1>2, SMTT(60)
<1>4. ASSUME NEW k \in 1 .. n, k - 1 \in P PROVE k \in P
  <2>1. v[k].row = merkelize_row(v[k - 1].row) /\ w[k].row = merkelize_row(w[k - 1].row)
    <3>1. v[k] = move_up(v[k - 1]) /\ w[k] = move_up(w[k - 1])
      BY <1>1, <1>2
    <3>2. \A u : move_up(u).row = merkelize_row(u.row)
      BY DEF move_up
    <3>3. QED  BY <3>1, <3>2
  <2>2. QED  BY <1>4, <2>1, SMTT(60)
<1>5. 0 .. n \subseteq P
  <2> HIDE DEF P
  <2>1. \A k \in 1 .. n : k - 1 \in P => k \in P
    BY <1>4
  <2>2. QED  BY <1>3, <2>1, UpTo
<1>6. QED  BY <1>5 DEF v, w

\* A set that holds a number up to n holds a first one.
LEMMA FirstOf ==
    ASSUME NEW n \in Nat, NEW P, n \in P
    PROVE  \E k \in 0 .. n : k \in P /\ \A j \in 0 .. k - 1 : j \notin P
<1> DEFINE Q == {k \in 0 .. n : \A j \in 0 .. k : j \notin P}
<1>1. SUFFICES ASSUME \A k \in 0 .. n : k \in P => \E j \in 0 .. k - 1 : j \in P PROVE FALSE
  OBVIOUS
<1>2. 0 \in Q
  BY <1>1, SMTT(60)
<1>3. ASSUME NEW k \in 1 .. n, k - 1 \in Q PROVE k \in Q
  BY <1>1, <1>3, SMTT(60)
<1>4. 0 .. n \subseteq Q
  <2> HIDE DEF Q
  <2>1. \A k \in 1 .. n : k - 1 \in Q => k \in Q
    BY <1>3
  <2>2. QED  BY <1>2, <2>1, UpTo
<1>5. QED  BY <1>4, SMTT(60)

\* The turn at which the loop of merkelize returns.
Returns(row, pos, k) ==
    /\ k \in 0 .. Len(row) /\ Len(turns(row, pos)[k].row) = 1
    /\ \A j \in 0 .. k - 1 : Len(turns(row, pos)[j].row) # 1

\* There is such a turn, and no other: merkelize ends, with what that turn holds.
LEMMA LoopReturns ==
    ASSUME NEW S, NEW row \in Seq(S), NEW pos \in 0 .. Len(row) - 1
    PROVE  /\ \E k : Returns(row, pos, k)
           /\ \A k : Returns(row, pos, k) =>
                  merkelize(row, pos) = [root |-> turns(row, pos)[k].row[1],
                                         proof |-> turns(row, pos)[k].proof]
<1> DEFINE n == Len(row)
           v == turns(row, pos)
           P == {k \in 0 .. n : Len(v[k].row) = 1}
<1>1. n \in Nat /\ n > 0 /\ n \in 0 .. n
  BY SMTT(60)
<1>2. Sound(v[n], row[pos + 1]) /\ (Len(v[n].row) = 1 \/ Len(v[n].row) + n <= n)
  BY <1>1, TurnsAreSound
<1>3. Len(v[n].row) \in Nat /\ Len(v[n].row) > 0
  BY <1>2, NextIsSound
<1> HIDE DEF n, v
<1>4. n \in P
  BY <1>1, <1>2, <1>3, SMTT(60)
<1>5. \E k : Returns(row, pos, k)
  <2>1. PICK k \in 0 .. n : k \in P /\ \A j \in 0 .. k - 1 : j \notin P
    <3> HIDE DEF P
    <3>1. QED  BY <1>1, <1>4, FirstOf
  <2>2. \A j \in 0 .. k - 1 : j \in 0 .. n
    BY <1>1, SMTT(60)
  <2>3. QED  BY <2>1, <2>2 DEF Returns, n, v
<1>6. ASSUME NEW k, Returns(row, pos, k)
      PROVE  merkelize(row, pos) = [root |-> v[k].row[1], proof |-> v[k].proof]
  <2> DEFINE first(j) == Len(v[j].row) = 1 /\ \A i \in 0 .. j - 1 : Len(v[i].row) # 1
             last == CHOOSE j \in 0 .. n : first(j)
  <2>1. k \in 0 .. n /\ first(k)
    BY <1>6 DEF Returns, n, v
  <2>2. last \in 0 .. n /\ first(last)
    <3> HIDE DEF first
    <3>1. QED  BY <2>1
  <2>3. last = k
    <3> HIDE DEF last
    <3>1. ~(last < k) /\ ~(k < last)
      BY <1>1, <2>1, <2>2, SMTT(60)
    <3>2. QED  BY <1>1, <2>1, <2>2, <3>1, SMTT(60)
  <2>4. merkelize(row, pos) = [root |-> v[last].row[1], proof |-> v[last].proof]
    <3>1. Len(row) # 0
      BY <1>1, SMTT(60) DEF n
    <3>2. QED  BY <3>1 DEF merkelize, n, v
  <2>5. QED  BY <2>3, <2>4
<1>7. QED  BY <1>5, <1>6 DEF v

\* The turn at which the loop returns does not depend on the position, so every proof of
\* merkle_proof comes with the root that the pallet commits.
LEMMA RootIsOne ==
    ASSUME NEW S, NEW row \in Seq(S), NEW p \in 0 .. Len(row) - 1, NEW q \in 0 .. Len(row) - 1
    PROVE  merkelize(row, p).root = merkelize(row, q).root
<1>1. PICK k : Returns(row, p, k)
  BY LoopReturns
<1>2. \A j \in 0 .. Len(row) : turns(row, p)[j].row = turns(row, q)[j].row
  BY RowsAreOne, SMTT(60)
<1>3. k \in 0 .. Len(row) /\ \A j \in 0 .. k - 1 : j \in 0 .. Len(row)
  BY <1>1, SMTT(60) DEF Returns
<1>4. Returns(row, q, k)
  BY <1>1, <1>2, <1>3 DEF Returns
<1>5. merkelize(row, p) = [root |-> turns(row, p)[k].row[1], proof |-> turns(row, p)[k].proof]
  BY <1>1, LoopReturns
<1>6. merkelize(row, q) = [root |-> turns(row, q)[k].row[1], proof |-> turns(row, q)[k].proof]
  BY <1>4, LoopReturns
<1>7. QED  BY <1>2, <1>3, <1>5, <1>6, SMTT(60)

\* What the pallet proves, Ethereum accepts: for any row of leaves, duplicates or not,
\* and any index, the proof leads from the leaf to the root.
LEMMA ProofLeadsToRoot ==
    ASSUME NEW S, NEW row \in Seq(S), NEW pos \in 0 .. Len(row) - 1
    PROVE  processProof(merkle_proof(row, pos).proof, row[pos + 1]) = merkle_root(row)
<1> DEFINE v == turns(row, pos)
           leaf == row[pos + 1]
<1>1. PICK k : Returns(row, pos, k)
  BY LoopReturns
<1>2. merkelize(row, pos) = [root |-> v[k].row[1], proof |-> v[k].proof]
  BY <1>1, LoopReturns
<1>3. k \in 0 .. Len(row) /\ Len(v[k].row) = 1
  BY <1>1 DEF Returns
<1>4. Sound(v[k], leaf)
  BY <1>3, TurnsAreSound
<1>5. Leads(v[k], leaf)
  BY <1>4 DEF Sound
<1> HIDE DEF v, leaf
<1>6. processProof(v[k].proof, leaf) = v[k].row[1]
  BY <1>3, <1>5, SMTT(60) DEF Leads
<1>7. 0 \in 0 .. Len(row) - 1
  BY SMTT(60)
<1>8. merkelize(row, pos).root = merkelize(row, 0).root
  BY <1>7, RootIsOne
<1>9. QED  BY <1>2, <1>6, <1>8, SMTT(60) DEF merkle_proof, merkle_root, leaf

\* The powers of two that depth counts.
powers(n) == CHOOSE f : f = [d \in 0 .. n |-> IF d = 0 THEN 1 ELSE 2 * f[d - 1]]

\* They start with one, and double.
LEMMA PowersAre ==
    ASSUME NEW n \in Nat
    PROVE  /\ powers(n)[0] = 1
           /\ \A d \in 1 .. n : powers(n)[d] = 2 * powers(n)[d - 1]
           /\ \A d \in 0 .. n : powers(n)[d] \in Nat /\ powers(n)[d] > 0
<1> DEFINE body(f) == [d \in 0 .. n |-> IF d = 0 THEN 1 ELSE 2 * f[d - 1]]
           upTo(f, k) == f[0] = 1 /\ \A d \in 1 .. k : f[d] = 2 * f[d - 1]
           P == {k \in 0 .. n : \E f : upTo(f, k)}
<1>1. 0 \in P
  <2>1. upTo([d \in 0 .. n |-> 1], 0)
    BY SMTT(60)
  <2> HIDE DEF upTo
  <2>2. QED  BY <2>1, SMTT(60)
<1>2. ASSUME NEW k \in 1 .. n, k - 1 \in P PROVE k \in P
  <2>1. PICK f : upTo(f, k - 1)
    BY <1>2
  <2> DEFINE g == [d \in 0 .. n |-> IF d = k THEN 2 * f[k - 1] ELSE f[d]]
  <2>2. g[k] = 2 * f[k - 1] /\ \A d \in 0 .. k - 1 : g[d] = f[d]
    BY SMTT(60)
  <2> HIDE DEF g
  <2>3. upTo(g, k)
    BY <2>1, <2>2, SMTT(60)
  <2> HIDE DEF upTo
  <2>4. QED  BY <2>3, SMTT(60)
<1>3. PICK f : upTo(f, n)
  <2> HIDE DEF P
  <2>1. \A k \in 1 .. n : k - 1 \in P => k \in P
    BY <1>2
  <2>2. n \in P
    BY <1>1, <2>1, UpTo, SMTT(60)
  <2>3. QED  BY <2>2 DEF P
<1> DEFINE h == [d \in 0 .. n |-> f[d]]
<1>4. h = body(h)
  BY <1>3, SMTT(60)
<1>5. powers(n) = body(powers(n))
  <2> HIDE DEF h, body
  <2>1. \E g : g = body(g)
    BY <1>4
  <2>2. powers(n) = CHOOSE g : g = body(g)
    BY DEF powers, body
  <2>3. QED  BY <2>1, <2>2
<1>6. powers(n)[0] = 1 /\ \A d \in 1 .. n : powers(n)[d] = 2 * powers(n)[d - 1]
  <2> DEFINE p == powers(n)
  <2> HIDE DEF p
  <2>1. p = [d \in 0 .. n |-> IF d = 0 THEN 1 ELSE 2 * p[d - 1]]
    BY <1>5 DEF p
  <2>2. p[0] = 1 /\ \A d \in 1 .. n : p[d] = 2 * p[d - 1]
    BY <2>1, SMTT(60)
  <2>3. QED  BY <2>2 DEF p
<1>7. \A d \in 0 .. n : powers(n)[d] \in Nat /\ powers(n)[d] > 0
  <2> DEFINE Q == {d \in 0 .. n : powers(n)[d] \in Nat /\ powers(n)[d] > 0}
  <2>1. 0 \in Q /\ \A k \in 1 .. n : k - 1 \in Q => k \in Q
    BY <1>6, SMTT(60)
  <2> HIDE DEF Q
  <2>2. 0 .. n \subseteq Q
    BY <2>1, UpTo
  <2>3. QED  BY <2>2 DEF Q
<1>8. QED  BY <1>6, <1>7

\* The length m of the row after k turns from n leaves is n / 2^k, rounded up.
LEMMA HalvedUp ==
    ASSUME NEW n \in Nat, NEW m \in Nat, NEW q \in Nat, NEW p \in Nat,
           n <= m * p, (m - 1) * p < n, m > 0, q = (m + 1) \div 2
    PROVE  n <= q * (2 * p) /\ (q - 1) * (2 * p) < n
<1>1. m <= 2 * q /\ 2 * q <= m + 1
  BY SMTT(60)
<1>2. m * p <= (2 * q) * p
  BY <1>1, SMTT(60)
<1>3. (2 * q - 2) * p <= (m - 1) * p
  BY <1>1, SMTT(60)
<1>4. (2 * q) * p = q * (2 * p) /\ (2 * q - 2) * p = (q - 1) * (2 * p)
  BY SMTT(60)
<1>5. QED  BY <1>2, <1>3, <1>4, SMTT(60)

\* The relayer's depth is the number of turns of the pallet's loop.
LEMMA DepthIsTurns ==
    ASSUME NEW S, NEW row \in Seq(S), NEW pos \in 0 .. Len(row) - 1, NEW k, Returns(row, pos, k)
    PROVE  depth(Len(row)) = k
<1> DEFINE n == Len(row)
           v == turns(row, pos)
           p == powers(n)
           len(j) == Len(v[j].row)
           Q == {j \in 0 .. n : n <= len(j) * p[j] /\ (len(j) - 1) * p[j] < n}
<1>1. n \in Nat /\ n > 0
  BY SMTT(60)
<1>2. /\ v[0] = [row |-> row, position |-> pos, proof |-> <<>>]
      /\ \A j \in 1 .. n : v[j] = move_up(v[j - 1])
  BY <1>1, TurnsAre
<1>3. \A j \in 0 .. n : Sound(v[j], row[pos + 1])
  BY TurnsAreSound
<1>4. /\ p[0] = 1 /\ \A j \in 1 .. n : p[j] = 2 * p[j - 1]
      /\ \A j \in 0 .. n : p[j] \in Nat /\ p[j] > 0
  BY <1>1, PowersAre
<1>5. k \in 0 .. n /\ len(k) = 1 /\ \A j \in 0 .. k - 1 : len(j) # 1
  BY DEF Returns
<1>6. len(0) = n
  BY <1>2, SMTT(60)
<1> HIDE DEF v, p
<1>7. \A j \in 0 .. n : len(j) \in Nat /\ len(j) > 0
  BY <1>3, NextIsSound
<1>8. \A j \in 1 .. n : len(j) = (len(j - 1) + 1) \div 2
  <2>1. SUFFICES ASSUME NEW j \in 1 .. n PROVE len(j) = (len(j - 1) + 1) \div 2
    OBVIOUS
  <2>2. j - 1 \in 0 .. n
    BY <1>1, SMTT(60)
  <2>3. Sound(v[j - 1], row[pos + 1]) /\ v[j] = move_up(v[j - 1])
    BY <1>2, <1>3, <2>2
  <2>4. QED  BY <2>3, NextIsSound
<1> HIDE DEF n, len
<1>9. 0 .. n \subseteq Q
  <2>1. 0 \in Q
    BY <1>1, <1>4, <1>6, SMTT(60)
  <2>2. ASSUME NEW j \in 1 .. n, j - 1 \in Q PROVE j \in Q
    <3>1. j - 1 \in 0 .. n /\ j \in 0 .. n
      BY <1>1, SMTT(60)
    <3>2. /\ len(j - 1) \in Nat /\ len(j - 1) > 0 /\ len(j) \in Nat /\ p[j - 1] \in Nat
          /\ len(j) = (len(j - 1) + 1) \div 2 /\ p[j] = 2 * p[j - 1]
      BY <1>4, <1>7, <1>8, <3>1
    <3>3. n <= len(j - 1) * p[j - 1] /\ (len(j - 1) - 1) * p[j - 1] < n
      BY <2>2
    <3>4. n <= len(j) * (2 * p[j - 1]) /\ (len(j) - 1) * (2 * p[j - 1]) < n
      BY <1>1, <3>2, <3>3, HalvedUp
    <3>5. QED  BY <3>1, <3>2, <3>4
  <2> HIDE DEF Q
  <2>3. \A j \in 1 .. n : j - 1 \in Q => j \in Q
    BY <2>2
  <2>4. QED  BY <1>1, <2>1, <2>3, UpTo
<1>10. n <= p[k]
  <2>1. n <= len(k) * p[k] /\ p[k] \in Nat
    BY <1>4, <1>5, <1>9
  <2>2. QED  BY <1>5, <2>1, SMTT(60)
<1>11. ASSUME NEW e \in 0 .. k - 1 PROVE p[e] < n
  <2>1. e \in 0 .. n
    BY <1>1, <1>5, SMTT(60)
  <2>2. (len(e) - 1) * p[e] < n /\ p[e] \in Nat /\ len(e) \in Nat /\ len(e) > 0 /\ len(e) # 1
    BY <1>4, <1>5, <1>7, <1>9, <2>1
  <2>3. 1 * p[e] <= (len(e) - 1) * p[e]
    BY <2>2, SMTT(60)
  <2>4. QED  BY <1>1, <2>2, <2>3, SMTT(60)
<1>12. depth(n) = k
  <2> DEFINE fits(d) == n <= p[d] /\ \A e \in 0 .. d - 1 : p[e] < n
             c == CHOOSE d \in 0 .. n : fits(d)
  <2>1. depth(n) = c
    BY DEF depth, p, powers
  <2>2. fits(k)
    BY <1>10, <1>11
  <2>3. c \in 0 .. n /\ fits(c)
    <3> HIDE DEF fits
    <3>1. QED  BY <1>5, <2>2
  <2>4. c = k
    <3> HIDE DEF c
    <3>1. \A e \in 0 .. n : p[e] \in Nat
      BY <1>4
    <3>2. ~(c < k) /\ ~(k < c)
      BY <1>1, <1>5, <2>2, <2>3, <3>1, SMTT(60)
    <3>3. QED  BY <1>1, <1>5, <2>3, <3>2, SMTT(60)
  <2>5. QED  BY <2>1, <2>4
<1>13. QED  BY <1>12 DEF n

\* A level of the relayer's tree is hashed as a row of the pallet's.
LEMMA LevelIsRow ==
    ASSUME NEW S, NEW row \in Seq(S)
    PROVE  nextLevel(row) = merkelize_row(row)
<1> DEFINE n == Len(row)
           m == n \div 2
<1>1. n \in Nat
  BY SMTT(60)
<1> HIDE DEF n
<1>2. m + (n % 2) = (n + 1) \div 2
  BY <1>1, SMTT(60)
<1>3. \A k \in 1 .. (n + 1) \div 2 : (k <= m <=> 2 * k <= n) /\ (~(k <= m) => 2 * k - 1 = n)
  BY <1>1, SMTT(60)
<1> HIDE DEF n, m
<1>4. nextLevel(row) = [k \in 1 .. m + (n % 2) |->
                            IF k <= m THEN Hash(row[2 * k - 1], row[2 * k]) ELSE row[n]]
  BY DEF nextLevel, n, m
<1>5. merkelize_row(row) = [k \in 1 .. (n + 1) \div 2 |->
          IF 2 * k <= n THEN Hash(row[2 * k - 1], row[2 * k]) ELSE row[2 * k - 1]]
  BY DEF merkelize_row, n
<1>6. QED  BY <1>2, <1>3, <1>4, <1>5

\* A level adds to the relayer's path what a row adds to the pallet's proof.
LEMMA SiblingIsVisit ==
    ASSUME NEW S, NEW row \in Seq(S), NEW pos \in 0 .. Len(row) - 1
    PROVE  sibling(row, pos) = visit(row, pos)
<1> DEFINE n == Len(row)
<1>1. n \in Nat /\ pos \in Nat /\ pos < n /\ pos % 2 \in {0, 1} /\ n % 2 \in {0, 1}
  BY SMTT(60)
<1>2. CASE pos % 2 = 1
  <2>1. ~(pos = n - 1 /\ n % 2 # 0) /\ pos - (pos % 2) + 1 = pos /\ pos # pos - (pos % 2)
    BY <1>1, <1>2, SMTT(60)
  <2>2. QED  BY <1>2, <2>1, SMTT(60) DEF sibling, visit
<1>3. CASE pos % 2 = 0
  <2>1. pos - (pos % 2) = pos
    BY <1>1, <1>3, SMTT(60)
  <2>2. (pos = n - 1 /\ n % 2 # 0) <=> ~(pos + 2 <= n)
    BY <1>1, <1>3, SMTT(60)
  <2>3. QED  BY <1>3, <2>1, <2>2 DEF sibling, visit
<1>4. QED  BY <1>1, <1>2, <1>3

\* The levels of the relayer's tree are the rows of the pallet's, the last one first.
LEMMA TreeIs ==
    ASSUME NEW S, NEW row \in Seq(S), NEW pos \in 0 .. Len(row) - 1, NEW k, Returns(row, pos, k)
    PROVE  Tree(row) = [i \in 1 .. k + 1 |-> turns(row, pos)[k + 1 - i].row]
<1> DEFINE n == Len(row)
           v == turns(row, pos)
           body(f) == [j \in 0 .. k |-> IF j = 0 THEN row ELSE nextLevel(f[j - 1])]
           h == [j \in 0 .. k |-> v[j].row]
           up == CHOOSE f : f = body(f)
           P == {j \in 0 .. k : up[j] = v[j].row}
<1>1. n \in Nat /\ k \in 0 .. n /\ k \in Nat
  BY SMTT(60) DEF Returns
<1>2. /\ v[0] = [row |-> row, position |-> pos, proof |-> <<>>]
      /\ \A j \in 1 .. n : v[j] = move_up(v[j - 1])
  BY <1>1, TurnsAre
<1>3. \A j \in 0 .. n : Sound(v[j], row[pos + 1])
  BY TurnsAreSound
<1> HIDE DEF v
<1>4. ASSUME NEW j \in 1 .. k PROVE v[j].row = nextLevel(v[j - 1].row)
  <2>1. j - 1 \in 0 .. n /\ j \in 1 .. n
    BY <1>1, SMTT(60)
  <2>2. PICK T : v[j - 1].row \in Seq(T)
    BY <1>3, <2>1 DEF Sound
  <2>3. v[j].row = merkelize_row(v[j - 1].row)
    <3>1. v[j] = move_up(v[j - 1])
      BY <1>2, <2>1
    <3>2. \A u : move_up(u).row = merkelize_row(u.row)
      BY DEF move_up
    <3>3. QED  BY <3>1, <3>2
  <2>4. QED  BY <2>2, <2>3, LevelIsRow
<1>5. h = body(h)
  <2>1. v[0].row = row
    BY <1>2, SMTT(60)
  <2>2. QED  BY <1>1, <1>4, <2>1, SMTT(60)
<1>6. up = body(up)
  <2> HIDE DEF h, body
  <2>1. \E f : f = body(f)
    BY <1>5
  <2>2. QED  BY <2>1
<1>7. depth(n) = k
  BY DepthIsTurns
<1>8. Tree(row) = [i \in 1 .. k + 1 |-> up[k + 1 - i]]
  BY <1>7, SMTT(60) DEF Tree
<1> HIDE DEF up
<1>9. up[0] = row /\ \A j \in 1 .. k : up[j] = nextLevel(up[j - 1])
  BY <1>1, <1>6, SMTT(60)
<1>10. 0 .. k \subseteq P
  <2>1. 0 \in P
    BY <1>1, <1>2, <1>9, SMTT(60)
  <2>2. ASSUME NEW j \in 1 .. k, j - 1 \in P PROVE j \in P
    BY <1>1, <1>4, <1>9, <2>2, SMTT(60)
  <2> HIDE DEF P
  <2>3. \A j \in 1 .. k : j - 1 \in P => j \in P
    BY <2>2
  <2>4. QED  BY <1>1, <2>1, <2>3, UpTo
<1>11. \A i \in 1 .. k + 1 : up[k + 1 - i] = v[k + 1 - i].row
  BY <1>1, <1>10, SMTT(60)
<1>12. QED  BY <1>8, <1>11 DEF v

\* The relayer finds its leaf in the last level, the first if there are several.
LEMMA FindIndexFinds ==
    ASSUME NEW S, NEW row \in Seq(S), NEW pos \in 0 .. Len(row) - 1
    PROVE  /\ findIndex(Tree(row), row[pos + 1]) \in 0 .. Len(row) - 1
           /\ row[findIndex(Tree(row), row[pos + 1]) + 1] = row[pos + 1]
<1> DEFINE n == Len(row)
           v == turns(row, pos)
           leaf == row[pos + 1]
           P == {i \in 0 .. n - 1 : row[i + 1] = leaf}
           first(i) == row[i + 1] = leaf /\ \A j \in 0 .. i - 1 : row[j + 1] # leaf
           c == CHOOSE i \in 0 .. n - 1 : first(i)
<1>1. PICK k : Returns(row, pos, k)
  BY LoopReturns
<1>2. n \in Nat /\ k \in 0 .. n /\ k \in Nat
  BY <1>1, SMTT(60) DEF Returns
<1>3. Tree(row) = [i \in 1 .. k + 1 |-> v[k + 1 - i].row]
  BY <1>1, TreeIs
<1>4. v[0] = [row |-> row, position |-> pos, proof |-> <<>>]
  BY <1>2, TurnsAre
<1> HIDE DEF v
<1>5. Len(Tree(row)) = k + 1
  BY <1>2, <1>3, SMTT(60)
<1>6. Tree(row)[Depth(Tree(row)) + 1] = row
  <2>1. k + 1 - 1 + 1 = k + 1 /\ k + 1 \in 1 .. k + 1 /\ k + 1 - (k + 1) = 0
    BY <1>2, SMTT(60)
  <2>2. Tree(row)[k + 1] = v[0].row
    BY <1>3, <2>1
  <2>3. Depth(Tree(row)) + 1 = k + 1
    BY <1>5, <2>1, SMTT(60) DEF Depth
  <2>4. v[0].row = row
    BY <1>4, SMTT(60)
  <2>5. QED  BY <2>2, <2>3, <2>4
<1>7. findIndex(Tree(row), leaf) = c
  <2> HIDE DEF leaf
  <2>1. QED  BY <1>6 DEF findIndex
<1>8. \E i \in 0 .. n - 1 : first(i)
  <2>1. pos \in P /\ pos \in Nat
    BY SMTT(60)
  <2>2. PICK i \in 0 .. pos : i \in P /\ \A j \in 0 .. i - 1 : j \notin P
    <3> HIDE DEF P
    <3>1. QED  BY <2>1, FirstOf
  <2>3. \A j \in 0 .. i - 1 : j \in 0 .. n - 1
    BY <1>2, <2>2, SMTT(60)
  <2>4. QED  BY <2>2, <2>3
<1>9. c \in 0 .. n - 1 /\ first(c)
  <2> HIDE DEF first
  <2>1. QED  BY <1>8
<1>10. QED  BY <1>7, <1>9

\* The relayer's path is the pallet's proof of the leaf it finds.
LEMMA PathIs ==
    ASSUME NEW S, NEW row \in Seq(S), NEW leaf, NEW pos \in 0 .. Len(row) - 1,
           findIndex(Tree(row), leaf) = pos
    PROVE  MerklePath(Tree(row), leaf) = merkle_proof(row, pos).proof
<1> DEFINE n == Len(row)
           v == turns(row, pos)
           levels == Tree(row)
<1>1. PICK k : Returns(row, pos, k)
  BY LoopReturns
<1> DEFINE body(f) == [j \in 0 .. k |-> IF j = 0 THEN [index |-> pos, path |-> <<>>]
                                        ELSE climb(levels[k + 2 - j], f[j - 1])]
           step(j) == [index |-> v[j].position, path |-> v[j].proof]
           h == [j \in 0 .. k |-> step(j)]
           at == CHOOSE f : f = body(f)
           P == {j \in 0 .. k : at[j] = step(j)}
<1>2. n \in Nat /\ k \in 0 .. n /\ k \in Nat
  BY <1>1, SMTT(60) DEF Returns
<1>3. /\ v[0] = [row |-> row, position |-> pos, proof |-> <<>>]
      /\ \A j \in 1 .. n : v[j] = move_up(v[j - 1])
  BY <1>2, TurnsAre
<1>4. \A j \in 0 .. n : Sound(v[j], row[pos + 1])
  BY TurnsAreSound
<1>5. levels = [i \in 1 .. k + 1 |-> v[k + 1 - i].row]
  BY <1>1, TreeIs, SMTT(60)
<1>6. merkle_proof(row, pos).proof = v[k].proof
  BY <1>1, LoopReturns, SMTT(60) DEF merkle_proof
<1> HIDE DEF v, levels
<1>7. Depth(levels) = k
  BY <1>2, <1>5, SMTT(60) DEF Depth
<1>8. MerklePath(levels, leaf) = at[k].path
  <2>1. findIndex(levels, leaf) = pos
    BY DEF levels
  <2>2. QED  BY <1>7, <2>1 DEF MerklePath
<1>9. ASSUME NEW j \in 1 .. k PROVE climb(levels[k + 2 - j], step(j - 1)) = step(j)
  <2>1. j - 1 \in 0 .. n /\ j \in 1 .. n
    BY <1>2, SMTT(60)
  <2>2. levels[k + 2 - j] = v[j - 1].row
    <3>1. k + 2 - j \in 1 .. k + 1 /\ k + 1 - (k + 2 - j) = j - 1
      BY <1>2, SMTT(60)
    <3>2. QED  BY <1>5, <3>1
  <2>3. PICK T : v[j - 1].row \in Seq(T) /\ v[j - 1].position \in 0 .. Len(v[j - 1].row) - 1
    BY <1>4, <2>1 DEF Sound, Leads
  <2>4. sibling(v[j - 1].row, v[j - 1].position) = visit(v[j - 1].row, v[j - 1].position)
    BY <2>3, SiblingIsVisit
  <2>5. v[j] = move_up(v[j - 1])
    BY <1>3, <2>1
  <2>6. /\ v[j].position = v[j - 1].position \div 2
        /\ v[j].proof = v[j - 1].proof \o visit(v[j - 1].row, v[j - 1].position)
    <3>1. \A u : /\ move_up(u).position = u.position \div 2
                 /\ move_up(u).proof = u.proof \o visit(u.row, u.position)
      BY DEF move_up
    <3>2. QED  BY <2>5, <3>1
  <2>7. QED  BY <2>2, <2>4, <2>6 DEF climb
<1>10. step(0) = [index |-> pos, path |-> <<>>]
  BY <1>3, SMTT(60)
<1> HIDE DEF step
<1>11. h = body(h)
  BY <1>2, <1>9, <1>10, SMTT(60)
<1>12. at = body(at)
  <2> HIDE DEF h, body
  <2>1. \E f : f = body(f)
    BY <1>11
  <2>2. QED  BY <2>1
<1> HIDE DEF at
<1>13. at[0] = step(0) /\ \A j \in 1 .. k : at[j] = climb(levels[k + 2 - j], at[j - 1])
  BY <1>2, <1>10, <1>12, SMTT(60)
<1>14. 0 .. k \subseteq P
  <2>1. 0 \in P
    BY <1>2, <1>13, SMTT(60)
  <2>2. ASSUME NEW j \in 1 .. k, j - 1 \in P PROVE j \in P
    <3>1. at[j - 1] = step(j - 1)
      BY <2>2
    <3>2. at[j] = climb(levels[k + 2 - j], step(j - 1))
      BY <1>13, <3>1
    <3>3. j \in 0 .. k
      BY <1>2, SMTT(60)
    <3>4. QED  BY <1>9, <3>2, <3>3
  <2> HIDE DEF P
  <2>3. \A j \in 1 .. k : j - 1 \in P => j \in P
    BY <2>2
  <2>4. QED  BY <1>2, <2>1, <2>3, UpTo
<1>15. at[k].path = v[k].proof
  <2>1. k \in 0 .. k
    BY <1>2, SMTT(60)
  <2>2. at[k] = step(k)
    BY <1>14, <2>1
  <2>3. QED  BY <2>2, SMTT(60) DEF step
<1>16. QED  BY <1>6, <1>8, <1>15 DEF levels

\* The two trees agree on every row of leaves, whatever its length and with duplicates:
\* the relayer's root is the pallet's, and for each leaf the pallet's proof and the
\* relayer's path both lead there by the hashing that Ethereum does.
THEOREM EveryTreeProofVerifies ==
    ASSUME NEW S, NEW row \in Seq(S), NEW pos \in 0 .. Len(row) - 1
    PROVE  /\ processProof(merkle_proof(row, pos).proof, row[pos + 1]) = merkle_root(row)
           /\ Root(Tree(row)) = merkle_root(row)
           /\ processProof(MerklePath(Tree(row), row[pos + 1]), row[pos + 1]) = merkle_root(row)
<1> DEFINE leaf == row[pos + 1]
           at == findIndex(Tree(row), leaf)
<1>1. processProof(merkle_proof(row, pos).proof, leaf) = merkle_root(row)
  BY ProofLeadsToRoot
<1>2. Root(Tree(row)) = merkle_root(row)
  <2>1. 0 \in 0 .. Len(row) - 1
    BY SMTT(60)
  <2>2. PICK k : Returns(row, 0, k)
    BY <2>1, LoopReturns
  <2> DEFINE v == turns(row, 0)
  <2>3. merkelize(row, 0) = [root |-> v[k].row[1], proof |-> v[k].proof]
    BY <2>1, <2>2, LoopReturns
  <2>4. Tree(row) = [i \in 1 .. k + 1 |-> v[k + 1 - i].row]
    BY <2>1, <2>2, TreeIs
  <2>5. k \in Nat
    BY <2>2, SMTT(60) DEF Returns
  <2> HIDE DEF v
  <2>6. Tree(row)[1] = v[k].row
    <3>1. 1 \in 1 .. k + 1 /\ k + 1 - 1 = k
      BY <2>5, SMTT(60)
    <3>2. QED  BY <2>4, <3>1
  <2>7. QED  BY <2>3, <2>6, SMTT(60) DEF Root, merkle_root
<1>3. at \in 0 .. Len(row) - 1 /\ row[at + 1] = leaf
  BY FindIndexFinds, SMTT(60)
<1>4. MerklePath(Tree(row), leaf) = merkle_proof(row, at).proof
  BY <1>3, PathIs
<1>5. processProof(merkle_proof(row, at).proof, row[at + 1]) = merkle_root(row)
  BY <1>3, ProofLeadsToRoot
<1>6. QED  BY <1>1, <1>2, <1>3, <1>4, <1>5

\* The leaf to prove is one of the leaves.
Within == leaves \in Nat \ {0} /\ position \in 0 .. leaves - 1

\* What every enumerated tree shows is what holds of every row.
LEMMA WithinVerifies == Within => TreeProofsVerify
<1> SUFFICES ASSUME Within PROVE TreeProofsVerify
  OBVIOUS
<1> DEFINE S == {Leaf(i - 1) : i \in 1 .. leaves}
           root == merkle_root(Leaves)
           stored == [r \in {root} |-> Leaves]
<1>1. leaves \in Nat /\ position \in 0 .. leaves - 1 /\ leaves > 0
  BY SMTT(60) DEF Within
<1>2. Leaves \in Seq(S) /\ Len(Leaves) = leaves /\ Leaves[position + 1] = Leaf(position)
  <2>1. Leaves \in Seq(S) /\ Len(Leaves) = leaves
    <3>1. \A i \in 1 .. leaves : Leaf(i - 1) \in S
      OBVIOUS
    <3> HIDE DEF S
    <3>2. Leaves \in [1 .. leaves -> S]
      BY <3>1 DEF Leaves
    <3>3. QED  BY <1>1, <3>2, SMTT(60)
  <2>2. position + 1 \in 1 .. leaves /\ (position + 1) - 1 = position
    BY <1>1, SMTT(60)
  <2>3. \A i \in 1 .. leaves : Leaves[i] = Leaf(i - 1)
    BY DEF Leaves
  <2>4. Leaves[position + 1] = Leaf((position + 1) - 1)
    BY <2>2, <2>3
  <2>5. QED  BY <2>1, <2>2, <2>4
<1> HIDE DEF S
<1>3. /\ processProof(merkle_proof(Leaves, position).proof, Leaf(position)) = root
      /\ Root(Tree(Leaves)) = root
      /\ processProof(MerklePath(Tree(Leaves), Leaf(position)), Leaf(position)) = root
  BY <1>1, <1>2, EveryTreeProofVerifies
<1> HIDE DEF root
<1>4. root \in DOMAIN stored /\ stored[root] = Leaves
  OBVIOUS
<1> HIDE DEF stored
<1>5. get_merkle_proof(stored, root, position) = merkle_proof(Leaves, position)
  <2>1. ~(position >= Len(Leaves))
    BY <1>1, <1>2, SMTT(60)
  <2>2. QED  BY <1>4, <2>1 DEF get_merkle_proof
<1>6. get_merkle_proof(stored, root, leaves) = NoProof
  <2>1. leaves >= Len(Leaves)
    BY <1>1, <1>2, SMTT(60)
  <2>2. QED  BY <1>4, <2>1 DEF get_merkle_proof
<1>7. verify_proof(root, get_merkle_proof(stored, root, position).proof, leaves, position, Leaf(position))
  BY <1>1, <1>3, <1>5, SMTT(60) DEF verify_proof
<1>8. PalletProofVerifies
  BY <1>6, <1>7 DEF PalletProofVerifies, root, stored
<1>9. RelayerTreeAgrees
  BY <1>3 DEF RelayerTreeAgrees, root
<1>10. QED  BY <1>8, <1>9 DEF TreeProofsVerify

\* Every message proof of the pallet and every parachain head's path of the relayer
\* leads to the root the other side holds, for any number of leaves.
THEOREM TreeProofsAlwaysVerify == TreeSpec => []TreeProofsVerify
<1>1. TreeInit => Within
  BY SMTT(60) DEF TreeInit, Within
<1>2. Within /\ [TreeNext]_<<leaves, position>> => Within'
  BY SMTT(60) DEF Within, TreeNext
<1>3. Within => TreeProofsVerify
  BY WithinVerifies
<1>4. QED  BY <1>1, <1>2, <1>3, PTL DEF TreeSpec

----------------------------------------------------------------------------
(* Delivery                                                                *)

Blocks == [messages : Seq(Out!Message), nonce : [Sources -> 0 .. MaxNonce]]

ChannelInv ==
    /\ messageQueue \in Seq(Out!Message)
    /\ paraNonce \in [Sources -> 0 .. MaxNonce]
    /\ paraBlocks \in Seq(Blocks)
    /\ beefyHead \in 0 .. Len(paraBlocks)
    /\ ethNonce \in [Sources -> Nat]
    /\ dispatched \in [Sources -> Seq(Out!Message)]
    /\ DispatchedOnceInOrder

\* What a root makes provable stays provable when the parachain grows and when a
\* later root arrives.
LEMMA CommittedGrows ==
    ASSUME ChannelInv, paraBlocks' \in Seq(Blocks),
           beefyHead' \in beefyHead .. Len(paraBlocks'),
           \A i \in 1 .. Len(paraBlocks) : paraBlocks'[i] = paraBlocks[i]
    PROVE  Committed(beefyHead) \subseteq Committed(beefyHead)'
<1>1. SUFFICES ASSUME NEW m \in Committed(beefyHead) PROVE m \in Committed(beefyHead)'
  OBVIOUS
<1>2. PICK i \in 1 .. beefyHead : \E j \in DOMAIN paraBlocks[i].messages :
          m = paraBlocks[i].messages[j]
  BY DEF Committed
<1>3. i \in 1 .. beefyHead' /\ paraBlocks'[i] = paraBlocks[i]
  BY SMTT(60) DEF ChannelInv
<1>4. m \in Out!Message
  BY DEF Committed
<1>5. QED  BY <1>2, <1>3, <1>4 DEF Committed, Out!Message

\* Nothing is committed and nothing dispatched at first.
LEMMA InitChannelInv == ASSUME MaxNonce \in Nat, Init PROVE ChannelInv
  BY SMTT(60) DEF Init, ChannelInv, DispatchedOnceInOrder, Out!OutboundInit, In!InboundInit, Blocks

\* A message sent or a block sealed keeps what was committed before it.
LEMMA ParachainInv == ASSUME MaxNonce \in Nat, ChannelInv, Parachain PROVE ChannelInv'
<1> USE DEF ChannelInv
<1>1. /\ messageQueue' \in Seq(Out!Message)
      /\ paraNonce' \in [Sources -> 0 .. MaxNonce]
      /\ paraBlocks' \in Seq(Blocks)
      /\ Len(paraBlocks) <= Len(paraBlocks')
      /\ \A i \in 1 .. Len(paraBlocks) : paraBlocks'[i] = paraBlocks[i]
  <2>1. CASE \E s \in Sources : Out!submit(s)
    BY <2>1, SMTT(60) DEF Out!submit, Out!Message
  <2>2. CASE Out!on_idle
    <3>0. <<>> \in Seq(Out!Message)
      BY SMTT(60)
    <3>1. PICK c \in Seq(Out!Message) :
              paraBlocks' = Append(paraBlocks, [messages |-> c, nonce |-> paraNonce])
      <4>1. CASE Out!commit  BY <4>1 DEF Out!commit, Out!sealBlock
      <4>2. CASE Out!skipCommit  BY <3>0, <4>2 DEF Out!skipCommit, Out!sealBlock
      <4>3. QED  BY <2>2, <4>1, <4>2 DEF Out!on_idle
    <3>2. [messages |-> c, nonce |-> paraNonce] \in Blocks
      BY DEF Blocks
    <3>3. messageQueue' \in Seq(Out!Message) /\ paraNonce' = paraNonce
      <4>1. CASE Out!commit  BY <3>0, <4>1 DEF Out!commit
      <4>2. CASE Out!skipCommit  BY <4>2 DEF Out!skipCommit
      <4>3. QED  BY <2>2, <4>1, <4>2 DEF Out!on_idle
    <3>4. QED  BY <3>1, <3>2, <3>3, SMTT(60)
  <2>3. QED  BY <2>1, <2>2 DEF Parachain
<1>2. UNCHANGED <<ethNonce, dispatched, beefyHead>>
  BY DEF Parachain, inVars
<1>3. Committed(beefyHead) \subseteq Committed(beefyHead)'
  BY <1>1, <1>2, CommittedGrows, SMTT(60)
<1>4. QED  BY <1>1, <1>2, <1>3, SMTT(60) DEF DispatchedOnceInOrder

\* A new root proves at least what the old one proved.
LEMMA NewMMRRootInv ==
    ASSUME NEW head \in 0 .. MaxParaBlocks, ChannelInv, NewMMRRoot(head) PROVE ChannelInv'
<1> USE DEF ChannelInv
<1>1. UNCHANGED <<messageQueue, paraNonce, paraBlocks, ethNonce, dispatched>>
  BY DEF NewMMRRoot, outVars, inVars
<1>2. beefyHead' \in beefyHead .. Len(paraBlocks')
  BY <1>1 DEF NewMMRRoot
<1>3. Committed(beefyHead) \subseteq Committed(beefyHead)'
  BY <1>1, <1>2, CommittedGrows
<1>4. QED  BY <1>1, <1>2, <1>3, SMTT(60) DEF DispatchedOnceInOrder

\* A transaction dispatches the next provable message of a source, or nothing.
LEMMA IncludeTxInv == ASSUME ChannelInv, IncludeTx PROVE ChannelInv'
<1> USE DEF ChannelInv
<1>1. UNCHANGED <<messageQueue, paraNonce, paraBlocks, beefyHead>>
  BY DEF IncludeTx, outVars
<1>2. Committed(beefyHead)' = Committed(beefyHead)
  BY <1>1 DEF Committed
<1>3. CASE UNCHANGED inVars
  BY <1>1, <1>2, <1>3, SMTT(60) DEF inVars, DispatchedOnceInOrder
<1>4. CASE In!submit(Head(mempool).message, provable(Head(mempool)))
  <2> DEFINE message == Head(mempool).message
             m == [source |-> message.source, nonce |-> message.nonce]
  <2>0. /\ In!leaf(message) \in provable(Head(mempool))
        /\ message.nonce = ethNonce[message.source] + 1
        /\ ethNonce' = [ethNonce EXCEPT ![message.source] = @ + 1]
        /\ dispatched' = [dispatched EXCEPT ![message.source] = Append(@, m)]
    BY <1>4 DEF In!submit, In!accepts, In!dispatch
  <2>1. m \in Committed(beefyHead) /\ m.nonce = ethNonce[m.source] + 1
    <3>1. PICK c \in Committed(beefyHead) : In!leaf(message) = Out!into(c)
      BY <2>0 DEF provable
    <3>2. message.source = c.source /\ message.nonce = c.nonce
      <4>1. /\ In!leaf(message).source[2] = message.source /\ Out!into(c).source[2] = c.source
            /\ In!leaf(message).nonce = message.nonce /\ Out!into(c).nonce = c.nonce
        BY SMTT(60) DEF In!leaf, Out!into
      <4>2. QED  BY <3>1, <4>1
    <3>3. c = [source |-> c.source, nonce |-> c.nonce]
      BY DEF Committed, Out!Message
    <3>4. QED  BY <2>0, <3>2, <3>3
  <2>2. m \in Out!Message
    BY <2>1 DEF Committed
  <2>3. m.source \in Sources /\ m = [source |-> m.source, nonce |-> ethNonce[m.source] + 1]
    BY <2>1, <2>2 DEF Out!Message
  <2>4. /\ ethNonce' = [ethNonce EXCEPT ![m.source] = @ + 1]
        /\ dispatched' = [dispatched EXCEPT ![m.source] = Append(@, m)]
    BY <2>0
  <2> HIDE DEF m, message
  <2>5. ethNonce' \in [Sources -> Nat] /\ dispatched' \in [Sources -> Seq(Out!Message)]
    BY <2>2, <2>3, <2>4, SMTT(60)
  <2>6. ASSUME NEW s \in Sources
        PROVE  /\ Len(dispatched'[s]) = ethNonce'[s]
               /\ \A i \in DOMAIN dispatched'[s] :
                      /\ dispatched'[s][i] = [source |-> s, nonce |-> i]
                      /\ dispatched'[s][i] \in Committed(beefyHead)
    <3>1. CASE s # m.source
      BY <2>4, <3>1 DEF DispatchedOnceInOrder
    <3>2. CASE s = m.source
      <4>1. dispatched'[s] = Append(dispatched[s], m) /\ ethNonce'[s] = ethNonce[s] + 1
        BY <2>4, <3>2
      <4>2. Len(dispatched[s]) = ethNonce[s] /\ dispatched[s] \in Seq(Out!Message)
        BY DEF DispatchedOnceInOrder
      <4>3. QED  BY <2>1, <2>2, <2>3, <3>2, <4>1, <4>2, SMTT(60) DEF DispatchedOnceInOrder
    <3>3. QED  BY <3>1, <3>2
  <2>7. QED  BY <1>1, <1>2, <2>5, <2>6, SMTT(60) DEF DispatchedOnceInOrder
<1>5. QED  BY <1>3, <1>4 DEF IncludeTx

\* No other step touches the channels.
LEMMA NextChannelInv ==
    ASSUME MaxNonce \in Nat, ChannelInv, [Next]_vars PROVE ChannelInv'
<1>1. CASE Parachain
  BY <1>1, ParachainInv
<1>2. CASE \E head \in 0 .. MaxParaBlocks : NewMMRRoot(head)
  BY <1>2, NewMMRRootInv
<1>3. CASE IncludeTx
  BY <1>3, IncludeTxInv
<1>4. CASE ListenerStep \/ WriterStep \/ Crash \/ Restart \/ UNCHANGED vars
  <2>1. UNCHANGED <<messageQueue, paraNonce, paraBlocks, beefyHead, ethNonce, dispatched>>
    BY <1>4 DEF ListenerStep, WriterStep, Crash, Restart, vars, outVars, inVars
  <2>2. Committed(beefyHead)' = Committed(beefyHead)
    BY <2>1 DEF Committed
  <2>3. QED  BY <2>1, <2>2, SMTT(60) DEF ChannelInv, DispatchedOnceInOrder
<1>5. QED  BY <1>1, <1>2, <1>3, <1>4 DEF Next

\* Whatever the relay does, and however many sources, blocks, crashes and races
\* there are, BasicInboundChannel.submit dispatches committed messages of finalized
\* blocks, each once and in nonce order.
THEOREM DispatchIsOnceInOrder ==
    ASSUME MaxNonce \in Nat PROVE Spec => []DispatchedOnceInOrder
<1>1. Init => ChannelInv
  BY InitChannelInv
<1>2. ChannelInv /\ [Next]_vars => ChannelInv'
  BY NextChannelInv
<1>3. ChannelInv => DispatchedOnceInOrder
  BY DEF ChannelInv
<1>4. QED  BY <1>1, <1>2, <1>3, PTL DEF Spec
=============================================================================

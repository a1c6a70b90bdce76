--------------------- MODULE EthereumLightClient_proofs ---------------------
(***************************************************************************)
(* The stores of the proof-of-work light client, for every tree of         *)
(* headers, every configuration and any number of resets: the index by     *)
(* number agrees with the headers while it is pruned piecemeal, pruning    *)
(* leaves nothing behind, and the best block is the heaviest header.       *)
(* These proofs use of the finalized block only that it is a stored one,   *)
(* which import_result demands.  Before them, recursion along the parents  *)
(* of a forest, and after them what ancestry makes of it: the facts about  *)
(* the lines of headers that EthereumLightClientChain_proofs builds on.    *)
(***************************************************************************)
EXTENDS EthereumLightClient, TLAPS, FiniteSetTheorems, WellFoundedInduction

\* Leaves are for Zenon; SMTT marks those that need arithmetic, sequences or records. A prover
\* may work a minute on a leaf, so that a busy machine checks the same proofs: few take seconds.
USE ZenonT(60)

\* Induction on the numbers up to n, with the numbers it holds of as a set.
LEMMA UpTo ==
    ASSUME NEW n \in Nat, NEW P, 0 \in P, \A k \in 1 .. n : k - 1 \in P => k \in P
    PROVE  0 .. n \subseteq P
<1> DEFINE S == (0 .. n) \ P
<1>1. SUFFICES ASSUME S # {} PROVE FALSE
  OBVIOUS
<1>2. PICK k \in S : \A j \in S : ~(<<j, k>> \in OpToRel(<, Nat))
  <2>1. S \in SUBSET Nat  BY SMTT(60)
  <2> HIDE DEF S
  <2>2. QED  BY <1>1, <2>1, NatLessThanWellFounded, WFMin
<1>3. \A j \in S : ~(j < k)
  <2>1. k \in Nat /\ \A j \in S : j \in Nat
    BY SMTT(60)
  <2> HIDE DEF S
  <2>2. QED  BY <1>2, <2>1 DEF OpToRel
<1>4. k \in 1 .. n /\ k - 1 \in 0 .. n
  BY SMTT(60)
<1>5. k - 1 \notin S
  BY <1>3, <1>4, SMTT(60)
<1>6. QED  BY <1>4, <1>5

\* A forest: every node that has a parent among the nodes is deeper than it.
Forest(nodes, parent, depth) ==
    /\ depth \in [nodes -> Nat]
    /\ \A x \in nodes : parent[x] \in nodes => depth[parent[x]] < depth[x]

\* s holds x and its ancestors, from child to parent, up to the first that is not in S.
IsLine(parent, S, s, x) ==
    /\ s \in Seq(S)
    /\ s = <<>> <=> x \notin S
    /\ s # <<>> => s[1] = x /\ parent[s[Len(s)]] \notin S
    /\ \A i \in 1 .. Len(s) - 1 : s[i + 1] = parent[s[i]]

\* The equation that defines the lines of all x by recursion.
Lines(f, dom, nodes, parent, S) ==
    f = [x \in dom |-> IF x \notin S THEN <<>>
                       ELSE <<x>> \o (IF parent[x] \in nodes THEN f[parent[x]] ELSE <<>>)]

\* Lines grow by a child.
LEMMA LineGrows ==
    ASSUME NEW parent, NEW S, NEW x \in S, NEW s, IsLine(parent, S, s, parent[x])
    PROVE  IsLine(parent, S, <<x>> \o s, x)
<1> DEFINE t == <<x>> \o s
<1>1. s \in Seq(S) /\ Len(s) \in Nat
  BY SMTT(60) DEF IsLine
<1>2. /\ t \in Seq(S) /\ Len(t) = Len(s) + 1 /\ t[1] = x
      /\ \A i \in 1 .. Len(s) : t[i + 1] = s[i]
  BY <1>1, SMTT(60)
<1>3. t # <<>>
  BY <1>1, <1>2, SMTT(60)
<1> HIDE DEF t
<1>4. parent[t[Len(t)]] \notin S
  <2>1. CASE s = <<>>
    BY <1>1, <1>2, <2>1, SMTT(60) DEF IsLine
  <2>2. CASE s # <<>>
    <3>1. Len(s) \in 1 .. Len(s)
      BY <1>1, <2>2, SMTT(60)
    <3>2. QED  BY <1>2, <2>2, <3>1 DEF IsLine
  <2>3. QED  BY <2>1, <2>2
<1>5. ASSUME NEW i \in 1 .. Len(t) - 1 PROVE t[i + 1] = parent[t[i]]
  <2>1. i \in 1 .. Len(s) /\ t[i + 1] = s[i]
    BY <1>1, <1>2, SMTT(60)
  <2>2. CASE i = 1
    <3>1. s # <<>>
      BY <1>1, <2>1, SMTT(60)
    <3>2. QED  BY <1>2, <2>1, <2>2, <3>1 DEF IsLine
  <2>3. CASE i # 1
    <3>1. i - 1 \in 1 .. Len(s) - 1 /\ i - 1 \in 1 .. Len(s) /\ (i - 1) + 1 = i
      BY <1>1, <2>1, <2>3, SMTT(60)
    <3>2. s[i] = parent[s[i - 1]]
      <4>1. s[(i - 1) + 1] = parent[s[i - 1]]
        BY <3>1 DEF IsLine
      <4>2. QED  BY <3>1, <4>1
    <3>3. t[i] = s[i - 1]
      <4>1. t[(i - 1) + 1] = s[i - 1]
        BY <1>2, <3>1
      <4>2. QED  BY <3>1, <4>1
    <3>4. QED  BY <2>1, <3>2, <3>3
  <2>4. QED  BY <2>2, <2>3
<1>6. QED  BY <1>2, <1>3, <1>4, <1>5 DEF IsLine, t

\* As far as a line's nodes are in another set, the line in that set is the same.
LEMMA LineKept ==
    ASSUME NEW parent, NEW S, NEW T, NEW x, NEW s, NEW t,
           IsLine(parent, S, s, x), IsLine(parent, T, t, x),
           NEW n \in 0 .. Len(s), \A i \in 1 .. n : s[i] \in T
    PROVE  n <= Len(t) /\ \A i \in 1 .. n : t[i] = s[i]
<1> DEFINE same(k) == k <= Len(t) /\ \A i \in 1 .. k : t[i] = s[i]
           P == {k \in 0 .. n : same(k)}
<1>1. s \in Seq(S) /\ t \in Seq(T) /\ Len(s) \in Nat /\ Len(t) \in Nat /\ n \in Nat /\ n <= Len(s)
  BY SMTT(60) DEF IsLine
<1>2. 0 \in P
  BY <1>1, SMTT(60)
<1>3. ASSUME NEW k \in 1 .. n, k - 1 \in P PROVE k \in P
  <2>1. same(k - 1) /\ k \in 1 .. Len(s) /\ k - 1 \in 0 .. Len(t) /\ s[k] \in T
    BY <1>1, <1>3, SMTT(60)
  <2>2. CASE k = 1
    <3>1. s[1] = x /\ x \in T
      BY <1>1, <2>1, <2>2, SMTT(60) DEF IsLine
    <3>2. t # <<>> /\ t[1] = x
      BY <3>1 DEF IsLine
    <3>3. Len(t) >= 1
      BY <1>1, <3>2, SMTT(60)
    <3>4. QED  BY <1>1, <2>2, <3>1, <3>2, <3>3, SMTT(60)
  <2>3. CASE k # 1
    <3> DEFINE m == k - 1
    <3>1. m \in 1 .. Len(s) - 1 /\ m + 1 = k /\ m \in 1 .. Len(t) /\ t[m] = s[m]
      BY <1>1, <2>1, <2>3, SMTT(60)
    <3> HIDE DEF m
    <3>2. s[k] = parent[t[m]]
      BY <3>1 DEF IsLine
    <3>3. m # Len(t)
      <4>1. t # <<>>
        BY <1>1, <3>1, SMTT(60)
      <4>2. QED  BY <2>1, <3>2, <4>1 DEF IsLine
    <3>4. m \in 1 .. Len(t) - 1
      BY <1>1, <3>1, <3>3, SMTT(60)
    <3>5. t[k] = s[k]
      BY <3>1, <3>2, <3>4 DEF IsLine
    <3>6. k <= Len(t)
      BY <1>1, <3>1, <3>4, SMTT(60)
    <3>7. \A i \in 1 .. k : i = k \/ i \in 1 .. k - 1
      BY SMTT(60)
    <3>8. QED  BY <2>1, <3>5, <3>6, <3>7, SMTT(60)
  <2>4. QED  BY <2>2, <2>3
<1>4. 0 .. n \subseteq P
  <2> HIDE DEF P
  <2> QED  BY <1>1, <1>2, <1>3, UpTo
<1>5. n \in P
  <2> HIDE DEF P
  <2> QED  BY <1>1, <1>4, SMTT(60)
<1>6. QED  BY <1>5

\* A node has one line only.
LEMMA LineIsUnique ==
    ASSUME NEW parent, NEW S, NEW x, NEW s, NEW t,
           IsLine(parent, S, s, x), IsLine(parent, S, t, x)
    PROVE  s = t
<1>1. s \in Seq(S) /\ t \in Seq(S) /\ Len(s) \in Nat /\ Len(t) \in Nat
  BY SMTT(60) DEF IsLine
<1>2. \A i \in 1 .. Len(s) : s[i] \in S
  BY <1>1, SMTT(60)
<1>3. \A i \in 1 .. Len(t) : t[i] \in S
  BY <1>1, SMTT(60)
<1>4. Len(s) <= Len(t) /\ \A i \in 1 .. Len(s) : t[i] = s[i]
  <2>1. Len(s) \in 0 .. Len(s)
    BY <1>1, SMTT(60)
  <2>2. QED  BY <1>2, <2>1, LineKept, SMTT(60)
<1>5. Len(t) <= Len(s)
  <2>1. Len(t) \in 0 .. Len(t)
    BY <1>1, SMTT(60)
  <2>2. QED  BY <1>3, <2>1, LineKept
<1>6. QED  BY <1>1, <1>4, <1>5, SMTT(60)

\* Every node of a forest has a line.
LEMMA LineExists ==
    ASSUME NEW nodes, NEW parent, NEW depth, Forest(nodes, parent, depth),
           NEW S \in SUBSET nodes, NEW x
    PROVE  \E s : IsLine(parent, S, s, x)
<1> DEFINE lined(y) == \E s : IsLine(parent, S, s, y)
           P == {k \in Nat : \A y \in nodes : depth[y] <= k => lined(y)}
<1>1. \A y : y \notin S => lined(y)
  <2>1. SUFFICES ASSUME NEW y, y \notin S PROVE IsLine(parent, S, <<>>, y)
    OBVIOUS
  <2>2. QED  BY <2>1, SMTT(60) DEF IsLine
<1>2. \A y \in S : lined(parent[y]) => lined(y)
  <2>1. TAKE y \in S
  <2>2. HAVE lined(parent[y])
  <2>3. PICK s : IsLine(parent, S, s, parent[y])
    BY <2>2
  <2>4. QED  BY <2>3, LineGrows
<1>3. depth \in [nodes -> Nat] /\ \A y \in nodes : parent[y] \in nodes => depth[parent[y]] < depth[y]
  BY DEF Forest
<1> HIDE DEF lined
<1>4. 0 \in P
  <2>1. ASSUME NEW y \in nodes, depth[y] <= 0 PROVE lined(y)
    <3>1. parent[y] \notin nodes
      BY <1>3, <2>1, SMTT(60)
    <3>2. QED  BY <1>1, <1>2, <3>1
  <2>2. QED  BY <2>1
<1>5. ASSUME NEW n \in Nat, NEW k \in 1 .. n, k - 1 \in P PROVE k \in P
  <2>1. ASSUME NEW y \in nodes, depth[y] <= k PROVE lined(y)
    <3>1. CASE parent[y] \in nodes
      <4>1. depth[parent[y]] <= k - 1
        BY <1>3, <2>1, <3>1, SMTT(60)
      <4>2. lined(parent[y])
        BY <1>5, <3>1, <4>1
      <4>3. QED  BY <1>1, <1>2, <4>2
    <3>2. CASE parent[y] \notin nodes
      BY <1>1, <1>2, <3>2
    <3>3. QED  BY <3>1, <3>2
  <2>2. QED  BY <2>1, SMTT(60)
<1>6. CASE x \in nodes
  <2>1. depth[x] \in Nat
    BY <1>3, <1>6
  <2>2. 0 .. depth[x] \subseteq P
    <3> HIDE DEF P
    <3> QED  BY <1>4, <1>5, <2>1, UpTo
  <2>3. depth[x] \in P
    <3> HIDE DEF P
    <3> QED  BY <2>1, <2>2, SMTT(60)
  <2>4. QED  BY <1>6, <2>1, <2>3, SMTT(60) DEF lined
<1>7. CASE x \notin nodes
  BY <1>1, <1>7 DEF lined
<1>8. QED  BY <1>6, <1>7

\* The recursion along parents defines a function.
LEMMA LinesAreDefined ==
    ASSUME NEW nodes, NEW parent, NEW depth, Forest(nodes, parent, depth),
           NEW S \in SUBSET nodes, NEW dom, nodes \subseteq dom
    PROVE  \E f : Lines(f, dom, nodes, parent, S)
<1> DEFINE line(x) == CHOOSE s : IsLine(parent, S, s, x)
           f == [x \in dom |-> line(x)]
<1>1. \A x : IsLine(parent, S, line(x), x)
  BY LineExists
<1> HIDE DEF line
<1>2. ASSUME NEW x \in dom, x \notin S PROVE line(x) = <<>>
  BY <1>1, <1>2 DEF IsLine
<1>3. ASSUME NEW x \in S PROVE line(x) = <<x>> \o line(parent[x])
  <2>1. IsLine(parent, S, <<x>> \o line(parent[x]), x)
    BY <1>1, LineGrows
  <2>2. QED  BY <1>1, <2>1, LineIsUnique
<1>4. ASSUME NEW x \in dom
      PROVE  f[x] = IF x \notin S THEN <<>>
                    ELSE <<x>> \o (IF parent[x] \in nodes THEN f[parent[x]] ELSE <<>>)
  <2>1. CASE x \notin S
    BY <1>2, <2>1
  <2>2. CASE x \in S /\ parent[x] \in nodes
    BY <1>3, <2>2
  <2>3. CASE x \in S /\ parent[x] \notin nodes
    <3>1. line(parent[x]) = <<>>
      BY <1>1, <2>3 DEF IsLine
    <3>2. QED  BY <1>3, <2>3, <3>1
  <2>4. QED  BY <2>1, <2>2, <2>3
<1>5. f = [x \in dom |-> IF x \notin S THEN <<>>
                         ELSE <<x>> \o (IF parent[x] \in nodes THEN f[parent[x]] ELSE <<>>)]
  BY <1>4
<1> HIDE DEF f
<1>6. Lines(f, dom, nodes, parent, S)
  BY <1>5 DEF Lines
<1>7. QED  BY <1>6

\* A function defined by that recursion gives every node its line.
LEMMA LinesAreLines ==
    ASSUME NEW nodes, NEW parent, NEW depth, Forest(nodes, parent, depth),
           NEW S \in SUBSET nodes, NEW dom, nodes \subseteq dom,
           NEW f, Lines(f, dom, nodes, parent, S), NEW x \in dom
    PROVE  IsLine(parent, S, f[x], x)
<1> DEFINE P == {k \in Nat : \A y \in nodes : depth[y] <= k => IsLine(parent, S, f[y], y)}
<1>1. \A y \in dom : y \notin S => f[y] = <<>>
  BY DEF Lines
<1>2. \A y \in S : f[y] = <<y>> \o (IF parent[y] \in nodes THEN f[parent[y]] ELSE <<>>)
  BY DEF Lines
<1>3. \A y : y \notin S => IsLine(parent, S, <<>>, y)
  BY SMTT(60) DEF IsLine
<1>4. \A y \in nodes : parent[y] \notin nodes => IsLine(parent, S, f[y], y)
  <2>1. TAKE y \in nodes
  <2>2. HAVE parent[y] \notin nodes
  <2>3. CASE y \in S
    <3>1. f[y] = <<y>> \o <<>> /\ IsLine(parent, S, <<>>, parent[y])
      BY <1>2, <1>3, <2>2, <2>3
    <3>2. QED  BY <2>3, <3>1, LineGrows
  <2>4. CASE y \notin S
    BY <1>1, <1>3, <2>4
  <2>5. QED  BY <2>3, <2>4
<1>5. \A y \in nodes : parent[y] \in nodes /\ IsLine(parent, S, f[parent[y]], parent[y])
                            => IsLine(parent, S, f[y], y)
  <2>1. TAKE y \in nodes
  <2>2. HAVE parent[y] \in nodes /\ IsLine(parent, S, f[parent[y]], parent[y])
  <2>3. CASE y \in S
    <3>1. f[y] = <<y>> \o f[parent[y]]
      BY <1>2, <2>2, <2>3
    <3>2. QED  BY <2>2, <2>3, <3>1, LineGrows
  <2>4. CASE y \notin S
    BY <1>1, <1>3, <2>4
  <2>5. QED  BY <2>3, <2>4
<1>6. depth \in [nodes -> Nat] /\ \A y \in nodes : parent[y] \in nodes => depth[parent[y]] < depth[y]
  BY DEF Forest
<1>7. 0 \in P
  <2>1. \A y \in nodes : depth[y] <= 0 => parent[y] \notin nodes
    BY <1>6, SMTT(60)
  <2>2. QED  BY <1>4, <2>1
<1>8. ASSUME NEW n \in Nat, NEW k \in 1 .. n, k - 1 \in P PROVE k \in P
  <2>1. ASSUME NEW y \in nodes, depth[y] <= k PROVE IsLine(parent, S, f[y], y)
    <3>1. CASE parent[y] \in nodes
      <4>1. depth[parent[y]] <= k - 1
        BY <1>6, <2>1, <3>1, SMTT(60)
      <4>2. QED  BY <1>5, <1>8, <3>1, <4>1
    <3>2. CASE parent[y] \notin nodes
      BY <1>4, <3>2
    <3>3. QED  BY <3>1, <3>2
  <2>2. QED  BY <2>1, SMTT(60)
<1>9. CASE x \in nodes
  <2>1. depth[x] \in Nat
    BY <1>6, <1>9
  <2>2. 0 .. depth[x] \subseteq P
    <3> HIDE DEF P
    <3> QED  BY <1>7, <1>8, <2>1, UpTo
  <2>3. depth[x] \in P
    <3> HIDE DEF P
    <3> QED  BY <2>1, <2>2, SMTT(60)
  <2>4. QED  BY <1>9, <2>1, <2>3, SMTT(60)
<1>10. CASE x \notin nodes
  BY <1>1, <1>3, <1>10
<1>11. QED  BY <1>9, <1>10

\* Depths do not grow along a line.
LEMMA LineDepths ==
    ASSUME NEW nodes, NEW parent, NEW depth, Forest(nodes, parent, depth),
           NEW S \in SUBSET nodes, NEW x \in S, NEW s, IsLine(parent, S, s, x)
    PROVE  \A i \in 1 .. Len(s) : depth[s[i]] <= depth[x]
<1> DEFINE P == {k \in Nat : k + 1 <= Len(s) => depth[s[k + 1]] <= depth[x]}
<1>1. s \in Seq(S) /\ Len(s) \in Nat /\ s # <<>> /\ s[1] = x
  BY SMTT(60) DEF IsLine
<1>2. depth \in [nodes -> Nat] /\ \A y \in nodes : parent[y] \in nodes => depth[parent[y]] < depth[y]
  BY DEF Forest
<1>3. 0 \in P
  BY <1>1, <1>2, SMTT(60)
<1>4. ASSUME NEW k \in 1 .. Len(s), k - 1 \in P PROVE k \in P
  <2>1. SUFFICES ASSUME k + 1 <= Len(s) PROVE depth[s[k + 1]] <= depth[x]
    BY SMTT(60)
  <2>2. (k - 1) + 1 = k /\ k <= Len(s) /\ k \in 1 .. Len(s) - 1 /\ k + 1 \in 1 .. Len(s)
    BY <1>1, <2>1, SMTT(60)
  <2>3. depth[s[k]] <= depth[x]
    BY <1>4, <2>2
  <2>4. s[k] \in nodes /\ s[k + 1] \in nodes
    BY <1>1, <2>2, SMTT(60)
  <2>5. s[k + 1] = parent[s[k]]
    BY <2>2 DEF IsLine
  <2>6. depth[s[k + 1]] < depth[s[k]]
    BY <1>2, <2>4, <2>5
  <2>7. depth[s[k + 1]] \in Nat /\ depth[s[k]] \in Nat /\ depth[x] \in Nat
    BY <1>2, <2>4
  <2>8. QED  BY <2>3, <2>6, <2>7, SMTT(60)
<1>5. 0 .. Len(s) \subseteq P
  <2> HIDE DEF P
  <2> QED  BY <1>1, <1>3, <1>4, UpTo
<1>6. TAKE i \in 1 .. Len(s)
<1>7. i - 1 \in 0 .. Len(s) /\ (i - 1) + 1 = i
  BY <1>1, SMTT(60)
<1>8. i - 1 \in P
  <2> HIDE DEF P
  <2> QED  BY <1>5, <1>7
<1>9. QED  BY <1>1, <1>7, <1>8, SMTT(60)

\* A set that holds the parents of its nodes holds the rest of a line with each of its nodes.
LEMMA LineStaysIn ==
    ASSUME NEW parent, NEW S, NEW x, NEW s, IsLine(parent, S, s, x), NEW T,
           \A y \in T : parent[y] \in S => parent[y] \in T,
           NEW i \in 1 .. Len(s), s[i] \in T, NEW j \in i .. Len(s)
    PROVE  s[j] \in T
<1> DEFINE P == {k \in Nat : i + k <= Len(s) => s[i + k] \in T}
<1>1. s \in Seq(S) /\ Len(s) \in Nat
  BY SMTT(60) DEF IsLine
<1>2. 0 \in P
  BY <1>1, SMTT(60)
<1>3. ASSUME NEW k \in 1 .. j - i, k - 1 \in P PROVE k \in P
  <2>1. SUFFICES ASSUME i + k <= Len(s) PROVE s[i + k] \in T
    BY SMTT(60)
  <2> DEFINE m == i + (k - 1)
  <2>2. m <= Len(s) /\ m \in 1 .. Len(s) - 1 /\ m + 1 = i + k /\ m + 1 \in 1 .. Len(s)
    BY <1>1, <2>1, SMTT(60)
  <2>3. s[m] \in T
    BY <1>3, <2>2
  <2> HIDE DEF m
  <2>4. s[m + 1] = parent[s[m]] /\ s[m + 1] \in S
    BY <1>1, <2>2, SMTT(60) DEF IsLine
  <2>5. s[m + 1] \in T
    BY <2>3, <2>4
  <2>6. QED  BY <2>2, <2>5
<1>4. j - i \in Nat /\ i + (j - i) = j /\ j <= Len(s)
  BY <1>1, SMTT(60)
<1>5. 0 .. j - i \subseteq P
  <2> HIDE DEF P
  <2> QED  BY <1>2, <1>3, <1>4, UpTo
<1>6. j - i \in P
  <2>1. j - i \in 0 .. j - i
    BY <1>4, SMTT(60)
  <2> HIDE DEF P
  <2>2. QED  BY <1>5, <2>1
<1>7. QED  BY <1>4, <1>6

----------------------------------------------------------------------------
\* The types of what the lemmas below work with.
StoreTypes ==
    /\ DOMAIN Headers \subseteq Hashes
    /\ Headers \in [DOMAIN Headers -> StoredHeader]
    /\ HeadersByNumber \in [Numbers -> Seq(Hashes)]
    /\ \A n \in Numbers : Len(HeadersByNumber[n]) <= MaxHeadersForNumber
    /\ BestBlock \in [hash : Hashes, total_difficulty : Nat]
    /\ BlocksToPrune \in [oldest_unpruned_block : Nat, oldest_block_to_keep : Nat]
    /\ resets \in Nat

\* Every stored header is in the list of its number, and every list holds headers of its
\* number only, each once: IndexAgrees, element by element.
Listed(headers, lists) ==
    /\ \A n \in Numbers : \A i \in 1 .. Len(lists[n]) :
           lists[n][i] \in headers /\ number(lists[n][i]) = n
    /\ \A h \in headers : \E i \in 1 .. Len(lists[number(h)]) : lists[number(h)][i] = h
    /\ \A n \in Numbers : \A i, j \in 1 .. Len(lists[n]) : lists[n][i] = lists[n][j] => i = j

\* The inductive invariant: pruning is complete only if numbers follow those of the parents,
\* which the client checks with the proof of work.
StoreInv ==
    /\ StoreTypes
    /\ Listed(DOMAIN Headers, HeadersByNumber)
    /\ BestIsHeaviest
    /\ VerifyPoW => PruneFollows

\* Lists that are typed and bounded, as in storage and with one more header.
ListTypes(lists) ==
    /\ lists \in [Numbers -> Seq(Hashes)]
    /\ \A n \in Numbers : Len(lists[n]) <= MaxHeadersForNumber

\* A set of headers and the lists that index it.
Indexed(headers, lists) == headers \subseteq Hashes /\ ListTypes(lists) /\ Listed(headers, lists)

\* cut and removed are what is left and what is cut off when list n loses its first d[n].
CutBy(d, lists, cut, removed) ==
    /\ d \in [Numbers -> Nat] /\ \A n \in Numbers : d[n] <= Len(lists[n])
    /\ cut = [n \in Numbers |-> SubSeq(lists[n], d[n] + 1, Len(lists[n]))]
    /\ \A h : h \in removed <=> \E n \in Numbers : \E k \in 1 .. d[n] : h = lists[n][k]

\* Numbers of headers are natural numbers.
LEMMA NumberType == /\ \A h \in Hashes : number(h) \in Nat /\ number(h) \in Numbers
                    /\ Numbers \subseteq Nat
  BY HeaderAssumption DEF number, Numbers

\* Listed is IndexAgrees.
LEMMA ListedIsIndex ==
    ASSUME StoreTypes
    PROVE  Listed(DOMAIN Headers, HeadersByNumber) <=> IndexAgrees
<1>1. \A n \in Numbers : DOMAIN HeadersByNumber[n] = 1 .. Len(HeadersByNumber[n])
  BY SMTT(60) DEF StoreTypes
<1>2. \A h \in DOMAIN Headers : number(h) \in Numbers
  BY NumberType DEF StoreTypes
<1>3. ASSUME Listed(DOMAIN Headers, HeadersByNumber) PROVE IndexAgrees
  <2>1. ASSUME NEW n \in Numbers
        PROVE  Range(HeadersByNumber[n]) \subseteq {h \in DOMAIN Headers : number(h) = n}
    BY <1>1, <1>3, SMTT(60) DEF Listed, Range
  <2>2. ASSUME NEW n \in Numbers, NEW h \in DOMAIN Headers, number(h) = n
        PROVE  h \in Range(HeadersByNumber[n])
    <3>1. PICK i \in 1 .. Len(HeadersByNumber[n]) : HeadersByNumber[n][i] = h
      BY <1>3, <2>2 DEF Listed
    <3>2. QED  BY <1>1, <3>1 DEF Range
  <2>3. ASSUME NEW n \in Numbers PROVE IsInjective(HeadersByNumber[n])
    BY <1>1, <1>3, SMTT(60) DEF Listed, IsInjective
  <2>4. QED  BY <2>1, <2>2, <2>3 DEF IndexAgrees
<1>4. ASSUME IndexAgrees PROVE Listed(DOMAIN Headers, HeadersByNumber)
  <2>1. \A n \in Numbers : \A i \in 1 .. Len(HeadersByNumber[n]) :
            HeadersByNumber[n][i] \in Range(HeadersByNumber[n])
    BY <1>1 DEF Range
  <2>2. \A h \in DOMAIN Headers : h \in Range(HeadersByNumber[number(h)])
    BY <1>2, <1>4 DEF IndexAgrees
  <2>3. \A h \in DOMAIN Headers :
            \E i \in 1 .. Len(HeadersByNumber[number(h)]) : HeadersByNumber[number(h)][i] = h
    BY <1>1, <1>2, <2>2 DEF Range
  <2>4. \A n \in Numbers : \A i, j \in 1 .. Len(HeadersByNumber[n]) :
            HeadersByNumber[n][i] = HeadersByNumber[n][j] => i = j
    BY <1>1, <1>4 DEF IndexAgrees, IsInjective
  <2>5. QED  BY <1>4, <2>1, <2>3, <2>4, SMTT(60) DEF Listed, IndexAgrees
<1>5. QED  BY <1>3, <1>4

\* The loop of prune_header_range removes a prefix of a number's list.
LEMMA PrunedAtBound ==
    ASSUME NEW lists, ListTypes(lists), NEW start \in Nat, NEW n \in Numbers
    PROVE  pruned_at(lists, start, n) \in 0 .. Len(lists[n])
<1>1. IsFiniteSet((start .. n - 1) \X (1 .. MaxHeadersForNumber))
  <2>1. n \in Nat  BY NumberType
  <2>2. IsFiniteSet(start .. n - 1)  BY <2>1, FS_Interval, SMTT(60)
  <2>3. IsFiniteSet(1 .. MaxHeadersForNumber)  BY ConfigAssumption, FS_Interval, SMTT(60)
  <2>4. QED  BY <2>2, <2>3, FS_Product
<1>2. pruned_before(lists, start, n) \in Nat
  <2> DEFINE all == (start .. n - 1) \X (1 .. MaxHeadersForNumber)
             some == {at \in all : at[2] \in DOMAIN hashes_at(lists, at[1])}
  <2>1. some \in SUBSET all  OBVIOUS
  <2>2. IsFiniteSet(some)  BY <1>1, <2>1, FS_Subset
  <2>3. Cardinality(some) \in Nat  BY <2>2, FS_CardinalityType
  <2>4. QED  BY <2>3 DEF pruned_before
<1>3. hashes_at(lists, n) = lists[n] /\ Len(lists[n]) \in Nat
  BY SMTT(60) DEF hashes_at, ListTypes
<1>4. QED  BY <1>2, <1>3, ConfigAssumption, SMTT(60) DEF pruned_at

\* A non-empty set of natural numbers has a least element.
LEMMA LeastNatural ==
    ASSUME NEW S \in SUBSET Nat, S # {}
    PROVE  \E n \in S : \A m \in S : n <= m
<1>1. PICK n \in S : \A m \in S : ~(<<m, n>> \in OpToRel(<, Nat))
  BY NatLessThanWellFounded, WFMin
<1>2. \A m \in S : ~(m < n)
  BY <1>1 DEF OpToRel
<1>3. QED  BY <1>2, SMTT(60)

\* prune_header_range cuts a prefix off every list, removes exactly the hashes it cuts
\* off, and moves oldest_unpruned_block past numbers only whose list is cut off whole.
LEMMA Pruning ==
    ASSUME NEW lists, ListTypes(lists), NEW prune_end \in Nat,
           BlocksToPrune \in [oldest_unpruned_block : Nat, oldest_block_to_keep : Nat]
    PROVE  LET pruned == prune_header_range(lists, prune_end)
           IN  \E d :
               /\ CutBy(d, lists, pruned.lists, pruned.removed)
               /\ pruned.range \in [oldest_unpruned_block : Nat, oldest_block_to_keep : Nat]
               /\ \A n \in Numbers :
                      BlocksToPrune.oldest_unpruned_block <= n /\ n < pruned.range.oldest_unpruned_block
                          => d[n] = Len(lists[n])
               /\ \A n \in Numbers : n >= pruned.range.oldest_block_to_keep => d[n] = 0
               /\ pruned.range.oldest_block_to_keep
                    = larger(BlocksToPrune.oldest_block_to_keep, prune_end)
<1> DEFINE start == BlocksToPrune.oldest_unpruned_block
           end == larger(BlocksToPrune.oldest_block_to_keep, prune_end)
           dropped(n) == IF n \in start .. end - 1 THEN pruned_at(lists, start, n) ELSE 0
           d == [n \in Numbers |-> dropped(n)]
           pruned == prune_header_range(lists, prune_end)
           stop == {n \in start .. larger(start, end) : n >= end \/ ~cleared(lists, start, n)}
           oldest == pruned.range.oldest_unpruned_block
<1>1. start \in Nat /\ end \in Nat /\ larger(start, end) \in Nat
      /\ start <= larger(start, end) /\ end <= larger(start, end)
  BY SMTT(60) DEF larger
<1>2. \A n \in Numbers : dropped(n) \in 0 .. Len(lists[n]) /\ Len(lists[n]) \in Nat
  BY <1>1, PrunedAtBound, SMTT(60) DEF ListTypes
<1>3. DOMAIN lists = Numbers
  BY DEF ListTypes
<1>4. pruned.lists = [n \in Numbers |-> SubSeq(lists[n], d[n] + 1, Len(lists[n]))]
  BY <1>3 DEF prune_header_range
<1>5. \A h : h \in pruned.removed <=> \E n \in Numbers : \E k \in 1 .. d[n] : h = lists[n][k]
  <2>1. pruned.removed = {lists[at[1]][at[2]] : at \in
                            {at \in Numbers \X (1 .. MaxHeadersForNumber) : at[2] <= dropped(at[1])}}
    BY <1>3 DEF prune_header_range
  <2>2. \A n \in Numbers : d[n] = dropped(n) /\ dropped(n) <= MaxHeadersForNumber /\ dropped(n) \in Nat
    BY <1>2, ConfigAssumption, SMTT(60) DEF ListTypes
  <2>3. ASSUME NEW h, h \in pruned.removed
        PROVE  \E n \in Numbers : \E k \in 1 .. d[n] : h = lists[n][k]
    <3>1. PICK at \in Numbers \X (1 .. MaxHeadersForNumber) :
              at[2] <= dropped(at[1]) /\ h = lists[at[1]][at[2]]
      BY <2>1, <2>3, SMTT(60)
    <3>2. at[1] \in Numbers /\ at[2] \in 1 .. d[at[1]]
      BY <2>2, <3>1, ConfigAssumption, SMTT(60)
    <3>3. QED  BY <3>1, <3>2
  <2>4. ASSUME NEW n \in Numbers, NEW k \in 1 .. d[n]
        PROVE  lists[n][k] \in pruned.removed
    <3>1. <<n, k>> \in Numbers \X (1 .. MaxHeadersForNumber) /\ k <= dropped(n)
      BY <2>2, ConfigAssumption, SMTT(60)
    <3>2. QED  BY <2>1, <3>1, SMTT(60)
  <2>5. QED  BY <2>3, <2>4, SMTT(60)
<1>6. \E n \in stop : \A m \in start .. n - 1 : cleared(lists, start, m)
  <2>1. larger(start, end) \in stop /\ stop \in SUBSET Nat
    BY <1>1, SMTT(60)
  <2>2. PICK n \in stop : \A m \in stop : n <= m
    BY <2>1, LeastNatural
  <2>3. \A m \in start .. n - 1 : m \in start .. larger(start, end) /\ m \notin stop
    BY <1>1, <2>2, SMTT(60)
  <2>4. QED  BY <2>2, <2>3
<1>7. /\ oldest \in start .. larger(start, end)
      /\ oldest >= end \/ ~cleared(lists, start, oldest)
      /\ \A m \in start .. oldest - 1 : cleared(lists, start, m)
  <2>1. oldest = CHOOSE n \in start .. larger(start, end) :
                    /\ n >= end \/ ~cleared(lists, start, n)
                    /\ \A m \in start .. n - 1 : cleared(lists, start, m)
    BY DEF prune_header_range
  <2>2. QED  BY <1>6, <2>1
<1>8. pruned.range \in [oldest_unpruned_block : Nat, oldest_block_to_keep : Nat]
  <2>1. oldest \in Nat
    BY <1>1, <1>7, SMTT(60)
  <2>2. pruned.range = [oldest_unpruned_block |-> oldest, oldest_block_to_keep |-> end]
    BY DEF prune_header_range
  <2>3. QED  BY <1>1, <2>1, <2>2, SMTT(60)
<1>9. ASSUME NEW n \in Numbers, start <= n, n < oldest
      PROVE  d[n] = Len(lists[n])
  <2>1. n \in start .. oldest - 1 /\ n \in Nat
    BY <1>1, <1>7, <1>9, NumberType, SMTT(60)
  <2>2. cleared(lists, start, n)
    BY <1>7, <2>1
  <2>3. pruned_at(lists, start, n) = Len(lists[n])
    BY <1>3, <2>2 DEF cleared, hashes_at
  <2>4. CASE n < end
    BY <1>1, <2>1, <2>3, <2>4, SMTT(60)
  <2>5. CASE n >= end
    BY <1>1, <1>7, <1>9, <2>1, <2>5, SMTT(60) DEF larger
  <2>6. QED  BY <1>1, <2>1, <2>4, <2>5, SMTT(60)
<1>10. d \in [Numbers -> Nat] /\ \A n \in Numbers : d[n] <= Len(lists[n])
  BY <1>2, SMTT(60)
<1>11. CutBy(d, lists, pruned.lists, pruned.removed)
  BY <1>4, <1>5, <1>10 DEF CutBy
<1>12. pruned.range.oldest_block_to_keep = end
  BY DEF prune_header_range
<1>13. ASSUME NEW n \in Numbers, n >= end PROVE d[n] = 0
  BY <1>1, <1>13, NumberType, SMTT(60)
<1>14. QED  BY <1>8, <1>9, <1>11, <1>12, <1>13

\* A new header is stored, with its parent's total difficulty and its own.
LEMMA Storing ==
    ASSUME StoreTypes, Listed(DOMAIN Headers, HeadersByNumber),
           NEW h \in Hashes, h \notin DOMAIN Headers, Header[h].parent_hash \in DOMAIN Headers,
           Len(HeadersByNumber[number(h)]) # MaxHeadersForNumber
    PROVE  /\ stored_with(h) \in [DOMAIN Headers \cup {h} -> StoredHeader]
           /\ ListTypes(listed_with(h))
           /\ Listed(DOMAIN Headers \cup {h}, listed_with(h))
<1> DEFINE n == number(h)
           lists == listed_with(h)
<1>1. n \in Numbers /\ n \in Nat
  BY NumberType
<1>2. total_difficulty(h) \in Nat
  BY HeaderAssumption, SMTT(60) DEF total_difficulty, StoreTypes, StoredHeader
<1>3. stored_with(h) \in [DOMAIN Headers \cup {h} -> StoredHeader]
  BY <1>2 DEF stored_with, StoreTypes, StoredHeader
<1>4. /\ lists \in [Numbers -> Seq(Hashes)]
      /\ lists[n] = Append(HeadersByNumber[n], h)
      /\ \A m \in Numbers : m # n => lists[m] = HeadersByNumber[m]
  BY <1>1, SMTT(60) DEF listed_with, StoreTypes
<1>5. /\ HeadersByNumber[n] \in Seq(Hashes) /\ Len(HeadersByNumber[n]) \in Nat
      /\ Len(lists[n]) = Len(HeadersByNumber[n]) + 1
      /\ \A i \in 1 .. Len(HeadersByNumber[n]) : lists[n][i] = HeadersByNumber[n][i]
      /\ lists[n][Len(HeadersByNumber[n]) + 1] = h
  BY <1>1, <1>4, SMTT(60) DEF StoreTypes
<1> HIDE DEF lists
<1>6. ListTypes(lists)
  <2>1. \A m \in Numbers : Len(HeadersByNumber[m]) \in Nat /\ Len(HeadersByNumber[m]) <= MaxHeadersForNumber
    BY SMTT(60) DEF StoreTypes
  <2>2. Len(lists[n]) <= MaxHeadersForNumber
    BY <1>1, <1>5, <2>1, ConfigAssumption, SMTT(60)
  <2>3. \A m \in Numbers : Len(lists[m]) <= MaxHeadersForNumber
    BY <1>4, <2>1, <2>2
  <2>4. QED  BY <1>4, <2>3 DEF ListTypes
<1>0. /\ \A m \in Numbers : \A i \in 1 .. Len(HeadersByNumber[m]) :
             HeadersByNumber[m][i] \in DOMAIN Headers /\ number(HeadersByNumber[m][i]) = m
      /\ \A x \in DOMAIN Headers :
             \E i \in 1 .. Len(HeadersByNumber[number(x)]) : HeadersByNumber[number(x)][i] = x
      /\ \A m \in Numbers : \A i, j \in 1 .. Len(HeadersByNumber[m]) :
             HeadersByNumber[m][i] = HeadersByNumber[m][j] => i = j
  BY DEF Listed
<1>7. ASSUME NEW m \in Numbers, NEW i \in 1 .. Len(lists[m])
      PROVE  lists[m][i] \in DOMAIN Headers \cup {h} /\ number(lists[m][i]) = m
  <2>1. CASE m # n
    BY <1>0, <1>4, <2>1
  <2>2. CASE m = n /\ i = Len(HeadersByNumber[n]) + 1
    BY <1>5, <2>2
  <2>3. CASE m = n /\ i # Len(HeadersByNumber[n]) + 1
    <3>1. i \in 1 .. Len(HeadersByNumber[n])
      BY <1>5, <2>3, SMTT(60)
    <3>2. HeadersByNumber[n][i] \in DOMAIN Headers /\ number(HeadersByNumber[n][i]) = n
      BY <1>0, <1>1, <3>1
    <3>3. lists[n][i] = HeadersByNumber[n][i]
      BY <1>5, <3>1
    <3>4. QED  BY <2>3, <3>2, <3>3
  <2>4. QED  BY <2>1, <2>2, <2>3
<1>8. ASSUME NEW x \in DOMAIN Headers \cup {h}
      PROVE  \E i \in 1 .. Len(lists[number(x)]) : lists[number(x)][i] = x
  <2>1. CASE x = h
    BY <1>5, <2>1, SMTT(60)
  <2>2. CASE x # h
    <3>1. x \in DOMAIN Headers /\ number(x) \in Numbers
      BY <2>2, NumberType DEF StoreTypes
    <3>2. PICK i \in 1 .. Len(HeadersByNumber[number(x)]) : HeadersByNumber[number(x)][i] = x
      BY <1>0, <3>1
    <3>3. CASE number(x) # n
      BY <1>4, <3>1, <3>2, <3>3
    <3>4. CASE number(x) = n
      <4>1. i \in 1 .. Len(lists[n]) /\ lists[n][i] = x
        BY <1>5, <3>2, <3>4, SMTT(60)
      <4>2. QED  BY <3>4, <4>1
    <3>5. QED  BY <3>3, <3>4
  <2>3. QED  BY <2>1, <2>2
<1>9. ASSUME NEW m \in Numbers, NEW i \in 1 .. Len(lists[m]), NEW j \in 1 .. Len(lists[m]),
             lists[m][i] = lists[m][j]
      PROVE  i = j
  <2>1. CASE m # n
    BY <1>0, <1>4, <1>9, <2>1
  <2>2. CASE m = n
    <3>1. \A k \in 1 .. Len(HeadersByNumber[n]) : lists[n][k] # h
      <4>1. \A k \in 1 .. Len(HeadersByNumber[n]) : HeadersByNumber[n][k] \in DOMAIN Headers
        BY <1>0, <1>1
      <4>2. QED  BY <1>5, <4>1
    <3>2. \A k \in 1 .. Len(lists[n]) :
              k \in 1 .. Len(HeadersByNumber[n]) \/ k = Len(HeadersByNumber[n]) + 1
      BY <1>5, SMTT(60)
    <3>3. CASE i = Len(HeadersByNumber[n]) + 1
      BY <1>5, <1>9, <2>2, <3>1, <3>2, <3>3
    <3>4. CASE j = Len(HeadersByNumber[n]) + 1
      BY <1>5, <1>9, <2>2, <3>1, <3>2, <3>4
    <3>5. CASE i \in 1 .. Len(HeadersByNumber[n]) /\ j \in 1 .. Len(HeadersByNumber[n])
      <4>1. HeadersByNumber[n][i] = HeadersByNumber[n][j]
        BY <1>5, <1>9, <2>2, <3>5
      <4>2. QED  BY <1>0, <1>1, <3>5, <4>1
    <3>6. QED  BY <2>2, <3>2, <3>3, <3>4, <3>5
  <2>3. QED  BY <2>1, <2>2
<1>10. Listed(DOMAIN Headers \cup {h}, lists)
  BY <1>7, <1>8, <1>9 DEF Listed
<1>11. QED  BY <1>3, <1>6, <1>10 DEF lists

\* Cutting a prefix off every list and removing what was cut off keeps the index.
LEMMA Cutting ==
    ASSUME NEW headers, NEW lists, Indexed(headers, lists),
           NEW d, NEW cut, NEW removed, CutBy(d, lists, cut, removed)
    PROVE  Indexed(headers \ removed, cut)
<1>0. /\ \A n \in Numbers : \A i \in 1 .. Len(lists[n]) :
             lists[n][i] \in headers /\ number(lists[n][i]) = n
      /\ \A h \in headers : \E i \in 1 .. Len(lists[number(h)]) : lists[number(h)][i] = h
      /\ \A n \in Numbers : \A i, j \in 1 .. Len(lists[n]) : lists[n][i] = lists[n][j] => i = j
  BY DEF Indexed, Listed
<1>1. \A n \in Numbers :
        /\ d[n] \in Nat /\ d[n] <= Len(lists[n])
        /\ lists[n] \in Seq(Hashes) /\ Len(lists[n]) \in Nat
        /\ cut[n] \in Seq(Hashes)
        /\ Len(cut[n]) = Len(lists[n]) - d[n] /\ Len(cut[n]) \in Nat
        /\ \A i \in 1 .. Len(cut[n]) : cut[n][i] = lists[n][d[n] + i]
  <2>1. lists \in [Numbers -> Seq(Hashes)] /\ d \in [Numbers -> Nat]
        /\ \A n \in Numbers : d[n] <= Len(lists[n]) /\ cut[n] = SubSeq(lists[n], d[n] + 1, Len(lists[n]))
    BY DEF Indexed, ListTypes, CutBy
  <2>2. ASSUME NEW s \in Seq(Hashes), NEW k \in Nat, k <= Len(s)
        PROVE  /\ SubSeq(s, k + 1, Len(s)) \in Seq(Hashes) /\ Len(s) \in Nat
               /\ Len(SubSeq(s, k + 1, Len(s))) = Len(s) - k /\ Len(s) - k \in Nat
               /\ \A i \in 1 .. Len(s) - k : SubSeq(s, k + 1, Len(s))[i] = s[k + i]
    BY <2>2, SMTT(60)
  <2>3. ASSUME NEW n \in Numbers
        PROVE  /\ cut[n] \in Seq(Hashes) /\ Len(lists[n]) \in Nat
               /\ Len(cut[n]) = Len(lists[n]) - d[n] /\ Len(cut[n]) \in Nat
               /\ \A i \in 1 .. Len(cut[n]) : cut[n][i] = lists[n][d[n] + i]
    <3>1. lists[n] \in Seq(Hashes) /\ d[n] \in Nat /\ d[n] <= Len(lists[n])
          /\ cut[n] = SubSeq(lists[n], d[n] + 1, Len(lists[n]))
      BY <2>1
    <3> DEFINE tail == SubSeq(lists[n], d[n] + 1, Len(lists[n]))
    <3>2. /\ tail \in Seq(Hashes) /\ Len(lists[n]) \in Nat
          /\ Len(tail) = Len(lists[n]) - d[n] /\ Len(lists[n]) - d[n] \in Nat
          /\ \A i \in 1 .. Len(lists[n]) - d[n] : tail[i] = lists[n][d[n] + i]
      BY <2>2, <3>1
    <3> HIDE DEF tail
    <3>3. cut[n] = tail
      BY <3>1 DEF tail
    <3>4. QED  BY <3>2, <3>3
  <2>4. QED  BY <2>1, <2>3
<1>2. cut \in [Numbers -> Seq(Hashes)]
  BY <1>1 DEF CutBy
<1>3. ListTypes(cut)
  <2>1. \A n \in Numbers : Len(lists[n]) <= MaxHeadersForNumber
    BY DEF Indexed, ListTypes
  <2>2. \A n \in Numbers : Len(cut[n]) <= MaxHeadersForNumber
    BY <1>1, <2>1, ConfigAssumption, SMTT(60)
  <2>3. QED  BY <1>2, <2>2 DEF ListTypes
<1>4. ASSUME NEW n \in Numbers, NEW i \in 1 .. Len(cut[n])
      PROVE  cut[n][i] \in headers \ removed /\ number(cut[n][i]) = n
  <2>1. d[n] + i \in 1 .. Len(lists[n]) /\ cut[n][i] = lists[n][d[n] + i]
    <3>1. /\ d[n] \in Nat /\ Len(lists[n]) \in Nat
          /\ Len(cut[n]) = Len(lists[n]) - d[n]
      BY <1>1
    <3>2. cut[n][i] = lists[n][d[n] + i]
      BY <1>1
    <3>3. d[n] + i \in 1 .. Len(lists[n])
      BY <3>1, SMTT(60)
    <3>4. QED  BY <3>2, <3>3
  <2>2. cut[n][i] \in headers /\ number(cut[n][i]) = n
    <3>1. lists[n][d[n] + i] \in headers /\ number(lists[n][d[n] + i]) = n
      BY <1>0, <2>1
    <3>2. QED  BY <2>1, <3>1
  <2>3. ASSUME cut[n][i] \in removed PROVE FALSE
    <3>1. PICK m \in Numbers : \E k \in 1 .. d[m] : cut[n][i] = lists[m][k]
      BY <2>3 DEF CutBy
    <3>2. PICK k \in 1 .. d[m] : cut[n][i] = lists[m][k]
      BY <3>1
    <3>3. k \in 1 .. Len(lists[m])
      BY <1>1, SMTT(60)
    <3>4. m = n
      BY <1>0, <2>2, <3>2, <3>3
    <3>5. k = d[n] + i
      <4>1. lists[n][k] = lists[n][d[n] + i] /\ k \in 1 .. Len(lists[n])
        BY <2>1, <3>2, <3>3, <3>4
      <4>2. QED  BY <1>0, <2>1, <4>1
    <3>6. QED  BY <1>1, <3>4, <3>5, SMTT(60)
  <2>4. QED  BY <2>2, <2>3
<1>5. ASSUME NEW h \in headers \ removed
      PROVE  \E i \in 1 .. Len(cut[number(h)]) : cut[number(h)][i] = h
  <2>1. number(h) \in Numbers
    BY NumberType DEF Indexed
  <2>2. PICK j \in 1 .. Len(lists[number(h)]) : lists[number(h)][j] = h
    BY <1>0
  <2>3. ~(j <= d[number(h)])
    BY <2>1, <2>2, SMTT(60) DEF CutBy
  <2>4. j - d[number(h)] \in 1 .. Len(cut[number(h)])
    BY <1>1, <2>1, <2>2, <2>3, SMTT(60)
  <2>5. cut[number(h)][j - d[number(h)]] = lists[number(h)][d[number(h)] + (j - d[number(h)])]
    BY <1>1, <2>1, <2>4
  <2>6. d[number(h)] + (j - d[number(h)]) = j
    BY <1>1, <2>1, <2>2, SMTT(60)
  <2>7. QED  BY <2>2, <2>4, <2>5, <2>6
<1>6. ASSUME NEW n \in Numbers, NEW i \in 1 .. Len(cut[n]), NEW j \in 1 .. Len(cut[n]),
             cut[n][i] = cut[n][j]
      PROVE  i = j
  <2>1. \A k \in 1 .. Len(cut[n]) : d[n] + k \in 1 .. Len(lists[n])
    <3>1. d[n] \in Nat /\ Len(lists[n]) \in Nat /\ Len(cut[n]) = Len(lists[n]) - d[n]
      BY <1>1
    <3>2. QED  BY <3>1, SMTT(60)
  <2>2. d[n] + i \in 1 .. Len(lists[n]) /\ d[n] + j \in 1 .. Len(lists[n])
    BY <2>1
  <2>3. lists[n][d[n] + i] = lists[n][d[n] + j]
    BY <1>1, <1>6
  <2>4. d[n] + i = d[n] + j
    BY <1>0, <2>2, <2>3
  <2>5. QED  BY <1>1, <2>4, SMTT(60)
<1>7. QED  BY <1>3, <1>4, <1>5, <1>6 DEF Indexed, Listed

\* What import_header checks before it writes.
LEMMA Accepted ==
    ASSUME StoreInv, NEW h \in Hashes, import_result(h) = "Ok"
    PROVE  /\ h \notin DOMAIN Headers
           /\ Header[h].parent_hash \in DOMAIN Headers
           /\ Len(HeadersByNumber[number(h)]) # MaxHeadersForNumber
           /\ VerifyPoW => number(h) = number(Header[h].parent_hash) + 1
           /\ becomes_best(h) =>
                get_best_finalized_header(stored_with(h), h) \in DOMAIN stored_with(h)
<1>1. validate_header_to_import(h) = "Ok"
  BY DEF import_result
<1>2. h \notin DOMAIN Headers /\ Header[h].parent_hash \in DOMAIN Headers
  BY <1>1 DEF validate_header_to_import
<1>3. VerifyPoW => valid_proof_of_work(h)
  BY <1>1 DEF validate_header_to_import
<1>4. VerifyPoW => number(h) = number(Header[h].parent_hash) + 1
  BY <1>3 DEF valid_proof_of_work, number
<1>5. Len(HeadersByNumber[number(h)]) # MaxHeadersForNumber
  BY <1>1 DEF import_result
<1>6. becomes_best(h) => get_best_finalized_header(stored_with(h), h) \in DOMAIN stored_with(h)
  BY <1>1, <1>5 DEF import_result
<1>7. QED  BY <1>2, <1>4, <1>5, <1>6

\* The genesis store satisfies the invariant.
LEMMA StoreInit == ASSUME Init PROVE StoreInv
<1> USE DEF Init, initialize_storage
<1>1. InitialHeader \in Hashes /\ number(InitialHeader) \in Numbers /\ number(InitialHeader) \in Nat
  BY HeaderAssumption, NumberType
<1>2. DOMAIN Headers = {InitialHeader}
      /\ Headers[InitialHeader] = [total_difficulty |-> InitialDifficulty, finalized |-> TRUE]
  OBVIOUS
<1>3. StoreTypes
  BY <1>1, ConfigAssumption, SMTT(60) DEF StoreTypes, StoredHeader
<1>4. /\ HeadersByNumber[number(InitialHeader)] = <<InitialHeader>>
      /\ \A n \in Numbers : n # number(InitialHeader) => HeadersByNumber[n] = <<>>
  BY <1>1
<1>5. Listed(DOMAIN Headers, HeadersByNumber)
  BY <1>1, <1>2, <1>4, SMTT(60) DEF Listed
<1>6. BestIsHeaviest
  BY <1>2, ConfigAssumption, SMTT(60) DEF BestIsHeaviest
<1>7. PruneFollows
  BY <1>1, <1>2, SMTT(60) DEF PruneFollows
<1>8. QED  BY <1>3, <1>5, <1>6, <1>7 DEF StoreInv

\* A new header is no older than oldest_unpruned_block, since its parent is stored.
LEMMA NewIsUnpruned ==
    ASSUME StoreInv, NEW h \in Hashes, import_result(h) = "Ok", VerifyPoW
    PROVE  \A x \in DOMAIN Headers \cup {h} : number(x) >= BlocksToPrune.oldest_unpruned_block
<1>1. \A x \in DOMAIN Headers : number(x) >= BlocksToPrune.oldest_unpruned_block
  BY DEF StoreInv, PruneFollows
<1>2. Header[h].parent_hash \in DOMAIN Headers /\ number(h) = number(Header[h].parent_hash) + 1
  BY Accepted
<1>3. number(Header[h].parent_hash) \in Nat /\ BlocksToPrune.oldest_unpruned_block \in Nat
  BY <1>2, NumberType DEF StoreInv, StoreTypes
<1>4. number(h) >= BlocksToPrune.oldest_unpruned_block
  BY <1>1, <1>2, <1>3, SMTT(60)
<1>5. QED  BY <1>1, <1>4

\* A header that does not become the best block is only stored and listed.
LEMMA SideStep ==
    ASSUME StoreInv, NEW h \in Hashes, import_header(h), ~becomes_best(h)
    PROVE  StoreInv'
<1>1. /\ import_result(h) = "Ok"
      /\ Headers' = stored_with(h) /\ HeadersByNumber' = listed_with(h)
      /\ BestBlock' = BestBlock /\ BlocksToPrune' = BlocksToPrune /\ resets' = resets
  BY DEF import_header, import_validated_header
<1>2. /\ stored_with(h) \in [DOMAIN Headers \cup {h} -> StoredHeader]
      /\ ListTypes(listed_with(h))
      /\ Listed(DOMAIN Headers \cup {h}, listed_with(h))
  BY <1>1, Accepted, Storing DEF StoreInv
<1>3. DOMAIN Headers' = DOMAIN Headers \cup {h}
  BY <1>1 DEF stored_with
<1>4. StoreTypes'
  BY <1>1, <1>2, <1>3 DEF StoreInv, StoreTypes, ListTypes
<1>5. Listed(DOMAIN Headers, HeadersByNumber)'
  BY <1>1, <1>2, <1>3 DEF Listed
<1>6. BestIsHeaviest'
  <2>1. total_difficulty(h) <= BestBlock.total_difficulty
    <3>1. total_difficulty(h) \in Nat /\ BestBlock.total_difficulty \in Nat
      <4>1. Header[h].parent_hash \in DOMAIN Headers  BY <1>1, Accepted
      <4>2. QED  BY <4>1, HeaderAssumption, SMTT(60) DEF total_difficulty, StoreInv, StoreTypes, StoredHeader
    <3>2. QED  BY <3>1, SMTT(60) DEF becomes_best
  <2>2. \A x \in DOMAIN Headers : stored_with(h)[x].total_difficulty
            \in {Headers[x].total_difficulty, total_difficulty(h)}
    BY DEF stored_with
  <2>3. stored_with(h)[h].total_difficulty = total_difficulty(h)
    BY DEF stored_with
  <2>4. QED  BY <1>1, <1>3, <2>1, <2>2, <2>3 DEF BestIsHeaviest, StoreInv
<1>7. VerifyPoW => PruneFollows'
  BY <1>1, <1>3, NewIsUnpruned DEF PruneFollows
<1>8. QED  BY <1>4, <1>5, <1>6, <1>7 DEF StoreInv

\* A header that becomes the best block: its ancestor is flagged and old headers are pruned.
LEMMA BestStep ==
    ASSUME StoreInv, NEW h \in Hashes, import_header(h), becomes_best(h)
    PROVE  StoreInv'
<1> DEFINE final == get_best_finalized_header(stored_with(h), h)
           flagged == IF final = FinalizedBlock THEN stored_with(h)
                      ELSE [stored_with(h) EXCEPT ![final].finalized = TRUE]
           lists == listed_with(h)
           prune_end == larger(number(final) - FINALIZED_HEADERS_TO_KEEP, 0)
           pruned == prune_header_range(lists, prune_end)
           headers == DOMAIN Headers \cup {h}
<1>1. /\ import_result(h) = "Ok"
      /\ BestBlock' = [hash |-> h, total_difficulty |-> total_difficulty(h)]
      /\ Headers' = [x \in DOMAIN flagged \ pruned.removed |-> flagged[x]]
      /\ HeadersByNumber' = pruned.lists /\ BlocksToPrune' = pruned.range /\ resets' = resets
  BY DEF import_header, import_validated_header, follow_best
<1>2. /\ stored_with(h) \in [headers -> StoredHeader]
      /\ ListTypes(lists)
      /\ Listed(headers, lists)
  BY <1>1, Accepted, Storing DEF StoreInv
<1>3. headers \subseteq Hashes /\ total_difficulty(h) \in Nat
  <2>1. Header[h].parent_hash \in DOMAIN Headers  BY <1>1, Accepted
  <2>2. QED  BY <2>1, HeaderAssumption, SMTT(60) DEF total_difficulty, StoreInv, StoreTypes, StoredHeader
<1>4. final \in headers
  BY <1>1, <1>2, Accepted
<1>5. prune_end \in Nat
  BY <1>3, <1>4, NumberType, ConfigAssumption, SMTT(60) DEF larger
<1>6. /\ flagged \in [headers -> StoredHeader]
      /\ \A x \in headers : flagged[x].total_difficulty = stored_with(h)[x].total_difficulty
  BY <1>2, <1>4 DEF StoredHeader
<1> HIDE DEF final, flagged, prune_end
<1>7. PICK d :
        /\ CutBy(d, lists, pruned.lists, pruned.removed)
        /\ pruned.range \in [oldest_unpruned_block : Nat, oldest_block_to_keep : Nat]
        /\ \A n \in Numbers :
               BlocksToPrune.oldest_unpruned_block <= n /\ n < pruned.range.oldest_unpruned_block
                   => d[n] = Len(lists[n])
        /\ \A n \in Numbers : n >= pruned.range.oldest_block_to_keep => d[n] = 0
        /\ pruned.range.oldest_block_to_keep = larger(BlocksToPrune.oldest_block_to_keep, prune_end)
  BY <1>2, <1>5, Pruning DEF StoreInv, StoreTypes
<1> HIDE DEF lists, pruned
<1>8. /\ Indexed(headers \ pruned.removed, pruned.lists)
      /\ ListTypes(pruned.lists)
      /\ Listed(headers \ pruned.removed, pruned.lists)
  <2>1. Indexed(headers, lists)
    BY <1>2, <1>3 DEF Indexed
  <2>2. Indexed(headers \ pruned.removed, pruned.lists)
    BY <1>7, <2>1, Cutting
  <2>3. QED  BY <2>2 DEF Indexed
<1>9. DOMAIN Headers' = headers \ pruned.removed
      /\ \A x \in DOMAIN Headers' : Headers'[x] = flagged[x]
  BY <1>1, <1>6
<1>10. StoreTypes'
  <2>1. Headers' \in [DOMAIN Headers' -> StoredHeader] /\ DOMAIN Headers' \subseteq Hashes
    BY <1>1, <1>3, <1>6, <1>9
  <2>2. QED  BY <1>1, <1>3, <1>7, <1>8, <2>1 DEF StoreInv, StoreTypes, ListTypes
<1>11. Listed(DOMAIN Headers, HeadersByNumber)'
  <2>1. Listed(DOMAIN Headers', HeadersByNumber')
    BY <1>1, <1>8, <1>9
  <2>2. QED  BY <2>1 DEF Listed
<1>12. BestIsHeaviest'
  <2>1. SUFFICES ASSUME VerifyPoW, resets = 0, NEW x \in headers
                 PROVE  stored_with(h)[x].total_difficulty <= total_difficulty(h)
    BY <1>1, <1>6, <1>9 DEF BestIsHeaviest
  <2>2. BestBlock.total_difficulty < total_difficulty(h) /\ BestBlock.total_difficulty \in Nat
    BY <1>3, <2>1 DEF becomes_best, StoreInv, StoreTypes
  <2>3. CASE x = h
    BY <1>3, <2>3, SMTT(60) DEF stored_with
  <2>4. CASE x # h
    <3>1. Headers[x].total_difficulty <= BestBlock.total_difficulty /\ x \in DOMAIN Headers
      BY <2>1, <2>4 DEF StoreInv, BestIsHeaviest
    <3>2. Headers[x].total_difficulty \in Nat
      BY <3>1 DEF StoreInv, StoreTypes, StoredHeader
    <3>3. stored_with(h)[x].total_difficulty = Headers[x].total_difficulty
      BY <2>4, <3>1 DEF stored_with
    <3>4. QED  BY <1>3, <2>2, <3>1, <3>2, <3>3, SMTT(60)
  <2>5. QED  BY <2>3, <2>4
<1>13. ASSUME VerifyPoW PROVE PruneFollows'
  <2>1. SUFFICES ASSUME NEW x \in headers \ pruned.removed,
                        ~(number(x) >= pruned.range.oldest_unpruned_block)
                 PROVE  FALSE
    BY <1>1, <1>9 DEF PruneFollows
  <2>2. number(x) \in Numbers /\ number(x) \in Nat
    BY <1>3, NumberType
  <2>3. BlocksToPrune.oldest_unpruned_block <= number(x)
    BY <1>1, <1>13, <2>2, NewIsUnpruned DEF StoreInv, StoreTypes
  <2>4. d[number(x)] = Len(lists[number(x)])
    BY <1>7, <2>1, <2>2, <2>3, SMTT(60)
  <2>5. Len(pruned.lists[number(x)]) = 0
    BY <1>2, <1>7, <2>2, <2>4, SMTT(60) DEF CutBy, ListTypes
  <2>6. \E i \in 1 .. Len(pruned.lists[number(x)]) : pruned.lists[number(x)][i] = x
    BY <1>8 DEF Listed
  <2>7. QED  BY <2>5, <2>6, SMTT(60)
<1>14. QED  BY <1>10, <1>11, <1>12, <1>13 DEF StoreInv

\* The invariant holds in every reachable state, whatever is imported and reset.
THEOREM StoreInvariant == Spec => []StoreInv
<1>1. Init => StoreInv
  BY StoreInit
<1>2. StoreInv /\ [Next]_vars => StoreInv'
  <2>1. SUFFICES ASSUME StoreInv, [Next]_vars PROVE StoreInv'
    OBVIOUS
  <2>2. ASSUME NEW h \in Hashes, import_header(h) PROVE StoreInv'
    BY <2>1, <2>2, SideStep, BestStep
  <2>3. ASSUME NEW h \in Hashes, force_reset_to_fork(h) PROVE StoreInv'
    <3>1. /\ h \in DOMAIN Headers /\ resets' = resets + 1
          /\ BestBlock' = [hash |-> h, total_difficulty |-> Headers[h].total_difficulty]
          /\ BlocksToPrune' = BlocksToPrune /\ Headers' = Headers
          /\ HeadersByNumber' = HeadersByNumber
      BY <2>3 DEF force_reset_to_fork
    <3>2. StoreTypes'
      BY <2>1, <3>1, SMTT(60) DEF StoreInv, StoreTypes, StoredHeader
    <3>3. BestIsHeaviest'
      BY <2>1, <3>1, SMTT(60) DEF StoreInv, StoreTypes, BestIsHeaviest
    <3>4. QED  BY <2>1, <3>1, <3>2, <3>3 DEF StoreInv, Listed, PruneFollows
  <2>4. CASE UNCHANGED vars
    BY <2>1, <2>4 DEF vars, StoreInv, StoreTypes, Listed, BestIsHeaviest, PruneFollows
  <2>5. QED  BY <2>1, <2>2, <2>3, <2>4 DEF Next
<1>3. QED  BY <1>1, <1>2, PTL DEF Spec

\* HeadersByNumber and Headers agree although import_header writes them one after the other
\* and prune_header_range may stop in the middle of a number's list: for every tree of
\* headers, with or without proof of work, and through any resets.
THEOREM IndexAlwaysAgrees == Spec => []IndexAgrees
<1>1. StoreInv => IndexAgrees
  BY ListedIsIndex DEF StoreInv
<1>2. QED  BY <1>1, StoreInvariant, PTL

\* The client that verifies proof of work follows a heaviest chain of those it holds.
THEOREM BestAlwaysHeaviest == Spec => []BestIsHeaviest
<1>1. StoreInv => BestIsHeaviest
  BY DEF StoreInv
<1>2. QED  BY <1>1, StoreInvariant, PTL

\* With proof of work verified, oldest_unpruned_block never passes a header that is stored,
\* so that no header stays in storage for ever.
THEOREM PruningIsComplete ==
    ASSUME VerifyPoW PROVE Spec => []PruneFollows
<1>1. StoreInv => PruneFollows
  BY DEF StoreInv
<1>2. QED  BY <1>1, StoreInvariant, PTL

----------------------------------------------------------------------------
\* The parent of every header.
parent_of == [h \in Hashes |-> Header[h].parent_hash]

\* No header is among its own ancestors: depth is the distance from the oldest of them.
HashChain(depth) == Forest(Hashes, parent_of, depth)

\* The headers that descend from the initial one, with numbers that follow their parents'.
Grown(depth, stored) ==
    \A h \in stored :
        /\ depth[h] >= depth[InitialHeader]
        /\ h # InitialHeader => parent_of[h] \in Hashes /\ number(h) = number(parent_of[h]) + 1

\* ancestry, a recursion along parents, gives the line of a header.
LEMMA AncestryIsLine ==
    ASSUME NEW depth, HashChain(depth), NEW stored, DOMAIN stored \subseteq Hashes,
           NEW hash \in Hashes \cup {NoHash}
    PROVE  IsLine(parent_of, DOMAIN stored, ancestry(stored, hash), hash)
<1> DEFINE dom == Hashes \cup {NoHash}
           body(f) == [h \in dom |->
                          IF h \notin DOMAIN stored THEN <<>>
                          ELSE LET parent == Header[h].parent_hash
                               IN  <<h>> \o (IF parent \in Hashes THEN f[parent] ELSE <<>>)]
           from == CHOOSE f : f = body(f)
<1>1. \A f : Lines(f, dom, Hashes, parent_of, DOMAIN stored) <=> f = body(f)
  <2>1. ASSUME NEW f
        PROVE  [x \in dom |-> IF x \notin DOMAIN stored THEN <<>>
                              ELSE <<x>> \o (IF parent_of[x] \in Hashes THEN f[parent_of[x]] ELSE <<>>)]
               = body(f)
    <3>1. \A h \in DOMAIN stored : parent_of[h] = Header[h].parent_hash
      BY DEF parent_of
    <3>2. QED  BY <3>1
  <2> HIDE DEF body, dom
  <2>2. QED  BY <2>1 DEF Lines
<1>2. \E f : f = body(f)
  <2>1. \E f : Lines(f, dom, Hashes, parent_of, DOMAIN stored)
    BY LinesAreDefined DEF HashChain
  <2>2. QED  BY <1>1, <2>1
<1>3. from = body(from)
  <2> HIDE DEF body
  <2> QED  BY <1>2
<1>4. Lines(from, dom, Hashes, parent_of, DOMAIN stored)
  <2> HIDE DEF from, body
  <2> QED  BY <1>1, <1>3
<1>5. IsLine(parent_of, DOMAIN stored, from[hash], hash)
  <2> HIDE DEF from, body
  <2> QED  BY <1>4, LinesAreLines DEF HashChain
<1>6. ancestry(stored, hash) = from[hash]
  BY DEF ancestry
<1>7. QED  BY <1>5, <1>6

\* Numbers count down along a line.
LEMMA LineNumbers ==
    ASSUME NEW depth, HashChain(depth), NEW stored \in SUBSET Hashes, Grown(depth, stored),
           NEW hash \in stored, NEW line, IsLine(parent_of, stored, line, hash)
    PROVE  \A i \in 1 .. Len(line) : number(line[i]) = number(hash) - (i - 1)
<1> DEFINE P == {k \in Nat : k + 1 <= Len(line) => number(line[k + 1]) = number(hash) - k}
<1>1. line \in Seq(stored) /\ Len(line) \in Nat /\ line # <<>> /\ line[1] = hash
  BY SMTT(60) DEF IsLine
<1>2. \A h \in Hashes : number(h) \in Nat
  BY NumberType
<1>3. 0 \in P
  BY <1>1, <1>2, SMTT(60)
<1>4. ASSUME NEW k \in 1 .. Len(line), k - 1 \in P PROVE k \in P
  <2>1. SUFFICES ASSUME k + 1 <= Len(line) PROVE number(line[k + 1]) = number(hash) - k
    BY SMTT(60)
  <2>2. (k - 1) + 1 = k /\ k <= Len(line) /\ k \in 1 .. Len(line) - 1 /\ k + 1 \in 1 .. Len(line)
    BY <1>1, <2>1, SMTT(60)
  <2>3. number(line[k]) = number(hash) - (k - 1)
    BY <1>4, <2>2
  <2>4. line[k] \in stored /\ line[k + 1] \in stored
    BY <1>1, <2>2, SMTT(60)
  <2>5. line[k + 1] = parent_of[line[k]]
    BY <2>2 DEF IsLine
  <2>6. line[k] # InitialHeader
    <3>1. depth[line[k + 1]] < depth[line[k]]
      BY <2>4, <2>5 DEF HashChain, Forest
    <3>2. depth[line[k + 1]] >= depth[InitialHeader]
      BY <2>4 DEF Grown
    <3>3. depth[line[k + 1]] \in Nat /\ depth[line[k]] \in Nat
      BY <2>4 DEF HashChain, Forest
    <3>4. QED  BY <3>1, <3>2, <3>3, SMTT(60)
  <2>7. number(line[k]) = number(line[k + 1]) + 1
    BY <2>4, <2>5, <2>6 DEF Grown
  <2>8. number(line[k]) \in Nat /\ number(line[k + 1]) \in Nat /\ number(hash) \in Nat
    BY <1>2, <2>4
  <2>9. \A a, b, c \in Nat : a = c - (k - 1) /\ a = b + 1 => b = c - k
    BY SMTT(60)
  <2>10. QED  BY <2>3, <2>7, <2>8, <2>9
<1>5. 0 .. Len(line) \subseteq P
  <2> HIDE DEF P
  <2> QED  BY <1>1, <1>3, <1>4, UpTo
<1>6. TAKE i \in 1 .. Len(line)
<1>7. i - 1 \in 0 .. Len(line) /\ (i - 1) + 1 = i
  BY <1>1, SMTT(60)
<1>8. i - 1 \in P
  <2> HIDE DEF P
  <2> QED  BY <1>5, <1>7
<1>9. QED  BY <1>1, <1>7, <1>8, SMTT(60)

\* The line of a new header is the header and the line of its parent.
LEMMA NewLine ==
    ASSUME NEW depth, HashChain(depth), DOMAIN Headers \subseteq Hashes,
           NEW h \in Hashes, h \notin DOMAIN Headers, parent_of[h] \in DOMAIN Headers
    PROVE  /\ IsLine(parent_of, DOMAIN Headers, ancestry(Headers, parent_of[h]), parent_of[h])
           /\ IsLine(parent_of, DOMAIN Headers \cup {h}, ancestry(stored_with(h), h), h)
           /\ ancestry(stored_with(h), h) = <<h>> \o ancestry(Headers, parent_of[h])
<1> DEFINE all == DOMAIN Headers \cup {h}
           line == ancestry(Headers, parent_of[h])
<1>1. IsLine(parent_of, DOMAIN Headers, line, parent_of[h])
  BY AncestryIsLine
<1>2. line \in Seq(DOMAIN Headers) /\ line # <<>> /\ Len(line) \in 1 .. Len(line)
  BY <1>1, SMTT(60) DEF IsLine
<1>3. depth[line[Len(line)]] <= depth[parent_of[h]]
  <2>1. \A i \in 1 .. Len(line) : depth[line[i]] <= depth[parent_of[h]]
    BY <1>1, LineDepths DEF HashChain
  <2>2. QED  BY <1>2, <2>1
<1> HIDE DEF line
<1>4. parent_of[line[Len(line)]] # h
  <2>1. line[Len(line)] \in Hashes
    BY <1>2, SMTT(60)
  <2>2. depth \in [Hashes -> Nat] /\ \A x \in Hashes : parent_of[x] \in Hashes => depth[parent_of[x]] < depth[x]
    BY DEF HashChain, Forest
  <2>3. depth[parent_of[h]] < depth[h]
    BY <2>2
  <2>4. QED  BY <1>3, <2>1, <2>2, <2>3, SMTT(60)
<1>5. IsLine(parent_of, all, line, parent_of[h])
  <2>1. line \in Seq(all)
    BY <1>2, SMTT(60)
  <2>2. QED  BY <1>1, <1>2, <1>4, <2>1 DEF IsLine
<1>6. IsLine(parent_of, all, <<h>> \o line, h)
  BY <1>5, LineGrows
<1>7. IsLine(parent_of, all, ancestry(stored_with(h), h), h)
  <2>1. DOMAIN stored_with(h) = all /\ all \subseteq Hashes
    BY DEF stored_with
  <2>2. IsLine(parent_of, DOMAIN stored_with(h), ancestry(stored_with(h), h), h)
    BY <2>1, AncestryIsLine
  <2>3. QED  BY <2>1, <2>2
<1>8. ancestry(stored_with(h), h) = <<h>> \o line
  BY <1>6, <1>7, LineIsUnique
<1>9. QED  BY <1>1, <1>7, <1>8 DEF line

\* The ancestors of a header in the tree of all headers hold their parents, ...
LEMMA AncestorsAreClosed ==
    ASSUME NEW depth, HashChain(depth), NEW x \in Hashes
    PROVE  /\ x \in Range(ancestry(Header, x)) /\ Range(ancestry(Header, x)) \subseteq Hashes
           /\ \A y \in Range(ancestry(Header, x)) :
                  parent_of[y] \in Hashes => parent_of[y] \in Range(ancestry(Header, x))
<1> DEFINE line == ancestry(Header, x)
<1>1. IsLine(parent_of, Hashes, line, x)
  BY AncestryIsLine DEF Hashes
<1> HIDE DEF line
<1>2. /\ line \in Seq(Hashes) /\ line # <<>> /\ Len(line) \in Nat /\ DOMAIN line = 1 .. Len(line)
      /\ line[1] = x /\ 1 \in 1 .. Len(line)
  BY <1>1, SMTT(60) DEF IsLine
<1>3. \A y : y \in Range(line) <=> \E i \in 1 .. Len(line) : line[i] = y
  BY <1>2 DEF Range
<1>4. ASSUME NEW i \in 1 .. Len(line), parent_of[line[i]] \in Hashes
      PROVE  \E j \in 1 .. Len(line) : line[j] = parent_of[line[i]]
  <2>1. i # Len(line)
    BY <1>1, <1>2, <1>4 DEF IsLine
  <2>2. i \in 1 .. Len(line) - 1 /\ i + 1 \in 1 .. Len(line)
    <3>1. Len(line) \in Nat
      BY <1>2
    <3>2. QED  BY <2>1, <3>1, SMTT(60)
  <2>3. line[i + 1] = parent_of[line[i]]
    BY <1>1, <2>2 DEF IsLine
  <2>4. QED  BY <2>2, <2>3
<1>5. x \in Range(line) /\ Range(line) \subseteq Hashes
  BY <1>2, <1>3, SMTT(60)
<1>6. \A y \in Range(line) : parent_of[y] \in Hashes => parent_of[y] \in Range(line)
  BY <1>3, <1>4
<1>7. QED  BY <1>5, <1>6 DEF line

\* ... and are the smallest set with the header that does.
LEMMA AncestorsAreLeast ==
    ASSUME NEW depth, HashChain(depth), NEW x \in Hashes, NEW T, x \in T,
           \A y \in T : parent_of[y] \in Hashes => parent_of[y] \in T
    PROVE  Range(ancestry(Header, x)) \subseteq T
<1> DEFINE line == ancestry(Header, x)
<1>1. IsLine(parent_of, Hashes, line, x)
  BY AncestryIsLine DEF Hashes
<1> HIDE DEF line
<1>2. /\ line \in Seq(Hashes) /\ line # <<>> /\ Len(line) \in Nat /\ DOMAIN line = 1 .. Len(line)
      /\ line[1] = x /\ 1 \in 1 .. Len(line)
  BY <1>1, SMTT(60) DEF IsLine
<1>3. \A j \in 1 .. Len(line) : line[j] \in T
  BY <1>1, <1>2, LineStaysIn
<1>4. QED  BY <1>2, <1>3 DEF Range, line
=============================================================================

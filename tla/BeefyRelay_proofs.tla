------------------------- MODULE BeefyRelay_proofs --------------------------
(***************************************************************************)
(* The safety invariants of the BEEFY relay, for any number of validators, *)
(* sets and commitments, with crashes, lost transactions, expired windows  *)
(* and other relayers.                                                     *)
(***************************************************************************)
EXTENDS BeefyRelay, TLAPS

\* Leaves are for Zenon; SMTT marks those that need arithmetic, sequences or records. A prover
\* may work a minute on a leaf, so that a busy machine checks the same proofs: few take seconds.
USE ZenonT(60)

Calls == {"initial", "commit", "final"}
Request == [c : Justified, handover : BOOLEAN]
Transaction == [call : Calls, c : Justified, handover : BOOLEAN, awaited : BOOLEAN]

RelayTypes ==
    /\ beefyHead \in Nat
    /\ pc \in {"down", "reading", "up"}
    /\ current \in Nat
    /\ currentSet \in Nat
    /\ results \in Seq([c : Justified, recent : BOOLEAN])
    /\ offer \in {<<>>} \cup {<<c>> : c \in Justified}
    /\ writer \in Calls \cup {"starting", "idle"}
    /\ request \in {<<>>} \cup {<<q>> : q \in Request}
    /\ sent \in BOOLEAN
    /\ receipt \in {<<>>} \cup {<<q>> : q \in [block : Nat, status : BOOLEAN]}
    /\ mempool \in Seq(Transaction)

\* The sets are the relay chain's, one after the other, and the set in force is that of the
\* latest block.
ContractInv ==
    /\ ethBlock \in Nat
    /\ latestBeefyBlock \in Nat
    /\ currentValidatorSet \in {ValidatorSet(id) : id \in SetIDs}
    /\ nextValidatorSet \in {ValidatorSet(id) : id \in SetIDs}
    /\ nextValidatorSet.id = currentValidatorSet.id + 1
    /\ tasks \in [TaskIDs -> Task]
    /\ \A c \in Justified :
           c.blockNumber <= latestBeefyBlock => c.validatorSetID <= currentValidatorSet.id

\* The writer waits for at most one transaction, the last one sent.  What a process before
\* it has left in the mempool is gone by the time its first call is confirmed.
WriterInv ==
    /\ request = <<>> <=> writer \in {"starting", "idle"}
    /\ request = <<>> => ~sent
    /\ ~sent => receipt = <<>>
    /\ receipt # <<>> => mempool = <<>>
    /\ writer \in {"commit", "final"} /\ ~sent => mempool = <<>>
    /\ \A i \in 1 .. Len(mempool) :
           /\ mempool[i].call # "initial" => i = 1
           /\ mempool[i].awaited =>
                  /\ i = Len(mempool) /\ sent /\ receipt = <<>>
                  /\ mempool[i].call = writer /\ mempool[i].c = request[1].c
                  /\ mempool[i].handover = request[1].handover

\* The task that the writer has opened is as old as its receipt, and old enough for the seed
\* once the writer goes on.
SeedInv ==
    /\ NeverEarly
    /\ writer = "initial" /\ receipt # <<>> /\ receipt[1].status =>
           tasks[<<Self, request[1].c>>].blockNumber <= receipt[1].block
    /\ writer = "commit" /\ ~sent =>
           ethBlock >= tasks[<<Self, request[1].c>>].blockNumber + randaoCommitDelay

\* A handover whose last call has succeeded has moved the contract.
AheadInv ==
    /\ pc # "up" => writer = "starting" /\ offer = <<>> /\ results = <<>>
    /\ NeverAhead
    /\ writer = "final" /\ receipt # <<>> /\ receipt[1].status /\ request[1].handover =>
           currentSet <= currentValidatorSet.id + Len(offer)

\* The listener has followed the handovers of the blocks it has scanned, but for those that
\* it has not looked at yet.
ScanInv ==
    /\ pc = "reading" => current <= latestBeefyBlock + 1
    /\ pc = "up" =>
           \A c \in handovers : c.blockNumber < current =>
               \/ c.validatorSetID <= currentSet
               \/ \E i \in 1 .. Len(results) : results[i].c = c

RelayInv == RelayTypes /\ ContractInv /\ WriterInv /\ SeedInv /\ AheadInv /\ ScanInv

\* Time, the latest block and the set in force only go up.
Moved ==
    /\ ethBlock <= ethBlock' /\ latestBeefyBlock <= latestBeefyBlock'
    /\ currentValidatorSet.id <= currentValidatorSet'.id

----------------------------------------------------------------------------
\* A block that is late enough for a delay stays so as the chain grows.
LEMMA StillLate ==
    ASSUME NEW e \in Nat, NEW f \in Nat, e <= f, NEW t \in Nat, NEW d \in Nat, e >= t + d
    PROVE  f >= t + d
  BY SMTT(60)

\* Waiting for a delay and a block more after a receipt is late enough for what is as old.
LEMMA ConfirmedLate ==
    ASSUME NEW e \in Nat, NEW t \in Nat, NEW b \in Nat, NEW d \in Nat,
           t <= b, e - 1 >= b + (d + 1)
    PROVE  e >= t + d
  BY SMTT(60)

\* What is bounded by a sum stays so when it grows by no more than a part of the sum does.
LEMMA StillBounded ==
    ASSUME NEW x \in Nat, NEW y \in Nat, NEW n \in Nat, NEW h \in Nat, NEW k \in Nat,
           x <= n + h, y - x <= k - h
    PROVE  y <= n + k
  BY SMTT(60)

\* A set of the relay chain has an id and a length.
LEMMA AuthorityFacts ==
    ASSUME NEW id \in SetIDs
    PROVE  /\ id \in Nat /\ ValidatorSet(id).id = id /\ ValidatorSet(id) # NoSet
           /\ Len(ValidatorSet(id).members) \in Nat
<1>1. id \in Nat /\ id # 0 /\ Authorities[id] \in Seq(Validators)
  BY SetAssumption
<1>2. Len(Authorities[id]) \in Nat
  BY <1>1, SMTT(60)
<1>3. QED  BY <1>1, <1>2 DEF ValidatorSet, NoSet

\* The contract's two sets are consecutive sets of the relay chain.
LEMMA SetFacts ==
    ASSUME ContractInv
    PROVE  /\ currentValidatorSet.id \in Nat
           /\ currentValidatorSet # NoSet
           /\ nextValidatorSet.id = currentValidatorSet.id + 1
           /\ nextValidatorSet \in {ValidatorSet(id) : id \in SetIDs}
<1>1. PICK id \in SetIDs : currentValidatorSet = ValidatorSet(id)
  BY DEF ContractInv
<1>2. currentValidatorSet.id = id /\ id \in Nat /\ currentValidatorSet # NoSet
  BY <1>1, AuthorityFacts
<1>3. QED  BY <1>2 DEF ContractInv

\* What is justified has a block, a set and announcements of sets of the relay chain.
LEMMA JustifiedTypes ==
    ASSUME NEW c \in Justified
    PROVE  /\ c \in Commitments /\ c.blockNumber \in Nat /\ c.validatorSetID \in SetIDs
           /\ c.validatorSetID \in Nat
           /\ c.leaves \subseteq {ValidatorSet(id) : id \in SetIDs}
           /\ <<Self, c>> \in TaskIDs
<1>1. c \in Commitments
  BY RelayAssumption
<1>2. c \in [blockNumber : Nat, validatorSetID : SetIDs, leaves : SUBSET AnySet]
  BY <1>1, CommitmentAssumption
<1>3. QED  BY <1>1, <1>2, RelayAssumption, SetAssumption DEF TaskIDs

\* A commitment that the contract accepts, this relay's or another's, takes it to the
\* commitment's block and set.
LEMMA AcceptedInv ==
    ASSUME ContractInv, NEW d \in Justified, d.blockNumber > latestBeefyBlock,
           latestBeefyBlock' = d.blockNumber, ethBlock' = ethBlock,
           tasks' \in [TaskIDs -> Task],
           \/ /\ d.validatorSetID = currentValidatorSet.id
              /\ UNCHANGED <<currentValidatorSet, nextValidatorSet>>
           \/ /\ d.validatorSetID = nextValidatorSet.id
              /\ nextValidatorSet' \in d.leaves
              /\ nextValidatorSet'.id = nextValidatorSet.id + 1
              /\ currentValidatorSet' = nextValidatorSet
    PROVE  /\ ContractInv' /\ Moved
           /\ currentValidatorSet' # currentValidatorSet =>
                  currentValidatorSet'.id = currentValidatorSet.id + 1
<1>1. /\ d.blockNumber \in Nat /\ d.leaves \subseteq {ValidatorSet(id) : id \in SetIDs}
      /\ ethBlock \in Nat /\ latestBeefyBlock \in Nat
  BY JustifiedTypes DEF ContractInv
<1>2. /\ currentValidatorSet'.id = d.validatorSetID
      /\ currentValidatorSet'.id \in {currentValidatorSet.id, currentValidatorSet.id + 1}
      /\ currentValidatorSet' # currentValidatorSet =>
             currentValidatorSet'.id = currentValidatorSet.id + 1
  BY SetFacts
<1>3. currentValidatorSet' \in {ValidatorSet(id) : id \in SetIDs}
  BY SetFacts DEF ContractInv
<1>4. /\ nextValidatorSet' \in {ValidatorSet(id) : id \in SetIDs}
      /\ nextValidatorSet'.id = currentValidatorSet'.id + 1
  BY <1>1, SetFacts DEF ContractInv
<1>5. \A c \in Justified :
          c.blockNumber <= latestBeefyBlock' => c.validatorSetID <= currentValidatorSet'.id
  BY <1>2, SessionAssumption
<1>6. Moved
  BY <1>1, <1>2, SetFacts, SMTT(60) DEF Moved
<1>7. ContractInv'
  BY <1>1, <1>3, <1>4, <1>5 DEF ContractInv
<1>8. QED  BY <1>2, <1>6, <1>7

\* What happens around the relay, with its tasks left alone, does it no harm.
LEMMA WorldInv ==
    ASSUME RelayInv, ContractInv', Moved, beefyHead' \in Nat, UNCHANGED <<tasks, relayVars>>
    PROVE  RelayInv'
<1>1. UNCHANGED <<tasks, pc, current, currentSet, results, offer, writer, request, sent,
                  receipt, mempool>>
  BY DEF relayVars, listenerVars, writerVars
<1>2. /\ ethBlock \in Nat /\ ethBlock' \in Nat /\ ethBlock <= ethBlock'
      /\ latestBeefyBlock \in Nat /\ latestBeefyBlock' \in Nat
      /\ latestBeefyBlock <= latestBeefyBlock'
      /\ currentValidatorSet.id \in Nat /\ currentValidatorSet'.id \in Nat
      /\ currentValidatorSet.id <= currentValidatorSet'.id
  <2>1. currentValidatorSet'.id \in Nat
    <3>1. PICK id \in SetIDs : currentValidatorSet' = ValidatorSet(id)
      BY DEF ContractInv
    <3>2. QED  BY <3>1, AuthorityFacts
  <2>2. QED  BY <2>1, SetFacts DEF RelayInv, ContractInv, Moved
<1>3. RelayTypes' /\ WriterInv'
  BY <1>1 DEF RelayInv, RelayTypes, WriterInv
<1>4. \A c \in Justified : tasks[<<Self, c>>].blockNumber \in Nat
  BY JustifiedTypes DEF RelayInv, ContractInv, Task
<1>5. SeedInv'
  <2>1. \A i \in DOMAIN mempool : mempool[i].c \in Justified
    <3>1. mempool \in Seq(Transaction)
      BY DEF RelayInv, RelayTypes
    <3>2. \A i \in DOMAIN mempool : mempool[i] \in Transaction
      BY <3>1, SMTT(60)
    <3>3. QED  BY <3>2 DEF Transaction
  <2>2. NeverEarly'
    <3>1. randaoCommitDelay \in Nat
      BY BoundAssumption
    <3>2. ASSUME NEW i \in DOMAIN mempool, mempool[i].call = "commit"
          PROVE  ethBlock' >= tasks[<<Self, mempool[i].c>>].blockNumber + randaoCommitDelay
      <4>1. ethBlock >= tasks[<<Self, mempool[i].c>>].blockNumber + randaoCommitDelay
        BY <3>2 DEF RelayInv, SeedInv, NeverEarly
      <4>2. tasks[<<Self, mempool[i].c>>].blockNumber \in Nat
        BY <1>4, <2>1
      <4>3. QED  BY <1>2, <3>1, <4>1, <4>2, StillLate
    <3>3. QED  BY <1>1, <3>2 DEF NeverEarly
  <2>3. writer = "commit" => request[1].c \in Justified
    BY SMTT(60) DEF RelayInv, RelayTypes, WriterInv, Request
  <2>4. ASSUME writer = "commit", ~sent
        PROVE  ethBlock' >= tasks[<<Self, request[1].c>>].blockNumber + randaoCommitDelay
    <3>1. ethBlock >= tasks[<<Self, request[1].c>>].blockNumber + randaoCommitDelay
      BY <2>4 DEF RelayInv, SeedInv
    <3>2. tasks[<<Self, request[1].c>>].blockNumber \in Nat /\ randaoCommitDelay \in Nat
      BY <1>4, <2>3, <2>4, BoundAssumption
    <3>3. QED  BY <1>2, <3>1, <3>2, StillLate
  <2>5. QED  BY <1>1, <2>2, <2>4 DEF RelayInv, SeedInv
<1>6. AheadInv'
  <2>1. Len(offer) \in Nat /\ currentSet \in Nat /\ handoversUnderWay \in Nat
    BY SMTT(60) DEF RelayInv, RelayTypes, handoversUnderWay
  <2>2. handoversUnderWay' = handoversUnderWay
    BY <1>1 DEF handoversUnderWay
  <2>3. NeverAhead'
    BY <1>1, <1>2, <2>1, <2>2, SMTT(60) DEF RelayInv, AheadInv, NeverAhead
  <2>4. QED  BY <1>1, <1>2, <2>1, <2>3, SMTT(60) DEF RelayInv, AheadInv
<1>7. ScanInv'
  <2>1. pc = "reading" => current <= latestBeefyBlock' + 1
    <3>1. current \in Nat /\ (pc = "reading" => current <= latestBeefyBlock + 1)
      BY DEF RelayInv, RelayTypes, ScanInv
    <3>2. /\ latestBeefyBlock \in Nat /\ latestBeefyBlock' \in Nat
          /\ latestBeefyBlock <= latestBeefyBlock'
      BY <1>2
    <3>3. \A i, m, n \in Nat : i <= m + 1 /\ m <= n => i <= n + 1
      BY SMTT(60)
    <3>4. QED  BY <3>1, <3>2, <3>3
  <2>2. QED  BY <1>1, <2>1 DEF RelayInv, ScanInv
<1>8. QED  BY <1>3, <1>5, <1>6, <1>7 DEF RelayInv

----------------------------------------------------------------------------
\* A step of the relay's own leaves the contract alone.
LEMMA ContractKept ==
    ASSUME RelayInv, UNCHANGED vars
    PROVE  /\ ContractInv'
           /\ UNCHANGED <<ethBlock, latestBeefyBlock, currentValidatorSet, nextValidatorSet, tasks>>
<1>1. UNCHANGED <<ethBlock, latestBeefyBlock, currentValidatorSet, nextValidatorSet, tasks>>
  BY DEF vars, contractVars
<1>2. QED  BY <1>1 DEF RelayInv, ContractInv

\* A step of the listener's leaves the writer alone.
LEMMA WriterKept ==
    ASSUME RelayInv, UNCHANGED <<vars, writerVars, mempool>>
    PROVE  WriterInv' /\ SeedInv'
<1>1. UNCHANGED <<ethBlock, tasks, writer, request, sent, receipt, mempool>>
  BY ContractKept DEF writerVars
<1>2. WriterInv'
  BY <1>1 DEF RelayInv, WriterInv
<1>3. QED  BY <1>1, <1>2 DEF RelayInv, SeedInv, NeverEarly

\* The process ends: what it sent stays in the mempool, and nobody waits for it.
LEMMA TerminateInv ==
    ASSUME RelayInv, UNCHANGED <<vars, beefyHead>>, terminate
    PROVE  RelayInv'
<1>1. /\ mempool \in Seq(Transaction) /\ beefyHead' \in Nat
      /\ UNCHANGED <<ethBlock, latestBeefyBlock, currentValidatorSet, tasks>>
  BY ContractKept DEF RelayInv, RelayTypes
<1>2. /\ mempool' \in Seq(Transaction) /\ Len(mempool') = Len(mempool)
      /\ DOMAIN mempool = 1 .. Len(mempool) /\ DOMAIN mempool' = 1 .. Len(mempool)
      /\ \A i \in 1 .. Len(mempool) :
             /\ mempool'[i].call = mempool[i].call /\ mempool'[i].c = mempool[i].c
             /\ ~mempool'[i].awaited
  <2>1. mempool' = [i \in 1 .. Len(mempool) |-> [mempool[i] EXCEPT !.awaited = FALSE]]
    BY <1>1, SMTT(60) DEF terminate
  <2>2. ASSUME NEW i \in 1 .. Len(mempool)
        PROVE  /\ mempool'[i] \in Transaction
               /\ mempool'[i].call = mempool[i].call /\ mempool'[i].c = mempool[i].c
               /\ ~mempool'[i].awaited
    <3>1. mempool[i] \in Transaction
      BY <1>1, SMTT(60)
    <3>2. mempool'[i] = [mempool[i] EXCEPT !.awaited = FALSE]
      BY <2>1
    <3>3. QED  BY <3>1, <3>2 DEF Transaction
  <2>3. mempool' \in Seq(Transaction) /\ Len(mempool') = Len(mempool)
    BY <1>1, <2>1, <2>2, SMTT(60)
  <2>4. QED  BY <1>1, <2>2, <2>3, SMTT(60)
<1>3. RelayTypes'
  <2>1. current' \in Nat /\ currentSet' \in Nat /\ results' \in Seq([c : Justified, recent : BOOLEAN])
    BY SMTT(60) DEF terminate
  <2>2. QED  BY <1>1, <1>2, <2>1 DEF terminate, RelayTypes
<1>4. WriterInv'
  BY <1>2 DEF terminate, RelayInv, WriterInv
<1>5. SeedInv'
  <2>1. NeverEarly'
    BY <1>1, <1>2 DEF RelayInv, SeedInv, NeverEarly
  <2>2. QED  BY <2>1 DEF terminate, SeedInv
<1>6. AheadInv' /\ ScanInv'
  BY DEF terminate, AheadInv, NeverAhead, ScanInv
<1>7. QED  BY <1>3, <1>4, <1>5, <1>6, ContractKept DEF RelayInv

\* The listener starts at the block after the contract's, with the set it reads after that.
LEMMA ReadInv ==
    ASSUME RelayInv, UNCHANGED <<vars, beefyHead>>,
           readLatestBeefyBlock \/ readCurrentValidatorSet
    PROVE  RelayInv'
<1>1. /\ UNCHANGED <<results, offer, writerVars, mempool, writer, request, sent, receipt>>
      /\ UNCHANGED <<latestBeefyBlock, currentValidatorSet>>
      /\ latestBeefyBlock \in Nat /\ currentValidatorSet.id \in Nat /\ current \in Nat
      /\ writer = "starting" /\ offer = <<>> /\ request = <<>> /\ results = <<>>
  <2>1. UNCHANGED <<results, offer, writerVars, mempool, writer, request, sent, receipt>> /\ pc # "up"
    BY DEF readLatestBeefyBlock, readCurrentValidatorSet, writerVars
  <2>2. writer = "starting" /\ offer = <<>> /\ request = <<>> /\ results = <<>>
    BY <2>1 DEF RelayInv, AheadInv, WriterInv
  <2>3. latestBeefyBlock \in Nat /\ current \in Nat
    BY DEF RelayInv, ContractInv, RelayTypes
  <2>4. QED  BY <2>1, <2>2, <2>3, SetFacts, ContractKept DEF RelayInv
<1>2. /\ current' \in Nat /\ currentSet' \in Nat /\ pc' \in {"reading", "up"}
  BY <1>1, SMTT(60) DEF readLatestBeefyBlock, readCurrentValidatorSet, RelayInv, RelayTypes
<1>3. RelayTypes'
  BY <1>1, <1>2 DEF RelayInv, RelayTypes
<1>4. AheadInv'
  <2>1. handoversUnderWay' = 0
    BY <1>1, SMTT(60) DEF handoversUnderWay
  <2>2. NeverAhead'
    BY <1>1, <2>1, SMTT(60) DEF readLatestBeefyBlock, readCurrentValidatorSet, NeverAhead
  <2>3. QED  BY <1>1, <2>2 DEF AheadInv
<1>5. ScanInv'
  <2>1. CASE readLatestBeefyBlock
    BY <1>1, <2>1, SMTT(60) DEF readLatestBeefyBlock, ScanInv
  <2>2. CASE readCurrentValidatorSet
    <3>1. /\ current <= latestBeefyBlock + 1 /\ current' = current /\ pc' = "up"
          /\ currentSet' = currentValidatorSet.id
      BY <2>2 DEF readCurrentValidatorSet, RelayInv, ScanInv
    <3>2. ASSUME NEW c \in handovers, c.blockNumber < current
          PROVE  c.validatorSetID <= currentSet'
      <4>1. c \in Justified /\ c.blockNumber \in Nat
        BY JustifiedTypes DEF handovers
      <4>2. c.blockNumber <= latestBeefyBlock
        BY <1>1, <3>1, <3>2, <4>1, SMTT(60)
      <4>3. QED  BY <3>1, <4>1, <4>2 DEF RelayInv, ContractInv
    <3>3. QED  BY <3>1, <3>2 DEF ScanInv
  <2>3. QED  BY <2>1, <2>2
<1>6. WriterInv' /\ SeedInv'
  BY <1>1, WriterKept
<1>7. QED  BY <1>3, <1>4, <1>5, <1>6, ContractKept DEF RelayInv

\* The writer begins to wait for commitments.
LEMMA WriterStartInv ==
    ASSUME RelayInv, UNCHANGED <<vars, beefyHead>>, writerStart
    PROVE  RelayInv'
<1>1. /\ pc = "up" /\ writer = "starting" /\ writer' = "idle"
      /\ UNCHANGED <<pc, current, currentSet, results, offer, request, sent, receipt, mempool>>
      /\ UNCHANGED <<ethBlock, latestBeefyBlock, currentValidatorSet, tasks>>
  BY ContractKept DEF writerStart, listenerVars
<1>2. request = <<>> /\ ~sent /\ receipt = <<>>
  BY <1>1 DEF RelayInv, WriterInv
<1>3. RelayTypes'
  BY <1>1 DEF RelayInv, RelayTypes
<1>4. WriterInv'
  BY <1>1, <1>2 DEF RelayInv, WriterInv
<1>5. SeedInv'
  BY <1>1, <1>2 DEF RelayInv, SeedInv, NeverEarly
<1>6. AheadInv'
  BY <1>1, <1>2 DEF RelayInv, AheadInv, NeverAhead, handoversUnderWay
<1>7. ScanInv'
  BY <1>1 DEF RelayInv, ScanInv
<1>8. QED  BY <1>3, <1>4, <1>5, <1>6, <1>7, ContractKept DEF RelayInv

\* The scan of a block finds the handover that is in it.
LEMMA ScanStepInv ==
    ASSUME RelayInv, UNCHANGED <<vars, beefyHead>>, scan
    PROVE  RelayInv'
<1> DEFINE Result == [c : Justified, recent : BOOLEAN]
           safe == {c \in Justified : c.blockNumber = current /\ leafNext[c] # NoSet}
           found == [c |-> CHOOSE c \in safe : TRUE, recent |-> beefyHead - current <= FastForwardDepth]
<1>1. /\ pc = "up" /\ current' = current + 1 /\ current \in Nat /\ results \in Seq(Result)
      /\ UNCHANGED <<pc, currentSet, offer, writerVars, mempool, writer, request, sent, receipt>>
      /\ UNCHANGED <<latestBeefyBlock, currentValidatorSet>>
  BY ContractKept DEF scan, writerVars, RelayInv, RelayTypes
<1>2. results' = IF safe = {} THEN results ELSE Append(results, found)
  BY DEF scan
<1>3. safe # {} => found \in Result /\ found.c \in safe
  BY SMTT(60) DEF RelayInv, RelayTypes
<1>4. results' \in Seq(Result)
  <2> HIDE DEF Result, found, safe
  <2> QED  BY <1>1, <1>2, <1>3, SMTT(60)
<1>5. \A i \in 1 .. Len(results) : i \in 1 .. Len(results') /\ results'[i] = results[i]
  <2> HIDE DEF Result, found, safe
  <2> QED  BY <1>1, <1>2, <1>3, SMTT(60)
<1>6. \A c \in safe : \E i \in 1 .. Len(results') : results'[i].c = c
  <2>1. SUFFICES ASSUME NEW c \in safe PROVE \E i \in 1 .. Len(results') : results'[i].c = c
    OBVIOUS
  <2>2. found.c = c
    BY <1>3, RelayAssumption
  <2> HIDE DEF Result, found, safe
  <2>3. Len(results') = Len(results) + 1 /\ results'[Len(results) + 1] = found /\ Len(results) \in Nat
    BY <1>1, <1>2, <1>3, <2>1, SMTT(60)
  <2>4. QED  BY <2>2, <2>3, SMTT(60)
<1>7. ScanInv'
  <2>1. SUFFICES ASSUME NEW c \in handovers, c.blockNumber < current'
                 PROVE  c.validatorSetID <= currentSet \/ \E i \in 1 .. Len(results') : results'[i].c = c
    BY <1>1 DEF ScanInv
  <2>2. c \in Justified /\ c.blockNumber \in Nat /\ leafNext[c] # NoSet
    <3>1. c \in Justified /\ leafNext[c].id = c.validatorSetID + 1
      BY DEF handovers, announcesNext
    <3>2. c.blockNumber \in Nat /\ c.validatorSetID \in Nat
      BY <3>1, JustifiedTypes
    <3>3. \A n \in Nat : n + 1 # 0
      BY SMTT(60)
    <3>4. NoSet.id = 0
      BY DEF NoSet
    <3>5. QED  BY <3>1, <3>2, <3>3, <3>4
  <2>3. CASE c.blockNumber = current
    BY <1>6, <2>2, <2>3
  <2>4. CASE c.blockNumber < current
    <3>1. c.validatorSetID <= currentSet \/ \E i \in 1 .. Len(results) : results[i].c = c
      BY <1>1, <2>4 DEF RelayInv, ScanInv
    <3>2. QED  BY <1>5, <3>1
  <2>5. QED  BY <1>1, <2>1, <2>2, <2>3, <2>4, SMTT(60)
<1>8. RelayTypes'
  <2>1. current' \in Nat
    BY <1>1, SMTT(60)
  <2>2. QED  BY <1>1, <1>4, <2>1 DEF RelayInv, RelayTypes
<1>9. AheadInv'
  BY <1>1 DEF RelayInv, AheadInv, NeverAhead, handoversUnderWay
<1>10. QED  BY <1>1, <1>7, <1>8, <1>9, ContractKept, WriterKept DEF RelayInv

\* The writer takes a request: the mempool may hold calls of an earlier process, but none
\* that it waits for.
LEMMA AcceptInv ==
    ASSUME RelayInv, UNCHANGED <<vars, mempool>>, NEW c \in Justified, NEW handover \in BOOLEAN,
           accept(c, handover)
    PROVE  /\ WriterInv' /\ SeedInv'
           /\ request = <<>> /\ receipt' = <<>> /\ request'[1].handover = handover
           /\ request' \in {<<q>> : q \in Request} /\ request' # <<>>
<1>1. /\ writer = "idle" /\ writer' = "initial" /\ request' = <<[c |-> c, handover |-> handover]>>
      /\ UNCHANGED <<sent, receipt, mempool, ethBlock, tasks>>
  BY ContractKept DEF accept
<1>2. request = <<>> /\ ~sent /\ receipt = <<>>
  BY <1>1 DEF RelayInv, WriterInv
<1>3. /\ request' # <<>> /\ request'[1].handover = handover
      /\ request' \in {<<q>> : q \in Request}
  BY <1>1 DEF Request
<1>4. WriterInv'
  BY <1>1, <1>2, <1>3 DEF RelayInv, WriterInv
<1>5. SeedInv'
  BY <1>1, <1>2 DEF RelayInv, SeedInv, NeverEarly
<1>6. QED  BY <1>1, <1>2, <1>3, <1>4, <1>5

\* The listener's look at a commitment: its set goes on with a handover it will pass on, and
\* only then.
LEMMA ScanCommitmentsInv ==
    ASSUME RelayInv, UNCHANGED <<vars, beefyHead>>, scanCommitments
    PROVE  RelayInv'
<1> DEFINE Result == [c : Justified, recent : BOOLEAN]
           c == Head(results).c
<1>1. /\ pc = "up" /\ offer = <<>> /\ results # <<>> /\ results \in Seq(Result)
      /\ results' = Tail(results) /\ currentSet \in Nat
      /\ UNCHANGED <<pc, current, mempool, latestBeefyBlock, currentValidatorSet>>
      /\ currentValidatorSet.id \in Nat
  BY ContractKept, SetFacts DEF scanCommitments, listening, RelayInv, RelayTypes
<1>2. Head(results) = results[1] /\ c \in Justified /\ results' \in Seq(Result)
  <2> HIDE DEF Result
  <2>1. Head(results) = results[1] /\ results[1] \in Result /\ results' \in Seq(Result)
    BY <1>1, SMTT(60)
  <2>2. QED  BY <2>1 DEF Result
<1>3. \A i \in 1 .. Len(results) : i = 1 \/ (i - 1 \in 1 .. Len(results') /\ results'[i - 1] = results[i])
  <2> HIDE DEF Result
  <2> QED  BY <1>1, SMTT(60)
<1>4. \/ /\ c.validatorSetID = currentSet + 1 /\ announcesNext(c)
         /\ currentSet' = currentSet + 1 /\ offer' = <<c>> /\ UNCHANGED writerVars
      \/ /\ c.validatorSetID = currentSet /\ accept(c, FALSE)
         /\ UNCHANGED <<currentSet, offer>>
      \/ /\ c.validatorSetID = currentSet \/ ~announcesNext(c)
         /\ UNCHANGED <<currentSet, offer, writerVars>>
  BY DEF scanCommitments
<1> HIDE DEF c
<1>5. /\ currentSet' \in Nat /\ currentSet <= currentSet'
      /\ c \in handovers => c.validatorSetID <= currentSet'
  <2>1. c.validatorSetID \in Nat
    BY <1>2, JustifiedTypes
  <2>2. \A n \in Nat : n + 1 \in Nat /\ n <= n + 1 /\ n <= n
    BY SMTT(60)
  <2>3. c.validatorSetID \in {currentSet, currentSet'} \/ ~announcesNext(c)
    BY <1>4
  <2>4. currentSet' \in {currentSet, currentSet + 1}
    BY <1>4
  <2>5. QED  BY <1>1, <2>1, <2>2, <2>3, <2>4 DEF handovers
<1>6. ScanInv'
  <2>1. SUFFICES ASSUME NEW d \in handovers, d.blockNumber < current
                 PROVE  d.validatorSetID <= currentSet' \/ \E i \in 1 .. Len(results') : results'[i].c = d
    BY <1>1 DEF ScanInv
  <2>2. d.validatorSetID \in Nat
    BY JustifiedTypes DEF handovers
  <2>3. d.validatorSetID <= currentSet \/ \E i \in 1 .. Len(results) : results[i].c = d
    BY <1>1, <2>1 DEF RelayInv, ScanInv
  <2>4. CASE d.validatorSetID <= currentSet
    BY <1>1, <1>5, <2>2, <2>4, SMTT(60)
  <2>5. ASSUME NEW i \in 1 .. Len(results), results[i].c = d
        PROVE  d.validatorSetID <= currentSet' \/ \E j \in 1 .. Len(results') : results'[j].c = d
    <3>1. CASE i = 1
      BY <1>2, <1>5, <2>5, <3>1 DEF c
    <3>2. CASE i # 1
      BY <1>3, <2>5, <3>2
    <3>3. QED  BY <3>1, <3>2
  <2>6. QED  BY <2>3, <2>4, <2>5
<1>7. /\ offer' \in {<<>>} \cup {<<d>> : d \in Justified}
      /\ handoversUnderWay \in Nat /\ handoversUnderWay' \in Nat
      /\ currentSet' - currentSet <= handoversUnderWay' - handoversUnderWay
      /\ \/ /\ UNCHANGED <<writer, request, receipt>>
            /\ currentSet' - currentSet <= Len(offer') - Len(offer)
         \/ writer' = "initial" /\ receipt' = <<>>
      /\ request' \in {<<>>} \cup {<<q>> : q \in Request}
      /\ writer' \in Calls \cup {"starting", "idle"}
      /\ receipt' \in {<<>>} \cup {<<q>> : q \in [block : Nat, status : BOOLEAN]} /\ sent' \in BOOLEAN
      /\ WriterInv' /\ SeedInv'
  <2>1. /\ request \in {<<>>} \cup {<<q>> : q \in Request}
        /\ writer \in Calls \cup {"starting", "idle"}
        /\ receipt \in {<<>>} \cup {<<q>> : q \in [block : Nat, status : BOOLEAN]} /\ sent \in BOOLEAN
    BY DEF RelayInv, RelayTypes
  <2>2. CASE currentSet' = currentSet + 1 /\ offer' = <<c>> /\ UNCHANGED writerVars
    <3>1. WriterInv' /\ SeedInv'
      BY <1>1, <2>2, WriterKept
    <3>2. UNCHANGED <<writer, request, receipt, sent>>
      BY <2>2 DEF writerVars
    <3>3. Len(offer') = 1 /\ Len(offer) = 0
      BY <1>1, <2>2
    <3>4. /\ handoversUnderWay \in Nat /\ handoversUnderWay' = handoversUnderWay + 1
      BY <3>2, <3>3, SMTT(60) DEF handoversUnderWay
    <3>5. /\ currentSet' - currentSet <= handoversUnderWay' - handoversUnderWay
          /\ currentSet' - currentSet <= Len(offer') - Len(offer) /\ handoversUnderWay' \in Nat
      BY <1>1, <2>2, <3>3, <3>4, SMTT(60)
    <3>6. offer' \in {<<>>} \cup {<<d>> : d \in Justified}
      BY <1>2, <2>2
    <3>7. QED  BY <2>1, <3>1, <3>2, <3>4, <3>5, <3>6
  <2>3. CASE accept(c, FALSE) /\ UNCHANGED <<currentSet, offer>>
    <3>1. /\ WriterInv' /\ SeedInv'
          /\ request = <<>> /\ receipt' = <<>> /\ ~request'[1].handover
          /\ request' \in {<<q>> : q \in Request}
      BY <1>1, <1>2, <2>3, AcceptInv
    <3>2. writer' = "initial" /\ sent' = sent
      BY <2>3 DEF accept
    <3>3. handoversUnderWay = 0 /\ handoversUnderWay' = 0
      BY <1>1, <2>3, <3>1, SMTT(60) DEF handoversUnderWay
    <3>4. QED  BY <1>1, <2>1, <2>3, <3>1, <3>2, <3>3, SMTT(60) DEF Calls
  <2>4. CASE UNCHANGED <<currentSet, offer, writerVars>>
    <3>1. WriterInv' /\ SeedInv'
      BY <1>1, <2>4, WriterKept
    <3>2. UNCHANGED <<writer, request, receipt, sent>>
      BY <2>4 DEF writerVars
    <3>3. handoversUnderWay \in Nat /\ handoversUnderWay' = handoversUnderWay
      BY <1>1, <2>4, <3>2, SMTT(60) DEF handoversUnderWay
    <3>4. /\ currentSet' - currentSet <= handoversUnderWay' - handoversUnderWay
          /\ currentSet' - currentSet <= Len(offer') - Len(offer) /\ offer' = <<>>
      BY <1>1, <2>4, <3>3, SMTT(60)
    <3>5. offer' \in {<<>>} \cup {<<d>> : d \in Justified}
      BY <3>4
    <3>6. QED  BY <2>1, <3>1, <3>2, <3>3, <3>4, <3>5
  <2>5. QED  BY <1>4, <2>2, <2>3, <2>4
<1>8. AheadInv'
  <2>1. NeverAhead'
    <3>1. currentSet <= currentValidatorSet.id + handoversUnderWay
      BY <1>1 DEF RelayInv, AheadInv, NeverAhead
    <3>2. currentSet' <= currentValidatorSet.id + handoversUnderWay'
      BY <1>1, <1>5, <1>7, <3>1, StillBounded
    <3>3. QED  BY <1>1, <3>2, ContractKept DEF NeverAhead
  <2>2. Len(offer) \in Nat /\ Len(offer') \in Nat
    BY <1>1, <1>7, SMTT(60)
  <2>3. ASSUME writer' = "final", receipt' # <<>>, receipt'[1].status, request'[1].handover
        PROVE  currentSet' <= currentValidatorSet.id + Len(offer')
    <3>1. /\ UNCHANGED <<writer, request, receipt>>
          /\ currentSet' - currentSet <= Len(offer') - Len(offer)
      BY <1>7, <2>3
    <3>2. currentSet <= currentValidatorSet.id + Len(offer)
      BY <2>3, <3>1 DEF RelayInv, AheadInv
    <3>3. QED  BY <1>1, <1>5, <2>2, <3>1, <3>2, StillBounded
  <2>4. QED  BY <1>1, <2>1, <2>3, ContractKept DEF AheadInv
<1>9. RelayTypes'
  BY <1>1, <1>2, <1>5, <1>7 DEF RelayInv, RelayTypes
<1>10. QED  BY <1>6, <1>7, <1>8, <1>9, ContractKept DEF RelayInv

\* A handover waits for the writer, and goes from the listener's hands into its.
LEMMA PassHandoverInv ==
    ASSUME RelayInv, UNCHANGED <<vars, beefyHead>>, passHandover
    PROVE  RelayInv'
<1>1. PICK c \in Justified : offer = <<c>>
  BY DEF passHandover, RelayInv, RelayTypes
<1>2. /\ accept(c, TRUE) /\ offer' = <<>>
      /\ UNCHANGED <<pc, current, currentSet, results, mempool, latestBeefyBlock, currentValidatorSet>>
  BY <1>1, ContractKept DEF passHandover
<1>3. /\ WriterInv' /\ SeedInv'
      /\ request = <<>> /\ receipt' = <<>> /\ request'[1].handover /\ request' # <<>>
      /\ request' \in {<<q>> : q \in Request}
  BY <1>2, AcceptInv
<1>4. writer' = "initial" /\ UNCHANGED sent /\ pc = "up"
  BY <1>1, <1>2 DEF accept, RelayInv, AheadInv
<1>5. RelayTypes'
  BY <1>2, <1>3, <1>4 DEF RelayInv, RelayTypes, Calls
<1>6. AheadInv'
  <2>1. handoversUnderWay = 1 /\ handoversUnderWay' = 1
    BY <1>1, <1>2, <1>3, SMTT(60) DEF handoversUnderWay
  <2>2. QED  BY <1>2, <1>3, <1>4, <2>1 DEF RelayInv, AheadInv, NeverAhead
<1>7. ScanInv'
  BY <1>2 DEF RelayInv, ScanInv
<1>8. QED  BY <1>3, <1>5, <1>6, <1>7, ContractKept DEF RelayInv

----------------------------------------------------------------------------
\* The writer sends the transaction of the call it is at.
LEMMA SendInv ==
    ASSUME RelayInv, UNCHANGED <<vars, beefyHead>>, send
    PROVE  RelayInv'
<1> DEFINE tx == [call |-> writer, c |-> request[1].c, handover |-> request[1].handover,
                  awaited |-> TRUE]
           n == Len(mempool)
<1>1. /\ request # <<>> /\ ~sent /\ sent' = TRUE /\ mempool' = Append(mempool, tx)
      /\ UNCHANGED <<pc, current, currentSet, results, offer, writer, request, receipt>>
      /\ UNCHANGED <<ethBlock, tasks, latestBeefyBlock, currentValidatorSet>>
  BY ContractKept DEF send, listenerVars
<1>2. writer \in Calls /\ receipt = <<>>
  BY <1>1 DEF RelayInv, WriterInv, RelayTypes
<1>3. tx \in Transaction /\ mempool \in Seq(Transaction)
  <2>1. request[1] \in Request /\ mempool \in Seq(Transaction)
    BY <1>1, SMTT(60) DEF RelayInv, RelayTypes
  <2>2. QED  BY <1>2, <2>1 DEF Request, Transaction
<1>4. tx.call = writer /\ tx.c = request[1].c /\ tx.handover = request[1].handover
  OBVIOUS
<1>5. /\ mempool' \in Seq(Transaction) /\ Len(mempool') = n + 1 /\ n \in Nat
      /\ mempool'[n + 1] = tx
      /\ \A i \in 1 .. n : mempool'[i] = mempool[i]
  <2> HIDE DEF tx
  <2> QED  BY <1>1, <1>3, SMTT(60)
<1>6. \A i \in 1 .. n : ~mempool[i].awaited /\ (mempool[i].call # "initial" => i = 1)
  BY <1>1 DEF RelayInv, WriterInv
<1>7. writer # "initial" => n = 0
  BY <1>1, <1>2, SMTT(60) DEF RelayInv, WriterInv, Calls
<1> HIDE DEF tx, n
<1>8. WriterInv'
  <2>1. ASSUME NEW i \in 1 .. n + 1
        PROVE  /\ mempool'[i].call # "initial" => i = 1
               /\ mempool'[i].awaited =>
                      /\ i = n + 1
                      /\ mempool'[i].call = writer /\ mempool'[i].c = request[1].c
                      /\ mempool'[i].handover = request[1].handover
    <3>1. CASE i \in 1 .. n
      BY <1>5, <1>6, <3>1
    <3>2. CASE i = n + 1
      BY <1>4, <1>5, <1>7, <3>2, SMTT(60)
    <3>3. QED  BY <1>5, <3>1, <3>2, SMTT(60)
  <2>2. request' # <<>> /\ writer' \notin {"starting", "idle"}
    BY <1>1, <1>2 DEF Calls
  <2>3. QED  BY <1>1, <1>2, <1>5, <2>1, <2>2 DEF WriterInv
<1>9. SeedInv'
  <2>1. ASSUME NEW i \in 1 .. n + 1, mempool'[i].call = "commit"
        PROVE  ethBlock >= tasks[<<Self, mempool'[i].c>>].blockNumber + randaoCommitDelay
    <3>1. CASE i \in 1 .. n
      <4>1. mempool'[i] = mempool[i] /\ i \in DOMAIN mempool
        BY <1>3, <1>5, <3>1, SMTT(60) DEF n
      <4>2. QED  BY <2>1, <4>1 DEF RelayInv, SeedInv, NeverEarly
    <3>2. CASE i = n + 1
      <4>1. writer = "commit" /\ mempool'[i].c = request[1].c
        BY <1>4, <1>5, <2>1, <3>2
      <4>2. QED  BY <1>1, <4>1 DEF RelayInv, SeedInv
    <3>3. QED  BY <1>5, <3>1, <3>2, SMTT(60)
  <2>2. DOMAIN mempool' = 1 .. n + 1
    BY <1>5, SMTT(60)
  <2>3. NeverEarly'
    BY <1>1, <2>1, <2>2 DEF NeverEarly
  <2>4. QED  BY <1>1, <1>2, <2>3 DEF SeedInv
<1>10. RelayTypes'
  BY <1>1, <1>5 DEF RelayInv, RelayTypes
<1>11. AheadInv'
  BY <1>1, <1>2 DEF RelayInv, AheadInv, NeverAhead, handoversUnderWay
<1>12. ScanInv'
  BY <1>1 DEF RelayInv, ScanInv
<1>13. QED  BY <1>8, <1>9, <1>10, <1>11, <1>12, ContractKept DEF RelayInv

\* The writer goes on to the next call, or to the next request once the contract has moved.
LEMMA WaitInv ==
    ASSUME RelayInv, UNCHANGED <<vars, beefyHead>>, waitForTransaction
    PROVE  RelayInv'
<1>1. CASE terminate
  BY <1>1, TerminateInv
<1>2. CASE receipt[1].status /\ proceed
  <2>1. /\ receipt # <<>> /\ receipt[1].status
        /\ ethBlock - 1 >= receipt[1].block + confirmations(writer)
        /\ writer' = nextCall(writer) /\ request' = (IF writer = "final" THEN <<>> ELSE request)
        /\ sent' = FALSE /\ receipt' = <<>>
        /\ UNCHANGED <<pc, current, currentSet, results, offer, mempool>>
        /\ UNCHANGED <<ethBlock, tasks, latestBeefyBlock, currentValidatorSet>>
    BY <1>2, ContractKept DEF waitForTransaction, confirmed, proceed, listenerVars
  <2>2. mempool = <<>> /\ request # <<>> /\ writer \in Calls /\ pc = "up"
    <3>1. mempool = <<>> /\ sent
      BY <2>1 DEF RelayInv, WriterInv
    <3>2. request # <<>> /\ writer \in Calls
      BY <3>1 DEF RelayInv, WriterInv, RelayTypes
    <3>3. writer # "starting"
      BY <3>2 DEF Calls
    <3>4. QED  BY <3>1, <3>2, <3>3 DEF RelayInv, AheadInv
  <2>3. \/ writer = "initial" /\ writer' = "commit" /\ request' = request
        \/ writer = "commit" /\ writer' = "final" /\ request' = request
        \/ writer = "final" /\ writer' = "idle" /\ request' = <<>>
    BY <2>1, <2>2 DEF nextCall, Calls
  <2>4. RelayTypes'
    BY <2>1, <2>3 DEF RelayInv, RelayTypes, Calls
  <2>5. WriterInv'
    <3>1. mempool' = <<>> /\ 1 .. Len(mempool') = {}
      BY <2>1, <2>2, SMTT(60)
    <3>2. QED  BY <2>1, <2>2, <2>3, <3>1 DEF WriterInv
  <2>6. SeedInv'
    <3>1. NeverEarly'
      BY <2>1, <2>2, SMTT(60) DEF NeverEarly
    <3>2. ASSUME writer' = "commit"
          PROVE  ethBlock' >= tasks'[<<Self, request'[1].c>>].blockNumber + randaoCommitDelay
      <4>1. writer = "initial" /\ request' = request
        BY <2>3, <3>2
      <4>2. /\ tasks[<<Self, request[1].c>>].blockNumber <= receipt[1].block
        BY <2>1, <4>1 DEF RelayInv, SeedInv
      <4>3. confirmations(writer) = randaoCommitDelay + 1
        BY <4>1 DEF confirmations
      <4>4. request[1].c \in Justified /\ receipt[1].block \in Nat /\ ethBlock \in Nat
        BY <2>1, <2>2, SMTT(60) DEF RelayInv, RelayTypes, Request, ContractInv
      <4>5. tasks[<<Self, request[1].c>>].blockNumber \in Nat
        BY <4>4, JustifiedTypes DEF RelayInv, ContractInv, Task
      <4>6. randaoCommitDelay \in Nat
        BY BoundAssumption
      <4>7. ethBlock - 1 >= receipt[1].block + (randaoCommitDelay + 1)
        BY <2>1, <4>3
      <4>8. ethBlock >= tasks[<<Self, request[1].c>>].blockNumber + randaoCommitDelay
        BY <4>2, <4>4, <4>5, <4>6, <4>7, ConfirmedLate
      <4>9. QED  BY <2>1, <4>1, <4>8
    <3>3. QED  BY <2>1, <3>1, <3>2 DEF SeedInv
  <2>7. AheadInv'
    <3>1. CASE writer # "final"
      <4>1. UNCHANGED handoversUnderWay
        BY <2>1, <3>1 DEF handoversUnderWay
      <4>2. QED  BY <2>1, <2>2, <4>1 DEF RelayInv, AheadInv, NeverAhead
    <3>2. CASE writer = "final"
      <4>1. handoversUnderWay' = Len(offer) /\ Len(offer) \in Nat
        BY <2>1, <3>2, SMTT(60) DEF handoversUnderWay, RelayInv, RelayTypes
      <4>2. CASE request[1].handover
        BY <2>1, <2>2, <3>2, <4>1, <4>2 DEF RelayInv, AheadInv, NeverAhead
      <4>3. CASE ~request[1].handover
        <5>1. handoversUnderWay = Len(offer)
          BY <4>1, <4>3, SMTT(60) DEF handoversUnderWay
        <5>2. QED  BY <2>1, <2>2, <4>1, <5>1 DEF RelayInv, AheadInv, NeverAhead
      <4>4. QED  BY <4>2, <4>3
    <3>3. QED  BY <3>1, <3>2
  <2>8. ScanInv'
    BY <2>1 DEF RelayInv, ScanInv
  <2>9. QED  BY <2>4, <2>5, <2>6, <2>7, <2>8, ContractKept DEF RelayInv
<1>3. QED  BY <1>1, <1>2 DEF waitForTransaction

----------------------------------------------------------------------------
\* What one of the relay's transactions does to the contract when it is not reverted.
LEMMA ExecuteInv ==
    ASSUME ContractInv, NEW tx \in Transaction, execute(tx)
    PROVE  /\ ContractInv' /\ Moved /\ ethBlock' = ethBlock
           /\ tx.call = "initial" => tasks'[<<Self, tx.c>>].blockNumber = ethBlock
           /\ tx.call = "final" /\ tx.handover =>
                  currentValidatorSet'.id = currentValidatorSet.id + 1
<1>1. /\ tx.c \in Justified /\ tx.c \in Commitments /\ <<Self, tx.c>> \in TaskIDs
      /\ tx.call \in Calls /\ tx.handover \in BOOLEAN
  <2>1. tx.c \in Justified /\ tx.call \in Calls /\ tx.handover \in BOOLEAN
    BY DEF Transaction
  <2>2. QED  BY <2>1, JustifiedTypes
<1>2. ethBlock \in Nat /\ latestBeefyBlock \in Nat /\ tasks \in [TaskIDs -> Task]
  BY DEF ContractInv
<1>3. ASSUME UNCHANGED <<ethBlock, contractVars>>, tasks' \in [TaskIDs -> Task]
      PROVE  ContractInv' /\ Moved
  <2>1. UNCHANGED <<ethBlock, latestBeefyBlock, currentValidatorSet, nextValidatorSet>>
    BY <1>3 DEF contractVars
  <2>2. ContractInv'
    BY <1>3, <2>1 DEF ContractInv
  <2>3. QED  BY <1>2, <2>1, <2>2, SetFacts, SMTT(60) DEF Moved
<1>4. ASSUME NEW vset \in {ValidatorSet(id) : id \in SetIDs},
             doSubmitInitial(Self, tx.c, initialBitfield(tx.c), vset)
      PROVE  /\ ContractInv' /\ Moved /\ ethBlock' = ethBlock
             /\ tasks'[<<Self, tx.c>>].blockNumber = ethBlock
  <2>1. Len(vset.members) \in Nat
    BY AuthorityFacts
  <2>2. initialBitfield(tx.c) \in Bitfields
    BY <1>1, RelayAssumption
  <2> DEFINE task == [blockNumber |-> ethBlock, validatorSetLen |-> Len(vset.members),
                      prevRandao |-> 0, bitfield |-> initialBitfield(tx.c)]
  <2>3. task \in Task /\ task.blockNumber = ethBlock
    BY <1>2, <2>1, <2>2 DEF Task
  <2>4. tasks' = [tasks EXCEPT ![<<Self, tx.c>>] = task] /\ UNCHANGED <<ethBlock, contractVars>>
    BY <1>4 DEF doSubmitInitial
  <2> HIDE DEF task
  <2>5. tasks' \in [TaskIDs -> Task] /\ tasks'[<<Self, tx.c>>] = task
    BY <1>1, <1>2, <2>3, <2>4
  <2>6. QED  BY <1>3, <2>3, <2>4, <2>5
<1>5. CASE tx.call = "initial"
  <2>1. /\ currentValidatorSet \in {ValidatorSet(id) : id \in SetIDs}
        /\ nextValidatorSet \in {ValidatorSet(id) : id \in SetIDs}
    BY SetFacts DEF ContractInv
  <2>2. QED  BY <1>4, <1>5, <2>1 DEF execute, submitInitial, submitInitialWithHandover
<1>6. CASE tx.call = "commit"
  <2>1. PICK difficulty \in Seeds : commitPrevRandao(Self, tx.c, difficulty)
    BY <1>6 DEF execute
  <2>2. /\ tasks' = [tasks EXCEPT ![<<Self, tx.c>>].prevRandao = difficulty]
        /\ UNCHANGED <<ethBlock, contractVars>>
    BY <2>1 DEF commitPrevRandao
  <2>3. [tasks[<<Self, tx.c>>] EXCEPT !.prevRandao = difficulty] \in Task
    <3>1. tasks[<<Self, tx.c>>] \in Task
      BY <1>1, <1>2
    <3>2. QED  BY <3>1 DEF Task
  <2>4. tasks' \in [TaskIDs -> Task]
    BY <1>1, <1>2, <2>2, <2>3
  <2>5. QED  BY <1>3, <1>6, <2>2, <2>4
<1>7. CASE tx.call = "final"
  <2>1. ASSUME deleteTask(Self, tx.c) PROVE tasks' \in [TaskIDs -> Task]
    BY <1>1, <1>2, <2>1 DEF deleteTask, Task, NoTask
  <2>2. CASE submitFinal(Self, tx.c) /\ ~tx.handover
    <3>1. /\ tx.c.blockNumber > latestBeefyBlock /\ latestBeefyBlock' = tx.c.blockNumber
          /\ tx.c.validatorSetID = currentValidatorSet.id /\ deleteTask(Self, tx.c)
          /\ UNCHANGED <<ethBlock, currentValidatorSet, nextValidatorSet>>
      BY <2>2 DEF submitFinal, finalChecks
    <3>2. ContractInv' /\ Moved
      BY <1>1, <2>1, <3>1, AcceptedInv
    <3>3. QED  BY <1>7, <2>2, <3>1, <3>2
  <2>3. CASE submitFinalWithHandover(Self, tx.c, leafNext[tx.c])
    <3>1. /\ tx.c.blockNumber > latestBeefyBlock /\ latestBeefyBlock' = tx.c.blockNumber
          /\ tx.c.validatorSetID = nextValidatorSet.id /\ deleteTask(Self, tx.c)
          /\ nextValidatorSet' \in tx.c.leaves
          /\ nextValidatorSet'.id = nextValidatorSet.id + 1
          /\ currentValidatorSet' = nextValidatorSet /\ ethBlock' = ethBlock
      BY <2>3 DEF submitFinalWithHandover, finalChecks
    <3>2. ContractInv' /\ Moved
      BY <1>1, <2>1, <3>1, AcceptedInv
    <3>3. currentValidatorSet'.id = currentValidatorSet.id + 1
      BY <3>1, SetFacts
    <3>4. QED  BY <1>7, <3>1, <3>2, <3>3
  <2>4. QED  BY <1>7, <2>2, <2>3 DEF execute
<1>8. QED  BY <1>1, <1>5, <1>6, <1>7 DEF Calls

\* A transaction gets into a block: only the last call may be the one that the writer waits
\* for, and none but a first call may come after another.
LEMMA IncludeInv ==
    ASSUME RelayInv, include
    PROVE  RelayInv'
<1> DEFINE tx == Head(mempool)
           n == Len(mempool)
<1>1. /\ mempool # <<>> /\ mempool' = Tail(mempool) /\ mempool \in Seq(Transaction)
      /\ receipt = <<>> /\ (writer \in {"commit", "final"} => sent)
      /\ receipt' = IF tx.awaited THEN <<[block |-> ethBlock, status |-> accepted(tx)]>> ELSE receipt
      /\ UNCHANGED <<beefyHead, pc, current, currentSet, results, offer, writer, request, sent>>
  <2>1. mempool \in Seq(Transaction) /\ mempool # <<>>
    BY DEF include, RelayInv, RelayTypes
  <2>2. receipt = <<>> /\ (writer \in {"commit", "final"} => sent)
    BY <2>1 DEF RelayInv, WriterInv
  <2>3. QED  BY <2>1, <2>2 DEF include, listenerVars
<1>2. /\ tx = mempool[1] /\ tx \in Transaction /\ n \in Nat /\ n >= 1
      /\ mempool' \in Seq(Transaction) /\ Len(mempool') = n - 1
      /\ \A i \in 1 .. n - 1 : mempool'[i] = mempool[i + 1] /\ i + 1 \in 1 .. n
  BY <1>1, SMTT(60)
<1> HIDE DEF tx, n
<1>3. ContractInv /\ ethBlock \in Nat /\ currentValidatorSet.id \in Nat
  BY SetFacts DEF RelayInv, ContractInv
<1>4. /\ ContractInv' /\ Moved /\ ethBlock' = ethBlock
      /\ tx.call = "initial" /\ accepted(tx) => tasks'[<<Self, tx.c>>].blockNumber = ethBlock
      /\ tx.call = "final" /\ tx.handover /\ accepted(tx) =>
             currentValidatorSet'.id = currentValidatorSet.id + 1
  <2>1. CASE accepted(tx)
    BY <1>2, <1>3, <2>1, ExecuteInv DEF include, tx
  <2>2. CASE ~accepted(tx)
    <3>1. UNCHANGED vars
      BY <2>2 DEF include, tx
    <3>2. /\ ContractInv'
          /\ UNCHANGED <<ethBlock, latestBeefyBlock, currentValidatorSet, nextValidatorSet, tasks>>
      BY <3>1, ContractKept
    <3>3. Moved
      BY <1>3, <3>2, SMTT(60) DEF Moved, ContractInv
    <3>4. QED  BY <2>2, <3>2, <3>3
  <2>3. QED  BY <2>1, <2>2
<1>5. tx.awaited =>
          /\ n = 1 /\ sent /\ tx.call = writer /\ tx.c = request[1].c
          /\ tx.handover = request[1].handover
  <2>1. 1 \in 1 .. n
    BY <1>2, SMTT(60)
  <2>2. QED  BY <1>2, <2>1 DEF RelayInv, WriterInv, n
<1>6. \A i \in 1 .. n - 1 :
          /\ mempool'[i].call = "initial"
          /\ mempool'[i].awaited =>
                 /\ i = n - 1 /\ sent /\ ~tx.awaited
                 /\ mempool'[i].call = writer /\ mempool'[i].c = request[1].c
                 /\ mempool'[i].handover = request[1].handover
  <2>1. SUFFICES ASSUME NEW i \in 1 .. n - 1
                 PROVE  /\ mempool'[i].call = "initial"
                        /\ mempool'[i].awaited =>
                               /\ i = n - 1 /\ sent /\ ~tx.awaited
                               /\ mempool'[i].call = writer /\ mempool'[i].c = request[1].c
                               /\ mempool'[i].handover = request[1].handover
    OBVIOUS
  <2>2. /\ mempool'[i] = mempool[i + 1] /\ i + 1 \in 1 .. n /\ i + 1 # 1 /\ n # 1
        /\ i + 1 = n => i = n - 1
    BY <1>2, <2>1, SMTT(60)
  <2>3. /\ mempool[i + 1].call = "initial"
        /\ mempool[i + 1].awaited =>
               /\ i + 1 = n /\ sent
               /\ mempool[i + 1].call = writer /\ mempool[i + 1].c = request[1].c
               /\ mempool[i + 1].handover = request[1].handover
    BY <2>2 DEF RelayInv, WriterInv, n
  <2>4. QED  BY <1>5, <2>2, <2>3
<1>7. WriterInv'
  <2>1. tx.awaited => mempool' = <<>>
    BY <1>2, <1>5, SMTT(60)
  <2>2. receipt' # <<>> => tx.awaited
    BY <1>1
  <2>3. (request = <<>> <=> writer \in {"starting", "idle"}) /\ (request = <<>> => ~sent)
    BY DEF RelayInv, WriterInv
  <2>4. Len(mempool') = n - 1
    BY <1>2
  <2>5. QED  BY <1>1, <1>5, <1>6, <2>1, <2>2, <2>3, <2>4 DEF WriterInv
<1>8. SeedInv'
  <2>1. NeverEarly'
    <3>1. DOMAIN mempool' = 1 .. n - 1
      BY <1>2, SMTT(60)
    <3>2. \A i \in DOMAIN mempool' : mempool'[i].call # "commit"
      BY <1>6, <3>1
    <3>3. QED  BY <3>2 DEF NeverEarly
  <2>2. ASSUME writer = "initial", receipt' # <<>>, receipt'[1].status
        PROVE  tasks'[<<Self, request[1].c>>].blockNumber <= receipt'[1].block
    <3>1. tx.awaited /\ tx.call = "initial" /\ tx.c = request[1].c
      BY <1>1, <1>5, <2>2
    <3>2. receipt'[1].status = accepted(tx) /\ receipt'[1].block = ethBlock
      BY <1>1, <3>1
    <3>3. QED  BY <1>3, <1>4, <2>2, <3>1, <3>2, SMTT(60)
  <2>3. QED  BY <1>1, <2>1, <2>2 DEF SeedInv
<1>9. RelayTypes'
  <2>1. receipt' \in {<<>>} \cup {<<q>> : q \in [block : Nat, status : BOOLEAN]}
    <3>1. accepted(tx) \in BOOLEAN
      <4>1. tx.call \in Calls
        BY <1>2 DEF Transaction
      <4>2. QED  BY <4>1 DEF accepted, initialAccepted, commitChecks, finalAccepted, Calls
    <3>2. QED  BY <1>1, <1>3, <3>1
  <2>2. QED  BY <1>1, <1>2, <2>1 DEF RelayInv, RelayTypes
<1>10. /\ currentSet \in Nat /\ Len(offer) \in Nat /\ handoversUnderWay \in Nat
       /\ currentValidatorSet'.id \in Nat /\ currentValidatorSet.id <= currentValidatorSet'.id
  <2>1. PICK id \in SetIDs : currentValidatorSet' = ValidatorSet(id)
    BY <1>4 DEF ContractInv
  <2>2. currentValidatorSet'.id \in Nat
    BY <2>1, AuthorityFacts
  <2>3. currentSet \in Nat /\ Len(offer) \in Nat /\ handoversUnderWay \in Nat
    BY SMTT(60) DEF RelayInv, RelayTypes, handoversUnderWay
  <2>4. QED  BY <1>4, <2>2, <2>3 DEF Moved
<1>11. AheadInv'
  <2>1. handoversUnderWay' = handoversUnderWay
    BY <1>1 DEF handoversUnderWay
  <2>2. NeverAhead'
    <3>1. \A x, y, z, h \in Nat : x <= y + h /\ y <= z => x <= z + h
      BY SMTT(60)
    <3>2. currentValidatorSet.id \in Nat
      BY SetFacts DEF RelayInv
    <3>3. QED  BY <1>1, <1>10, <2>1, <3>1, <3>2 DEF RelayInv, AheadInv, NeverAhead
  <2>3. ASSUME writer = "final", receipt' # <<>>, receipt'[1].status, request[1].handover
        PROVE  currentSet <= currentValidatorSet'.id + Len(offer)
    <3>1. tx.awaited /\ tx.call = "final" /\ tx.handover
      BY <1>1, <1>5, <2>3
    <3>2. accepted(tx)
      BY <1>1, <2>3, <3>1
    <3>3. currentValidatorSet'.id = currentValidatorSet.id + 1
      BY <1>4, <3>1, <3>2
    <3>4. request # <<>> /\ pc = "up"
      BY <2>3 DEF RelayInv, WriterInv, AheadInv
    <3>5. handoversUnderWay = Len(offer) + 1
      BY <2>3, <3>4 DEF handoversUnderWay
    <3>6. currentSet <= currentValidatorSet.id + handoversUnderWay
      BY <3>4 DEF RelayInv, AheadInv, NeverAhead
    <3>7. \A x, y, z \in Nat : x <= y + (z + 1) => x <= (y + 1) + z
      BY SMTT(60)
    <3>8. currentValidatorSet.id \in Nat
      BY SetFacts DEF RelayInv
    <3>9. QED  BY <1>10, <3>3, <3>5, <3>6, <3>7, <3>8
  <2>4. QED  BY <1>1, <2>2, <2>3 DEF RelayInv, AheadInv
<1>12. ScanInv'
  <2>1. ASSUME pc = "reading" PROVE current <= latestBeefyBlock' + 1
    <3>1. /\ latestBeefyBlock \in Nat /\ latestBeefyBlock' \in Nat /\ current \in Nat
          /\ latestBeefyBlock <= latestBeefyBlock' /\ current <= latestBeefyBlock + 1
      BY <1>4, <2>1 DEF RelayInv, RelayTypes, ContractInv, ScanInv, Moved
    <3>2. \A i, j, k \in Nat : i <= j + 1 /\ j <= k => i <= k + 1
      BY SMTT(60)
    <3>3. QED  BY <3>1, <3>2
  <2>2. QED  BY <1>1, <2>1 DEF RelayInv, ScanInv
<1>13. QED  BY <1>4, <1>7, <1>8, <1>9, <1>11, <1>12 DEF RelayInv

\* The nodes lose what is in the mempool: the writer waits on.
LEMMA DropInv ==
    ASSUME RelayInv, drop
    PROVE  RelayInv'
<1>1. /\ UNCHANGED vars /\ mempool' = <<>>
      /\ UNCHANGED <<beefyHead, pc, current, currentSet, results, offer, writer, request, sent, receipt>>
  BY DEF drop, listenerVars, writerVars
<1>2. UNCHANGED <<ethBlock, latestBeefyBlock, currentValidatorSet, tasks>>
  BY <1>1, ContractKept
<1>3. mempool' \in Seq(Transaction) /\ 1 .. Len(mempool') = {} /\ DOMAIN mempool' = {}
  BY <1>1, SMTT(60)
<1>4. RelayTypes'
  BY <1>1, <1>3 DEF RelayInv, RelayTypes
<1>5. WriterInv'
  BY <1>1, <1>3 DEF RelayInv, WriterInv
<1>6. SeedInv'
  BY <1>1, <1>2, <1>3 DEF RelayInv, SeedInv, NeverEarly
<1>7. AheadInv' /\ ScanInv'
  BY <1>1, <1>2 DEF RelayInv, AheadInv, NeverAhead, handoversUnderWay, ScanInv
<1>8. QED  BY <1>1, <1>4, <1>5, <1>6, <1>7, ContractKept DEF RelayInv

\* Blocks of either chain, and other relayers.
LEMMA WorldStepInv ==
    ASSUME RelayInv, mine \/ delay \/ finalize \/ \E c \in Justified : otherSubmitFinal(c)
    PROVE  RelayInv'
<1>1. /\ ContractInv /\ beefyHead \in Nat /\ ethBlock \in Nat /\ latestBeefyBlock \in Nat
      /\ currentValidatorSet.id \in Nat
  BY SetFacts DEF RelayInv, RelayTypes, ContractInv
<1>2. ASSUME mineBlock, UNCHANGED <<beefyHead, relayVars>> PROVE RelayInv'
  <2>1. /\ ethBlock' = ethBlock + 1
        /\ UNCHANGED <<latestBeefyBlock, currentValidatorSet, nextValidatorSet, tasks>>
    BY <1>2 DEF mineBlock, contractVars
  <2>2. ethBlock' \in Nat /\ Moved
    BY <1>1, <2>1, SMTT(60) DEF Moved
  <2>3. ContractInv'
    BY <1>1, <2>1, <2>2 DEF ContractInv
  <2>4. QED  BY <1>1, <1>2, <2>1, <2>2, <2>3, WorldInv
<1>3. CASE mine \/ delay
  BY <1>2, <1>3 DEF mine, delay
<1>4. CASE finalize
  <2>1. PICK c \in Justified : beefyHead' = c.blockNumber
    BY <1>4 DEF finalize
  <2>2. beefyHead' \in Nat
    BY <2>1, JustifiedTypes
  <2>3. /\ ContractInv' /\ UNCHANGED relayVars
        /\ UNCHANGED <<ethBlock, latestBeefyBlock, currentValidatorSet, tasks>>
    BY <1>4, ContractKept DEF finalize
  <2>4. Moved
    BY <1>1, <2>3, SMTT(60) DEF Moved
  <2>5. QED  BY <2>2, <2>3, <2>4, WorldInv
<1>5. ASSUME NEW c \in Justified, otherSubmitFinal(c) PROVE RelayInv'
  <2>1. c.blockNumber > latestBeefyBlock
    <3>1. \A m, n \in Nat : \A k \in m + 1 .. n : k > m
      BY SMTT(60)
    <3>2. latestBeefyBlock \in Nat /\ beefyHead \in Nat
      BY <1>1 DEF RelayInv, RelayTypes, ContractInv
    <3>3. c.blockNumber \in latestBeefyBlock + 1 .. beefyHead
      BY <1>5 DEF otherSubmitFinal
    <3>4. QED  BY <3>1, <3>2, <3>3
  <2>2. /\ latestBeefyBlock' = c.blockNumber /\ ethBlock' = ethBlock
        /\ UNCHANGED <<tasks, beefyHead, relayVars>>
        /\ \/ /\ c.validatorSetID = currentValidatorSet.id
              /\ UNCHANGED <<currentValidatorSet, nextValidatorSet>>
           \/ /\ c.validatorSetID = nextValidatorSet.id
              /\ nextValidatorSet' \in c.leaves
              /\ nextValidatorSet'.id = nextValidatorSet.id + 1
              /\ currentValidatorSet' = nextValidatorSet
    BY <1>5 DEF otherSubmitFinal
  <2>3. tasks' \in [TaskIDs -> Task]
    BY <1>1, <2>2 DEF ContractInv
  <2>4. ContractInv' /\ Moved
    BY <1>1, <2>1, <2>2, <2>3, AcceptedInv
  <2>5. QED  BY <1>1, <2>2, <2>4, WorldInv
<1>6. QED  BY <1>3, <1>4, <1>5

----------------------------------------------------------------------------
\* The relay starts in order, after the contract has been initialised.
LEMMA InitRelayInv == ASSUME RelayInit PROVE RelayInv
<1>1. /\ InitialSetID \in SetIDs /\ InitialSetID + 1 \in SetIDs /\ InitialBlock \in Nat
      /\ ValidatorSet(InitialSetID).id = InitialSetID
      /\ ValidatorSet(InitialSetID + 1).id = InitialSetID + 1
  BY SetAssumption, AuthorityFacts
<1>2. ContractInv
  <2>1. ethBlock \in Nat /\ latestBeefyBlock \in Nat /\ tasks \in [TaskIDs -> Task]
    BY <1>1, BoundAssumption DEF RelayInit, Task, NoTask
  <2>2. QED  BY <1>1, <2>1, SessionAssumption DEF RelayInit, ContractInv
<1>3. RelayTypes
  <2>1. /\ beefyHead \in Nat /\ current \in Nat /\ currentSet \in Nat
        /\ results \in Seq([c : Justified, recent : BOOLEAN]) /\ mempool \in Seq(Transaction)
    BY <1>1, SMTT(60) DEF RelayInit
  <2>2. QED  BY <2>1 DEF RelayInit, RelayTypes
<1>4. WriterInv /\ SeedInv /\ AheadInv /\ ScanInv
  BY SMTT(60) DEF RelayInit, WriterInv, SeedInv, NeverEarly, AheadInv, NeverAhead, ScanInv
<1>5. QED  BY <1>2, <1>3, <1>4 DEF RelayInv

\* Every step keeps the inductive invariant.
LEMMA NextRelayInv == ASSUME RelayInv, [RelayNext]_allVars PROVE RelayInv'
<1>1. CASE Relay
  <2>1. UNCHANGED <<vars, beefyHead>>
    BY <1>1 DEF Relay
  <2>2. QED
    BY <1>1, <2>1, ReadInv, WriterStartInv, ScanStepInv, ScanCommitmentsInv, TerminateInv,
       PassHandoverInv, SendInv, WaitInv DEF Relay, unexpectedSet
<1>2. CASE crash
  BY <1>2, TerminateInv DEF crash
<1>3. CASE UNCHANGED allVars
  <2>1. UNCHANGED <<vars, beefyHead, tasks, relayVars>>
    BY <1>3 DEF allVars, vars
  <2>2. /\ ContractInv' /\ beefyHead' \in Nat
        /\ UNCHANGED <<ethBlock, latestBeefyBlock, currentValidatorSet>>
    BY <2>1, ContractKept DEF RelayInv, RelayTypes
  <2>3. Moved
    BY <2>2, SetFacts, SMTT(60) DEF Moved, RelayInv, ContractInv
  <2>4. QED  BY <2>1, <2>2, <2>3, WorldInv
<1>4. QED  BY <1>1, <1>2, <1>3, IncludeInv, DropInv, WorldStepInv DEF RelayNext

\* The inductive invariant holds in every reachable state.
LEMMA AlwaysRelayInv == RelaySpec => []RelayInv
<1> QED  BY InitRelayInv, NextRelayInv, PTL DEF RelaySpec

\* The listener's set is ahead of the contract's by the handovers under way and no more,
\* whenever the process is killed and whatever its transactions come to.
THEOREM ListenerIsNeverAhead == RelaySpec => []NeverAhead
<1>1. RelayInv => NeverAhead
  BY DEF RelayInv, AheadInv
<1>2. QED  BY AlwaysRelayInv, <1>1, PTL

\* No call for a seed is ever in the mempool before the contract's delay is over, also with
\* calls of earlier processes for the same commitment around it.
THEOREM WriterIsNeverEarly == RelaySpec => []NeverEarly
<1>1. RelayInv => NeverEarly
  BY DEF RelayInv, SeedInv
<1>2. QED  BY AlwaysRelayInv, <1>1, PTL

\* A relay with nothing left to do has brought the contract to the set of every handover
\* that is final.
THEOREM IdleRelayIsCaughtUp == RelaySpec => []IdleIsCaughtUp
<1>1. RelayInv => IdleIsCaughtUp
  <2>1. SUFFICES ASSUME RelayInv, pc = "up", writer = "idle", offer = <<>>, results = <<>>,
                        current > beefyHead, NEW c \in handovers, c.blockNumber <= beefyHead
                 PROVE  c.validatorSetID <= currentValidatorSet.id
    BY DEF IdleIsCaughtUp
  <2>2. request = <<>>
    BY <2>1 DEF RelayInv, WriterInv
  <2>3. handoversUnderWay = 0
    BY <2>1, <2>2, SMTT(60) DEF handoversUnderWay
  <2>4. currentSet <= currentValidatorSet.id + 0
    BY <2>1, <2>3 DEF RelayInv, AheadInv, NeverAhead
  <2>5. current \in Nat /\ beefyHead \in Nat /\ currentSet \in Nat /\ currentValidatorSet.id \in Nat
    BY <2>1, SetFacts DEF RelayInv, RelayTypes
  <2>6. c.blockNumber \in Nat /\ c.validatorSetID \in Nat
    BY JustifiedTypes DEF handovers
  <2>7. c.blockNumber < current
    BY <2>1, <2>5, <2>6, SMTT(60)
  <2>8. 1 .. Len(results) = {}
    BY <2>1, SMTT(60)
  <2>9. c.validatorSetID <= currentSet
    BY <2>1, <2>7, <2>8 DEF RelayInv, ScanInv
  <2>10. QED  BY <2>4, <2>5, <2>6, <2>9, SMTT(60)
<1>2. QED  BY AlwaysRelayInv, <1>1, PTL
=============================================================================

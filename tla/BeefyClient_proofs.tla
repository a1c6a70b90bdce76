------------------------- MODULE BeefyClient_proofs -------------------------
(***************************************************************************)
(* The safety invariants of BeefyClient, for any number of relayers,       *)
(* validators, validator sets and commitments, and any draw that satisfies *)
(* DrawAssumption; that the contract implements FinalizedView; and that    *)
(* minimumSignatureThreshold is the least that its comment asks for.       *)
(***************************************************************************)
EXTENDS BeefyClient, ThresholdOfSize, FiniteSetTheorems, TLAPS

\* Leaves are for Zenon; SMTT marks those that need arithmetic, sequences or records. A prover
\* may work a minute on a leaf, so that a busy machine checks the same proofs: few take seconds.
USE ZenonT(60)

\* Until initialize is called there is no next set and no root; then the set in force has an id.
Uninitialized ==
    /\ currentValidatorSet = NoSet => nextValidatorSet = NoSet /\ latestMMRRoot = NoRoot
    /\ currentValidatorSet # NoSet => currentValidatorSet.id # 0

\* The inductive invariant: ConsecutiveSets and RootInForce alone are not inductive, since a
\* set with id 0 is in force until initialize is called, and tasks keep their types only with
\* the rest of the state.
IInv ==
    /\ TypeOK
    /\ ConsecutiveSets
    /\ RootInForce
    /\ SeedAfterClaims
    /\ Uninitialized

\* minimumSignatureThreshold demands the least that lines 395 and 401 of its comment ask for,
\* for every size of a set up to 43690, where the last constant, 17, runs out: a larger
\* set would need 18.
LEMMA ThresholdOf ==
    ASSUME NEW x \in Nat, 1 <= x, x <= 43690
    PROVE  LeastSecure(x)
<1> DEFINE f == minimumSignatureThreshold(x)
<1>1. CASE x <= 10
  BY <1>1, SMTT(60) DEF LeastSecure, minimumSignatureThreshold
<1>2. CASE x > 10
  <2>1. /\ 2 ^ 10 = 1024 /\ 2 ^ 11 = 2048 /\ 2 ^ 12 = 4096 /\ 2 ^ 13 = 8192
        /\ 2 ^ 14 = 16384 /\ 2 ^ 15 = 32768 /\ 2 ^ 16 = 65536 /\ 2 ^ 17 = 131072
    BY SMTT(60)
  <2>2. \/ x < 342 /\ f = 10
        \/ 342 <= x /\ x <= 682 /\ f = 11
        \/ 683 <= x /\ x <= 1365 /\ f = 12
        \/ 1366 <= x /\ x <= 2730 /\ f = 13
        \/ 2731 <= x /\ x <= 5461 /\ f = 14
        \/ 5462 <= x /\ x <= 10922 /\ f = 15
        \/ 10923 <= x /\ x <= 21845 /\ f = 16
        \/ 21846 <= x /\ x <= 43690 /\ f = 17
    BY <1>2, SMTT(60) DEF minimumSignatureThreshold
  <2> HIDE DEF f
  <2>3. f >= 10 /\ 2 ^ f >= 3 * x /\ (f = 10 \/ 2 ^ (f - 1) < 3 * x)
    <3>1. CASE x < 342 /\ f = 10  BY <2>1, <3>1, SMTT(60)
    <3>2. CASE 342 <= x /\ x <= 682 /\ f = 11  BY <2>1, <3>2, SMTT(60)
    <3>3. CASE 683 <= x /\ x <= 1365 /\ f = 12  BY <2>1, <3>3, SMTT(60)
    <3>4. CASE 1366 <= x /\ x <= 2730 /\ f = 13  BY <2>1, <3>4, SMTT(60)
    <3>5. CASE 2731 <= x /\ x <= 5461 /\ f = 14  BY <2>1, <3>5, SMTT(60)
    <3>6. CASE 5462 <= x /\ x <= 10922 /\ f = 15  BY <2>1, <3>6, SMTT(60)
    <3>7. CASE 10923 <= x /\ x <= 21845 /\ f = 16  BY <2>1, <3>7, SMTT(60)
    <3>8. CASE 21846 <= x /\ x <= 43690 /\ f = 17  BY <2>1, <3>8, SMTT(60)
    <3>9. QED  BY <2>2, <3>1, <3>2, <3>3, <3>4, <3>5, <3>6, <3>7, <3>8, SMTT(60)
  <2>4. QED  BY <1>2, <2>3, SMTT(60) DEF LeastSecure, f
<1>3. QED  BY <1>1, <1>2, SMTT(60)

\* As far as the last constant of minimumSignatureThreshold reaches, twice the 21,845 that the
\* comment speaks of, the threshold of a validator set is the least that its lines 395 and 401
\* ask for (not line 394, which the code exceeds by one).
THEOREM ThresholdAlwaysLeast ==
    ASSUME MaxValidators \in Nat, MaxValidators <= 43690
    PROVE  SizeSpec => []ThresholdIsLeast
<1> DEFINE Size == validatorSetLen \in Nat /\ 1 <= validatorSetLen /\ validatorSetLen <= 43690
<1>1. SizeInit => Size
  BY SMTT(60) DEF SizeInit
<1>2. Size /\ [SizeNext]_validatorSetLen => Size'
  BY SMTT(60) DEF SizeNext
<1>3. Size => ThresholdIsLeast
  BY ThresholdOf, SMTT(60) DEF ThresholdIsLeast
<1>4. QED  BY <1>1, <1>2, <1>3, PTL DEF SizeSpec

\* minimumSignatureThreshold never asks for no signature at all, nor for more
\* signatures than the set has members.
LEMMA ThresholdBounds ==
    ASSUME NEW n \in Nat \ {0}
    PROVE  minimumSignatureThreshold(n) \in 1 .. n
<1>1. CASE n <= 10
  <2>1. minimumSignatureThreshold(n) = n - ((n - 1) \div 3)
    BY <1>1, SMTT(60) DEF minimumSignatureThreshold
  <2>2. (n - 1) \div 3 \in 0 .. n - 1
    BY <1>1, SMTT(60)
  <2> QED  BY <2>1, <2>2, SMTT(60)
<1>2. CASE n > 10
  <2>1. minimumSignatureThreshold(n) \in 10 .. 17
    BY <1>2, SMTT(60) DEF minimumSignatureThreshold
  <2>2. minimumSignatureThreshold(n) <= n
    BY <1>2, SMTT(60) DEF minimumSignatureThreshold
  <2> QED  BY <2>1, <2>2, SMTT(60)
<1> QED  BY <1>1, <1>2, SMTT(60)

\* A set of the relay chain has an id, and from 1 to MaxSeats seats.
LEMMA AuthorityFacts ==
    ASSUME NEW id \in SetIDs
    PROVE  /\ id \in Nat /\ id # 0
           /\ ValidatorSet(id) # NoSet
           /\ ValidatorSet(id).id = id
           /\ ValidatorSet(id).members = Authorities[id]
           /\ Authorities[id] \in Seq(Validators)
           /\ Len(Authorities[id]) \in Seats
           /\ ValidatorSet(id) \in AnySet
<1>1. id \in Nat /\ id # 0
  BY SetAssumption
<1>2. Authorities[id] \in Seq(Validators) /\ Authorities[id] # <<>>
  BY SetAssumption
<1>3. Len(Authorities[id]) \in Nat /\ Len(Authorities[id]) # 0
  BY <1>2, SMTT(60)
<1>4. Len(Authorities[id]) \in Seats
  BY <1>3, SetAssumption, BoundAssumption, SMTT(60) DEF Seats
<1>5. ValidatorSet(id).id = id /\ ValidatorSet(id).members = Authorities[id]
  BY DEF ValidatorSet
<1>6. ValidatorSet(id) # NoSet
  BY <1>1, <1>5, SMTT(60) DEF NoSet
<1>7. ValidatorSet(id) \in AnySet
  BY <1>1, <1>2, SetAssumption DEF ValidatorSet, AnySet
<1> QED  BY <1>1, <1>2, <1>4, <1>5, <1>6, <1>7

\* The set that the constructor leaves is one without members.
LEMMA NoSetFacts == NoSet \in AnySet /\ NoSet.id = 0
<1>1. <<>> \in Seq(Validators) /\ Len(<<>>) = 0 /\ 0 <= MaxSeats
  BY BoundAssumption, SMTT(60)
<1> QED  BY <1>1 DEF NoSet, AnySet

\* verifyCommitment asks for at least one proof, so that passing it means that a member of the
\* set signed.
LEMMA VerifiedIsSigned ==
    ASSUME NEW c \in Commitments, NEW vset \in AnySet,
           NEW task \in Task, task.prevRandao # 0, task.bitfield # NoBitfield,
           verifyCommitment(task, c, vset)
    PROVE  signedFrom(c, vset)
<1> DEFINE length == Len(vset.members)
           n == minimumSignatureThreshold(length)
           drawn == Draw(task.prevRandao, task.bitfield, n, length)
<1>1. length \in Nat /\ length <= MaxSeats
  <2>1. vset.members \in Seq(Validators) /\ length <= MaxSeats
    BY DEF AnySet
  <2> QED  BY <2>1, SMTT(60)
<1>2. n <= Cardinality(task.bitfield \cap (1 .. length))
  BY DEF verifyCommitment, drawEnds
<1>3. length # 0
  <2>1. SUFFICES ASSUME length = 0 PROVE FALSE
    OBVIOUS
  <2>2. n \in Int /\ n > 0
    <3>1. \A y \in Int : y < 0 => y \div 3 \in Int /\ y \div 3 < 0
      BY SMTT(60)
    <3>2. 0 - 1 \in Int /\ 0 - 1 < 0
      BY SMTT(60)
    <3>3. (0 - 1) \div 3 \in Int /\ (0 - 1) \div 3 < 0
      BY <3>1, <3>2
    <3>4. n = 0 - ((0 - 1) \div 3)
      BY <2>1, SMTT(60) DEF minimumSignatureThreshold
    <3> HIDE DEF n
    <3> QED  BY <3>3, <3>4, SMTT(60)
  <2>3. task.bitfield \cap (1 .. length) = {}
    BY <2>1, SMTT(60)
  <2>4. Cardinality(task.bitfield \cap (1 .. length)) = 0
    BY <2>3, FS_EmptySet
  <2> HIDE DEF n
  <2> QED  BY <1>2, <2>2, <2>4, SMTT(60)
<1>4. length \in Seats /\ n \in Seats /\ n # 0
  <2>1. length \in Nat \ {0}
    BY <1>1, <1>3
  <2>2. n \in 1 .. length
    BY <2>1, ThresholdBounds
  <2> HIDE DEF n
  <2> QED  BY <1>1, <2>1, <2>2, BoundAssumption, SMTT(60) DEF Seats
<1>5. task.prevRandao \in Seeds /\ task.bitfield \in SUBSET Seats
  BY BoundAssumption DEF Task
<1>6. Cardinality(drawn) = n
  <2> HIDE DEF n, length
  <2>1. \A m \in Seats, l \in Seats :
            m <= Cardinality(task.bitfield \cap (1 .. l)) =>
                /\ Draw(task.prevRandao, task.bitfield, m, l) \subseteq task.bitfield \cap (1 .. l)
                /\ Cardinality(Draw(task.prevRandao, task.bitfield, m, l)) = m
    BY <1>5, DrawAssumption
  <2> QED  BY <2>1, <1>2, <1>4
<1>7. drawn # {}
  BY <1>4, <1>6, FS_EmptySet
<1> QED
  BY <1>7 DEF verifyCommitment

----------------------------------------------------------------------------
\* The constructor's state satisfies the inductive invariant.
LEMMA InitIInv == Init => IInv
<1> SUFFICES ASSUME Init PROVE IInv
  OBVIOUS
<1>1. TypeOK
  BY BoundAssumption, NoSetFacts DEF Init, TypeOK, Task, NoTask
<1>2. SeedAfterClaims
  BY DEF Init, SeedAfterClaims, NoTask
<1> QED
  BY <1>1, <1>2 DEF Init, IInv, ConsecutiveSets, RootInForce, Uninitialized

\* Opening a task keeps the invariant: the new task has no seed.
LEMMA SubmitInitialIInv ==
    ASSUME IInv, NEW r \in Relayers, NEW c \in Commitments, NEW bitfield \in Bitfields,
           NEW vset \in AnySet,
           doSubmitInitial(r, c, bitfield, vset)
    PROVE  IInv'
<1> USE DEF IInv, doSubmitInitial, initialChecks, contractVars
<1>1. Len(vset.members) \in Nat
  <2>1. vset.members \in Seq(Validators)
    BY DEF AnySet
  <2> QED  BY <2>1, SMTT(60)
<1>2. <<r, c>> \in TaskIDs
  BY DEF TaskIDs
<1>3. TypeOK'
  BY <1>1, <1>2 DEF TypeOK, Task
<1>4. SeedAfterClaims'
  BY <1>2 DEF SeedAfterClaims, TypeOK
<1>5. ConsecutiveSets' /\ RootInForce' /\ Uninitialized'
  BY DEF ConsecutiveSets, RootInForce, Uninitialized, signedFrom, isValidatorInSet
<1> QED  BY <1>3, <1>4, <1>5

\* Recording the seed keeps the invariant: it happens inside the window.
LEMMA CommitPrevRandaoIInv ==
    ASSUME IInv, NEW r \in Relayers, NEW c \in Commitments, NEW difficulty \in Seeds,
           commitPrevRandao(r, c, difficulty)
    PROVE  IInv'
<1> USE DEF IInv, commitPrevRandao, commitChecks, contractVars
<1>1. <<r, c>> \in TaskIDs
  BY DEF TaskIDs
<1>2. TypeOK'
  <2>1. difficulty \in Nat
    BY BoundAssumption
  <2>2. tasks' \in [TaskIDs -> Task]
    BY <1>1, <2>1 DEF TypeOK, Task
  <2>3. QED  BY <2>2 DEF TypeOK
<1>3. SeedAfterClaims'
  BY <1>1 DEF SeedAfterClaims, TypeOK, Task
<1>4. ConsecutiveSets' /\ RootInForce' /\ Uninitialized'
  BY DEF ConsecutiveSets, RootInForce, Uninitialized, signedFrom, isValidatorInSet
<1> QED  BY <1>2, <1>3, <1>4

\* Forgetting a task keeps the types and the seed windows.
LEMMA DeleteTaskIInv ==
    ASSUME TypeOK, SeedAfterClaims, NEW r \in Relayers, NEW c \in Commitments,
           deleteTask(r, c)
    PROVE  /\ tasks' \in [TaskIDs -> Task]
           /\ capturedAt' \in [TaskIDs -> Nat]
           /\ SeedAfterClaims'
<1>1. <<r, c>> \in TaskIDs
  BY DEF TaskIDs
<1>2. NoTask \in Task /\ NoTask.prevRandao = 0
  BY DEF Task, NoTask
<1>3. tasks' \in [TaskIDs -> Task] /\ capturedAt' \in [TaskIDs -> Nat]
  BY <1>1, <1>2 DEF TypeOK, deleteTask
<1>4. SeedAfterClaims'
  BY <1>1, <1>2 DEF SeedAfterClaims, TypeOK, deleteTask
<1> QED  BY <1>3, <1>4

\* What the checks of a final submission tell about the set it verifies against.
LEMMA FinalIsSigned ==
    ASSUME IInv, NEW r \in Relayers, NEW c \in Commitments, NEW vset,
           vset \in {currentValidatorSet, nextValidatorSet},
           finalChecks(r, c, vset), verifyCommitment(tasks[<<r, c>>], c, vset)
    PROVE  /\ vset.id = c.validatorSetID
           /\ vset.id \in Nat /\ vset.id # 0
           /\ vset # NoSet
           /\ signedFrom(c, vset)
           /\ c.blockNumber \in Nat
           /\ c.leaves \subseteq AnySet
<1>1. /\ c.blockNumber \in Nat /\ c.validatorSetID \in Nat
      /\ c.validatorSetID # 0 /\ c.leaves \subseteq AnySet
  BY CommitmentAssumption, SetAssumption
<1>2. vset.id = c.validatorSetID
  BY DEF finalChecks
<1>3. vset \in AnySet
  BY DEF IInv, TypeOK
<1>4. vset # NoSet
  BY <1>1, <1>2, NoSetFacts
<1>5. tasks[<<r, c>>] \in Task
  BY DEF IInv, TypeOK, TaskIDs
<1>6. signedFrom(c, vset)
  BY <1>3, <1>5, VerifiedIsSigned DEF finalChecks
<1> QED  BY <1>1, <1>2, <1>4, <1>6

----------------------------------------------------------------------------
\* Every step of the contract preserves the inductive invariant.
LEMMA NextIInv == IInv /\ [Next]_vars => IInv'
<1> SUFFICES ASSUME IInv, [Next]_vars PROVE IInv'
  OBVIOUS
<1> USE DEF IInv
<1>1. CASE initialize
  <2>1. /\ InitialSetID \in SetIDs /\ InitialSetID + 1 \in SetIDs /\ InitialBlock \in Nat
        /\ ValidatorSet(InitialSetID).id = InitialSetID /\ InitialSetID # 0
        /\ ValidatorSet(InitialSetID + 1).id = InitialSetID + 1
        /\ ValidatorSet(InitialSetID) # NoSet
        /\ ValidatorSet(InitialSetID) \in AnySet /\ ValidatorSet(InitialSetID + 1) \in AnySet
    BY SetAssumption, AuthorityFacts
  <2>2. TypeOK'
    BY <1>1, <2>1 DEF initialize, TypeOK
  <2>3. ConsecutiveSets' /\ Uninitialized'
    BY <1>1, <2>1 DEF initialize, ConsecutiveSets, Uninitialized
  <2>4. RootInForce'
    BY <1>1 DEF initialize, RootInForce, Uninitialized
  <2>5. SeedAfterClaims'
    BY <1>1 DEF initialize, SeedAfterClaims
  <2> QED  BY <2>2, <2>3, <2>4, <2>5
<1>2. CASE mineBlock
  BY <1>2, SMTT(60) DEF mineBlock, contractVars, TypeOK, ConsecutiveSets, RootInForce,
              SeedAfterClaims, Uninitialized, signedFrom, isValidatorInSet
<1>3. ASSUME NEW r \in Relayers, NEW c \in Commitments, NEW bitfield \in Bitfields,
             \/ submitInitial(r, c, bitfield)
             \/ submitInitialWithHandover(r, c, bitfield)
      PROVE  IInv'
  BY <1>3, SubmitInitialIInv DEF submitInitial, submitInitialWithHandover, TypeOK
<1>4. ASSUME NEW r \in Relayers, NEW c \in Commitments, NEW difficulty \in Seeds,
             commitPrevRandao(r, c, difficulty)
      PROVE  IInv'
  BY <1>4, CommitPrevRandaoIInv
<1>5. ASSUME NEW r \in Relayers, NEW c \in Commitments, submitFinal(r, c)
      PROVE  IInv'
  <2>1. /\ currentValidatorSet.id = c.validatorSetID
        /\ currentValidatorSet # NoSet
        /\ signedFrom(c, currentValidatorSet) /\ c.blockNumber \in Nat
    BY <1>5, FinalIsSigned DEF submitFinal
  <2>2. /\ tasks' \in [TaskIDs -> Task] /\ capturedAt' \in [TaskIDs -> Nat]
        /\ SeedAfterClaims'
    BY <1>5, DeleteTaskIInv DEF submitFinal
  <2>3. TypeOK'
    BY <1>5, <2>1, <2>2 DEF submitFinal, TypeOK
  <2>4. RootInForce'
    BY <1>5, <2>1 DEF submitFinal, RootInForce, signedFrom, isValidatorInSet
  <2>5. ConsecutiveSets' /\ Uninitialized'
    BY <1>5, <2>1 DEF submitFinal, ConsecutiveSets, Uninitialized, signedFrom, isValidatorInSet
  <2> QED  BY <2>2, <2>3, <2>4, <2>5
<1>6. ASSUME NEW r \in Relayers, NEW c \in Commitments, NEW leaf \in c.leaves,
             submitFinalWithHandover(r, c, leaf)
      PROVE  IInv'
  <2>1. /\ nextValidatorSet.id = c.validatorSetID
        /\ nextValidatorSet # NoSet /\ nextValidatorSet.id # 0
        /\ signedFrom(c, nextValidatorSet) /\ c.blockNumber \in Nat
        /\ leaf \in AnySet
    BY <1>6, FinalIsSigned DEF submitFinalWithHandover
  <2>2. /\ tasks' \in [TaskIDs -> Task] /\ capturedAt' \in [TaskIDs -> Nat]
        /\ SeedAfterClaims'
    BY <1>6, DeleteTaskIInv DEF submitFinalWithHandover
  <2>3. TypeOK'
    BY <1>6, <2>1, <2>2 DEF submitFinalWithHandover, TypeOK
  <2>4. RootInForce'
    BY <1>6, <2>1 DEF submitFinalWithHandover, RootInForce, signedFrom, isValidatorInSet
  <2>5. ConsecutiveSets'
    BY <1>6, <2>1 DEF submitFinalWithHandover, ConsecutiveSets, signedFrom, isValidatorInSet
  <2>6. Uninitialized'
    BY <1>6, <2>1 DEF submitFinalWithHandover, Uninitialized
  <2> QED  BY <2>2, <2>3, <2>4, <2>5, <2>6
<1>7. CASE UNCHANGED vars
  BY <1>7 DEF vars, contractVars, TypeOK, ConsecutiveSets, RootInForce, SeedAfterClaims,
              Uninitialized, signedFrom, isValidatorInSet
<1> QED  BY <1>1, <1>2, <1>3, <1>4, <1>5, <1>6, <1>7 DEF Next, Call

\* The inductive invariant holds in every reachable state.
LEMMA AlwaysIInv == Spec => []IInv
<1> QED  BY InitIInv, NextIInv, PTL DEF Spec

\* Type correctness of the contract's state.
THEOREM TypeCorrect == Spec => []TypeOK
<1>1. IInv => TypeOK
  BY DEF IInv
<1> QED  BY AlwaysIInv, <1>1, PTL

\* No session is skipped or repeated, and every set after the first two is announced under a
\* root that a member of the set before it signed, for every sequence of calls and any leaves.
THEOREM SetsAreConsecutive == Spec => []ConsecutiveSets
<1>1. IInv => ConsecutiveSets
  BY DEF IInv
<1> QED  BY AlwaysIInv, <1>1, PTL

\* The stored root always belongs to the set in force, and a member of that set signed it.
THEOREM RootIsInForce == Spec => []RootInForce
<1>1. IInv => RootInForce
  BY DEF IInv
<1> QED  BY AlwaysIInv, <1>1, PTL

\* A seed is always younger than the claims it selects from.
THEOREM SeedFollowsClaims == Spec => []SeedAfterClaims
<1>1. IInv => SeedAfterClaims
  BY DEF IInv
<1> QED  BY AlwaysIInv, <1>1, PTL

----------------------------------------------------------------------------
\* No call gives a task with a seed another seed or other claims: submitInitial
\* starts the task over and submitFinal consumes it.
THEOREM SeedNeverReplaced == Spec => SeedIsFinal
<1>1. IInv /\ [Next]_vars => [SeedKept]_vars
  <2> SUFFICES ASSUME IInv, Next PROVE SeedKept
    OBVIOUS
  <2> USE DEF IInv, SeedKept
  <2>1. CASE initialize \/ mineBlock
    BY <2>1 DEF initialize, mineBlock
  <2>2. ASSUME NEW r \in Relayers, NEW c \in Commitments, Call(r, c)
        PROVE  SeedKept
    <3>1. <<r, c>> \in TaskIDs /\ tasks \in [TaskIDs -> Task] /\ <<r, c>>[2] = c
      BY DEF TaskIDs, TypeOK
    <3>2. ASSUME NEW bitfield \in Bitfields,
                 \/ submitInitial(r, c, bitfield)
                 \/ submitInitialWithHandover(r, c, bitfield)
          PROVE  SeedKept
      BY <3>1, <3>2, SMTT(60) DEF submitInitial, submitInitialWithHandover, doSubmitInitial
    <3>3. ASSUME NEW difficulty \in Seeds, commitPrevRandao(r, c, difficulty)
          PROVE  SeedKept
      BY <3>1, <3>3 DEF commitPrevRandao, commitChecks
    <3>4. CASE submitFinal(r, c)
      BY <3>1, <3>4 DEF submitFinal, deleteTask
    <3>5. ASSUME NEW leaf \in c.leaves, submitFinalWithHandover(r, c, leaf)
          PROVE  SeedKept
      BY <3>1, <3>5 DEF submitFinalWithHandover, deleteTask
    <3> QED  BY <2>2, <3>2, <3>3, <3>4, <3>5 DEF Call
  <2> QED  BY <2>1, <2>2 DEF Next
<1> QED  BY <1>1, AlwaysIInv, PTL DEF Spec, SeedIsFinal

\* The three-transaction protocol implements the atomic view: its initial state
\* is the view's, accepting a commitment is one Advance of the view, initialize
\* is Bootstrap, and every other call leaves the view alone.
THEOREM BeefyImplementsView == Spec => ImplementsView
<1>1. Init => View!ViewInit
  BY SMTT(60) DEF Init, View!ViewInit, NoSet
<1>2. IInv /\ IInv' /\ [Next]_vars => [View!ViewNext]_(View!viewVars)
  <2> SUFFICES ASSUME IInv, IInv', [Next]_vars
               PROVE  View!ViewNext \/ UNCHANGED View!viewVars
    OBVIOUS
  <2> USE DEF View!viewVars
  <2>1. CASE initialize
    <3>1. ValidatorSet(InitialSetID).id = InitialSetID
      BY SetAssumption, AuthorityFacts
    <3> QED  BY <2>1, <3>1 DEF initialize, View!ViewNext, View!Bootstrap, NoSet
  <2>2. CASE mineBlock \/ UNCHANGED vars
    BY <2>2 DEF mineBlock, vars, contractVars
  <2>3. ASSUME NEW r \in Relayers, NEW c \in Commitments, submitFinal(r, c)
        PROVE  View!ViewNext
    <3>1. /\ currentValidatorSet.id = c.validatorSetID
          /\ c.validatorSetID # 0 /\ c.validatorSetID \in Nat
      BY <2>3, FinalIsSigned DEF submitFinal
    <3>2. View!Advance(c)
      BY <2>3, <3>1 DEF submitFinal, finalChecks, View!Advance
    <3> QED  BY <3>2 DEF View!ViewNext
  <2>4. ASSUME NEW r \in Relayers, NEW c \in Commitments, NEW leaf \in c.leaves,
               submitFinalWithHandover(r, c, leaf)
        PROVE  View!ViewNext
    <3>1. nextValidatorSet.id = c.validatorSetID /\ nextValidatorSet # NoSet
      BY <2>4, FinalIsSigned DEF submitFinalWithHandover
    <3>2. /\ currentValidatorSet # NoSet
          /\ nextValidatorSet.id = currentValidatorSet.id + 1
      BY <3>1 DEF IInv, ConsecutiveSets, Uninitialized
    <3>3. currentValidatorSet.id # 0
      BY <3>2 DEF IInv, Uninitialized
    <3>4. View!Advance(c)
      BY <2>4, <3>1, <3>2, <3>3 DEF submitFinalWithHandover, finalChecks, View!Advance
    <3> QED  BY <3>4 DEF View!ViewNext
  <2>5. ASSUME NEW r \in Relayers, NEW c \in Commitments,
               \/ \E bitfield \in Bitfields : \/ submitInitial(r, c, bitfield)
                                              \/ submitInitialWithHandover(r, c, bitfield)
               \/ \E difficulty \in Seeds : commitPrevRandao(r, c, difficulty)
        PROVE  UNCHANGED View!viewVars
    BY <2>5 DEF submitInitial, submitInitialWithHandover, doSubmitInitial,
                commitPrevRandao, contractVars
  <2> QED  BY <2>1, <2>2, <2>3, <2>4, <2>5 DEF Next, Call
<1> QED  BY <1>1, <1>2, AlwaysIInv, PTL DEF Spec, ImplementsView, View!ViewSpec
=============================================================================

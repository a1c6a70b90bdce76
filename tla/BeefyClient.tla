---------------------------- MODULE BeefyClient ----------------------------
(***************************************************************************)
(* The Ethereum light client of the relay chain (BeefyClient.sol).  A      *)
(* relayer proves a commitment in three transactions: submitInitial fixes  *)
(* a bitfield of claimed signers, commitPrevRandao fixes a random seed     *)
(* some blocks later, submitFinal shows the signatures the seed selects.   *)
(* The "WithHandover" pair does the same with the next validator set and   *)
(* then makes that set the current one.                                    *)
(*                                                                         *)
(* A call that reverts changes nothing and is not an action.  Hashes are   *)
(* the values they commit to; a Merkle proof of membership is membership;  *)
(* bit i of a bitfield is the i-th seat of the validator set.              *)
(***************************************************************************)
EXTENDS SignatureThreshold, Sequences, FiniteSets

CONSTANTS
    Relayers,                \* accounts that call the contract
    Validators,
    SetIDs,                  \* ids of the relay chain's validator sets
    Authorities,             \* set id -> sequence of validators
    Commitments,             \* [blockNumber, validatorSetID, leaves]: leaves holds
                             \* the validator sets that leaves under its MMR root announce
    SignedBy,                \* commitment -> validators that signed it
    InitialBlock,
    InitialSetID,
    MaxSeats,                \* capacity of a bitfield
    Bitfields,               \* the bitfields relayers submit
    Seeds,                   \* values block.difficulty may take
    Draw(_, _, _, _),        \* Bitfield.randomNBitsWithPriorCheck(seed, prior, n, length)
    randaoCommitDelay,
    randaoCommitExpiration,
    DeployedAt,              \* Ethereum block in which the contract is deployed
    MaxEthBlock              \* bound on Ethereum's block number

VARIABLES
    ethBlock,                \* block.number
    latestMMRRoot,           \* the commitment whose payload holds the root
    latestBeefyBlock,
    currentValidatorSet,     \* [id, members]; root and length are functions of members
    nextValidatorSet,
    tasks,                   \* createTaskID(account, commitmentHash) -> task
    capturedAt               \* history: block in which a task's seed was recorded

contractVars == <<latestMMRRoot, latestBeefyBlock, currentValidatorSet, nextValidatorSet>>
vars == <<ethBlock, contractVars, tasks, capturedAt>>

Seats == 1 .. MaxSeats
TaskIDs == Relayers \X Commitments

ASSUME SetAssumption ==
    /\ SetIDs \subseteq Nat \ {0}
    /\ InitialSetID \in SetIDs /\ InitialSetID + 1 \in SetIDs
    /\ InitialBlock \in Nat
    /\ Authorities \in [SetIDs -> Seq(Validators) \ {<<>>}]
    /\ \A id \in SetIDs : Len(Authorities[id]) <= MaxSeats

\* What a leaf may announce: nothing ties the members to the id.
AnySet == [id : Nat, members : {m \in Seq(Validators) : Len(m) <= MaxSeats}]

ASSUME CommitmentAssumption ==
    /\ Commitments \subseteq [blockNumber : Nat, validatorSetID : SetIDs, leaves : SUBSET AnySet]
    /\ SignedBy \in [Commitments -> SUBSET Validators]

ASSUME BoundAssumption ==
    /\ MaxSeats \in Nat \ {0}
    /\ Bitfields \subseteq SUBSET Seats
    /\ randaoCommitDelay \in Nat \ {0}
    /\ randaoCommitExpiration \in Nat
    /\ DeployedAt \in Nat
    /\ MaxEthBlock \in Nat
    /\ Seeds \subseteq Nat \ {0}

\* Bitfield.sol:33-38: the draw picks n set bits of prior below length, provided
\* there are that many.  Module Bitfield checks the loop against this.
ASSUME DrawAssumption ==
    \A seed \in Seeds, prior \in SUBSET Seats, n \in Seats, length \in Seats :
        n <= Cardinality(prior \cap (1 .. length)) =>
            /\ Draw(seed, prior, n, length) \subseteq prior \cap (1 .. length)
            /\ Cardinality(Draw(seed, prior, n, length)) = n

NoRoot == [blockNumber |-> 0, validatorSetID |-> 0, leaves |-> {}]
NoSet == [id |-> 0, members |-> <<>>]
NoBitfield == {0}
NoTask == [blockNumber |-> 0, validatorSetLen |-> 0, prevRandao |-> 0, bitfield |-> NoBitfield]

ValidatorSet(id) == [id |-> id, members |-> Authorities[id]]

View == INSTANCE FinalizedView WITH
    root <- latestMMRRoot, block <- latestBeefyBlock, setID <- currentValidatorSet.id

minimumClaims(length) == length - ((length - 1) \div 3)

Init ==
    /\ ethBlock = DeployedAt
    /\ latestMMRRoot = NoRoot
    /\ latestBeefyBlock = 0
    /\ currentValidatorSet = NoSet
    /\ nextValidatorSet = NoSet
    /\ tasks = [t \in TaskIDs |-> NoTask]
    /\ capturedAt = [t \in TaskIDs |-> 0]

\* The owner's once-off call after deployment.
initialize ==
    /\ currentValidatorSet = NoSet
    /\ latestBeefyBlock' = InitialBlock
    /\ currentValidatorSet' = ValidatorSet(InitialSetID)
    /\ nextValidatorSet' = ValidatorSet(InitialSetID + 1)
    /\ UNCHANGED <<ethBlock, latestMMRRoot, tasks, capturedAt>>

\* The Merkle proof is one of membership: it does not tell the account's seat.
isValidatorInSet(v, vset) == \E i \in DOMAIN vset.members : vset.members[i] = v

signedFrom(c, vset) == \E v \in SignedBy[c] : isValidatorInSet(v, vset)

\* One validator of the set signed, and enough seats are claimed to have.
initialChecks(c, bitfield, vset) ==
    /\ signedFrom(c, vset)
    /\ Cardinality(bitfield) >= minimumClaims(Len(vset.members))

\* Mutant: opening a task again keeps the seed it had.
doSubmitInitial_keepSeed(r, c, bitfield, vset) ==
    /\ initialChecks(c, bitfield, vset)
    /\ tasks' = [tasks EXCEPT ![<<r, c>>] =
           [blockNumber |-> ethBlock, validatorSetLen |-> Len(vset.members),
            prevRandao |-> tasks[<<r, c>>].prevRandao, bitfield |-> bitfield]]
    /\ UNCHANGED <<ethBlock, contractVars, capturedAt>>

\* A relayer may call again for the same commitment: the task is overwritten.
doSubmitInitial(r, c, bitfield, vset) ==
    /\ initialChecks(c, bitfield, vset)
    /\ tasks' = [tasks EXCEPT ![<<r, c>>] =
           [blockNumber |-> ethBlock, validatorSetLen |-> Len(vset.members),
            prevRandao |-> 0, bitfield |-> bitfield]]
    /\ UNCHANGED <<ethBlock, contractVars, capturedAt>>

submitInitial(r, c, bitfield) == doSubmitInitial(r, c, bitfield, currentValidatorSet)

submitInitialWithHandover(r, c, bitfield) == doSubmitInitial(r, c, bitfield, nextValidatorSet)

\* The window in which a seed may be recorded.
commitChecks(r, c) ==
    LET opened == tasks[<<r, c>>].blockNumber
    IN  /\ tasks[<<r, c>>].prevRandao = 0
        /\ ethBlock >= opened + randaoCommitDelay
        /\ ethBlock <= opened + randaoCommitDelay + randaoCommitExpiration

\* Mutant: a captured seed may be captured again.
commitPrevRandao_again(r, c, difficulty) ==
    LET task == tasks[<<r, c>>]
    IN  /\ ethBlock >= task.blockNumber + randaoCommitDelay
        /\ ethBlock <= task.blockNumber + randaoCommitDelay + randaoCommitExpiration
        /\ tasks' = [tasks EXCEPT ![<<r, c>>].prevRandao = difficulty]
        /\ capturedAt' = [capturedAt EXCEPT ![<<r, c>>] = ethBlock]
        /\ UNCHANGED <<ethBlock, contractVars>>

\* Past the window the code deletes the task and reverts, which restores it:
\* the expired task stays and only a new submitInitial replaces it.
commitPrevRandao(r, c, difficulty) ==
    /\ commitChecks(r, c)
    /\ tasks' = [tasks EXCEPT ![<<r, c>>].prevRandao = difficulty]
    /\ capturedAt' = [capturedAt EXCEPT ![<<r, c>>] = ethBlock]
    /\ UNCHANGED <<ethBlock, contractVars>>

\* Mutant: no staleness check.
finalChecks_stale(r, c, vset) ==
    /\ tasks[<<r, c>>].prevRandao # 0
    /\ c.validatorSetID = vset.id
    /\ tasks[<<r, c>>].bitfield # NoBitfield

\* Mutant: the commitment may name any validator set.
finalChecks_anySet(r, c, vset) ==
    /\ tasks[<<r, c>>].prevRandao # 0
    /\ c.blockNumber > latestBeefyBlock
    /\ tasks[<<r, c>>].bitfield # NoBitfield

\* The checks of submitFinal and submitFinalWithHandover before verifyCommitment.
finalChecks(r, c, vset) ==
    /\ tasks[<<r, c>>].prevRandao # 0
    /\ c.validatorSetID = vset.id
    /\ c.blockNumber > latestBeefyBlock
    /\ tasks[<<r, c>>].bitfield # NoBitfield

\* The draw ends only if enough claimed seats lie below the set's length; a call
\* that runs out of gas in it reverts.
drawEnds(task, vset) ==
    minimumSignatureThreshold(Len(vset.members))
        <= Cardinality(task.bitfield \cap (1 .. Len(vset.members)))

\* Mutant: the account of a proof need not be in the validator set.
verifyCommitment_anyone(task, c, vset) ==
    LET length == Len(vset.members)
    IN  /\ drawEnds(task, vset)
        /\ \A i \in Draw(task.prevRandao, task.bitfield,
                         minimumSignatureThreshold(length), length) : SignedBy[c] # {}

\* The relayer gives one proof for each bit drawn: its index, and an account of the set that
\* signed.  The contract clears the index, and does not compare it with the account's seat.
verifyCommitment(task, c, vset) ==
    LET length == Len(vset.members)
    IN  /\ drawEnds(task, vset)
        /\ \A i \in Draw(task.prevRandao, task.bitfield,
                         minimumSignatureThreshold(length), length) : signedFrom(c, vset)

deleteTask(r, c) ==
    /\ tasks' = [tasks EXCEPT ![<<r, c>>] = NoTask]
    /\ capturedAt' = [capturedAt EXCEPT ![<<r, c>>] = 0]

submitFinal(r, c) ==
    /\ finalChecks(r, c, currentValidatorSet)
    /\ verifyCommitment(tasks[<<r, c>>], c, currentValidatorSet)
    /\ latestMMRRoot' = c
    /\ latestBeefyBlock' = c.blockNumber
    /\ deleteTask(r, c)
    /\ UNCHANGED <<ethBlock, currentValidatorSet, nextValidatorSet>>

\* Mutant: any leaf under the root may announce the next set.
submitFinalWithHandover_anyLeaf(r, c, leaf) ==
    /\ finalChecks(r, c, nextValidatorSet)
    /\ verifyCommitment(tasks[<<r, c>>], c, nextValidatorSet)
    /\ leaf \in c.leaves
    /\ currentValidatorSet' = nextValidatorSet
    /\ nextValidatorSet' = leaf
    /\ latestMMRRoot' = c
    /\ latestBeefyBlock' = c.blockNumber
    /\ deleteTask(r, c)
    /\ UNCHANGED ethBlock

\* leaf is the nextAuthoritySet of a leaf that is proved against the commitment's root.
submitFinalWithHandover(r, c, leaf) ==
    /\ finalChecks(r, c, nextValidatorSet)
    /\ leaf.id = nextValidatorSet.id + 1
    /\ verifyCommitment(tasks[<<r, c>>], c, nextValidatorSet)
    /\ leaf \in c.leaves
    /\ currentValidatorSet' = nextValidatorSet
    /\ nextValidatorSet' = leaf
    /\ latestMMRRoot' = c
    /\ latestBeefyBlock' = c.blockNumber
    /\ deleteTask(r, c)
    /\ UNCHANGED ethBlock

mineBlock ==
    /\ ethBlock < MaxEthBlock
    /\ ethBlock' = ethBlock + 1
    /\ UNCHANGED <<contractVars, tasks, capturedAt>>

Call(r, c) ==
    \/ \E bitfield \in Bitfields : submitInitial(r, c, bitfield)
    \/ \E bitfield \in Bitfields : submitInitialWithHandover(r, c, bitfield)
    \/ \E difficulty \in Seeds : commitPrevRandao(r, c, difficulty)
    \/ submitFinal(r, c)
    \/ \E leaf \in c.leaves : submitFinalWithHandover(r, c, leaf)

Next ==
    \/ initialize
    \/ mineBlock
    \/ \E r \in Relayers, c \in Commitments : Call(r, c)

Spec == Init /\ [][Next]_vars

----------------------------------------------------------------------------
Task == [blockNumber : Nat, validatorSetLen : Nat, prevRandao : Seeds \cup {0},
         bitfield : Bitfields \cup {NoBitfield}]

\* Every variable has its type.
TypeOK ==
    /\ ethBlock \in Nat
    /\ latestMMRRoot \in Commitments \cup {NoRoot}
    /\ latestBeefyBlock \in Nat
    /\ currentValidatorSet \in AnySet
    /\ nextValidatorSet \in AnySet
    /\ tasks \in [TaskIDs -> Task]
    /\ capturedAt \in [TaskIDs -> Nat]

\* The contract never skips or repeats a session, and takes no validator set from elsewhere:
\* after initialize the next set has the id after the current one's and is the one that the
\* owner gave, or one announced by a leaf of a commitment that names the current set and
\* that a member of the current set signed, whatever leaves and commitments
\* submitFinalWithHandover is called with.
ConsecutiveSets ==
    currentValidatorSet # NoSet =>
        /\ nextValidatorSet.id = currentValidatorSet.id + 1
        /\ \/ nextValidatorSet = ValidatorSet(InitialSetID + 1)
           \/ \E c \in Commitments : /\ nextValidatorSet \in c.leaves
                                     /\ c.validatorSetID = currentValidatorSet.id
                                     /\ signedFrom(c, currentValidatorSet)

\* The MMR root that message proofs are checked against was committed to at
\* latestBeefyBlock, names the validator set now in force, and a member of that set signed
\* it, though tasks of several relayers and sessions are in flight and a task outlives the
\* set that it was opened under.  (How many members signed: see SignersAreDistinct.)
RootInForce ==
    latestMMRRoot # NoRoot =>
        /\ latestMMRRoot.blockNumber = latestBeefyBlock
        /\ latestMMRRoot.validatorSetID = currentValidatorSet.id
        /\ signedFrom(latestMMRRoot, currentValidatorSet)

\* A seed is recorded in the window after the claims it selects from were fixed,
\* never before them: a task that is opened again loses the seed it had.
SeedAfterClaims ==
    \A t \in TaskIDs : tasks[t].prevRandao # 0 =>
        /\ capturedAt[t] >= tasks[t].blockNumber + randaoCommitDelay
        /\ capturedAt[t] <= tasks[t].blockNumber + randaoCommitDelay + randaoCommitExpiration

SeedKept ==
    \A t \in TaskIDs : tasks[t].prevRandao # 0 /\ tasks'[t] # tasks[t] =>
        \/ tasks'[t] = NoTask /\ latestMMRRoot' = t[2]
        \/ tasks'[t].prevRandao = 0 /\ tasks'[t].blockNumber = ethBlock

\* Once a task has its seed neither the seed nor the claims change: the task is
\* either consumed by accepting its commitment or started all over.
SeedIsFinal == [][SeedKept]_vars

\* The contract implements the view of the relay chain that the channels read: it moves
\* forward only, and by one validator set at a time.
ImplementsView == View!ViewSpec

\* BeefyClient.sol:474: "Ensure no validator can appear more than once": as many members of
\* the set in force signed the root as verifyCommitment asks proofs for.
SignersAreDistinct ==
    latestMMRRoot # NoRoot =>
        Cardinality({v \in SignedBy[latestMMRRoot] : isValidatorInSet(v, currentValidatorSet)})
            >= minimumSignatureThreshold(Len(currentValidatorSet.members))
=============================================================================

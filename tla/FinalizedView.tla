--------------------------- MODULE FinalizedView ---------------------------
(***************************************************************************)
(* What a BEEFY light client promises to the contracts that read it: a     *)
(* view of the relay chain that only moves forward, and whose validator    *)
(* set advances one set at a time.                                         *)
(***************************************************************************)
EXTENDS Naturals

CONSTANTS
    Commitments,
    NoRoot,
    InitialBlock,   \* the block and the validator set the view starts from
    InitialSetID

VARIABLES root, block, setID

viewVars == <<root, block, setID>>

ViewInit == root = NoRoot /\ block = 0 /\ setID = 0

Bootstrap ==
    /\ setID = 0
    /\ root' = root
    /\ block' = InitialBlock
    /\ setID' = InitialSetID

Advance(c) ==
    /\ setID # 0
    /\ c.blockNumber > block
    /\ c.validatorSetID \in {setID, setID + 1}
    /\ root' = c
    /\ block' = c.blockNumber
    /\ setID' = c.validatorSetID

ViewNext == Bootstrap \/ \E c \in Commitments : Advance(c)

ViewSpec == ViewInit /\ [][ViewNext]_viewVars
=============================================================================

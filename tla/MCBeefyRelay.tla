---------------------------- MODULE MCBeefyRelay ----------------------------
(* A small instance of BeefyRelay: three sessions, in sets of two and three *)
(* seats.                                                                   *)
EXTENDS BeefyRelay

CONSTANTS v1, v2, v3, relayer

MCRelayers == {relayer}
MCValidators == {v1, v2, v3}
MCSetIDs == 1 .. 4
MCAuthorities == << <<v1, v2>>, <<v1, v2, v3>>, <<v2, v3>>, <<v2, v3>> >>

MCCommitment(b, id, announced) ==
    [blockNumber |-> b, validatorSetID |-> id, leaves |-> {ValidatorSet(i) : i \in announced}]
\* Session 1; session 2 with a first leaf that still announces set 2; session 3.
c4 == MCCommitment(4, 1, {1, 2})
c5 == MCCommitment(5, 2, {1, 2})
c6 == MCCommitment(6, 2, {1, 2, 3})
c7 == MCCommitment(7, 3, {1, 2, 3, 4})
MCCommitments == {c4, c5, c6, c7}
MCleafNext ==
    [c \in MCCommitments |->
        ValidatorSet(CASE c = c4 -> 2 [] c = c5 -> 2 [] c = c6 -> 3 [] c = c7 -> 4)]
MCSignedBy == [c \in MCCommitments |-> {v1, v2, v3}]
MCBitfields == {{1, 2}, {1, 2, 3}}
MCSeeds == {1}
MCDraw(seed, prior, n, length) ==
    LET claimed == prior \cap (1 .. length)
    IN  {i \in claimed : Cardinality({j \in claimed : j < i}) < n}
=============================================================================

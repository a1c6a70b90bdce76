--------------------------- MODULE MCBeefyClient ---------------------------
(* A small instance of BeefyClient: one relayer, sets of two to four seats. *)
EXTENDS BeefyClient, TLC

CONSTANTS r1, v1, v2, v3, v4

OneRelayer == {r1}
MCValidators == {v1, v2, v3, v4}
MCSetIDs == 1 .. 3
MCAuthorities == <<  <<v1, v2>>, <<v1, v2, v3, v4>>, <<v2, v3>>  >>

\* Two seats of two, or all four of four.  Of the bitfield that claims
\* all four seats seed 1 selects the first three and seed 2 the last three.
FullBitfields == {{1, 2}, {1, 2, 3, 4}}

MCCommitment(b, id, leaves) == [blockNumber |-> b, validatorSetID |-> id, leaves |-> leaves]
\* Of session 1, but signed by a member of set 2 only.
c1 == MCCommitment(4, 1, {ValidatorSet(2)})
\* Two blocks of session 2, signed by one member and by three; their leaves announce two
\* different sets with id 3.
c2 == MCCommitment(6, 2, {ValidatorSet(2), ValidatorSet(3)})
c3 == MCCommitment(7, 2, {ValidatorSet(2), [id |-> 3, members |-> <<v4>>]})
SessionCommitments == {c1, c2, c3}
MCSignedBy == [c \in Commitments |-> CASE c = c1 -> {v4} [] c = c2 -> {v1} [] c = c3 -> {v1, v2, v3}]

\* A seed orders the seats; the draw takes the first n claimed ones.
MCRank(seed, i) == IF seed = 1 THEN i ELSE -i
MCDraw(seed, prior, n, length) ==
    LET claimed == prior \cap (1 .. length)
    IN  {i \in claimed :
            Cardinality({j \in claimed : MCRank(seed, j) < MCRank(seed, i)}) < n}
=============================================================================

----------------------- MODULE MCEthereumLightClient ------------------------
(***************************************************************************)
(* A tree of headers for the proof-of-work light client: a chain of nine   *)
(* headers above m0 whose blocks take 13 seconds each, forks of up to four *)
(* headers, the faster ones heavier, and three headers that are invalid in *)
(* one field each (x3 its difficulty, y3 its seal, z3 its form). Numbers   *)
(* count from the Byzantium fork of the main network, and TreeIsMined says *)
(* that the difficulties follow its rule.                                  *)
(***************************************************************************)
EXTENDS EthereumLightClient

\* hash -> parent, number, timestamp, difficulty
Mined ==
    [m0 |-> <<NoHash, 0, 0, 1048576>>, m1 |-> <<"m0", 1, 13, 1050624>>,
     m2 |-> <<"m1", 2, 26, 1052672>>, m3 |-> <<"m2", 3, 39, 1054720>>,
     m4 |-> <<"m3", 4, 52, 1056768>>, m5 |-> <<"m4", 5, 65, 1058816>>,
     m6 |-> <<"m5", 6, 78, 1060864>>, m7 |-> <<"m6", 7, 91, 1062912>>,
     m8 |-> <<"m7", 8, 104, 1064960>>, m9 |-> <<"m8", 9, 117, 1067008>>,
     a2 |-> <<"m1", 2, 18, 1053185>>, a3 |-> <<"a2", 3, 23, 1055747>>,
     a4 |-> <<"a3", 4, 28, 1058310>>, a5 |-> <<"a4", 5, 41, 1060358>>,
     b3 |-> <<"m2", 3, 46, 1054206>>, b4 |-> <<"b3", 4, 51, 1056768>>,
     c5 |-> <<"m4", 5, 57, 1059332>>, c6 |-> <<"c5", 6, 70, 1061380>>,
     d5 |-> <<"b4", 5, 56, 1059332>>, e7 |-> <<"m6", 7, 87, 1062912>>,
     e8 |-> <<"e7", 8, 96, 1064960>>, f7 |-> <<"c6", 7, 83, 1063428>>,
     x3 |-> <<"m2", 3, 39, 1054721>>, y3 |-> <<"m2", 3, 39, 1054720>>,
     z3 |-> <<"m2", 3, 39, 1054720>>]

ForkedTree ==
    [h \in DOMAIN Mined |->
        [parent_hash |-> Mined[h][1], number |-> mainnet.byzantium_fork_block + Mined[h][2],
         timestamp |-> Mined[h][3], difficulty |-> Mined[h][4], has_ommers |-> FALSE,
         well_formed |-> h # "z3", sealed |-> h # "y3"]]

\* Every difficulty but the one of x3 is the one that the rule computes.
ASSUME TreeIsMined ==
    \A h \in Hashes \ {"m0", "x3"} :
        Header[h].difficulty = calc_difficulty(mainnet, Header[h].timestamp, Header[Header[h].parent_hash])

\* The total difficulty of every header, from the initial one on.
Weight[h \in Hashes] ==
    IF h = InitialHeader THEN InitialDifficulty ELSE Weight[Header[h].parent_hash] + Header[h].difficulty

\* A fork too short to finalize a block is lighter than a chain that has finalized one, and
\* as many final headers are kept as a block needs descendants.
ASSUME YoungForksAreLighter ==
    /\ DescendantsUntilFinalized <= FINALIZED_HEADERS_TO_KEEP
    /\ \A g, h \in Hashes :
           /\ number(h) < number(InitialHeader) + DescendantsUntilFinalized
           /\ number(g) > number(InitialHeader) + DescendantsUntilFinalized
           => Weight[h] <= Weight[g]
=============================================================================

--------------------------- MODULE MCBeaconClient ---------------------------
(* Slots 0 to MaxSlot, of which slot 4 is missed on the canonical chain and  *)
(* taken by a fork.  Each header is attested to in the next block, by the    *)
(* committee of that block's period; the fork has a minority of its          *)
(* committee, and all of a committee it made up.                             *)
EXTENDS BeaconClient

CONSTANTS MaxSlot, Checkpoint, None

MCCanonical == {[slot |-> s, fork |-> FALSE] : s \in (0 .. MaxSlot) \ {4}}
Fork == [slot |-> 4, fork |-> TRUE]
MCHeaders == MCCanonical \cup {Fork}
MCInitialHeader == [slot |-> Checkpoint, fork |-> FALSE]

MCslot == [h \in MCHeaders |-> h.slot]
MCnumber == [h \in MCHeaders |-> h.slot + 1]

\* The youngest canonical header at slot s or before.
UpTo(s) ==
    CHOOSE h \in MCCanonical :
        h.slot <= s /\ \A g \in MCCanonical : g.slot <= s => g.slot <= h.slot

MCfinalizedIn == [h \in MCHeaders |-> IF h = Fork THEN Fork ELSE UpTo(IF h.slot < 2 THEN 0 ELSE h.slot - 2)]

MCcommittee == [p \in 0 .. 5 |-> p]
Foreign == 9
MCCommittees == 0 .. 5 \cup {Foreign}
MCnextCommitteeIn ==
    [h \in MCHeaders |-> IF h = Fork THEN Foreign ELSE MCcommittee[h.slot \div SlotsPerPeriod + 1]]

\* The roots of the last slots.
MCrootAt ==
    [h \in MCHeaders |-> [i \in 0 .. MaxSlotsPerHistoricalRoot - 1 |->
        LET s == CHOOSE t \in h.slot - MaxSlotsPerHistoricalRoot .. h.slot - 1 :
                     t % MaxSlotsPerHistoricalRoot = i
        IN  IF s < 0 THEN None ELSE UpTo(s)]]

Included(h) == CHOOSE s \in h.slot + 1 .. MaxSlot + 1 :
                   s # 4 /\ \A t \in h.slot + 1 .. s - 1 : t = 4

Aggregate(h, s, c, b) == [header |-> h, signatureSlot |-> s, committee |-> c, bits |-> b]

MCAggregates ==
    {Aggregate(h, Included(h), MCcommittee[Included(h) \div SlotsPerPeriod], 2) : h \in MCCanonical}
        \cup {Aggregate(Fork, 5, MCcommittee[Fork.slot \div SlotsPerPeriod], 1), Aggregate(Fork, 5, Foreign, 3)}
=============================================================================

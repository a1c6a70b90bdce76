---------------------------- MODULE MCBeaconRelay ---------------------------
(* The chain of MCBeaconClient, on which the beacon node serves the finality *)
(* updates that attest to the headers of the given slots.  The client is     *)
(* called by the relay in some behaviours and in others by anyone, with any  *)
(* aggregate in any order and as time goes by.                               *)
EXTENDS BeaconRelay, MCBeaconClient

CONSTANTS Attested

MCUpdates == [i \in DOMAIN Attested |->
    CHOOSE a \in MCAggregates : a.header \in MCCanonical /\ a.header.slot = Attested[i]]

\* TLC evaluates a definition once, but what the configuration names every time.
Headers_ == MCHeaders
Canonical_ == MCCanonical
slot_ == MCslot
number_ == MCnumber
finalizedIn_ == MCfinalizedIn
nextCommitteeIn_ == MCnextCommitteeIn
rootAt_ == MCrootAt
committee_ == MCcommittee
Aggregates_ == MCAggregates
Updates_ == MCUpdates

\* Slot 4 is missed.  Slot 5 is the last of its period: the next committee attests to it,
\* and the client refuses that update.
MCAttested == <<3, 5, 8, 10>>

VARIABLE caller

MCInit == RelayInit /\ caller \in {"relay", "anyone"}

MCNext ==
    \/ caller = "relay" /\ RelayNext /\ UNCHANGED caller
    \/ /\ caller = "anyone" /\ Next
       /\ UNCHANGED <<served, relay, poolVars, skipped, crashes, drops, caller>>

MCSpec ==
    /\ MCInit /\ [][MCNext]_<<relayVars, caller>>
    /\ caller = "relay" => RelayFairness

\* Where the relay is the one that calls, it leaves no gap that it did not go past: NoGap.
RelayLeavesNoGap == caller = "relay" => NoGap

\* Where the relay is the one that calls, what the chain finalized is stored in the end
\* unless the relay went past it: FinalizedIsBackfilled.
RelayBackfills == caller = "relay" => FinalizedIsBackfilled
=============================================================================

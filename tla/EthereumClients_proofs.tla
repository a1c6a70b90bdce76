----------------------- MODULE EthereumClients_proofs -----------------------
(***************************************************************************)
(* The clients of Ethereum on the parachain.                               *)
(*                                                                         *)
(* Proofs about the beacon light client, for every chain that satisfies    *)
(* ChainAssumption and CanonicalAssumption, every set of valid aggregate   *)
(* signatures that satisfies TrustAssumption, and every bound.             *)
(* The argument is one of trust from period to period: a stored committee  *)
(* is the elected one, so a header that two thirds of it signed is         *)
(* canonical, so the next committee and the checkpoint that its state      *)
(* commits to are the elected one and a canonical header.  An execution    *)
(* header is canonical by ancestry alone, and is not younger than the      *)
(* header it descends to.                                                  *)
(*                                                                         *)
(* After them, two algorithms of the proof-of-work client: its difficulty  *)
(* rule, for every config, parent and time, and its cache of epochs, for   *)
(* every capacity and epoch length and any sequence of headers.            *)
(***************************************************************************)
EXTENDS BeaconClient, DifficultyRule, EthashCache, WellFoundedInduction, TLAPS

\* Leaves are for Zenon; SMTT marks those that need arithmetic, sequences or records. A prover
\* may work a minute on a leaf, so that a busy machine checks the same proofs: few take seconds.
USE ZenonT(60)

\* No stored execution header is above the latest one, so the comparison with the latest
\* in import_execution_header is a comparison with all of them.
LatestIsHighest ==
    \A h \in ExecutionHeaders :
        LatestExecutionHeader # NoHeader /\ number[h] <= number[LatestExecutionHeader]

\* The inductive invariant.
ClientInv ==
    /\ TypeOK
    /\ CommitteesAreElected
    /\ FinalizedIsCanonical
    /\ ExecutionIsFinalized
    /\ SlotsTrackHeaders
    /\ LatestIsHighest

\* A header is in a period, which has a committee, and so has the next one.
LEMMA PeriodType ==
    ASSUME NEW h \in Headers
    PROVE  /\ period(h) \in Nat /\ period(h) \in Periods /\ period(h) + 1 \in Periods
           /\ slot[h] \in Nat
           /\ number[h] \in Nat
BY ChainAssumption

\* A header that two thirds of a stored committee signed is canonical.
LEMMA SignedIsCanonical ==
    ASSUME CommitteesAreElected, NEW a \in Aggregates, verify_signed_header(a),
           sync_committee_participation_is_supermajority(a.bits)
    PROVE  a.header \in Canonical /\ finalizedIn[a.header] \in Canonical
<1>1. a.committee = committee[period(a.header)]
  BY DEF CommitteesAreElected, verify_signed_header
<1>2. a.header \in Canonical
  BY <1>1, TrustAssumption
<1> QED
  BY <1>2, CanonicalAssumption

\* The header whose execution header is imported is canonical, and is as old as some
\* stored finalized header.
LEMMA AncestryIsCanonical ==
    ASSUME TypeOK, FinalizedIsCanonical, NEW h \in Headers, ancestry_proof(h)
    PROVE  h \in Canonical /\ \E f \in FinalizedBeaconHeaders : slot[h] <= slot[f]
<1>1. CASE h \in FinalizedBeaconHeaders
  BY <1>1, PeriodType, SMTT(60) DEF FinalizedIsCanonical
<1>2. CASE \E f \in FinalizedBeaconHeadersBlockRoot :
               rootAt[f][slot[h] % MaxSlotsPerHistoricalRoot] = h
  <2>1. PICK f \in FinalizedBeaconHeadersBlockRoot :
               rootAt[f][slot[h] % MaxSlotsPerHistoricalRoot] = h
    BY <1>2
  <2>2. f \in FinalizedBeaconHeaders /\ f \in Canonical /\ f \in Headers
    BY DEF TypeOK, FinalizedIsCanonical
  <2>3. slot[h] % MaxSlotsPerHistoricalRoot \in 0 .. MaxSlotsPerHistoricalRoot - 1
    BY PeriodType, ConstantAssumption, SMTT(60)
  <2>4. h # NoHeader
    BY ChainAssumption
  <2>5. h \in Canonical /\ slot[h] < slot[f]
    BY <2>1, <2>2, <2>3, <2>4, CanonicalAssumption
  <2> QED
    BY <2>2, <2>5, PeriodType, SMTT(60)
<1> QED
  BY <1>1, <1>2 DEF ancestry_proof

\* Storing a canonical finalized header keeps what concerns the finalized headers.
LEMMA StoreFinalizedInv ==
    ASSUME ClientInv, NEW h \in Canonical, store_finalized_header(h), now' = now
    PROVE  /\ FinalizedIsCanonical' /\ SlotsTrackHeaders'
           /\ FinalizedBeaconHeaders' \subseteq Headers
           /\ FinalizedBeaconHeaders \subseteq FinalizedBeaconHeaders'
           /\ FinalizedBeaconHeadersBlockRoot' \subseteq FinalizedBeaconHeaders'
           /\ FinalizedBeaconHeaderSlots' \in Seq(Nat)
           /\ LatestFinalizedHeaderState' \in
                  [header : FinalizedBeaconHeaders', importTime : 0 .. now']
<1> DEFINE s == FinalizedBeaconHeaderSlots
           kept == IF Len(s) = MaxFinalizedHeaderSlotArray THEN Tail(s) ELSE s
<1>1. h \in Headers /\ slot[h] \in Nat
  BY ChainAssumption
<1>2. /\ FinalizedBeaconHeaders' = FinalizedBeaconHeaders \cup {h}
      /\ FinalizedBeaconHeadersBlockRoot' = FinalizedBeaconHeadersBlockRoot \cup {h}
      /\ LatestFinalizedHeaderState' = [header |-> h, importTime |-> now]
      /\ s' = Append(kept, slot[h])
  BY DEF store_finalized_header, add_finalized_header_slot
<1>3. s \in Seq(Nat) /\ Len(s) \in 1 .. MaxFinalizedHeaderSlotArray /\ now \in Nat
  BY ConstantAssumption, SMTT(60) DEF ClientInv, TypeOK, SlotsTrackHeaders
<1>4. /\ kept \in Seq(Nat) /\ Len(kept) \in 0 .. MaxFinalizedHeaderSlotArray - 1
      /\ \A i \in 1 .. Len(kept) : \E j \in 1 .. Len(s) : kept[i] = s[j]
  <2>1. CASE Len(s) = MaxFinalizedHeaderSlotArray
    <3>1. s # <<>>
      BY <1>3, SMTT(60)
    <3>2. /\ Tail(s) \in Seq(Nat) /\ Len(Tail(s)) = Len(s) - 1
          /\ \A i \in 1 .. Len(Tail(s)) : Tail(s)[i] = s[i + 1]
      BY <1>3, <3>1, SMTT(60)
    <3> QED
      BY <1>3, <2>1, <3>2, ConstantAssumption, SMTT(60)
  <2>2. CASE Len(s) # MaxFinalizedHeaderSlotArray
    BY <1>3, <2>2, ConstantAssumption, SMTT(60)
  <2> QED
    BY <2>1, <2>2
<1> HIDE DEF kept
<1>5. /\ s' \in Seq(Nat) /\ Len(s') = Len(kept) + 1
      /\ s'[Len(s')] = slot[h]
      /\ \A i \in 1 .. Len(kept) : s'[i] = kept[i]
  BY <1>1, <1>2, <1>4, SMTT(60)
<1>6. DOMAIN s' = 1 .. Len(s') /\ DOMAIN s = 1 .. Len(s)
  BY <1>3, <1>5, SMTT(60)
<1>7. Len(s') \in 1 .. MaxFinalizedHeaderSlotArray
  BY <1>4, <1>5, ConstantAssumption, SMTT(60)
<1>8. ASSUME NEW i \in DOMAIN s'
      PROVE  \E g \in FinalizedBeaconHeaders' : slot[g] = s'[i]
  <2>1. CASE i = Len(s')
    BY <2>1, <1>2, <1>5
  <2>2. CASE i # Len(s')
    <3>1. i \in 1 .. Len(kept) /\ s'[i] = kept[i]
      BY <2>2, <1>4, <1>5, <1>6, SMTT(60)
    <3>2. PICK j \in 1 .. Len(s) : kept[i] = s[j]
      BY <3>1, <1>4
    <3>3. \E g \in FinalizedBeaconHeaders : slot[g] = s[j]
      BY <1>6 DEF ClientInv, SlotsTrackHeaders
    <3> QED
      BY <3>1, <3>2, <3>3, <1>2
  <2> QED
    BY <2>1, <2>2
<1>9. SlotsTrackHeaders'
  BY <1>2, <1>5, <1>7, <1>8 DEF SlotsTrackHeaders
<1>10. FinalizedIsCanonical'
  BY <1>2 DEF ClientInv, FinalizedIsCanonical
<1> QED
  BY <1>1, <1>2, <1>3, <1>5, <1>9, <1>10, SMTT(60) DEF ClientInv, TypeOK

\* The genesis config establishes the invariant.
LEMMA InitClientInv == Init => ClientInv
<1> SUFFICES ASSUME Init PROVE ClientInv
  OBVIOUS
<1>1. InitialHeader \in Headers /\ InitialHeader \in Canonical
  BY ChainAssumption
<1>2. period(InitialHeader) \in Nat /\ period(InitialHeader) \in Periods /\ slot[InitialHeader] \in Nat
  BY <1>1, PeriodType
<1>3. committee[period(InitialHeader)] \in Committees
  BY <1>2, ChainAssumption
<1> HIDE DEF period, Periods
<1>4. TypeOK
  <2>1. <<slot[InitialHeader]>> \in Seq(Nat)
    BY <1>2, SMTT(60)
  <2>2. SyncCommittees \in [DOMAIN SyncCommittees -> Committees]
    BY <1>3 DEF Init
  <2>3. LatestFinalizedHeaderState \in [header : FinalizedBeaconHeaders, importTime : 0 .. now]
    BY SMTT(60) DEF Init
  <2>4. now \in 0 .. MaxTime
    BY ConstantAssumption, SMTT(60) DEF Init
  <2>5. Blocked \in BOOLEAN /\ refused \in BOOLEAN
    BY DEF Init
  <2> QED
    BY <1>1, <1>2, <2>1, <2>2, <2>3, <2>4, <2>5 DEF Init, TypeOK
<1>5. CommitteesAreElected
  BY <1>2, SMTT(60) DEF Init, CommitteesAreElected
<1>6. SlotsTrackHeaders
  BY <1>2, ConstantAssumption, SMTT(60) DEF Init, SlotsTrackHeaders
<1> QED
  BY <1>1, <1>4, <1>5, <1>6
  DEF Init, ClientInv, FinalizedIsCanonical, ExecutionIsFinalized, LatestIsHighest

\* The conjuncts about execution headers depend on the finalized headers only through
\* their set, which grows.
LEMMA ExecutionKept ==
    ASSUME ClientInv, UNCHANGED executionVars,
           FinalizedBeaconHeaders \subseteq FinalizedBeaconHeaders'
    PROVE  ExecutionIsFinalized' /\ LatestIsHighest'
BY DEF ClientInv, executionVars, ExecutionIsFinalized, LatestIsHighest

\* A committee update stores the elected committee of the next period.
LEMMA SyncCommitteeUpdateInv ==
    ASSUME ClientInv, NEW a \in Aggregates, sync_committee_period_update(a)
    PROVE  ClientInv'
<1> DEFINE p == period(a.header)
<1>1. a.header \in Canonical /\ finalizedIn[a.header] \in Canonical /\ a.header \in Headers
  BY SignedIsCanonical, ChainAssumption
  DEF ClientInv, sync_committee_period_update, period_update_checks
<1>2. p \in Nat /\ p + 1 \in Periods /\ p = LatestSyncCommitteePeriod
  BY <1>1, PeriodType DEF sync_committee_period_update, period_update_checks
<1>3. nextCommitteeIn[a.header] = committee[p + 1] /\ committee[p + 1] \in Committees
  BY <1>1, <1>2, CanonicalAssumption, ChainAssumption
<1>4. period(InitialHeader) \in Nat
  BY PeriodType, ChainAssumption
<1> HIDE DEF p
<1>5. /\ SyncCommittees' = [q \in DOMAIN SyncCommittees \cup {p + 1} |->
                               IF q = p + 1 THEN nextCommitteeIn[a.header]
                               ELSE SyncCommittees[q]]
      /\ LatestSyncCommitteePeriod' = p + 1
      /\ store_finalized_header(finalizedIn[a.header])
      /\ UNCHANGED <<now, executionVars, Blocked, refused>>
  BY DEF sync_committee_period_update, store_sync_committee, p
<1>6. period(InitialHeader) <= p
  BY <1>2, <1>4, SMTT(60) DEF ClientInv, TypeOK, CommitteesAreElected
<1>7. DOMAIN SyncCommittees' = period(InitialHeader) .. p + 1
  <2>1. DOMAIN SyncCommittees = period(InitialHeader) .. p
    BY <1>2 DEF ClientInv, CommitteesAreElected
  <2> HIDE DEF period
  <2> QED
    BY <2>1, <1>2, <1>4, <1>5, <1>6, SMTT(60)
<1>8. CommitteesAreElected'
  BY <1>3, <1>5, <1>7 DEF ClientInv, CommitteesAreElected
<1>9. /\ DOMAIN SyncCommittees' \subseteq Periods
      /\ SyncCommittees' \in [DOMAIN SyncCommittees' -> Committees]
      /\ LatestSyncCommitteePeriod' \in DOMAIN SyncCommittees'
  BY <1>2, <1>3, <1>5 DEF ClientInv, TypeOK
<1>10. ExecutionIsFinalized' /\ LatestIsHighest'
  BY <1>1, <1>5, StoreFinalizedInv, ExecutionKept
<1>11. TypeOK'
  BY <1>1, <1>5, <1>9, StoreFinalizedInv DEF ClientInv, TypeOK, executionVars
<1> QED
  BY <1>1, <1>5, <1>8, <1>10, <1>11, StoreFinalizedInv DEF ClientInv

\* A finalized header update stores a canonical header and nothing else.
LEMMA ImportFinalizedInv ==
    ASSUME ClientInv, NEW a \in Aggregates, import_finalized_header(a)
    PROVE  ClientInv'
<1>1. finalizedIn[a.header] \in Canonical
  BY SignedIsCanonical DEF ClientInv, import_finalized_header
<1>2. /\ store_finalized_header(finalizedIn[a.header])
      /\ UNCHANGED <<now, committeeVars, executionVars, Blocked, refused>>
  BY DEF import_finalized_header
<1>3. CommitteesAreElected'
  BY <1>2 DEF ClientInv, CommitteesAreElected, committeeVars
<1>4. ExecutionIsFinalized' /\ LatestIsHighest'
  BY <1>1, <1>2, StoreFinalizedInv, ExecutionKept
<1>5. TypeOK'
  BY <1>1, <1>2, StoreFinalizedInv DEF ClientInv, TypeOK, committeeVars, executionVars
<1> QED
  BY <1>1, <1>2, <1>3, <1>4, <1>5, StoreFinalizedInv DEF ClientInv

\* An imported execution header is final, and above all those stored.
LEMMA ImportExecutionInv ==
    ASSUME ClientInv, NEW a \in Aggregates, import_execution_header(a)
    PROVE  /\ ClientInv'
           /\ \A g \in ExecutionHeaders : number[g] < number[a.header]
<1> DEFINE h == a.header
<1>1. h \in Headers /\ h # NoHeader /\ number[h] \in Nat
  BY ChainAssumption, PeriodType
<1>2. h \in Canonical /\ \E f \in FinalizedBeaconHeaders : slot[h] <= slot[f]
  BY <1>1, AncestryIsCanonical DEF ClientInv, import_execution_header, store_execution_header
<1>3. /\ number[h] > latestNumber
      /\ ExecutionHeaders' = ExecutionHeaders \cup {h}
      /\ LatestExecutionHeader' = h
      /\ UNCHANGED <<now, committeeVars, finalizedVars, Blocked, refused>>
  BY DEF import_execution_header, store_execution_header
<1> HIDE DEF h
<1>4. \A g \in ExecutionHeaders : number[g] < number[h]
  <2> SUFFICES ASSUME NEW g \in ExecutionHeaders PROVE number[g] < number[h]
    OBVIOUS
  <2>1. LatestExecutionHeader # NoHeader /\ number[g] <= number[LatestExecutionHeader]
    BY DEF ClientInv, LatestIsHighest
  <2>2. /\ number[g] \in Nat /\ number[LatestExecutionHeader] \in Nat
        /\ latestNumber = number[LatestExecutionHeader]
    BY <2>1, PeriodType DEF ClientInv, TypeOK, latestNumber
  <2> QED
    BY <1>1, <1>3, <2>1, <2>2, SMTT(60)
<1>5. LatestIsHighest'
  <2>1. \A g \in ExecutionHeaders : number[g] \in Nat
    BY PeriodType DEF ClientInv, TypeOK
  <2> QED
    BY <1>1, <1>3, <1>4, <2>1, SMTT(60) DEF LatestIsHighest
<1>6. ExecutionIsFinalized'
  BY <1>2, <1>3 DEF ClientInv, ExecutionIsFinalized, finalizedVars
<1>7. TypeOK'
  BY <1>1, <1>3 DEF ClientInv, TypeOK, committeeVars, finalizedVars
<1>8. CommitteesAreElected' /\ FinalizedIsCanonical' /\ SlotsTrackHeaders'
  BY <1>3 DEF ClientInv, CommitteesAreElected, FinalizedIsCanonical, SlotsTrackHeaders,
              committeeVars, finalizedVars
<1> QED
  BY <1>4, <1>5, <1>6, <1>7, <1>8 DEF ClientInv, h

\* The clock, governance, a late update and stuttering leave the chain data alone.
LEMMA RestInv ==
    ASSUME ClientInv, UNCHANGED <<committeeVars, finalizedVars, executionVars>>,
           now' \in now .. MaxTime, Blocked' \in BOOLEAN, refused' \in BOOLEAN
    PROVE  ClientInv'
<1>1. TypeOK'
  BY ConstantAssumption, SMTT(60) DEF ClientInv, TypeOK, committeeVars, finalizedVars, executionVars
<1> QED
  BY <1>1 DEF ClientInv, CommitteesAreElected, FinalizedIsCanonical, ExecutionIsFinalized,
              SlotsTrackHeaders, LatestIsHighest, committeeVars, finalizedVars, executionVars

\* Every step of the pallet keeps the invariant.
LEMMA NextClientInv == ClientInv /\ [Next]_vars => ClientInv'
<1> SUFFICES ASSUME ClientInv, [Next]_vars PROVE ClientInv'
  OBVIOUS
<1>1. ASSUME NEW a \in Aggregates, sync_committee_period_update(a) PROVE ClientInv'
  BY <1>1, SyncCommitteeUpdateInv
<1>2. ASSUME NEW a \in Aggregates, import_finalized_header(a) PROVE ClientInv'
  BY <1>2, ImportFinalizedInv
<1>3. ASSUME NEW a \in Aggregates, import_execution_header(a) PROVE ClientInv'
  BY <1>3, ImportExecutionInv
<1>4. now \in 0 .. MaxTime /\ Blocked \in BOOLEAN /\ refused \in BOOLEAN
  BY DEF ClientInv, TypeOK
<1>5. ASSUME NEW a \in Aggregates, import_finalized_header_late(a) PROVE ClientInv'
  BY <1>4, <1>5, RestInv, ConstantAssumption, SMTT(60) DEF import_finalized_header_late
<1>6. CASE unblock_bridge
  <2>1. now' = now /\ Blocked' \in BOOLEAN /\ refused' \in BOOLEAN
    BY <1>6 DEF unblock_bridge
  <2>2. UNCHANGED <<committeeVars, finalizedVars, executionVars>>
    BY <1>6 DEF unblock_bridge
  <2> QED
    BY <1>4, <2>1, <2>2, RestInv, ConstantAssumption, SMTT(60)
<1>7. CASE tick
  BY <1>4, <1>7, RestInv, ConstantAssumption, SMTT(60) DEF tick
<1>8. CASE UNCHANGED vars
  <2>1. now' = now /\ Blocked' = Blocked /\ refused' = refused
    BY <1>8 DEF vars
  <2>2. UNCHANGED <<committeeVars, finalizedVars, executionVars>>
    BY <1>8 DEF vars
  <2> QED
    BY <1>4, <2>1, <2>2, RestInv, ConstantAssumption, SMTT(60)
<1> QED
  BY <1>1, <1>2, <1>3, <1>5, <1>6, <1>7, <1>8 DEF Next

\* The invariant holds in every reachable state.
LEMMA ClientInvHolds == Spec => []ClientInv
BY InitClientInv, NextClientInv, PTL DEF Spec

\* The storage of the pallet keeps its types whatever calls are made.
THEOREM TypeCorrect == Spec => []TypeOK
<1>1. ClientInv => TypeOK
  BY DEF ClientInv
<1> QED
  BY <1>1, ClientInvHolds, PTL

\* sync_committee_period_update follows the elected committees and leaves no gap.
THEOREM CommitteesElected == Spec => []CommitteesAreElected
<1>1. ClientInv => CommitteesAreElected
  BY DEF ClientInv
<1> QED
  BY <1>1, ClientInvHolds, PTL

\* Both imports of finalized headers store canonical headers only.
THEOREM FinalizedCanonical == Spec => []FinalizedIsCanonical
<1>1. ClientInv => FinalizedIsCanonical
  BY DEF ClientInv
<1> QED
  BY <1>1, ClientInvHolds, PTL

\* import_execution_header stores headers of canonical, finalized blocks only, although
\* it asks for no supermajority: ancestry alone carries the claim.
THEOREM ExecutionFinalized == Spec => []ExecutionIsFinalized
<1>1. ClientInv => ExecutionIsFinalized
  BY DEF ClientInv
<1> QED
  BY <1>1, ClientInvHolds, PTL

\* add_finalized_header_slot keeps the list bounded and in step with the headers.
THEOREM SlotsTracked == Spec => []SlotsTrackHeaders
<1>1. ClientInv => SlotsTrackHeaders
  BY DEF ClientInv
<1> QED
  BY <1>1, ClientInvHolds, PTL

\* No sequence of calls leaves the pallet unblocked in a state that refuses the chain's own
\* next committee: the committees stored end with the latest period.
THEOREM UpdateAlwaysPasses == Spec => []NeverWedged
<1>1. ClientInv => NeverWedged
  <2>1. SUFFICES ASSUME ClientInv, ~Blocked, NEW a \in Aggregates, a.header \in Canonical,
                        period(a.header) = LatestSyncCommitteePeriod,
                        a.committee = committee[period(a.header)],
                        a.signatureSlot > slot[a.header],
                        sync_committee_participation_is_supermajority(a.bits)
                 PROVE  period_update_checks(a)
    BY DEF NeverWedged
  <2>2. /\ a.header \in Headers /\ finalizedIn[a.header] \in Headers
        /\ slot[finalizedIn[a.header]] <= slot[a.header]
    BY <2>1, ChainAssumption, CanonicalAssumption
  <2>3. slot[a.header] >= slot[finalizedIn[a.header]]
    BY <2>2, PeriodType
  <2>4. /\ period(a.header) \in Nat /\ period(InitialHeader) \in Nat
    BY <2>2, PeriodType, ChainAssumption
  <2>5. /\ DOMAIN SyncCommittees = period(InitialHeader) .. LatestSyncCommitteePeriod
        /\ LatestSyncCommitteePeriod \in DOMAIN SyncCommittees
        /\ SyncCommittees[LatestSyncCommitteePeriod] = committee[LatestSyncCommitteePeriod]
    BY <2>1 DEF ClientInv, TypeOK, CommitteesAreElected
  <2> HIDE DEF period
  <2>6. period(a.header) + 1 \notin DOMAIN SyncCommittees
    BY <2>1, <2>4, <2>5, SMTT(60)
  <2>7. verify_signed_header(a)
    BY <2>1, <2>5 DEF verify_signed_header
  <2>8. QED  BY <2>1, <2>3, <2>6, <2>7 DEF period_update_checks
<1>2. QED
  BY <1>1, ClientInvHolds, PTL

\* import_execution_header only ever adds a header above all those stored.
THEOREM ExecutionOrder == Spec => ExecutionAscends
<1> DEFINE A == \A h \in ExecutionHeaders' \ ExecutionHeaders, g \in ExecutionHeaders :
                    number[g] < number[h]
<1>1. ClientInv /\ [Next]_vars => [A]_vars
  <2> SUFFICES ASSUME ClientInv, Next PROVE A
    OBVIOUS
  <2>1. ASSUME NEW a \in Aggregates, import_execution_header(a) PROVE A
    BY <2>1, ImportExecutionInv DEF import_execution_header, store_execution_header
  <2>2. ASSUME UNCHANGED executionVars PROVE A
    BY <2>2 DEF executionVars
  <2> QED
    BY <2>1, <2>2 DEF Next, sync_committee_period_update, import_finalized_header,
                      import_finalized_header_late, unblock_bridge, tick
<1> QED
  BY <1>1, ClientInvHolds, PTL DEF Spec, ExecutionAscends

----------------------------------------------------------------------------
(* Induction                                                               *)

\* Induction on the numbers up to n, with the numbers it holds of as a set.
LEMMA UpTo ==
    ASSUME NEW n \in Nat, NEW P, 0 \in P, \A k \in 1 .. n : k - 1 \in P => k \in P
    PROVE  0 .. n \subseteq P
<1> DEFINE S == (0 .. n) \ P
<1>1. SUFFICES ASSUME S # {} PROVE FALSE
  OBVIOUS
<1>2. PICK k \in S : \A j \in S : ~(<<j, k>> \in OpToRel(<, Nat))
  <2>1. S \in SUBSET Nat  BY SMTT(60)
  <2> HIDE DEF S
  <2>2. QED  BY <1>1, <2>1, NatLessThanWellFounded, WFMin
<1>3. \A j \in S : ~(j < k)
  <2>1. k \in Nat /\ \A j \in S : j \in Nat
    BY SMTT(60)
  <2> HIDE DEF S
  <2>2. QED  BY <1>2, <2>1 DEF OpToRel
<1>4. k \in 1 .. n /\ k - 1 \in 0 .. n
  BY SMTT(60)
<1>5. k - 1 \notin S
  BY <1>3, <1>4, SMTT(60)
<1>6. QED  BY <1>4, <1>5

----------------------------------------------------------------------------
(* The difficulty rule                                                     *)

\* The powers that two_pow goes through.
powers(n) == CHOOSE p : p = [i \in 0 .. n |-> IF i = 0 THEN 1 ELSE 2 * p[i - 1]]

\* A sequence of doublings, from one, up to k.
Doubles(f, k) == f[0] = 1 /\ \A i \in 1 .. k : f[i] = 2 * f[i - 1]

\* There is one for every n, and it is what two_pow goes through.
LEMMA PowersDouble ==
    ASSUME NEW n \in Nat
    PROVE  Doubles(powers(n), n) /\ two_pow(n) = powers(n)[n]
<1> DEFINE body(f) == [i \in 0 .. n |-> IF i = 0 THEN 1 ELSE 2 * f[i - 1]]
           P == {k \in 0 .. n : \E f : Doubles(f, k)}
<1>1. 0 \in P
  <2>1. Doubles([i \in 0 .. n |-> 1], 0)
    BY SMTT(60) DEF Doubles
  <2>2. QED  BY <2>1, SMTT(60)
<1>2. ASSUME NEW k \in 1 .. n, k - 1 \in P PROVE k \in P
  <2>1. PICK f : Doubles(f, k - 1)
    BY <1>2
  <2> DEFINE g == [i \in 0 .. n |-> IF i = k THEN 2 * f[k - 1] ELSE f[i]]
  <2>2. g[k] = 2 * f[k - 1] /\ \A i \in 0 .. k - 1 : g[i] = f[i]
    BY SMTT(60)
  <2> HIDE DEF g
  <2>3. Doubles(g, k)
    BY <2>1, <2>2, SMTT(60) DEF Doubles
  <2>4. QED  BY <2>3, SMTT(60)
<1>3. PICK f : Doubles(f, n)
  <2> HIDE DEF P
  <2>1. \A k \in 1 .. n : k - 1 \in P => k \in P
    BY <1>2
  <2>2. n \in P
    BY <1>1, <2>1, UpTo, SMTT(60)
  <2>3. QED  BY <2>2 DEF P
<1> DEFINE h == [i \in 0 .. n |-> f[i]]
<1>4. h = body(h)
  BY <1>3, SMTT(60) DEF Doubles
<1>5. powers(n) = body(powers(n))
  <2> HIDE DEF h, body
  <2>1. \E g : g = body(g)
    BY <1>4
  <2>2. powers(n) = CHOOSE g : g = body(g)
    BY DEF powers, body
  <2>3. QED  BY <2>1, <2>2
<1>6. Doubles(powers(n), n)
  <2> DEFINE p == powers(n)
  <2> HIDE DEF p
  <2>1. p = [i \in 0 .. n |-> IF i = 0 THEN 1 ELSE 2 * p[i - 1]]
    BY <1>5 DEF p
  <2>2. Doubles(p, n)
    BY <2>1, SMTT(60) DEF Doubles
  <2>3. QED  BY <2>2 DEF p
<1>7. two_pow(n) = powers(n)[n]
  BY DEF two_pow, powers
<1>8. QED  BY <1>6, <1>7

\* Doublings up to n agree.
LEMMA DoublesAgree ==
    ASSUME NEW n \in Nat, NEW f, NEW g, Doubles(f, n), Doubles(g, n)
    PROVE  \A i \in 0 .. n : f[i] = g[i] /\ f[i] \in Nat /\ f[i] > 0
<1> DEFINE P == {i \in 0 .. n : f[i] = g[i] /\ f[i] \in Nat /\ f[i] > 0}
<1>1. 0 \in P /\ \A k \in 1 .. n : k - 1 \in P => k \in P
  BY SMTT(60) DEF Doubles
<1> HIDE DEF P
<1>2. 0 .. n \subseteq P
  BY <1>1, UpTo
<1>3. QED  BY <1>2 DEF P

\* U256::from(2).pow is a doubling.
LEMMA PowDoubles ==
    ASSUME NEW n \in Nat
    PROVE  two_pow(0) = 1 /\ two_pow(n) \in Nat /\ two_pow(n + 1) = 2 * two_pow(n)
<1>1. two_pow(0) = 1
  BY PowersDouble DEF Doubles
<1>2. Doubles(powers(n), n) /\ Doubles(powers(n + 1), n + 1)
      /\ two_pow(n) = powers(n)[n] /\ two_pow(n + 1) = powers(n + 1)[n + 1]
  <2>1. n + 1 \in Nat  BY SMTT(60)
  <2>2. QED  BY <2>1, PowersDouble
<1> DEFINE f == powers(n)  g == powers(n + 1)
<1> HIDE DEF f, g
<1>3. Doubles(f, n) /\ Doubles(g, n + 1) /\ two_pow(n) = f[n] /\ two_pow(n + 1) = g[n + 1]
  BY <1>2 DEF f, g
<1>4. Doubles(g, n) /\ g[n + 1] = 2 * g[n]
  <2>1. n + 1 \in 1 .. n + 1 /\ (n + 1) - 1 = n  BY SMTT(60)
  <2>2. QED  BY <1>3, <2>1, SMTT(60) DEF Doubles
<1>5. f[n] = g[n] /\ f[n] \in Nat
  BY <1>3, <1>4, DoublesAgree, SMTT(60)
<1>6. QED  BY <1>1, <1>3, <1>4, <1>5

\* Leaving out the exponent below two periods leaves out nothing.
LEMMA BombIsQuarter ==
    ASSUME NEW k \in Nat
    PROVE  /\ k >= 2 => two_pow(k) \div 4 = two_pow(k - 2)
           /\ k < 2 => two_pow(k) \div 4 = 0
           /\ two_pow(k) \in Nat
<1>1. CASE k >= 2
  <2> DEFINE j == k - 2
  <2>1. j \in Nat /\ j + 1 \in Nat /\ (j + 1) + 1 = k
    BY <1>1, SMTT(60)
  <2> HIDE DEF j
  <2>2. two_pow(k) = 2 * two_pow(j + 1) /\ two_pow(j + 1) = 2 * two_pow(j) /\ two_pow(j) \in Nat
    BY <2>1, PowDoubles
  <2>3. two_pow(k) = 4 * two_pow(j)
    BY <2>2, SMTT(60)
  <2>4. two_pow(k) \div 4 = two_pow(j)
    BY <2>2, <2>3, SMTT(60)
  <2>5. QED  BY <1>1, <2>2, <2>3, <2>4, SMTT(60) DEF j
<1>2. CASE k < 2
  <2>1. two_pow(0) = 1 /\ two_pow(0 + 1) = 2 * two_pow(0)
    BY PowDoubles
  <2>2. k = 0 \/ k = 0 + 1
    BY <1>2, SMTT(60)
  <2>3. two_pow(k) = 1 \/ two_pow(k) = 2
    BY <2>1, <2>2, SMTT(60)
  <2>4. QED  BY <1>2, <2>3, SMTT(60)
<1>3. QED  BY <1>1, <1>2, SMTT(60)

\* The delay of the latest fork that includes a block.
LEMMA LatestDelay ==
    ASSUME RuleAssumption, NEW block \in Nat,
           NEW delays, delays = {d[2] : d \in {e \in ForkDelays : block >= e[1]}}
    PROVE  /\ delays = {} <=> bomb_delay(Config, block) = NoDelay
           /\ delays # {} => /\ bomb_delay(Config, block) \in Nat
                             /\ bomb_delay(Config, block)
                                    = CHOOSE d \in delays : \A e \in delays : e <= d
<1> DEFINE byzantium == Config.byzantium_fork_block
           constantinople == Config.constantinople_fork_block
           muir_glacier == Config.muir_glacier_fork_block
           london == Config.london_fork_block
           delay == bomb_delay(Config, block)
<1>1. byzantium \in Nat /\ constantinople \in Nat /\ muir_glacier \in Nat /\ london \in Nat
  BY SMTT(60) DEF RuleAssumption
<1>2. \A v : v \in delays <=> \/ v = 3000000 /\ block >= byzantium
                              \/ v = 5000000 /\ block >= constantinople
                              \/ v = 9000000 /\ block >= muir_glacier
                              \/ v = 9700000 /\ block >= london
  <2>1. \A e : e \in ForkDelays <=> \/ e = <<byzantium, 3000000>> \/ e = <<constantinople, 5000000>>
                                    \/ e = <<muir_glacier, 9000000>> \/ e = <<london, 9700000>>
    BY SMTT(60) DEF ForkDelays
  <2>2. \A v : v \in delays <=> \E e \in ForkDelays : block >= e[1] /\ v = e[2]
    BY SMTT(60)
  <2> HIDE DEF byzantium, constantinople, muir_glacier, london
  <2>3. ASSUME NEW v \in delays
        PROVE  \/ v = 3000000 /\ block >= byzantium
               \/ v = 5000000 /\ block >= constantinople
               \/ v = 9000000 /\ block >= muir_glacier
               \/ v = 9700000 /\ block >= london
    <3>1. PICK e \in ForkDelays : block >= e[1] /\ v = e[2]
      BY <2>2, SMTT(60)
    <3>2. QED  BY <2>1, <3>1, SMTT(60)
  <2>4. /\ <<byzantium, 3000000>> \in ForkDelays /\ <<constantinople, 5000000>> \in ForkDelays
        /\ <<muir_glacier, 9000000>> \in ForkDelays /\ <<london, 9700000>> \in ForkDelays
    BY <2>1, SMTT(60)
  <2>5. \A n, v : <<n, v>> \in ForkDelays /\ block >= n => v \in delays
    <3>1. ASSUME NEW n, NEW v, <<n, v>> \in ForkDelays, block >= n PROVE v \in delays
      <4>1. block >= <<n, v>>[1] /\ v = <<n, v>>[2]
        BY <3>1
      <4>2. QED  BY <2>2, <3>1, <4>1
    <3>2. QED  BY <3>1
  <2>6. QED  BY <2>3, <2>4, <2>5, SMTT(60)
<1>3. delay = IF block >= london THEN 9700000
              ELSE IF block >= muir_glacier THEN 9000000
              ELSE IF block >= constantinople THEN 5000000
              ELSE IF block >= byzantium THEN 3000000 ELSE -1
  BY SMTT(60) DEF bomb_delay, BombDelay, NoDelay
<1> HIDE DEF byzantium, constantinople, muir_glacier, london, delay
<1>4. delays = {} <=> delay = -1
  <2>1. /\ 3000000 \in delays <=> block >= byzantium
        /\ 5000000 \in delays <=> block >= constantinople
        /\ 9000000 \in delays <=> block >= muir_glacier
        /\ 9700000 \in delays <=> block >= london
    BY <1>2, SMTT(60)
  <2>2. delay # -1 <=> \/ block >= byzantium \/ block >= constantinople
                       \/ block >= muir_glacier \/ block >= london
    BY <1>1, <1>3, SMTT(60)
  <2>3. delays # {} => delay # -1
    <3>1. SUFFICES ASSUME NEW v \in delays PROVE delay # -1
      OBVIOUS
    <3>2. QED  BY <1>2, <2>2, SMTT(60)
  <2>4. delay # -1 => delays # {}
    BY <2>1, <2>2, SMTT(60)
  <2>5. QED  BY <2>3, <2>4
<1>5. ASSUME delays # {}
      PROVE  delay \in Nat /\ delay \in delays /\ \A e \in delays : e <= delay /\ e \in Nat
  BY <1>1, <1>2, <1>3, <1>5, SMTT(60)
<1>6. ASSUME delays # {}
      PROVE  delay = CHOOSE d \in delays : \A e \in delays : e <= d
  <2> DEFINE last == CHOOSE d \in delays : \A e \in delays : e <= d
  <2>1. last \in delays /\ \A e \in delays : e <= last
    BY <1>5, <1>6
  <2> HIDE DEF last
  <2>2. delay = last
    BY <1>5, <1>6, <2>1, SMTT(60)
  <2>3. QED  BY <2>2 DEF last
<1>7. QED  BY <1>4, <1>5, <1>6, SMTT(60) DEF delay, NoDelay

\* For every parent and time calc_difficulty is the rule.
LEMMA RuleHolds ==
    ASSUME RuleAssumption, parent \in Parents, time \in Times
    PROVE  DifficultyAsEIP649
<1> DEFINE block == parent.number + 1
           delays == {d[2] : d \in {e \in ForkDelays : block >= e[1]}}
           latest == CHOOSE d \in delays : \A e \in delays : e <= d
           delay == bomb_delay(Config, block)
           fake == larger(parent.number - (delay - 1), 0)
           elapsed == time - parent.timestamp
           factor == larger((IF parent.has_ommers THEN 2 ELSE 1) - elapsed \div 9, -99)
           adjusted == larger(parent.difficulty + (parent.difficulty \div 2048) * factor, 131072)
<1>1. /\ parent.number \in Nat /\ parent.timestamp \in Nat /\ parent.has_ommers \in BOOLEAN
      /\ parent.difficulty \in Nat /\ time \in Nat /\ block \in Nat
  BY SMTT(60) DEF RuleAssumption
<1>2. /\ delays = {} <=> delay = NoDelay
      /\ delays # {} => delay \in Nat /\ delay = latest
  <2> HIDE DEF block
  <2>1. QED  BY <1>1, LatestDelay
<1>3. 2 ^ 11 = 2048
  BY SMTT(60)
<1>4. calc_difficulty(Config, time, parent) =
          IF delay = NoDelay \/ time < parent.timestamp THEN InvalidBlock
          ELSE IF fake \div 100000 >= 2 THEN adjusted + two_pow(fake \div 100000 - 2)
          ELSE adjusted
  BY <1>3, SMTT(60) DEF calc_difficulty, DIFFICULTY_BOUND_DIVISOR, MINIMUM_DIFFICULTY, EXP_DIFFICULTY_PERIOD
<1>5. DifficultyAsEIP649 <=>
          calc_difficulty(Config, time, parent) =
              IF delays = {} \/ elapsed < 0 THEN InvalidBlock
              ELSE adjusted + two_pow(larger(0, block - latest) \div 100000) \div 4
  BY SMTT(60) DEF DifficultyAsEIP649
<1>6. time < parent.timestamp <=> elapsed < 0
  BY <1>1, SMTT(60)
<1>7. adjusted \in Int
  <2>1. factor \in Int
    BY <1>1, SMTT(60) DEF larger
  <2>2. parent.difficulty \div 2048 \in Int
    BY <1>1, SMTT(60)
  <2> HIDE DEF factor
  <2>3. QED  BY <1>1, <2>1, <2>2, SMTT(60) DEF larger
<1>8. ASSUME delays # {}
      PROVE  larger(0, block - latest) = fake /\ fake \in Nat
  <2> HIDE DEF delay, latest, delays
  <2>1. QED  BY <1>1, <1>2, <1>8, SMTT(60) DEF larger
<1> HIDE DEF adjusted, delay, delays, latest, fake, block
<1>9. ASSUME delays # {}
      PROVE  adjusted + two_pow(fake \div 100000) \div 4 =
                 IF fake \div 100000 >= 2 THEN adjusted + two_pow(fake \div 100000 - 2) ELSE adjusted
  <2> DEFINE k == fake \div 100000
  <2>1. k \in Nat
    BY <1>8, <1>9, SMTT(60)
  <2> HIDE DEF k
  <2>2. adjusted + two_pow(k) \div 4 = IF k >= 2 THEN adjusted + two_pow(k - 2) ELSE adjusted
    BY <1>7, <2>1, BombIsQuarter, SMTT(60)
  <2>3. QED  BY <2>2, SMTT(60) DEF k
<1>10. CASE delays = {} \/ elapsed < 0
  BY <1>2, <1>4, <1>5, <1>6, <1>10, SMTT(60)
<1>11. CASE ~(delays = {} \/ elapsed < 0)
  BY <1>2, <1>4, <1>5, <1>6, <1>8, <1>9, <1>11, SMTT(60)
<1>12. QED  BY <1>10, <1>11, SMTT(60)

\* calc_difficulty is the rule of EIP-649 and of the EIPs that move the bomb, for every
\* config, parent and time.
THEOREM DifficultyIsEIP649 ==
    ASSUME RuleAssumption
    PROVE  RuleSpec => []DifficultyAsEIP649
<1> DEFINE Given == parent \in Parents /\ time \in Times
<1>1. RuleInit => Given
  BY DEF RuleInit
<1>2. Given /\ [RuleNext]_<<parent, time>> => Given'
  BY DEF RuleNext
<1>3. Given => DifficultyAsEIP649
  BY RuleHolds
<1>4. QED  BY <1>1, <1>2, <1>3, PTL DEF RuleSpec

----------------------------------------------------------------------------
(* The cache of epochs                                                     *)

\* Pairs of a timestamp and an epoch.
Pairs == Nat \X Nat

\* The order of pairs that Vec::sort uses is total and transitive.
LEMMA BeforeIsOrder ==
    /\ \A p, q \in Pairs : before(p, q) \/ before(q, p)
    /\ \A p, q, r \in Pairs : before(p, q) /\ before(q, r) => before(p, r)
  BY SMTT(60) DEF before, Pairs

\* The numbers 1 to n in an order o of the first n pairs.
Orders(pairs, n, o) ==
    /\ \A i, j \in 1 .. n : o[i] = o[j] => i = j
    /\ \A k \in 1 .. n : \E i \in 1 .. n : o[i] = k
    /\ \A i, j \in 1 .. n : i < j => before(pairs[o[i]], pairs[o[j]])

\* The place among ordered pairs where one more belongs.
LEMMA PlaceFor ==
    ASSUME NEW n \in Nat, NEW v \in [1 .. n -> Pairs], NEW x \in Pairs,
           \A i, j \in 1 .. n : i < j => before(v[i], v[j])
    PROVE  \E k \in 1 .. n + 1 : /\ \A i \in 1 .. n : i < k => before(v[i], x)
                                 /\ \A i \in 1 .. n : i >= k => before(x, v[i])
<1> DEFINE P == {m \in 0 .. n : \E k \in 1 .. m + 1 :
                    /\ \A i \in 1 .. m : i < k => before(v[i], x)
                    /\ \A i \in 1 .. m : i >= k => before(x, v[i])}
<1>0. \A i \in 1 .. n : v[i] \in Pairs
  OBVIOUS
<1>1. 0 \in P
  <2>1. 1 \in 1 .. 0 + 1 /\ \A i \in 1 .. 0 : FALSE
    BY SMTT(60)
  <2>2. QED  BY <2>1, SMTT(60)
<1>2. ASSUME NEW m \in 1 .. n, m - 1 \in P PROVE m \in P
  <2>1. PICK k \in 1 .. m : /\ \A i \in 1 .. m - 1 : i < k => before(v[i], x)
                            /\ \A i \in 1 .. m - 1 : i >= k => before(x, v[i])
    BY <1>2, SMTT(60)
  <2>2. CASE before(x, v[m])
    <3>1. /\ \A i \in 1 .. m : i < k => before(v[i], x)
          /\ \A i \in 1 .. m : i >= k => before(x, v[i])
      BY <2>1, <2>2, SMTT(60)
    <3>2. k \in 1 .. m + 1 /\ m \in 0 .. n
      BY SMTT(60)
    <3>3. QED  BY <3>1, <3>2
  <2>3. CASE ~before(x, v[m])
    <3>1. before(v[m], x)
      BY <1>0, <2>3, BeforeIsOrder
    <3>2. \A i \in 1 .. m - 1 : before(v[i], v[m])
      BY SMTT(60)
    <3>3. \A i \in 1 .. m : before(v[i], x)
      BY <1>0, <3>1, <3>2, BeforeIsOrder, SMTT(60)
    <3>4. m + 1 \in 1 .. m + 1 /\ m \in 0 .. n /\ \A i \in 1 .. m : i < m + 1 /\ ~(i >= m + 1)
      BY SMTT(60)
    <3>5. QED  BY <3>3, <3>4
  <2>4. QED  BY <2>2, <2>3
<1> HIDE DEF P
<1>3. n \in P
  <2>1. \A k \in 1 .. n : k - 1 \in P => k \in P
    BY <1>2
  <2>2. 0 .. n \subseteq P
    BY <1>1, <2>1, UpTo
  <2>3. QED  BY <2>2, SMTT(60)
<1>4. QED  BY <1>3 DEF P

\* One more pair finds its place.
LEMMA OrderGrows ==
    ASSUME NEW n \in Nat, NEW pairs \in [1 .. n + 1 -> Pairs],
           NEW o \in [1 .. n -> 1 .. n], Orders(pairs, n, o)
    PROVE  \E p \in [1 .. n + 1 -> 1 .. n + 1] : Orders(pairs, n + 1, p)
<1> DEFINE v == [i \in 1 .. n |-> pairs[o[i]]]
<1>1. v \in [1 .. n -> Pairs] /\ pairs[n + 1] \in Pairs
  BY SMTT(60)
<1>2. \A i \in 1 .. n : v[i] = pairs[o[i]]
  OBVIOUS
<1>3. \A i, j \in 1 .. n : i < j => before(v[i], v[j])
  BY DEF Orders
<1> HIDE DEF v
<1>4. PICK k \in 1 .. n + 1 : /\ \A i \in 1 .. n : i < k => before(v[i], pairs[n + 1])
                              /\ \A i \in 1 .. n : i >= k => before(pairs[n + 1], v[i])
  BY <1>1, <1>3, PlaceFor
<1> DEFINE p == [i \in 1 .. n + 1 |-> IF i < k THEN o[i] ELSE IF i = k THEN n + 1 ELSE o[i - 1]]
<1>5. /\ \A i \in 1 .. n + 1 : i < k => i \in 1 .. n /\ p[i] = o[i]
      /\ p[k] = n + 1
      /\ \A i \in 1 .. n + 1 : i > k => i - 1 \in 1 .. n /\ p[i] = o[i - 1]
      /\ \A i \in 1 .. n : o[i] \in 1 .. n
  BY SMTT(60)
<1>6. p \in [1 .. n + 1 -> 1 .. n + 1]
  BY SMTT(60)
<1> HIDE DEF p
<1>7. \A i, j \in 1 .. n + 1 : p[i] = p[j] => i = j
  <2>1. SUFFICES ASSUME NEW i \in 1 .. n + 1, NEW j \in 1 .. n + 1, p[i] = p[j], i < j PROVE FALSE
    BY SMTT(60)
  <2>2. \A a, b \in 1 .. n : o[a] = o[b] => a = b
    BY DEF Orders
  <2>3. CASE j < k
    BY <1>5, <2>1, <2>2, <2>3, SMTT(60)
  <2>4. CASE j = k
    BY <1>5, <2>1, <2>4, SMTT(60)
  <2>5. CASE j > k /\ i = k
    BY <1>5, <2>1, <2>5, SMTT(60)
  <2>6. CASE j > k /\ i < k
    BY <1>5, <2>1, <2>2, <2>6, SMTT(60)
  <2>7. CASE i > k
    BY <1>5, <2>1, <2>2, <2>7, SMTT(60)
  <2>8. QED  BY <2>1, <2>3, <2>4, <2>5, <2>6, <2>7, SMTT(60)
<1>8. ASSUME NEW m \in 1 .. n + 1 PROVE \E i \in 1 .. n + 1 : p[i] = m
  <2>1. CASE m = n + 1
    BY <1>5, <2>1
  <2>2. CASE m # n + 1
    <3>1. m \in 1 .. n
      BY <2>2, SMTT(60)
    <3>2. PICK a \in 1 .. n : o[a] = m
      BY <3>1 DEF Orders
    <3>3. CASE a < k
      <4>1. a \in 1 .. n + 1
        BY SMTT(60)
      <4>2. p[a] = m
        BY <1>5, <3>2, <3>3, <4>1
      <4>3. QED  BY <4>1, <4>2
    <3>4. CASE a >= k
      <4>1. a + 1 \in 1 .. n + 1 /\ a + 1 > k /\ (a + 1) - 1 = a
        BY <3>4, SMTT(60)
      <4>2. p[a + 1] = m
        BY <1>5, <3>2, <4>1
      <4>3. QED  BY <4>1, <4>2
    <3>5. QED  BY <3>3, <3>4, SMTT(60)
  <2>3. QED  BY <2>1, <2>2
<1>9. \A i, j \in 1 .. n + 1 : i < j => before(pairs[p[i]], pairs[p[j]])
  <2>1. SUFFICES ASSUME NEW i \in 1 .. n + 1, NEW j \in 1 .. n + 1, i < j
                 PROVE  before(pairs[p[i]], pairs[p[j]])
    OBVIOUS
  <2>2. /\ \A a \in 1 .. n + 1 : a < k => a \in 1 .. n /\ pairs[p[a]] = v[a]
        /\ pairs[p[k]] = pairs[n + 1]
        /\ \A a \in 1 .. n + 1 : a > k => a - 1 \in 1 .. n /\ pairs[p[a]] = v[a - 1]
    BY <1>2, <1>5
  <2>4. CASE j < k
    BY <1>3, <2>1, <2>2, <2>4, SMTT(60)
  <2>5. CASE j = k
    BY <1>4, <2>1, <2>2, <2>5
  <2>6. CASE j > k /\ i = k
    BY <1>4, <2>1, <2>2, <2>6, SMTT(60)
  <2>7. CASE j > k /\ i < k
    <3>1. i \in 1 .. n /\ j - 1 \in 1 .. n /\ i < j - 1
      BY <2>7, SMTT(60)
    <3>2. before(v[i], v[j - 1])
      BY <1>3, <3>1
    <3>3. QED  BY <2>2, <2>7, <3>2
  <2>8. CASE i > k
    BY <1>3, <2>1, <2>2, <2>8, SMTT(60)
  <2>9. QED  BY <2>1, <2>4, <2>5, <2>6, <2>7, <2>8, SMTT(60)
<1>10. Orders(pairs, n + 1, p)
  BY <1>7, <1>8, <1>9 DEF Orders
<1>11. QED  BY <1>6, <1>10

\* There is an order for any pairs.
LEMMA OrderExists ==
    ASSUME NEW n \in Nat, NEW pairs \in [1 .. n -> Pairs]
    PROVE  \E o \in [1 .. n -> 1 .. n] : Orders(pairs, n, o)
<1> DEFINE P == {m \in 0 .. n : \E o \in [1 .. m -> 1 .. m] : Orders(pairs, m, o)}
<1>1. 0 \in P
  <2>1. 1 .. 0 = {}
    BY SMTT(60)
  <2>2. [i \in {} |-> i] \in [1 .. 0 -> 1 .. 0]
    BY <2>1
  <2>3. Orders(pairs, 0, [i \in {} |-> i])
    BY <2>1 DEF Orders
  <2>4. 0 \in 0 .. n
    BY SMTT(60)
  <2>5. QED  BY <2>2, <2>3, <2>4
<1>2. ASSUME NEW m \in 1 .. n, m - 1 \in P PROVE m \in P
  <2> DEFINE q == [i \in 1 .. m |-> pairs[i]]
  <2>1. PICK o \in [1 .. m - 1 -> 1 .. m - 1] : Orders(pairs, m - 1, o)
    BY <1>2
  <2>2. m - 1 \in Nat /\ (m - 1) + 1 = m
    BY SMTT(60)
  <2>3. q \in [1 .. (m - 1) + 1 -> Pairs] /\ \A i \in 1 .. m : q[i] = pairs[i]
    BY <2>2, SMTT(60)
  <2> HIDE DEF q
  <2>4. Orders(q, m - 1, o)
    <3>1. \A i \in 1 .. m - 1 : o[i] \in 1 .. m
      BY SMTT(60)
    <3>2. QED  BY <2>1, <2>3, <3>1 DEF Orders
  <2>5. PICK p \in [1 .. m -> 1 .. m] : Orders(q, m, p)
    BY <2>2, <2>3, <2>4, OrderGrows
  <2>6. Orders(pairs, m, p)
    BY <2>3, <2>5 DEF Orders
  <2>7. m \in 0 .. n
    BY SMTT(60)
  <2>8. QED  BY <2>6, <2>7
<1> HIDE DEF P
<1>3. n \in P
  <2>1. \A k \in 1 .. n : k - 1 \in P => k \in P
    BY <1>2
  <2>2. 0 .. n \subseteq P
    BY <1>1, <2>1, UpTo
  <2>3. QED  BY <2>2, SMTT(60)
<1>4. QED  BY <1>3 DEF P

\* What Vec::sort leaves: the same entries, each as often, in order.
LEMMA SortSorts ==
    ASSUME NEW n \in Nat, NEW pairs \in [1 .. n -> Pairs], Len(pairs) = n
    PROVE  /\ sort(pairs) \in [1 .. n -> Pairs]
           /\ \A i, j \in 1 .. n : i < j => before(sort(pairs)[i], sort(pairs)[j])
           /\ \E o \in [1 .. n -> 1 .. n] : /\ Orders(pairs, n, o)
                                           /\ \A i \in 1 .. n : sort(pairs)[i] = pairs[o[i]]
<1> DEFINE places == 1 .. Len(pairs)
           order == CHOOSE o \in Bijection(places, places) :
                       \A i, j \in places : i < j => before(pairs[o[i]], pairs[o[j]])
<1>1. PICK o \in [1 .. n -> 1 .. n] : Orders(pairs, n, o)
  BY OrderExists
<1>2. sort(pairs) = [i \in places |-> pairs[order[i]]]
  BY DEF sort
<1>3. places = 1 .. n
  OBVIOUS
<1> HIDE DEF places
<1>4. o \in Bijection(places, places)
  BY <1>1, <1>3 DEF Orders, Bijection, Injection, IsInjective, Surjection
<1>5. /\ order \in Bijection(places, places)
      /\ \A i, j \in places : i < j => before(pairs[order[i]], pairs[order[j]])
  BY <1>1, <1>3, <1>4 DEF Orders
<1> HIDE DEF order
<1>6. order \in [1 .. n -> 1 .. n] /\ Orders(pairs, n, order)
  <2>1. /\ order \in [places -> places]
        /\ \A i, j \in places : order[i] = order[j] => i = j
    BY <1>5 DEF Bijection, Injection, IsInjective
  <2>2. \A k \in places : \E i \in places : order[i] = k
    BY <1>5 DEF Bijection, Surjection
  <2>3. QED  BY <1>3, <1>5, <2>1, <2>2 DEF Orders
<1>7. /\ sort(pairs) \in [1 .. n -> Pairs]
      /\ \A i \in 1 .. n : sort(pairs)[i] = pairs[order[i]]
  BY <1>2, <1>3, <1>6
<1>8. \A i, j \in 1 .. n : i < j => before(sort(pairs)[i], sort(pairs)[j])
  BY <1>3, <1>5, <1>7
<1>9. QED  BY <1>6, <1>7, <1>8

\* A list of the epochs E: each once, with the number of a header in it.
Listed(a, E) ==
    /\ a \in Seq(Pairs)
    /\ {a[i][2] : i \in 1 .. Len(a)} = E
    /\ \A i, j \in 1 .. Len(a) : a[i][2] = a[j][2] => i = j
    /\ \A i \in 1 .. Len(a) : a[i][1] \div EPOCH_LENGTH = a[i][2]

\* Sorting a list of epochs leaves a list of the same epochs, the oldest first.
LEMMA SortKeeps ==
    ASSUME NEW a, NEW E, Listed(a, E)
    PROVE  /\ Listed(sort(a), E)
           /\ Len(sort(a)) = Len(a)
           /\ \A i, j \in 1 .. Len(a) : i < j => sort(a)[i][1] < sort(a)[j][1]
<1> DEFINE n == Len(a)
           b == sort(a)
<1>1. n \in Nat /\ a \in [1 .. n -> Pairs]
  BY SMTT(60) DEF Listed
<1>2. b \in [1 .. n -> Pairs]
  BY <1>1, SortSorts
<1>3. \A i, j \in 1 .. n : i < j => before(b[i], b[j])
  BY <1>1, SortSorts
<1>4. PICK o \in [1 .. n -> 1 .. n] : Orders(a, n, o) /\ \A i \in 1 .. n : b[i] = a[o[i]]
  BY <1>1, SortSorts
<1> HIDE DEF b
<1>5. b \in Seq(Pairs) /\ Len(b) = n
  BY <1>1, <1>2, SMTT(60)
<1> HIDE DEF n
<1>6. \A i \in 1 .. n : o[i] \in 1 .. n
  OBVIOUS
<1>7. /\ \A i, j \in 1 .. n : o[i] = o[j] => i = j
      /\ \A k \in 1 .. n : \E i \in 1 .. n : o[i] = k
  BY <1>4 DEF Orders
<1>8. /\ {a[i][2] : i \in 1 .. n} = E
      /\ \A i, j \in 1 .. n : a[i][2] = a[j][2] => i = j
      /\ \A i \in 1 .. n : a[i][1] \div EPOCH_LENGTH = a[i][2]
  BY DEF Listed, n
<1>9. {b[i][2] : i \in 1 .. n} = E
  <2>1. \A i \in 1 .. n : b[i][2] \in E
    BY <1>4, <1>6, <1>8, SMTT(60)
  <2>2. ASSUME NEW e \in E PROVE \E i \in 1 .. n : b[i][2] = e
    <3>1. PICK k \in 1 .. n : a[k][2] = e
      BY <1>8
    <3>2. PICK i \in 1 .. n : o[i] = k
      BY <1>7
    <3>3. QED  BY <1>4, <3>1, <3>2
  <2>3. QED  BY <2>1, <2>2
<1>10. /\ \A i, j \in 1 .. n : b[i][2] = b[j][2] => i = j
       /\ \A i \in 1 .. n : b[i][1] \div EPOCH_LENGTH = b[i][2]
  <2>1. \A i, j \in 1 .. n : b[i][2] = b[j][2] => o[i] = o[j]
    BY <1>4, <1>6, <1>8, SMTT(60)
  <2>2. ASSUME NEW i \in 1 .. n PROVE b[i][1] \div EPOCH_LENGTH = b[i][2]
    <3>1. o[i] \in 1 .. n /\ b[i] = a[o[i]]
      BY <1>4
    <3>2. QED  BY <1>8, <3>1
  <2>3. \A i, j \in 1 .. n : b[i][2] = b[j][2] => i = j
    BY <1>7, <2>1, SMTT(60)
  <2>4. QED  BY <2>2, <2>3
<1>11. Listed(b, E)
  BY <1>5, <1>9, <1>10 DEF Listed
<1>12. ASSUME NEW i \in 1 .. n, NEW j \in 1 .. n, i < j PROVE b[i][1] < b[j][1]
  <2>1. before(b[i], b[j])
    BY <1>3, <1>12
  <2>2. b[i][1] # b[j][1]
    <3>1. i # j
      BY <1>1, <1>12, SMTT(60)
    <3>2. QED  BY <1>10, <3>1, SMTT(60)
  <2>3. b[i] \in Pairs /\ b[j] \in Pairs
    BY <1>2
  <2>4. QED  BY <2>1, <2>2, <2>3 DEF before, Pairs
<1>13. QED  BY <1>5, <1>11, <1>12 DEF b, n

\* A use of the cache for an epoch it lists renews the entry.
LEMMA HitIsListed ==
    ASSUME NEW a, NEW E, Listed(a, E), NEW k \in 1 .. Len(a), NEW x \in Pairs,
           x[2] = a[k][2], x[1] \div EPOCH_LENGTH = x[2]
    PROVE  Listed([a EXCEPT ![k] = x], E)
<1> DEFINE n == Len(a)
           b == [a EXCEPT ![k] = x]
<1>1. n \in Nat /\ a \in Seq(Pairs) /\ k \in 1 .. n
  BY SMTT(60) DEF Listed
<1>2. b \in Seq(Pairs) /\ Len(b) = n /\ \A i \in 1 .. n : b[i] = IF i = k THEN x ELSE a[i]
  BY <1>1, SMTT(60)
<1>3. /\ {a[i][2] : i \in 1 .. n} = E
      /\ \A i, j \in 1 .. n : a[i][2] = a[j][2] => i = j
      /\ \A i \in 1 .. n : a[i][1] \div EPOCH_LENGTH = a[i][2]
  BY DEF Listed, n
<1> HIDE DEF b, n
<1>4. \A i \in 1 .. n : b[i][2] = a[i][2] /\ b[i][1] \div EPOCH_LENGTH = b[i][2]
  <2>1. \A i \in 1 .. n : i # k => b[i] = a[i]
    BY <1>2
  <2>2. b[k] = x
    BY <1>1, <1>2
  <2>3. QED  BY <1>3, <2>1, <2>2
<1>5. {b[i][2] : i \in 1 .. n} = E
  BY <1>3, <1>4, SMTT(60)
<1>6. \A i, j \in 1 .. n : b[i][2] = b[j][2] => i = j
  BY <1>3, <1>4
<1>7. Listed(b, E)
  BY <1>2, <1>4, <1>5, <1>6 DEF Listed
<1>8. QED  BY <1>7 DEF b

\* An entry for a new epoch in the first place makes room for it.
LEMMA ReplacementIsListed ==
    ASSUME NEW a, NEW E, Listed(a, E), 1 \in 1 .. Len(a), NEW x \in Pairs,
           x[2] \notin E, x[1] \div EPOCH_LENGTH = x[2]
    PROVE  Listed([a EXCEPT ![1] = x], (E \ {a[1][2]}) \cup {x[2]})
<1> DEFINE n == Len(a)
           b == [a EXCEPT ![1] = x]
<1>1. n \in Nat /\ a \in Seq(Pairs) /\ 1 \in 1 .. n
  BY SMTT(60) DEF Listed
<1>2. b \in Seq(Pairs) /\ Len(b) = n /\ \A i \in 1 .. n : b[i] = IF i = 1 THEN x ELSE a[i]
  BY <1>1, SMTT(60)
<1>3. /\ {a[i][2] : i \in 1 .. n} = E
      /\ \A i, j \in 1 .. n : a[i][2] = a[j][2] => i = j
      /\ \A i \in 1 .. n : a[i][1] \div EPOCH_LENGTH = a[i][2]
  BY DEF Listed, n
<1> HIDE DEF b, n
<1>4. b[1] = x /\ \A i \in 1 .. n : i # 1 => b[i] = a[i]
  BY <1>1, <1>2
<1>5. {b[i][2] : i \in 1 .. n} = (E \ {a[1][2]}) \cup {x[2]}
  <2>1. \A i \in 1 .. n : i # 1 => b[i][2] \in E \ {a[1][2]}
    BY <1>1, <1>3, <1>4
  <2>2. \A e \in E \ {a[1][2]} : \E i \in 1 .. n : b[i][2] = e
    BY <1>3, <1>4, SMTT(60)
  <2>3. QED  BY <1>1, <1>4, <2>1, <2>2, SMTT(60)
<1>6. \A i, j \in 1 .. n : b[i][2] = b[j][2] => i = j
  <2>1. \A i \in 1 .. n : i # 1 => b[i][2] # b[1][2] /\ b[i][2] = a[i][2]
    BY <1>3, <1>4, SMTT(60)
  <2>2. QED  BY <1>3, <2>1
<1>7. \A i \in 1 .. n : b[i][1] \div EPOCH_LENGTH = b[i][2]
  BY <1>3, <1>4
<1>8. Listed(b, (E \ {a[1][2]}) \cup {x[2]})
  BY <1>2, <1>5, <1>6, <1>7 DEF Listed
<1>9. QED  BY <1>8 DEF b

\* An entry for a new epoch at the end.
LEMMA AppendIsListed ==
    ASSUME NEW a, NEW E, Listed(a, E), NEW x \in Pairs,
           x[2] \notin E, x[1] \div EPOCH_LENGTH = x[2]
    PROVE  Listed(Append(a, x), E \cup {x[2]})
<1> DEFINE n == Len(a)
           b == Append(a, x)
<1>1. n \in Nat /\ a \in Seq(Pairs)
  BY SMTT(60) DEF Listed
<1>2. b \in Seq(Pairs) /\ Len(b) = n + 1 /\ b[n + 1] = x /\ \A i \in 1 .. n : b[i] = a[i]
  BY <1>1, SMTT(60)
<1>3. /\ {a[i][2] : i \in 1 .. n} = E
      /\ \A i, j \in 1 .. n : a[i][2] = a[j][2] => i = j
      /\ \A i \in 1 .. n : a[i][1] \div EPOCH_LENGTH = a[i][2]
  BY DEF Listed, n
<1> HIDE DEF b, n
<1>4. 1 .. n + 1 = 1 .. n \cup {n + 1} /\ n + 1 \notin 1 .. n
  BY <1>1, SMTT(60)
<1>5. {b[i][2] : i \in 1 .. n + 1} = E \cup {x[2]}
  <2>1. {b[i][2] : i \in 1 .. n} = E
    BY <1>2, <1>3, SMTT(60)
  <2>2. QED  BY <1>2, <1>4, <2>1, SMTT(60)
<1>6. \A i, j \in 1 .. n + 1 : b[i][2] = b[j][2] => i = j
  <2>1. \A i \in 1 .. n : b[i][2] = a[i][2] /\ b[i][2] # b[n + 1][2]
    BY <1>2, <1>3, SMTT(60)
  <2>2. QED  BY <1>3, <1>4, <2>1
<1>7. \A i \in 1 .. n + 1 : b[i][1] \div EPOCH_LENGTH = b[i][2]
  BY <1>2, <1>3, <1>4
<1>8. Listed(b, E \cup {x[2]})
  BY <1>2, <1>5, <1>6, <1>7 DEF Listed
<1>9. QED  BY <1>8 DEF b

\* The inductive invariant of an EthashCache: CacheAgrees, for entries that are pairs of
\* numbers.
CacheInv ==
    /\ Listed(recently_accessed_epochs, DOMAIN caches_by_epoch)
    /\ Len(recently_accessed_epochs) <= max_capacity
    /\ \A i, j \in 1 .. Len(recently_accessed_epochs) :
           i < j => recently_accessed_epochs[i][1] < recently_accessed_epochs[j][1]
    /\ \A e \in DOMAIN caches_by_epoch : caches_by_epoch[e] = cache_gen_fn(e)

\* With it the list and the map of an EthashCache agree.
LEMMA CacheInvAgrees == CacheInv => CacheAgrees
<1> SUFFICES ASSUME CacheInv PROVE CacheAgrees
  OBVIOUS
<1>1. DOMAIN recently_accessed_epochs = 1 .. Len(recently_accessed_epochs)
  BY SMTT(60) DEF CacheInv, Listed
<1>2. QED  BY <1>1 DEF CacheInv, CacheAgrees, Listed

\* EthashCache.get keeps the list and the map together, whether it finds the epoch or
\* not, and whether the cache is full.
LEMMA GetKeepsCache ==
    ASSUME CacheAssumption, CacheInv,
           NEW header_number \in Nat, get(header_number \div EPOCH_LENGTH, header_number)
    PROVE  CacheInv'
<1> DEFINE a == recently_accessed_epochs
           E == DOMAIN caches_by_epoch
           epoch == header_number \div EPOCH_LENGTH
           x == <<header_number, epoch>>
<1>1. x \in Pairs /\ x[1] = header_number /\ x[2] = epoch /\ x[1] \div EPOCH_LENGTH = x[2]
  <2>1. epoch \in Nat
    BY SMTT(60) DEF CacheAssumption
  <2>2. QED  BY <2>1 DEF Pairs
<1>2. /\ Listed(a, E) /\ Len(a) \in Nat /\ Len(a) <= max_capacity
      /\ DOMAIN a = 1 .. Len(a)
      /\ max_capacity \in Nat \ {0}
      /\ \A e \in E : caches_by_epoch[e] = cache_gen_fn(e)
  BY SMTT(60) DEF CacheInv, Listed, CacheAssumption
<1>3. CASE epoch \in E
  <2> DEFINE k == CHOOSE i \in DOMAIN a : a[i][2] = epoch
             b == [a EXCEPT ![k] = x]
  <2>1. a' = sort(b) /\ caches_by_epoch' = caches_by_epoch
    BY <1>3 DEF get
  <2>2. k \in 1 .. Len(a) /\ a[k][2] = epoch
    <3>1. \E i \in DOMAIN a : a[i][2] = epoch
      BY <1>2, <1>3, SMTT(60) DEF Listed
    <3>2. QED  BY <1>2, <3>1
  <2> HIDE DEF k
  <2>3. Listed(b, E)
    BY <1>1, <1>2, <2>2, HitIsListed
  <2>4. Len(b) = Len(a)
    BY <1>2, <2>2, SMTT(60) DEF Listed
  <2> HIDE DEF b
  <2>5. Listed(sort(b), E) /\ Len(sort(b)) = Len(b)
        /\ \A i, j \in 1 .. Len(b) : i < j => sort(b)[i][1] < sort(b)[j][1]
    BY <2>3, SortKeeps
  <2>6. QED  BY <1>2, <2>1, <2>4, <2>5 DEF CacheInv
<1>4. CASE epoch \notin E /\ Len(a) = max_capacity
  <2> DEFINE b == [a EXCEPT ![1] = x]
             F == (E \ {a[1][2]}) \cup {epoch}
  <2>1. a' = sort(b)
    BY <1>4 DEF get
  <2>2. caches_by_epoch' = [e \in F |-> IF e = epoch THEN cache_gen_fn(epoch)
                                        ELSE [d \in E \ {a[1][2]} |-> caches_by_epoch[d]][e]]
    BY <1>4 DEF get, replaced
  <2>3. DOMAIN caches_by_epoch' = F /\ \A e \in F : caches_by_epoch'[e] = cache_gen_fn(e)
    BY <1>2, <2>2
  <2>4. 1 \in 1 .. Len(a)
    BY <1>2, <1>4, SMTT(60)
  <2>5. Listed(b, F)
    BY <1>1, <1>2, <1>4, <2>4, ReplacementIsListed
  <2>6. Len(b) = Len(a)
    BY <1>2, <2>4, SMTT(60) DEF Listed
  <2> HIDE DEF b, F
  <2>7. Listed(sort(b), F) /\ Len(sort(b)) = Len(b)
        /\ \A i, j \in 1 .. Len(b) : i < j => sort(b)[i][1] < sort(b)[j][1]
    BY <2>5, SortKeeps
  <2>8. QED  BY <1>2, <2>1, <2>3, <2>6, <2>7 DEF CacheInv
<1>5. CASE epoch \notin E /\ Len(a) # max_capacity
  <2> DEFINE b == Append(a, x)
             F == E \cup {epoch}
  <2>1. a' = sort(b)
    BY <1>5 DEF get
  <2>2. caches_by_epoch' = [e \in F |-> IF e = epoch THEN cache_gen_fn(epoch)
                                        ELSE caches_by_epoch[e]]
    BY <1>5 DEF get, replaced
  <2>3. DOMAIN caches_by_epoch' = F /\ \A e \in F : caches_by_epoch'[e] = cache_gen_fn(e)
    BY <1>2, <2>2
  <2>4. Listed(b, F)
    BY <1>1, <1>2, <1>5, AppendIsListed
  <2>5. Len(b) = Len(a) + 1 /\ Len(b) <= max_capacity
    <3>1. a \in Seq(Pairs)
      BY <1>2 DEF Listed
    <3>2. Len(b) = Len(a) + 1
      BY <1>1, <3>1, SMTT(60)
    <3>3. Len(a) + 1 <= max_capacity
      <4>1. Len(a) \in Nat /\ max_capacity \in Nat /\ Len(a) <= max_capacity /\ Len(a) # max_capacity
        BY <1>2, <1>5
      <4> HIDE DEF a
      <4>2. QED  BY <4>1, SMTT(60)
    <3>4. QED  BY <3>2, <3>3
  <2> HIDE DEF b, F
  <2>6. Listed(sort(b), F) /\ Len(sort(b)) = Len(b)
        /\ \A i, j \in 1 .. Len(b) : i < j => sort(b)[i][1] < sort(b)[j][1]
    BY <2>4, SortKeeps
  <2>7. QED  BY <1>2, <2>1, <2>3, <2>5, <2>6 DEF CacheInv
<1>6. QED  BY <1>3, <1>4, <1>5

\* Whatever headers the light variant of hashimoto is asked about, the map of an
\* EthashCache and its list of accessed epochs agree: neither unwrap of get fails, and
\* the cache holds at most max_capacity epochs.
THEOREM CacheAlwaysAgrees ==
    ASSUME CacheAssumption
    PROVE  CacheSpec => []CacheAgrees
<1>1. CacheInit => CacheInv
  <2> SUFFICES ASSUME CacheInit PROVE CacheInv
    OBVIOUS
  <2>1. /\ Len(recently_accessed_epochs) = 0 /\ recently_accessed_epochs \in Seq(Pairs)
        /\ DOMAIN caches_by_epoch = {}
        /\ 1 .. 0 = {}
    BY SMTT(60) DEF CacheInit
  <2>2. Listed(recently_accessed_epochs, DOMAIN caches_by_epoch)
    BY <2>1 DEF Listed
  <2>3. QED  BY <2>1, <2>2, SMTT(60) DEF CacheInv, CacheAssumption
<1>2. CacheInv /\ [hashimoto_light]_cacheVars => CacheInv'
  <2> SUFFICES ASSUME CacheInv, [hashimoto_light]_cacheVars PROVE CacheInv'
    OBVIOUS
  <2>1. CASE hashimoto_light
    <3>1. PICK header_number \in 0 .. MaxHeaderNumber : get(header_number \div EPOCH_LENGTH, header_number)
      BY <2>1 DEF hashimoto_light
    <3>2. header_number \in Nat
      BY SMTT(60) DEF CacheAssumption
    <3>3. QED  BY <3>1, <3>2, GetKeepsCache
  <2>2. CASE UNCHANGED cacheVars
    BY <2>2, SMTT(60) DEF cacheVars, CacheInv, Listed
  <2>3. QED  BY <2>1, <2>2
<1>3. QED  BY <1>1, <1>2, CacheInvAgrees, PTL DEF CacheSpec
=============================================================================

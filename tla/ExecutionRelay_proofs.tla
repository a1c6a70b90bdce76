----------------------- MODULE ExecutionRelay_proofs -----------------------
(***************************************************************************)
(* The pallet's end of the channel from Ethereum, for any number of        *)
(* accounts and relays, any payloads, with gaps in the execution headers,  *)
(* crashes and dropped extrinsics: each message is dispatched once and in  *)
(* order, and answered.  Here the relays' variables are not constrained:   *)
(* an extrinsic may hold any message.  The second half follows the relays: *)
(* where all serve one account, none that polls has left a message behind. *)
(***************************************************************************)
EXTENDS ExecutionRelay, WellFoundedInduction, TLAPS

\* Leaves are for Zenon; SMTT marks those that need arithmetic, sequences or records. A prover
\* may work a minute on a leaf, so that a busy machine checks the same proofs: few take seconds.
USE ZenonT(60)

\* The inductive invariant: an event's nonce has been given out.
ChannelInv ==
    /\ block \in Nat /\ log \in Seq(Message)
    /\ outNonce \in [Accounts -> Nat]
    /\ Nonce \in [Accounts -> Nat]
    /\ dispatched \in [Accounts -> Seq(Message)]
    /\ \A m \in Emitted : m.nonce <= outNonce[m.account]
    /\ DispatchedOnceInOrder

\* Before the first message nothing is dispatched.
LEMMA InitInv == ASSUME Init PROVE ChannelInv
  BY SMTT(60) DEF Init, ChannelInit, ChannelInv, DispatchedOnceInOrder, Emitted

\* BasicOutboundChannel.submit adds an event with a fresh nonce and leaves the others.
LEMMA SubmitInv ==
    ASSUME ChannelInv, NEW a \in Accounts, submit(a)
    PROVE  ChannelInv'
<1> DEFINE new == [account |-> a, nonce |-> outNonce[a] + 1, block |-> block]
<1>1. new \in Message /\ log' = Append(log, new)
  BY SMTT(60) DEF ChannelInv, submit, Message
<1>2. log' \in Seq(Message) /\ Emitted' = Emitted \cup {new}
  <2> HIDE DEF new
  <2>1. log \in Seq(Message) /\ log' \in Seq(Message)
    BY <1>1, SMTT(60) DEF ChannelInv
  <2>2. DOMAIN log = 1 .. Len(log) /\ DOMAIN log' = 1 .. Len(log) + 1 /\ Len(log) \in Nat
    BY <1>1, <2>1, SMTT(60)
  <2>3. /\ \A i \in 1 .. Len(log) : log'[i] = log[i]
        /\ log'[Len(log) + 1] = new
    BY <1>1, <2>1, SMTT(60)
  <2>4. QED  BY <2>1, <2>2, <2>3, SMTT(60) DEF Emitted
<1>3. outNonce' \in [Accounts -> Nat] /\ block' \in Nat
  BY SMTT(60) DEF ChannelInv, submit
<1>4. \A b \in Accounts : outNonce[b] <= outNonce'[b] /\ outNonce'[a] = outNonce[a] + 1
  BY SMTT(60) DEF ChannelInv, submit
<1>5. UNCHANGED <<ExecutionHeaders, Nonce, dispatched>>
  BY DEF submit, clientVars, palletVars
<1>6. Emitted \subseteq Message
  BY SMTT(60) DEF ChannelInv, Emitted
<1>7. \A m \in Emitted' : m.nonce <= outNonce'[m.account]
  <2>1. \A m \in Emitted : m.account \in Accounts /\ m.nonce \in Nat /\ m.nonce <= outNonce[m.account]
    BY <1>6 DEF ChannelInv, Message
  <2>2. \A m \in Emitted : m.nonce <= outNonce'[m.account]
    BY <1>3, <1>4, <2>1, SMTT(60) DEF ChannelInv
  <2>3. new.nonce <= outNonce'[new.account]
    BY <1>3, <1>4, SMTT(60)
  <2>4. QED  BY <1>2, <2>2, <2>3
<1>8. DispatchedOnceInOrder'
  BY <1>2, <1>3, <1>4, <1>5, SMTT(60) DEF ChannelInv, DispatchedOnceInOrder, verify
<1>9. QED  BY <1>2, <1>3, <1>5, <1>7, <1>8 DEF ChannelInv

\* A new Ethereum block or a new execution header takes nothing back.
LEMMA GrowthInv ==
    ASSUME ChannelInv, block' \in Nat, UNCHANGED <<log, outNonce, palletVars>>,
           ExecutionHeaders \subseteq ExecutionHeaders'
    PROVE  ChannelInv'
<1>1. UNCHANGED <<log, outNonce, Nonce, dispatched, Emitted>>
  BY DEF palletVars, Emitted
<1>2. DispatchedOnceInOrder'
  BY <1>1, SMTT(60) DEF ChannelInv, DispatchedOnceInOrder, verify
<1>3. QED  BY <1>1, <1>2 DEF ChannelInv

\* The pallet's submit takes the next message of an account or changes nothing.
LEMMA InboundInv ==
    ASSUME ChannelInv, NEW m, inboundSubmit(m), UNCHANGED <<ethereumVars, clientVars>>
    PROVE  ChannelInv'
<1>0. UNCHANGED <<block, log, outNonce, ExecutionHeaders, Emitted>>
  BY DEF ethereumVars, clientVars, Emitted
<1>1. CASE ~acceptable(m)
  BY <1>0, <1>1, GrowthInv DEF inboundSubmit, ChannelInv
<1>2. CASE acceptable(m)
  <2>1. m \in Message /\ m.account \in Accounts /\ m.nonce \in Nat
    <3>1. m \in Emitted /\ log \in Seq(Message)
      BY <1>2 DEF acceptable, verify, ChannelInv
    <3>2. m \in Message
      BY <3>1, SMTT(60) DEF Emitted
    <3>3. QED  BY <3>2 DEF Message
  <2> DEFINE a == m.account
  <2>2. /\ Nonce' = [Nonce EXCEPT ![a] = @ + 1]
        /\ dispatched' = [dispatched EXCEPT ![a] = Append(@, m)]
    BY <1>2 DEF inboundSubmit, dispatch
  <2>3. Nonce' \in [Accounts -> Nat] /\ dispatched' \in [Accounts -> Seq(Message)]
    BY <2>1, <2>2, SMTT(60) DEF ChannelInv
  <2>4. m.nonce = Nonce[a] + 1 /\ m.nonce <= outNonce[a] /\ verify(m)
    BY <1>2 DEF acceptable, verify, ChannelInv
  <2>5. ASSUME NEW b \in Accounts
        PROVE  /\ Len(dispatched'[b]) = Nonce'[b] /\ Nonce'[b] <= outNonce[b]
               /\ \A i \in 1 .. Len(dispatched'[b]) :
                      /\ dispatched'[b][i].account = b /\ dispatched'[b][i].nonce = i
                      /\ verify(dispatched'[b][i])
    <3>1. CASE b = a
      <4>1. dispatched'[b] = Append(dispatched[b], m) /\ Nonce'[b] = Nonce[b] + 1
        BY <2>1, <2>2, <3>1 DEF ChannelInv
      <4>2. dispatched[b] \in Seq(Message) /\ Len(dispatched[b]) = Nonce[b] /\ Nonce[b] \in Nat
        BY DEF ChannelInv, DispatchedOnceInOrder
      <4>3. Len(dispatched'[b]) = Len(dispatched[b]) + 1
        BY <2>1, <4>1, <4>2, SMTT(60)
      <4>4. \A i \in 1 .. Len(dispatched[b]) : dispatched'[b][i] = dispatched[b][i]
        BY <2>1, <4>1, <4>2, SMTT(60)
      <4>5. dispatched'[b][Len(dispatched[b]) + 1] = m
        BY <2>1, <4>1, <4>2, SMTT(60)
      <4>6. \A i \in 1 .. Len(dispatched[b]) :
                /\ dispatched[b][i].account = b /\ dispatched[b][i].nonce = i
                /\ verify(dispatched[b][i])
        BY DEF ChannelInv, DispatchedOnceInOrder
      <4>7. QED  BY <2>4, <3>1, <4>1, <4>2, <4>3, <4>4, <4>5, <4>6, SMTT(60)
    <3>2. CASE b # a
      <4>1. dispatched'[b] = dispatched[b] /\ Nonce'[b] = Nonce[b]
        BY <2>1, <2>2, <3>2 DEF ChannelInv
      <4>2. QED  BY <4>1, SMTT(60) DEF ChannelInv, DispatchedOnceInOrder
    <3>3. QED  BY <3>1, <3>2
  <2>6. DispatchedOnceInOrder'
    BY <1>0, <2>5 DEF DispatchedOnceInOrder, verify
  <2>7. QED  BY <1>0, <2>3, <2>6 DEF ChannelInv
<1>3. QED  BY <1>1, <1>2

\* No step of either chain, of a relay or of the transaction pool disturbs the invariant.
LEMMA NextInv == ASSUME ChannelInv, [Next]_vars PROVE ChannelInv'
<1>1. CASE Chains
  <2>1. CASE \E a \in Accounts : submit(a)
    BY <2>1, SubmitInv
  <2>2. CASE sealBlock
    BY <2>2, GrowthInv, SMTT(60) DEF sealBlock, clientVars, ChannelInv
  <2>3. CASE \E n \in 1 .. MaxBlock : import_execution_header(n)
    BY <2>3, GrowthInv DEF import_execution_header, ethereumVars, ChannelInv
  <2>4. QED  BY <1>1, <2>1, <2>2, <2>3 DEF Chains
<1>2. CASE \E r \in Relays : include(r)
  BY <1>2, InboundInv DEF include
<1>3. CASE UNCHANGED channelVars
  BY <1>3, GrowthInv DEF channelVars, ethereumVars, clientVars, ChannelInv
<1>4. CASE \E r \in Relays : Relay(r) \/ drop(r) \/ crash(r)
  BY <1>3, <1>4 DEF Relay, Start, syncUnprocessedBasicMessages, syncBasic,
     WriteToParachainAndWatch, checkMessageVerificationResult, drop, crash
<1>5. CASE UNCHANGED vars
  BY <1>3, <1>5 DEF vars
<1>6. QED  BY <1>1, <1>2, <1>4, <1>5 DEF Next

\* Whatever relays run and however they fail, the pallet dispatches the contract's
\* messages for an account each once, in order and from verified blocks.
THEOREM DispatchIsOnceInOrder == Spec => []DispatchedOnceInOrder
<1>1. Init => ChannelInv  BY InitInv
<1>2. ChannelInv /\ [Next]_vars => ChannelInv'  BY NextInv
<1>3. ChannelInv => DispatchedOnceInOrder  BY DEF ChannelInv
<1>4. QED  BY <1>1, <1>2, <1>3, PTL DEF Spec

----------------------------------------------------------------------------
Events == {"MessageDecodeFailed", "MessageRejected", "MessageDispatched(Err)",
           "MessageDispatched(Ok)"}

Answer == [id : Accounts \X Nat, event : Events]

\* The contract gives out no more nonces than there are events, so that every message
\* has a payload; and each message that the pallet took has its answer.
AnswerInv ==
    /\ dispatchEvents \in [Accounts -> Seq(Answer)]
    /\ Len(log) <= MaxMessages
    /\ \A a \in Accounts : outNonce[a] <= Len(log)
    /\ AnsweredInOrder

\* Only the call that would succeed is answered with success.
LEMMA OutcomeIsExact ==
    ASSUME NEW id \in MessageId
    PROVE  /\ outcome(id) \in Events
           /\ outcome(id) = "MessageDispatched(Ok)" <=> payload[id] = "succeeding"
<1>1. payload[id] \in {"undecodable", "filtered", "failing", "succeeding"}
  BY PayloadAssumption DEF Payloads
<1>2. outcome(id) \in Events  BY DEF outcome, Events
<1>3. CASE payload[id] = "succeeding"
  BY <1>2, <1>3 DEF outcome
<1>4. CASE payload[id] # "succeeding"
  <2>1. outcome(id) # "MessageDispatched(Ok)"
    BY <1>1, <1>4 DEF outcome
  <2>2. QED  BY <1>2, <1>4, <2>1
<1>5. QED  BY <1>3, <1>4

\* A message that the pallet takes adds the answer for its nonce to the account's.
LEMMA InboundAnswers ==
    ASSUME ChannelInv, AnswerInv, NEW m, inboundSubmit(m), UNCHANGED <<ethereumVars, clientVars>>
    PROVE  AnswerInv'
<1>0. UNCHANGED <<log, outNonce>>
  BY DEF ethereumVars
<1>1. CASE ~acceptable(m)
  BY <1>0, <1>1, SMTT(60) DEF inboundSubmit, palletVars, AnswerInv, AnsweredInOrder
<1>2. CASE acceptable(m)
  <2>1. m \in Emitted /\ m \in Message /\ m.account \in Accounts /\ m.nonce \in Nat
    <3>1. m \in Emitted /\ log \in Seq(Message)
      BY <1>2 DEF acceptable, verify, ChannelInv
    <3>2. m \in Message
      BY <3>1, SMTT(60) DEF Emitted
    <3>3. QED  BY <3>1, <3>2 DEF Message
  <2> DEFINE a == m.account
             id == <<m.account, m.nonce>>
             e == [id |-> id, event |-> outcome(id)]
  <2>2. m.nonce = Nonce[a] + 1 /\ m.nonce <= outNonce[a] /\ Nonce[a] \in Nat /\ outNonce[a] \in Nat
    BY <1>2, <2>1 DEF acceptable, ChannelInv
  <2>3. outNonce[a] <= Len(log) /\ Len(log) <= MaxMessages /\ Len(log) \in Nat
    BY <2>1, SMTT(60) DEF AnswerInv, ChannelInv
  <2>4. m.nonce \in 1 .. MaxMessages
    BY <2>1, <2>2, <2>3, ChannelAssumption, SMTT(60)
  <2>5. id \in MessageId
    BY <2>1, <2>4 DEF MessageId
  <2>6. e \in Answer
    BY <2>1, <2>5, OutcomeIsExact DEF Answer
  <2>7. /\ Nonce' = [Nonce EXCEPT ![a] = @ + 1]
        /\ dispatchEvents' = [dispatchEvents EXCEPT ![a] = Append(@, e)]
    BY <1>2 DEF inboundSubmit, dispatch
  <2>8. dispatchEvents' \in [Accounts -> Seq(Answer)]
    <3> HIDE DEF e
    <3> QED  BY <2>1, <2>6, <2>7, SMTT(60) DEF AnswerInv
  <2>9. ASSUME NEW b \in Accounts
        PROVE  /\ Len(dispatchEvents'[b]) = Nonce'[b]
               /\ \A i \in DOMAIN dispatchEvents'[b] :
                      /\ dispatchEvents'[b][i].id = <<b, i>>
                      /\ dispatchEvents'[b][i].event = "MessageDispatched(Ok)"
                             <=> payload[<<b, i>>] = "succeeding"
    <3>1. /\ dispatchEvents[b] \in Seq(Answer) /\ Len(dispatchEvents[b]) = Nonce[b]
          /\ \A i \in 1 .. Nonce[b] :
                 /\ dispatchEvents[b][i].id = <<b, i>>
                 /\ dispatchEvents[b][i].event = "MessageDispatched(Ok)"
                        <=> payload[<<b, i>>] = "succeeding"
      BY SMTT(60) DEF AnswerInv, AnsweredInOrder
    <3>2. CASE b = a
      <4>1. dispatchEvents'[b] = Append(dispatchEvents[b], e) /\ Nonce'[b] = Nonce[b] + 1
        BY <2>1, <2>7, <3>2 DEF AnswerInv, ChannelInv
      <4>2. /\ Len(dispatchEvents'[b]) = Nonce[b] + 1
            /\ DOMAIN dispatchEvents'[b] = 1 .. Nonce[b] + 1
            /\ \A i \in 1 .. Nonce[b] : dispatchEvents'[b][i] = dispatchEvents[b][i]
            /\ dispatchEvents'[b][Nonce[b] + 1] = e
        <5> HIDE DEF e
        <5> QED  BY <2>6, <3>1, <4>1, SMTT(60)
      <4>3. /\ e.id = <<b, Nonce[b] + 1>>
            /\ e.event = "MessageDispatched(Ok)" <=> payload[<<b, Nonce[b] + 1>>] = "succeeding"
        BY <2>2, <2>5, <3>2, OutcomeIsExact
      <4> HIDE DEF e
      <4>4. ASSUME NEW i \in 1 .. Nonce[b] + 1
            PROVE  /\ dispatchEvents'[b][i].id = <<b, i>>
                   /\ dispatchEvents'[b][i].event = "MessageDispatched(Ok)"
                          <=> payload[<<b, i>>] = "succeeding"
        <5>1. CASE i = Nonce[b] + 1
          BY <4>2, <4>3, <5>1
        <5>2. CASE i # Nonce[b] + 1
          <6>1. i \in 1 .. Nonce[b]
            BY <2>2, <3>2, <5>2, SMTT(60)
          <6>2. QED  BY <3>1, <4>2, <6>1
        <5>3. QED  BY <5>1, <5>2
      <4>5. QED  BY <4>1, <4>2, <4>4
    <3>3. CASE b # a
      <4>1. dispatchEvents'[b] = dispatchEvents[b] /\ Nonce'[b] = Nonce[b]
        BY <2>1, <2>7, <3>3 DEF AnswerInv, ChannelInv
      <4>2. QED  BY <3>1, <4>1, SMTT(60)
    <3>4. QED  BY <3>2, <3>3
  <2>10. AnsweredInOrder'
    BY <2>9 DEF AnsweredInOrder
  <2>11. QED  BY <1>0, <2>8, <2>10 DEF AnswerInv
<1>3. QED  BY <1>1, <1>2

\* The contract's submit is bounded by the events there may be; nothing else counts.
LEMMA NextAnswers == ASSUME ChannelInv, AnswerInv, [Next]_vars PROVE AnswerInv'
<1>1. ASSUME NEW a \in Accounts, submit(a) PROVE AnswerInv'
  <2>1. /\ Len(log') = Len(log) + 1 /\ Len(log) < MaxMessages /\ Len(log) \in Nat
        /\ outNonce' = [outNonce EXCEPT ![a] = @ + 1]
        /\ UNCHANGED <<Nonce, dispatchEvents>>
    <3> DEFINE new == [account |-> a, nonce |-> outNonce[a] + 1, block |-> block]
    <3>1. new \in Message /\ log' = Append(log, new) /\ log \in Seq(Message)
      BY <1>1, SMTT(60) DEF ChannelInv, submit, Message
    <3>2. Len(log') = Len(log) + 1 /\ Len(log) \in Nat
      <4> HIDE DEF new
      <4> QED  BY <3>1, SMTT(60)
    <3>3. QED  BY <1>1, <3>2 DEF submit, palletVars
  <2>2. \A b \in Accounts : outNonce'[b] <= Len(log')
    BY <2>1, SMTT(60) DEF ChannelInv, AnswerInv
  <2>3. QED  BY <2>1, <2>2, ChannelAssumption, SMTT(60) DEF AnswerInv, AnsweredInOrder
<1>2. CASE UNCHANGED <<log, outNonce, Nonce, dispatchEvents>>
  BY <1>2 DEF AnswerInv, AnsweredInOrder
<1>3. CASE Chains
  <2>1. CASE sealBlock
    BY <2>1, <1>2 DEF sealBlock, palletVars
  <2>2. CASE \E n \in 1 .. MaxBlock : import_execution_header(n)
    BY <2>2, <1>2 DEF import_execution_header, ethereumVars, palletVars
  <2>3. QED  BY <1>1, <1>3, <2>1, <2>2 DEF Chains
<1>4. CASE \E r \in Relays : include(r)
  BY <1>4, InboundAnswers DEF include
<1>5. CASE UNCHANGED channelVars
  BY <1>2, <1>5 DEF channelVars, ethereumVars, palletVars
<1>6. CASE \E r \in Relays : Relay(r) \/ drop(r) \/ crash(r)
  BY <1>5, <1>6 DEF Relay, Start, syncUnprocessedBasicMessages, syncBasic,
     WriteToParachainAndWatch, checkMessageVerificationResult, drop, crash
<1>7. CASE UNCHANGED vars
  BY <1>5, <1>7 DEF vars
<1>8. QED  BY <1>3, <1>4, <1>6, <1>7 DEF Next

\* Each message the pallet takes is answered once, in order, with success exactly where
\* its call succeeds, whatever the payloads are.
THEOREM AnswersAreInOrder == Spec => []AnsweredInOrder
<1>1. Init => ChannelInv /\ AnswerInv
  BY InitInv, ChannelAssumption, SMTT(60) DEF Init, ChannelInit, AnswerInv, AnsweredInOrder
<1>2. ChannelInv /\ AnswerInv /\ [Next]_vars => (ChannelInv /\ AnswerInv)'
  BY NextInv, NextAnswers
<1>3. ChannelInv /\ AnswerInv => AnsweredInOrder  BY DEF AnswerInv
<1>4. QED  BY <1>1, <1>2, <1>3, PTL DEF Spec

----------------------------------------------------------------------------
Entries(s) == {s[i] : i \in 1 .. Len(s)}

\* An empty sequence has no entries.
LEMMA NoEntries == ASSUME NEW s, Len(s) = 0 PROVE Entries(s) = {}
  BY SMTT(60) DEF Entries

\* Induction on the numbers up to n, with the numbers it holds of as a set.
LEMMA UpTo ==
    ASSUME NEW n \in Nat, NEW P, 0 \in P, \A k \in 1 .. n : k - 1 \in P => k \in P
    PROVE  0 .. n \subseteq P
<1> DEFINE S == (0 .. n) \ P
<1>1. SUFFICES ASSUME S # {} PROVE FALSE
  OBVIOUS
<1>2. PICK k \in S : \A j \in S : ~(<<j, k>> \in OpToRel(<, Nat))
  <2>1. S \in SUBSET Nat  BY SMTT(60)
  <2> HIDE DEF S
  <2>2. QED  BY <1>1, <2>1, NatLessThanWellFounded, WFMin
<1>3. \A j \in S : ~(j < k)
  <2>1. k \in Nat /\ \A j \in S : j \in Nat
    BY SMTT(60)
  <2> HIDE DEF S
  <2>2. QED  BY <1>2, <2>1 DEF OpToRel
<1>4. k \in 1 .. n /\ k - 1 \in 0 .. n
  BY SMTT(60)
<1>5. k - 1 \notin S
  BY <1>3, <1>4, SMTT(60)
<1>6. QED  BY <1>4, <1>5

\* f is base at 0 and goes from each number up to n to the next by that number's step.
Steps(n, X) == [1 .. n -> [X -> X]]

Iterates(f, n, X, base, step) ==
    /\ f \in [0 .. n -> X] /\ f[0] = base
    /\ \A i \in 1 .. n : f[i] = step[i][f[i - 1]]

\* Such a recursion defines a function.
LEMMA Recursion ==
    ASSUME NEW n \in Nat, NEW X, NEW base \in X, NEW step \in Steps(n, X)
    PROVE  \E f : Iterates(f, n, X, base, step)
<1> DEFINE built(f, k) == f[0] = base /\ \A i \in 1 .. k : f[i] = step[i][f[i - 1]]
           P == {k \in 0 .. n : \E f \in [0 .. n -> X] : built(f, k)}
<1>1. 0 \in P
  <2>1. [i \in 0 .. n |-> base] \in [0 .. n -> X] /\ built([i \in 0 .. n |-> base], 0)
    BY SMTT(60)
  <2>2. \E f \in [0 .. n -> X] : built(f, 0)
    <3> HIDE DEF built
    <3> QED  BY <2>1
  <2>3. QED  BY <2>2, SMTT(60)
<1>2. ASSUME NEW k \in 1 .. n, k - 1 \in P PROVE k \in P
  <2>1. PICK f \in [0 .. n -> X] : built(f, k - 1)
    BY <1>2
  <2> DEFINE g == [f EXCEPT ![k] = step[k][f[k - 1]]]
  <2>2. g \in [0 .. n -> X]
    BY SMTT(60) DEF Steps
  <2>3. \A i \in 0 .. n : i # k => g[i] = f[i]
    OBVIOUS
  <2>4. g[k] = step[k][f[k - 1]]
    BY SMTT(60)
  <2>5. built(g, k)
    <3> HIDE DEF g
    <3> QED  BY <2>1, <2>3, <2>4, SMTT(60)
  <2>6. \E h \in [0 .. n -> X] : built(h, k)
    <3> HIDE DEF g, built
    <3> QED  BY <2>2, <2>5
  <2>7. QED  BY <2>6, SMTT(60)
<1>3. n \in P
  <2> HIDE DEF P
  <2>1. \A k \in 1 .. n : k - 1 \in P => k \in P
    BY <1>2
  <2>2. 0 .. n \subseteq P
    BY <1>1, <2>1, UpTo
  <2>3. QED  BY <2>2, SMTT(60)
<1>4. QED  BY <1>3 DEF Iterates

\* Select keeps the entries that are in the set, and nothing else.
LEMMA Selected ==
    ASSUME NEW M, NEW s \in Seq(M), NEW S
    PROVE  /\ Select(s, S) \in Seq(M)
           /\ Entries(Select(s, S)) = Entries(s) \cap S
<1> DEFINE n == Len(s)
           add(i, q) == IF s[i] \in S THEN Append(q, s[i]) ELSE q
           body(f) == [i \in 0 .. n |-> IF i = 0 THEN <<>> ELSE add(i, f[i - 1])]
           f == CHOOSE f : f = body(f)
           picked(k) == {s[i] : i \in 1 .. k} \cap S
           P == {k \in 0 .. n : f[k] \in Seq(M) /\ Entries(f[k]) = picked(k)}
<1>1. n \in Nat /\ Select(s, S) = f[n]
  BY SMTT(60) DEF Select
<1>2. ASSUME NEW q \in Seq(M), NEW i \in 1 .. n
      PROVE  /\ add(i, q) \in Seq(M)
             /\ Entries(add(i, q)) = Entries(q) \cup ({s[i]} \cap S)
  <2>1. s[i] \in M
    BY SMTT(60)
  <2>2. CASE s[i] \in S
    <3>1. /\ add(i, q) \in Seq(M) /\ Len(add(i, q)) = Len(q) + 1
          /\ \A j \in 1 .. Len(q) : add(i, q)[j] = q[j]
          /\ add(i, q)[Len(q) + 1] = s[i]
      BY <2>1, <2>2, SMTT(60)
    <3> HIDE DEF add
    <3>2. 1 .. Len(add(i, q)) = (1 .. Len(q)) \cup {Len(q) + 1}
      BY <3>1, SMTT(60)
    <3>3. Entries(add(i, q)) = {add(i, q)[j] : j \in 1 .. Len(q)} \cup {add(i, q)[Len(q) + 1]}
      BY <3>2 DEF Entries
    <3>4. {add(i, q)[j] : j \in 1 .. Len(q)} = Entries(q)
      BY <3>1 DEF Entries
    <3>5. QED  BY <2>2, <3>1, <3>3, <3>4
  <2>3. CASE s[i] \notin S
    BY <2>3
  <2>4. QED  BY <2>2, <2>3
<1>3. f = body(f)
  <2> DEFINE step == [i \in 1 .. n |-> [q \in Seq(M) |-> add(i, q)]]
  <2>1. step \in [1 .. n -> [Seq(M) -> Seq(M)]] /\ <<>> \in Seq(M)
    <3> HIDE DEF add
    <3> QED  BY <1>2, SMTT(60)
  <2>2. PICK g \in [0 .. n -> Seq(M)] : g[0] = <<>> /\ \A i \in 1 .. n : g[i] = step[i][g[i - 1]]
    <3>1. n \in Nat /\ step \in Steps(n, Seq(M)) /\ <<>> \in Seq(M)
      BY <2>1, SMTT(60) DEF Steps
    <3> HIDE DEF step, n
    <3>2. PICK g : Iterates(g, n, Seq(M), <<>>, step)
      BY <3>1, Recursion
    <3>3. QED  BY <3>2 DEF Iterates
  <2>3. \A i \in 1 .. n : g[i - 1] \in Seq(M) /\ g[i] = add(i, g[i - 1])
    <3> HIDE DEF add, n
    <3>1. ASSUME NEW i \in 1 .. n PROVE i - 1 \in 0 .. n
      BY <1>1, SMTT(60)
    <3>2. QED  BY <2>2, <3>1
  <2>4. g = body(g)
    <3> HIDE DEF add
    <3> QED  BY <1>1, <2>2, <2>3, SMTT(60)
  <2> HIDE DEF body
  <2>5. QED  BY <2>4
<1>4. f[0] = <<>> /\ \A i \in 1 .. n : f[i] = add(i, f[i - 1])
  <2> HIDE DEF f, add
  <2> QED  BY <1>1, <1>3, SMTT(60)
<1>5. 0 \in P
  <2>1. picked(0) = {} /\ \A q \in Seq(M) : Len(q) = 0 => Entries(q) = {}
    BY SMTT(60) DEF Entries
  <2> HIDE DEF f, picked
  <2>2. f[0] \in Seq(M) /\ Len(f[0]) = 0 /\ 0 \in 0 .. n
    BY <1>1, <1>4, SMTT(60)
  <2>3. QED  BY <2>1, <2>2
<1>6. ASSUME NEW k \in 1 .. n, k - 1 \in P PROVE k \in P
  <2>1. picked(k) = picked(k - 1) \cup ({s[k]} \cap S)
    <3>1. 1 .. k = (1 .. k - 1) \cup {k}
      BY <1>1, SMTT(60)
    <3>2. QED  BY <3>1
  <2> HIDE DEF f, add, picked
  <2>2. f[k - 1] \in Seq(M) /\ Entries(f[k - 1]) = picked(k - 1)
    BY <1>6
  <2>3. f[k] = add(k, f[k - 1])
    BY <1>4
  <2>4. f[k] \in Seq(M) /\ Entries(f[k]) = Entries(f[k - 1]) \cup ({s[k]} \cap S)
    BY <1>2, <2>2, <2>3
  <2>5. k \in 0 .. n /\ Entries(f[k]) = picked(k)
    BY <1>1, <2>1, <2>2, <2>4, SMTT(60)
  <2>6. QED  BY <2>4, <2>5
<1>7. n \in P
  <2> HIDE DEF P, n
  <2>1. \A k \in 1 .. n : k - 1 \in P => k \in P
    BY <1>6
  <2>2. 0 .. n \subseteq P
    BY <1>1, <1>5, <2>1, UpTo
  <2>3. QED  BY <1>1, <2>2, SMTT(60)
<1>8. QED
  <2> HIDE DEF f
  <2> QED  BY <1>1, <1>7 DEF Entries

----------------------------------------------------------------------------
\* What the accounts sent in a range of blocks.
EmittedBy(accounts, first, last) ==
    {m \in Emitted : m.account \in accounts /\ m.block \in first .. last}

\* The events of blocks first to last that the relay reads are all there are.
LEMMA EventsRead ==
    ASSUME ChannelInv, NEW first, NEW last, NEW accounts
    PROVE  /\ ProcessBasicEvents(first, last, accounts) \in Seq(Message)
           /\ Entries(ProcessBasicEvents(first, last, accounts)) =
                  EmittedBy(accounts, first, last)
<1>1. log \in Seq(Message) /\ Entries(log) = Emitted
  BY SMTT(60) DEF ChannelInv, Entries, Emitted
<1>2. QED  BY <1>1, Selected, SMTT(60) DEF ProcessBasicEvents, EmittedBy

\* The filter keeps the messages beyond the nonces that the pallet has reached.
LEMMA EventsFiltered ==
    ASSUME NEW messages \in Seq(Message)
    PROVE  /\ filterMessagesByLastNonces(messages) \in Seq(Message)
           /\ Entries(filterMessagesByLastNonces(messages)) =
                  Entries(messages) \cap {m \in Emitted : m.nonce > Nonce[m.account]}
  BY Selected DEF filterMessagesByLastNonces

----------------------------------------------------------------------------
(* What a relay that polls has left behind.  The inductive invariant follows a relay *)
(* from the block it resumes at through the messages it writes.                      *)

\* The account's messages before block n have been accepted.
AcceptedBefore(a, n) == \A m \in Emitted : m.account = a /\ m.block < n => m.nonce <= Nonce[a]

\* Of the messages of the relay's accounts up to block n only the given ones may be left.
LeftTo(r, n, messages) ==
    \A m \in Emitted :
        m.account \in addresses[r] /\ m.block <= n
            => m.nonce <= Nonce[m.account] \/ m \in messages

\* A relay of account a that resumes at block n skips nothing.
Resumable(a, n) ==
    /\ n <= LatestExecutionHeader /\ AcceptedBefore(a, n)
    /\ n # 0 => Nonce[a] # 0

RelayTypes ==
    /\ pc \in [Relays -> {"down", "resume", "write", "watch", "check", "poll"}]
    /\ lastSyncedBasicBlock \in [Relays -> Nat]
    /\ end \in [Relays -> Nat]
    /\ todo \in [Relays -> Seq(Message)]
    /\ pool \in [Relays -> Seq(Message)]

\* Events are in the order of their blocks, the light client is behind the block being
\* built and the pallet behind the light client.
ChainInv ==
    /\ LatestExecutionHeader \in Nat /\ LatestExecutionHeader < block
    /\ \A n \in ExecutionHeaders : n \in Nat /\ n <= LatestExecutionHeader
    /\ LatestVerifiedBlockNumber \in Nat
    /\ \A m \in Emitted : m.block \in 1 .. block
    /\ \A m, n \in Emitted : m.account = n.account /\ m.block < n.block => m.nonce <= n.nonce

\* What relay r has still to write is all that is left up to the block it is at.
RelayInv(r, a) ==
    /\ \A m \in Entries(todo[r]) : m.account \in addresses[r]
    /\ \A m \in Entries(pool[r]) : m.account \in addresses[r]
    /\ pc[r] = "resume" => Resumable(a, end[r])
    /\ pc[r] \in {"write", "watch", "check"} =>
           /\ todo[r] # <<>> /\ end[r] <= LatestExecutionHeader
           /\ LeftTo(r, end[r], Entries(todo[r]))
    /\ pc[r] = "poll" =>
           /\ lastSyncedBasicBlock[r] <= LatestExecutionHeader
           /\ LeftTo(r, lastSyncedBasicBlock[r], {})

SyncInv(a) ==
    /\ ChannelInv /\ ChainInv /\ RelayTypes
    /\ Resumable(a, LatestVerifiedBlockNumber)
    /\ \A r \in Relays : RelayInv(r, a)

\* The relays serve account a only.
Serve(a) == \A r \in Relays : addresses[r] \subseteq {a}

\* Nothing is taken back, and a new event is of a block that the light client has not got.
Growth ==
    /\ \A m \in Emitted' : m \in Emitted \/ m.block > LatestExecutionHeader
    /\ \A b \in Accounts : Nonce[b] <= Nonce'[b]
    /\ LatestExecutionHeader <= LatestExecutionHeader'

\* What the contract emits are messages.
LEMMA EmittedTypes ==
    ASSUME ChannelInv
    PROVE  \A m \in Emitted : m \in Message /\ m.account \in Accounts /\ m.nonce \in Nat /\ m.block \in Nat
<1>1. Emitted \subseteq Message
  BY SMTT(60) DEF ChannelInv, Emitted
<1>2. QED  BY <1>1 DEF Message

\* What holds of the messages up to a block of the light client's goes on to hold.
LEMMA GrowthKeeps ==
    ASSUME NEW a \in Accounts, ChannelInv, ChannelInv', ChainInv, ChainInv', Growth,
           NEW n \in Nat
    PROVE  /\ Resumable(a, n) => Resumable(a, n)'
           /\ \A r \in Relays : \A messages :
                  n <= LatestExecutionHeader /\ LeftTo(r, n, messages) => LeftTo(r, n, messages)'
<1>1. \A m \in Emitted' : m.account \in Accounts /\ m.nonce \in Nat /\ m.block \in Nat
  <2>1. Emitted' \subseteq Message
    BY SMTT(60) DEF ChannelInv, Emitted
  <2>2. QED  BY <2>1 DEF Message
<1>2. /\ Nonce \in [Accounts -> Nat] /\ Nonce' \in [Accounts -> Nat]
      /\ LatestExecutionHeader \in Nat /\ LatestExecutionHeader' \in Nat
  BY DEF ChannelInv, ChainInv
<1>3. ASSUME Resumable(a, n) PROVE Resumable(a, n)'
  <2>1. AcceptedBefore(a, n)'
    BY <1>1, <1>2, <1>3, SMTT(60) DEF Growth, Resumable, AcceptedBefore
  <2>2. QED  BY <1>2, <1>3, <2>1, SMTT(60) DEF Growth, Resumable
<1>4. ASSUME NEW r \in Relays, NEW messages, n <= LatestExecutionHeader, LeftTo(r, n, messages)
      PROVE  LeftTo(r, n, messages)'
  <2>1. SUFFICES ASSUME NEW m \in Emitted', m.account \in addresses[r], m.block <= n
                 PROVE  m.nonce <= Nonce'[m.account] \/ m \in messages
    BY DEF LeftTo
  <2>2. m \in Emitted
    BY <1>1, <1>2, <1>4, <2>1, SMTT(60) DEF Growth
  <2>3. QED  BY <1>1, <1>2, <1>4, <2>1, <2>2, SMTT(60) DEF Growth, LeftTo
<1>5. QED  BY <1>3, <1>4

\* A relay that does nothing is left in order by whatever happens around it.
LEMMA RelayKept ==
    ASSUME NEW a \in Accounts, NEW r \in Relays,
           ChannelInv, ChannelInv', ChainInv, ChainInv', RelayTypes, RelayInv(r, a), Growth,
           pc'[r] = pc[r], lastSyncedBasicBlock'[r] = lastSyncedBasicBlock[r],
           end'[r] = end[r], todo'[r] = todo[r],
           \A m \in Entries(pool'[r]) : m.account \in addresses[r]
    PROVE  RelayInv(r, a)'
<1>1. end[r] \in Nat /\ lastSyncedBasicBlock[r] \in Nat
  BY DEF RelayTypes
<1>2. LatestExecutionHeader \in Nat /\ LatestExecutionHeader' \in Nat
      /\ LatestExecutionHeader <= LatestExecutionHeader'
  BY DEF ChainInv, Growth
<1>3. Entries(todo[r])' = Entries(todo[r]) /\ Entries(pool[r])' = Entries(pool'[r])
  BY DEF Entries
<1>4. pc'[r] = "resume" => Resumable(a, end[r])'
  BY <1>1, GrowthKeeps DEF RelayInv
<1>5. pc'[r] \in {"write", "watch", "check"} =>
          /\ todo'[r] # <<>> /\ end[r] <= LatestExecutionHeader'
          /\ LeftTo(r, end[r], Entries(todo[r]))'
  <2>1. SUFFICES ASSUME pc[r] \in {"write", "watch", "check"}
                 PROVE  /\ todo'[r] # <<>> /\ end[r] <= LatestExecutionHeader'
                        /\ LeftTo(r, end[r], Entries(todo[r]))'
    OBVIOUS
  <2>2. todo[r] # <<>> /\ end[r] <= LatestExecutionHeader /\ LeftTo(r, end[r], Entries(todo[r]))
    BY <2>1 DEF RelayInv
  <2>3. QED
    BY <1>1, <1>2, <1>3, <2>2, GrowthKeeps, SMTT(60)
<1>6. pc'[r] = "poll" =>
          /\ lastSyncedBasicBlock[r] <= LatestExecutionHeader'
          /\ LeftTo(r, lastSyncedBasicBlock[r], {})'
  BY <1>1, <1>2, GrowthKeeps, SMTT(60) DEF RelayInv
<1>7. QED  BY <1>3, <1>4, <1>5, <1>6 DEF RelayInv

\* What the two chains do by themselves.
LEMMA ChainsInv ==
    ASSUME NEW a \in Accounts, SyncInv(a), Chains
    PROVE  SyncInv(a)'
<1>1. ChannelInv /\ ChainInv /\ RelayTypes /\ ChannelInv'
  BY NextInv DEF SyncInv, Next
<1>2. UNCHANGED <<pc, lastSyncedBasicBlock, end, todo, pool>>
  BY DEF Chains, relayVars, poolVars
<1>3. UNCHANGED <<Nonce, LatestVerifiedBlockNumber>>
  BY DEF Chains, submit, sealBlock, import_execution_header, palletVars
<1>4. Growth /\ ChainInv'
  <2>1. ASSUME NEW b \in Accounts, submit(b) PROVE Growth /\ ChainInv'
    <3> DEFINE new == [account |-> b, nonce |-> outNonce[b] + 1, block |-> block]
    <3>1. new \in Message /\ log' = Append(log, new) /\ log \in Seq(Message)
      BY <1>1, <2>1 DEF ChannelInv, submit, Message
    <3>2. Emitted' = Emitted \cup {new}
      <4> HIDE DEF new
      <4>1. /\ DOMAIN log = 1 .. Len(log) /\ DOMAIN log' = 1 .. Len(log) + 1 /\ Len(log) \in Nat
            /\ \A i \in 1 .. Len(log) : log'[i] = log[i]
            /\ log'[Len(log) + 1] = new
        BY <3>1, SMTT(60)
      <4>2. QED  BY <4>1, SMTT(60) DEF Emitted
    <3>3. UNCHANGED <<block, ExecutionHeaders, LatestExecutionHeader>>
      BY <2>1 DEF submit, clientVars
    <3>4. /\ \A m \in Emitted : /\ m.account \in Accounts /\ m.nonce \in Nat /\ m.block \in Nat
                                /\ m.nonce <= outNonce[m.account] /\ m.block <= block
          /\ outNonce \in [Accounts -> Nat] /\ block \in Nat
      <4>1. \A m \in Emitted : m.account \in Accounts /\ m.nonce \in Nat /\ m.block \in Nat
        BY <1>1, EmittedTypes
      <4>2. block \in Nat /\ \A m \in Emitted : m.block <= block
        <5>1. block \in Nat
          BY <1>1 DEF ChannelInv
        <5>2. \A m \in Emitted : m.block \in 1 .. block
          BY <1>1 DEF ChainInv
        <5>3. QED  BY <5>1, <5>2, SMTT(60)
      <4>3. outNonce \in [Accounts -> Nat] /\ \A m \in Emitted : m.nonce <= outNonce[m.account]
        BY <1>1 DEF ChannelInv
      <4>4. QED  BY <4>1, <4>2, <4>3
    <3>5. new.account = b /\ new.nonce = outNonce[b] + 1 /\ new.block = block
      OBVIOUS
    <3> HIDE DEF new
    <3>6. \A m \in Emitted' : m.block \in 1 .. block
      BY <1>1, <3>2, <3>4, <3>5, SMTT(60) DEF ChainInv
    <3>7. \A m, n \in Emitted' : m.account = n.account /\ m.block < n.block => m.nonce <= n.nonce
      BY <1>1, <3>2, <3>4, <3>5, SMTT(60) DEF ChainInv
    <3>8. Growth
      <4>1. Nonce \in [Accounts -> Nat] /\ LatestExecutionHeader \in Nat /\ LatestExecutionHeader < block
        BY <1>1 DEF ChainInv, ChannelInv
      <4>2. QED  BY <1>3, <3>2, <3>3, <3>4, <3>5, <4>1, SMTT(60) DEF Growth
    <3>9. QED  BY <1>1, <1>3, <3>3, <3>6, <3>7, <3>8 DEF ChainInv
  <2>2. CASE sealBlock
    <3>1. block' = block + 1 /\ UNCHANGED <<Emitted, ExecutionHeaders, LatestExecutionHeader>>
      BY <2>2 DEF sealBlock, clientVars, Emitted
    <3>2. Nonce \in [Accounts -> Nat] /\ block \in Nat
      BY <1>1 DEF ChannelInv
    <3>3. QED  BY <1>1, <1>3, <3>1, <3>2, EmittedTypes, SMTT(60) DEF Growth, ChainInv
  <2>3. ASSUME NEW n \in 1 .. MaxBlock, import_execution_header(n) PROVE Growth /\ ChainInv'
    <3>1. /\ UNCHANGED <<Emitted, block>> /\ n < block /\ n > LatestExecutionHeader
          /\ LatestExecutionHeader' = n /\ ExecutionHeaders' = ExecutionHeaders \cup {n}
      BY <2>3 DEF import_execution_header, ethereumVars, Emitted
    <3>2. \A h \in ExecutionHeaders : h \in Nat /\ h <= n
      BY <1>1, <3>1, SMTT(60) DEF ChainInv
    <3>3. Nonce \in [Accounts -> Nat]
      BY <1>1 DEF ChannelInv
    <3>4. QED  BY <1>1, <1>3, <3>1, <3>2, <3>3, EmittedTypes, SMTT(60) DEF Growth, ChainInv
  <2>4. QED  BY <2>1, <2>2, <2>3 DEF Chains
<1>5. RelayTypes'
  BY <1>1, <1>2 DEF RelayTypes
<1>6. Resumable(a, LatestVerifiedBlockNumber)'
  BY <1>1, <1>3, <1>4, GrowthKeeps, SMTT(60) DEF SyncInv, ChainInv
<1>7. ASSUME NEW r \in Relays PROVE RelayInv(r, a)'
  <2>1. RelayInv(r, a) /\ \A m \in Entries(pool'[r]) : m.account \in addresses[r]
    BY <1>2 DEF SyncInv, RelayInv
  <2>2. QED  BY <1>1, <1>2, <1>4, <2>1, RelayKept
<1>8. QED  BY <1>1, <1>4, <1>5, <1>6, <1>7 DEF SyncInv

\* An extrinsic of a relay's gets into a block: the pallet is at most one message further.
LEMMA IncludeInv ==
    ASSUME NEW a \in Accounts, Serve(a), SyncInv(a), NEW r \in Relays, include(r)
    PROVE  SyncInv(a)'
<1>0. ChannelInv' /\ Nonce \in [Accounts -> Nat]
  BY NextInv DEF SyncInv, Next, ChannelInv
<1>1. ChannelInv /\ ChainInv /\ RelayTypes /\ \A q \in Relays : RelayInv(q, a)
  BY SMTT(60) DEF SyncInv
<1> DEFINE m == Head(pool[r])
<1>2. /\ inboundSubmit(m) /\ pool' = [pool EXCEPT ![r] = <<>>] /\ pool[r] # <<>>
      /\ UNCHANGED <<block, log, Emitted, ExecutionHeaders, LatestExecutionHeader,
                     lastSyncedBasicBlock, end, todo>>
      /\ pc' = [pc EXCEPT ![r] = IF pc[r] = "watch" THEN "check" ELSE pc[r]]
  BY <1>1 DEF include, ethereumVars, clientVars, Emitted, RelayTypes
<1>3. m.account = a
  <2>1. m = pool[r][1] /\ 1 \in 1 .. Len(pool[r])
    BY <1>1, <1>2, SMTT(60) DEF RelayTypes
  <2>2. m \in Entries(pool[r])
    BY <2>1 DEF Entries
  <2>3. m.account \in addresses[r]
    BY <1>1, <2>2 DEF RelayInv
  <2>4. QED  BY <2>3 DEF Serve
<1>4. /\ Growth /\ ChainInv'
      /\ Resumable(a, LatestVerifiedBlockNumber)'
  <2>1. CASE ~acceptable(m)
    <3>1. UNCHANGED <<Nonce, LatestVerifiedBlockNumber>>
      BY <1>2, <2>1 DEF inboundSubmit, palletVars
    <3>2. Growth
      BY <1>0, <1>1, <1>2, <3>1, SMTT(60) DEF Growth, ChainInv
    <3>3. ChainInv'
      BY <1>1, <1>2, <3>1 DEF ChainInv
    <3>4. Resumable(a, LatestVerifiedBlockNumber)'
      BY <1>2, <3>1 DEF SyncInv, Resumable, AcceptedBefore
    <3>5. QED  BY <3>2, <3>3, <3>4
  <2>2. CASE acceptable(m)
    <3>1. m \in Emitted /\ m.block \in ExecutionHeaders /\ m.nonce = Nonce[a] + 1
      BY <1>3, <2>2 DEF acceptable, verify
    <3>2. Nonce' = [Nonce EXCEPT ![a] = @ + 1] /\ LatestVerifiedBlockNumber' = m.block
      BY <1>2, <1>3, <2>2 DEF inboundSubmit
    <3>3. m.block \in Nat /\ m.block <= LatestExecutionHeader /\ Nonce[a] \in Nat
      BY <1>0, <1>1, <3>1 DEF ChainInv
    <3>4. Growth
      BY <1>0, <1>1, <1>2, <3>2, SMTT(60) DEF Growth, ChainInv
    <3>5. ChainInv'
      BY <1>1, <1>2, <3>2, <3>3 DEF ChainInv
    <3>6. Nonce'[a] = m.nonce /\ Nonce'[a] # 0
      BY <1>0, <3>1, <3>2, <3>3, SMTT(60)
    <3>7. AcceptedBefore(a, LatestVerifiedBlockNumber)'
      BY <1>1, <1>2, <1>3, <3>1, <3>2, <3>6 DEF AcceptedBefore, ChainInv
    <3>8. QED  BY <1>2, <3>2, <3>3, <3>4, <3>5, <3>6, <3>7 DEF Resumable
  <2>3. QED  BY <2>1, <2>2
<1>5. RelayTypes'
  BY <1>1, <1>2, SMTT(60) DEF RelayTypes
<1>6. ASSUME NEW q \in Relays PROVE RelayInv(q, a)'
  <2>1. \A n \in Entries(pool'[q]) : n.account \in addresses[q]
    <3>1. pool'[q] = pool[q] \/ Len(pool'[q]) = 0
      BY <1>1, <1>2 DEF RelayTypes
    <3>2. Entries(pool'[q]) = Entries(pool[q]) \/ Entries(pool'[q]) = {}
      BY <3>1, SMTT(60) DEF Entries
    <3>3. QED  BY <1>1, <3>2 DEF RelayInv
  <2>2. CASE pc'[q] = pc[q]
    BY <1>0, <1>1, <1>2, <1>4, <2>1, <2>2, RelayKept
  <2>3. CASE pc'[q] # pc[q]
    <3>1. q = r /\ pc[q] = "watch" /\ pc'[q] = "check"
      BY <1>1, <1>2, <2>3 DEF RelayTypes
    <3>2. end[q] \in Nat /\ LatestExecutionHeader \in Nat
      BY <1>1, SMTT(60) DEF RelayTypes, ChainInv
    <3>3. todo[q] # <<>> /\ end[q] <= LatestExecutionHeader /\ LeftTo(q, end[q], Entries(todo[q]))
      BY <1>1, <3>1 DEF RelayInv
    <3>4. LeftTo(q, end[q], Entries(todo[q]))'
      BY <1>0, <1>1, <1>2, <1>4, <3>2, <3>3, GrowthKeeps DEF Entries
    <3>5. \A n \in Entries(todo[q])' : n.account \in addresses[q]
      BY <1>1, <1>2 DEF RelayInv, Entries
    <3>6. \A n \in Entries(pool[q])' : n.account \in addresses[q]
      BY <2>1, SMTT(60) DEF Entries
    <3>7. QED  BY <1>2, <3>1, <3>3, <3>4, <3>5, <3>6 DEF RelayInv
  <2>4. QED  BY <2>2, <2>3
<1>7. QED  BY <1>0, <1>4, <1>5, <1>6, SMTT(60) DEF SyncInv

\* The relay's own steps leave the chains, and the other relays, as they are.
LEMMA RelayStep ==
    ASSUME NEW a \in Accounts, SyncInv(a), NEW r \in Relays, UNCHANGED channelVars,
           RelayTypes', RelayInv(r, a)',
           \A q \in Relays \ {r} : /\ pc'[q] = pc[q] /\ end'[q] = end[q] /\ todo'[q] = todo[q]
                                   /\ lastSyncedBasicBlock'[q] = lastSyncedBasicBlock[q]
                                   /\ pool'[q] = pool[q]
    PROVE  SyncInv(a)'
<1>1. UNCHANGED <<block, log, outNonce, Emitted, ExecutionHeaders, LatestExecutionHeader,
                  Nonce, LatestVerifiedBlockNumber, dispatched>>
  BY DEF channelVars, ethereumVars, clientVars, palletVars, Emitted
<1>2. ChannelInv /\ ChainInv /\ RelayTypes /\ \A q \in Relays : RelayInv(q, a)
  BY DEF SyncInv
<1>3. ChannelInv' /\ ChainInv'
  <2>1. ChannelInv'
    BY <1>1, <1>2, GrowthInv DEF ChannelInv, channelVars
  <2>2. ChainInv'
    BY <1>1, <1>2 DEF ChainInv
  <2>3. QED  BY <2>1, <2>2, SMTT(60)
<1>4. Growth
  <2>1. Nonce \in [Accounts -> Nat] /\ LatestExecutionHeader \in Nat
    BY <1>2 DEF ChainInv, ChannelInv
  <2>2. \A m \in Emitted' : m \in Emitted
    BY <1>1
  <2>3. Nonce' = Nonce /\ LatestExecutionHeader' = LatestExecutionHeader
    BY <1>1
  <2>4. (\A b \in Accounts : Nonce[b] <= Nonce'[b]) /\ LatestExecutionHeader <= LatestExecutionHeader'
    BY <2>1, <2>3, SMTT(60)
  <2>5. QED  BY <2>2, <2>4 DEF Growth
<1>5. Resumable(a, LatestVerifiedBlockNumber)'
  BY <1>1 DEF SyncInv, Resumable, AcceptedBefore
<1>6. ASSUME NEW q \in Relays \ {r} PROVE RelayInv(q, a)'
  <2>1. \A m \in Entries(pool'[q]) : m.account \in addresses[q]
    BY <1>2 DEF RelayInv
  <2>2. QED  BY <1>2, <1>3, <1>4, <2>1, RelayKept
<1>7. QED  BY <1>3, <1>5, <1>6 DEF SyncInv

\* writeBasicMessages begins, or goes on, with all that is left up to the block.
LEMMA WriteInv ==
    ASSUME NEW a \in Accounts, SyncInv(a), NEW r \in Relays,
           NEW messages \in Seq(Message), NEW last \in Nat,
           \A m \in Entries(messages) : m.account \in addresses[r],
           last <= LatestExecutionHeader, LeftTo(r, last, Entries(messages)),
           write(r, messages, last), UNCHANGED <<channelVars, pool>>
    PROVE  SyncInv(a)'
<1>1. RelayTypes /\ RelayInv(r, a)
  BY DEF SyncInv
<1>2. RelayTypes'
  <2>1. todo' \in [Relays -> Seq(Message)] /\ pool' \in [Relays -> Seq(Message)]
    BY <1>1 DEF RelayTypes, write
  <2>2. pc' \in [Relays -> {"down", "resume", "write", "watch", "check", "poll"}]
    BY <1>1 DEF RelayTypes, write
  <2>3. lastSyncedBasicBlock' \in [Relays -> Nat] /\ end' \in [Relays -> Nat]
    <3>1. lastSyncedBasicBlock \in [Relays -> Nat] /\ end \in [Relays -> Nat]
      BY <1>1 DEF RelayTypes
    <3>2. CASE messages = <<>>
      <4>1. /\ lastSyncedBasicBlock' = [lastSyncedBasicBlock EXCEPT ![r] = last]
            /\ end' = [end EXCEPT ![r] = 0]
        BY <3>2 DEF write
      <4>2. QED  BY <3>1, <4>1
    <3>3. CASE messages # <<>>
      <4>1. UNCHANGED lastSyncedBasicBlock /\ end' = [end EXCEPT ![r] = last]
        BY <3>3 DEF write
      <4>2. QED  BY <3>1, <4>1
    <3>4. QED  BY <3>2, <3>3
  <2>4. QED  BY <2>1, <2>2, <2>3 DEF RelayTypes
<1>3. UNCHANGED <<Emitted, LatestExecutionHeader, Nonce>>
  BY DEF channelVars, ethereumVars, clientVars, palletVars, Emitted
<1>4. todo'[r] = messages /\ Entries(todo[r])' = Entries(messages)
  <2>1. todo'[r] = messages
    BY <1>1, SMTT(60) DEF RelayTypes, write
  <2>2. QED  BY <2>1, SMTT(60) DEF Entries
<1>5. \A m \in Entries(pool[r])' : m.account \in addresses[r]
  BY <1>1 DEF RelayInv, Entries
<1>6. CASE messages = <<>>
  <2>1. pc'[r] = "poll" /\ lastSyncedBasicBlock'[r] = last
    BY <1>1, <1>6 DEF RelayTypes, write
  <2>2. Entries(messages) = {}
    BY <1>6, SMTT(60) DEF Entries
  <2>3. LeftTo(r, lastSyncedBasicBlock[r], {})'
    BY <1>3, <2>1, <2>2 DEF LeftTo
  <2>4. RelayInv(r, a)'
    BY <1>3, <1>4, <1>5, <2>1, <2>3 DEF RelayInv
  <2>5. QED  BY <1>1, <1>2, <2>4, RelayStep DEF write, RelayTypes
<1>7. CASE messages # <<>>
  <2>1. pc'[r] = "write" /\ end'[r] = last
    BY <1>1, <1>7, SMTT(60) DEF RelayTypes, write
  <2>2. LeftTo(r, end[r], Entries(todo[r]))'
    BY <1>3, <1>4, <2>1, SMTT(60) DEF LeftTo
  <2>3. RelayInv(r, a)'
    BY <1>3, <1>4, <1>5, <1>7, <2>1, <2>2 DEF RelayInv
  <2>4. QED  BY <1>1, <1>2, <2>3, RelayStep DEF write, RelayTypes
<1>8. QED  BY <1>6, <1>7

\* A process that ends leaves at most an extrinsic behind.
LEMMA TerminateInv ==
    ASSUME NEW a \in Accounts, SyncInv(a), NEW r \in Relays, terminate(r), UNCHANGED channelVars,
           pool' = pool \/ pool' = [pool EXCEPT ![r] = <<>>]
    PROVE  SyncInv(a)'
<1>1. RelayTypes /\ RelayInv(r, a)
  BY DEF SyncInv
<1>2. RelayTypes'
  <2>1. /\ todo \in [Relays -> Seq(Message)] /\ pool \in [Relays -> Seq(Message)]
        /\ <<>> \in Seq(Message) /\ todo' = [todo EXCEPT ![r] = <<>>]
    BY <1>1, SMTT(60) DEF RelayTypes, terminate
  <2>2. todo' \in [Relays -> Seq(Message)]
    BY <2>1
  <2>3. pool' \in [Relays -> Seq(Message)]
    BY <2>1
  <2>4. QED  BY <1>1, <2>2, <2>3 DEF RelayTypes, terminate
<1>3. pc'[r] = "down" /\ Len(todo'[r]) = 0 /\ (pool'[r] = pool[r] \/ Len(pool'[r]) = 0)
  BY <1>1, SMTT(60) DEF RelayTypes, terminate
<1>4. /\ Entries(todo[r])' = {}
      /\ Entries(pool[r])' = Entries(pool[r]) \/ Entries(pool[r])' = {}
  <2>1. Entries(todo[r])' = Entries(todo'[r]) /\ Entries(pool[r])' = Entries(pool'[r])
    BY SMTT(60) DEF Entries
  <2>2. QED  BY <1>3, <2>1, NoEntries, SMTT(60)
<1>5. RelayInv(r, a)'
  BY <1>1, <1>3, <1>4 DEF RelayInv
<1>6. QED  BY <1>1, <1>2, <1>5, RelayStep DEF terminate, RelayTypes

\* Start: the block the relay is to resume at is the pallet's.
LEMMA StartInv ==
    ASSUME NEW a \in Accounts, SyncInv(a), NEW r \in Relays, Start(r)
    PROVE  SyncInv(a)'
<1>1. RelayTypes /\ RelayInv(r, a) /\ LatestVerifiedBlockNumber \in Nat
  BY DEF SyncInv, ChainInv
<1>2. /\ pc' = [pc EXCEPT ![r] = "resume"] /\ end' = [end EXCEPT ![r] = LatestVerifiedBlockNumber]
      /\ UNCHANGED <<channelVars, lastSyncedBasicBlock, todo, pool>>
  BY DEF Start
<1>3. RelayTypes'
  BY <1>1, <1>2 DEF RelayTypes
<1>4. UNCHANGED <<Emitted, LatestExecutionHeader, Nonce>>
  BY <1>2 DEF channelVars, ethereumVars, clientVars, palletVars, Emitted
<1>5. Resumable(a, end[r])'
  <2>1. end'[r] = LatestVerifiedBlockNumber /\ Resumable(a, LatestVerifiedBlockNumber)
    BY <1>1, <1>2 DEF RelayTypes, SyncInv
  <2>2. QED  BY <1>4, <2>1 DEF Resumable, AcceptedBefore
<1>6. RelayInv(r, a)'
  <2>1. pc'[r] = "resume" /\ Entries(todo[r])' = Entries(todo[r])
        /\ Entries(pool[r])' = Entries(pool[r])
    BY <1>1, <1>2 DEF RelayTypes, Entries
  <2>2. QED  BY <1>1, <1>5, <2>1 DEF RelayInv
<1>7. QED  BY <1>1, <1>2, <1>3, <1>6, RelayStep DEF RelayTypes

\* syncUnprocessedBasicMessages: in the pallet's block all that is left is of an account
\* the pallet has heard of, and is sent.
LEMMA ResumeInv ==
    ASSUME NEW a \in Accounts, Serve(a), SyncInv(a), NEW r \in Relays,
           syncUnprocessedBasicMessages(r)
    PROVE  SyncInv(a)'
<1> DEFINE known == {b \in addresses[r] : Nonce[b] # 0}
           events == ProcessBasicEvents(end[r], end[r], known)
           messages == filterMessagesByLastNonces(events)
<1>1. /\ pc[r] = "resume" /\ write(r, messages, end[r])
      /\ UNCHANGED <<channelVars, pool>>
  BY DEF syncUnprocessedBasicMessages, poolVars
<1>2. ChannelInv /\ ChainInv /\ RelayTypes /\ Resumable(a, end[r]) /\ end[r] \in Nat
  BY <1>1 DEF SyncInv, RelayInv, RelayTypes
<1>3. events \in Seq(Message)
      /\ Entries(events) = EmittedBy(known, end[r], end[r])
  BY <1>2, EventsRead
<1>4. messages \in Seq(Message)
      /\ Entries(messages) = Entries(events) \cap {m \in Emitted : m.nonce > Nonce[m.account]}
  <2> HIDE DEF events
  <2> QED  BY <1>3, EventsFiltered
<1> HIDE DEF events, messages
<1>5. \A m \in Entries(messages) : m.account \in addresses[r]
  BY <1>3, <1>4 DEF EmittedBy
<1>6. LeftTo(r, end[r], Entries(messages))
  <2>1. SUFFICES ASSUME NEW m \in Emitted, m.account \in addresses[r], m.block <= end[r],
                        ~(m.nonce <= Nonce[m.account])
                 PROVE  m \in Entries(messages)
    BY DEF LeftTo
  <2>2. /\ m.account = a /\ m.block \in Nat /\ m.nonce \in Nat /\ m.block >= 1
        /\ Nonce[a] \in Nat
    <3>1. m.block \in Nat /\ m.nonce \in Nat
      BY <1>2, EmittedTypes
    <3>2. m.account = a /\ Nonce[a] \in Nat
      BY <1>2, <2>1 DEF Serve, ChannelInv
    <3>3. m.block \in 1 .. block /\ block \in Nat
      BY <1>2 DEF ChainInv, ChannelInv
    <3>4. QED  BY <3>1, <3>2, <3>3, SMTT(60)
  <2>3. m.block = end[r]
    <3>1. ~(m.block < end[r])
      BY <1>2, <2>1, <2>2 DEF Resumable, AcceptedBefore
    <3>2. QED  BY <1>2, <2>1, <2>2, <3>1, SMTT(60)
  <2>4. Nonce[a] # 0
    BY <1>2, <2>2, <2>3, SMTT(60) DEF Resumable
  <2>5. m \in Entries(events)
    <3>1. m.block \in end[r] .. end[r]
      BY <1>2, <2>3, SMTT(60)
    <3>2. m.account \in known
      BY <2>1, <2>2, <2>4
    <3>3. QED  BY <1>3, <2>1, <3>1, <3>2 DEF EmittedBy
  <2>6. m.nonce > Nonce[m.account]
    BY <2>1, <2>2, SMTT(60)
  <2>7. QED  BY <1>4, <2>1, <2>5, <2>6
<1>7. QED  BY <1>1, <1>2, <1>4, <1>5, <1>6, WriteInv DEF Resumable

\* syncBasic: up to the light client's block all that is left is in the blocks after the
\* last synced one.
LEMMA SyncBasicInv ==
    ASSUME NEW a \in Accounts, SyncInv(a), NEW r \in Relays, syncBasic(r)
    PROVE  SyncInv(a)'
<1> DEFINE messages == ProcessBasicEvents(lastSyncedBasicBlock[r] + 1, LatestExecutionHeader,
                                          addresses[r])
<1>1. /\ pc[r] = "poll" /\ write(r, messages, LatestExecutionHeader)
      /\ UNCHANGED <<channelVars, pool>>
  BY SMTT(60) DEF syncBasic, poolVars
<1>2. /\ ChannelInv /\ ChainInv /\ RelayTypes /\ LeftTo(r, lastSyncedBasicBlock[r], {})
      /\ LatestExecutionHeader \in Nat /\ lastSyncedBasicBlock[r] \in Nat
  BY <1>1 DEF SyncInv, RelayInv, RelayTypes, ChainInv
<1>3. /\ messages \in Seq(Message)
      /\ Entries(messages) = EmittedBy(addresses[r], lastSyncedBasicBlock[r] + 1,
                                       LatestExecutionHeader)
  BY <1>2, EventsRead
<1> HIDE DEF messages
<1>4. \A m \in Entries(messages) : m.account \in addresses[r]
  BY <1>3 DEF EmittedBy
<1>5. LeftTo(r, LatestExecutionHeader, Entries(messages))
  <2>1. SUFFICES ASSUME NEW m \in Emitted, m.account \in addresses[r],
                        m.block <= LatestExecutionHeader, ~(m.nonce <= Nonce[m.account])
                 PROVE  m \in Entries(messages)
    BY DEF LeftTo
  <2>2. m.block \in Nat /\ ~(m.block <= lastSyncedBasicBlock[r])
    BY <1>2, <2>1, EmittedTypes DEF LeftTo
  <2>3. m.block \in lastSyncedBasicBlock[r] + 1 .. LatestExecutionHeader
    BY <1>2, <2>1, <2>2, SMTT(60)
  <2>4. QED  BY <1>3, <2>1, <2>3 DEF EmittedBy
<1>6. LatestExecutionHeader <= LatestExecutionHeader
  BY <1>2, SMTT(60)
<1>7. QED  BY <1>1, <1>2, <1>3, <1>4, <1>5, <1>6, WriteInv

\* checkMessageVerificationResult: the message the pallet's nonce has reached is done.
LEMMA CheckInv ==
    ASSUME NEW a \in Accounts, SyncInv(a), NEW r \in Relays, checkMessageVerificationResult(r)
    PROVE  SyncInv(a)'
<1> DEFINE m == Head(todo[r])
<1>1. pc[r] = "check" /\ UNCHANGED <<channelVars, pool>>
  BY SMTT(60) DEF checkMessageVerificationResult, poolVars
<1>2. /\ ChannelInv /\ ChainInv /\ RelayTypes /\ RelayInv(r, a)
      /\ todo[r] # <<>> /\ todo[r] \in Seq(Message) /\ end[r] \in Nat
      /\ end[r] <= LatestExecutionHeader /\ LeftTo(r, end[r], Entries(todo[r]))
  BY <1>1 DEF SyncInv, RelayInv, RelayTypes
<1>3. CASE Nonce[m.account] # m.nonce
  <2>1. terminate(r)
    BY <1>3 DEF checkMessageVerificationResult
  <2>2. QED  BY <1>1, <2>1, TerminateInv
<1>4. CASE Nonce[m.account] = m.nonce
  <2>1. write(r, Tail(todo[r]), end[r])
    BY <1>4, SMTT(60) DEF checkMessageVerificationResult
  <2>2. Tail(todo[r]) \in Seq(Message) /\ Entries(todo[r]) = Entries(Tail(todo[r])) \cup {m}
    <3>1. /\ Tail(todo[r]) \in Seq(Message) /\ m = todo[r][1]
          /\ Len(todo[r]) \in Nat /\ Len(todo[r]) >= 1 /\ Len(Tail(todo[r])) = Len(todo[r]) - 1
          /\ \A i \in 1 .. Len(todo[r]) - 1 : Tail(todo[r])[i] = todo[r][i + 1]
      BY <1>2, SMTT(60)
    <3>2. \A i \in 2 .. Len(todo[r]) : i - 1 \in 1 .. Len(todo[r]) - 1 /\ Tail(todo[r])[i - 1] = todo[r][i]
      BY <3>1, SMTT(60)
    <3> HIDE DEF m
    <3>3. Entries(todo[r]) \subseteq Entries(Tail(todo[r])) \cup {m}
      <4>1. SUFFICES ASSUME NEW i \in 1 .. Len(todo[r]) PROVE todo[r][i] \in Entries(Tail(todo[r])) \cup {m}
        BY DEF Entries
      <4>2. CASE i = 1
        BY <3>1, <4>2
      <4>3. CASE i # 1
        <5>1. i - 1 \in 1 .. Len(Tail(todo[r])) /\ Tail(todo[r])[i - 1] = todo[r][i]
          BY <3>1, <3>2, <4>3, SMTT(60)
        <5>2. QED  BY <5>1 DEF Entries
      <4>4. QED  BY <4>2, <4>3
    <3>4. Entries(Tail(todo[r])) \cup {m} \subseteq Entries(todo[r])
      <4>1. m \in Entries(todo[r])
        BY <3>1, SMTT(60) DEF Entries
      <4>2. ASSUME NEW i \in 1 .. Len(Tail(todo[r])) PROVE Tail(todo[r])[i] \in Entries(todo[r])
        BY <3>1, SMTT(60) DEF Entries
      <4>3. QED  BY <4>1, <4>2 DEF Entries
    <3>5. QED  BY <3>1, <3>3, <3>4
  <2>3. \A n \in Entries(Tail(todo[r])) : n.account \in addresses[r]
    BY <1>2, <2>2 DEF RelayInv
  <2>4. LeftTo(r, end[r], Entries(Tail(todo[r])))
    <3>1. SUFFICES ASSUME NEW n \in Emitted, n.account \in addresses[r], n.block <= end[r],
                          n \notin Entries(Tail(todo[r]))
                   PROVE  n.nonce <= Nonce[n.account]
      BY DEF LeftTo
    <3>2. CASE n = m
      <4>1. n.nonce \in Nat
        BY <1>2, EmittedTypes
      <4>2. QED  BY <1>4, <3>2, <4>1, SMTT(60)
    <3>3. CASE n # m
      BY <1>2, <2>2, <3>1, <3>3 DEF LeftTo
    <3>4. QED  BY <3>2, <3>3
  <2>5. QED  BY <1>1, <1>2, <2>1, <2>2, <2>3, <2>4, WriteInv
<1>5. QED  BY <1>3, <1>4, SMTT(60)

\* WriteToParachainAndWatch: the extrinsic is the first message left, or the process ends.
LEMMA WatchInv ==
    ASSUME NEW a \in Accounts, SyncInv(a), NEW r \in Relays, WriteToParachainAndWatch(r)
    PROVE  SyncInv(a)'
<1>1. pc[r] = "write" /\ UNCHANGED channelVars
  BY DEF WriteToParachainAndWatch
<1>2. RelayTypes /\ RelayInv(r, a) /\ todo[r] # <<>> /\ todo[r] \in Seq(Message)
  BY <1>1 DEF SyncInv, RelayInv, RelayTypes
<1>3. CASE ~(pool[r] = <<>> /\ ~nonceBehind[r])
  <2>1. terminate(r) /\ pool' = pool
    BY <1>3, SMTT(60) DEF WriteToParachainAndWatch
  <2>2. QED  BY <1>1, <2>1, TerminateInv
<1>4. CASE pool[r] = <<>> /\ ~nonceBehind[r]
  <2> DEFINE m == Head(todo[r])
  <2>1. /\ pool' = [pool EXCEPT ![r] = <<m>>] /\ pc' = [pc EXCEPT ![r] = "watch"]
        /\ UNCHANGED <<lastSyncedBasicBlock, end, todo>>
    BY <1>4 DEF WriteToParachainAndWatch
  <2>2. m \in Message /\ m \in Entries(todo[r])
    <3>1. m = todo[r][1] /\ 1 \in 1 .. Len(todo[r]) /\ m \in Message
      BY <1>2, SMTT(60)
    <3>2. QED  BY <3>1 DEF Entries
  <2> HIDE DEF m
  <2>3. RelayTypes'
    <3>1. <<m>> \in Seq(Message)
      BY <2>2, SMTT(60)
    <3>2. pool' \in [Relays -> Seq(Message)]
      BY <1>2, <2>1, <3>1 DEF RelayTypes
    <3>3. QED  BY <1>2, <2>1, <3>2 DEF RelayTypes
  <2>4. Entries(pool[r])' = {m}
    <3>1. pool'[r] = <<m>>
      BY <1>2, <2>1 DEF RelayTypes
    <3>2. QED  BY <3>1, SMTT(60) DEF Entries
  <2>5. UNCHANGED <<Emitted, LatestExecutionHeader, Nonce>>
    BY <1>1, SMTT(60) DEF channelVars, ethereumVars, clientVars, palletVars, Emitted
  <2>6. /\ pc'[r] = "watch" /\ Entries(todo[r])' = Entries(todo[r])
        /\ end[r] <= LatestExecutionHeader /\ LeftTo(r, end[r], Entries(todo[r]))
    BY <1>1, <1>2, <2>1 DEF RelayTypes, RelayInv, Entries
  <2>7. LeftTo(r, end[r], Entries(todo[r]))'
    BY <2>1, <2>5, <2>6 DEF LeftTo
  <2>8. RelayInv(r, a)'
    BY <1>2, <2>1, <2>2, <2>4, <2>5, <2>6, <2>7 DEF RelayInv
  <2>9. QED  BY <1>1, <1>2, <2>1, <2>3, <2>8, RelayStep DEF RelayTypes
<1>5. QED  BY <1>3, <1>4

\* The node drops an extrinsic: the relay that watches it ends, another goes on.
LEMMA DropInv ==
    ASSUME NEW a \in Accounts, SyncInv(a), NEW r \in Relays, drop(r)
    PROVE  SyncInv(a)'
<1>1. pool' = [pool EXCEPT ![r] = <<>>] /\ UNCHANGED channelVars
  BY DEF drop
<1>2. CASE pc[r] = "watch"
  BY <1>1, <1>2, TerminateInv DEF drop
<1>3. CASE pc[r] # "watch"
  <2>1. UNCHANGED <<pc, lastSyncedBasicBlock, end, todo>>
    BY <1>3 DEF drop, relayVars
  <2>2. RelayTypes /\ RelayInv(r, a)
    BY DEF SyncInv
  <2>3. RelayTypes'
    BY <1>1, <2>1, <2>2, SMTT(60) DEF RelayTypes
  <2>4. UNCHANGED <<Emitted, LatestExecutionHeader, Nonce>>
    BY <1>1 DEF channelVars, ethereumVars, clientVars, palletVars, Emitted
  <2>5. Entries(pool[r])' = {} /\ Entries(todo[r])' = Entries(todo[r])
    <3>1. Len(pool'[r]) = 0
      BY <1>1, <2>2, SMTT(60) DEF RelayTypes
    <3>2. QED  BY <2>1, <3>1, SMTT(60) DEF Entries
  <2>6. RelayInv(r, a)'
    BY <2>1, <2>2, <2>4, <2>5 DEF RelayInv, Resumable, AcceptedBefore, LeftTo
  <2>7. QED  BY <1>1, <2>1, <2>2, <2>3, <2>6, RelayStep DEF RelayTypes
<1>4. QED  BY <1>2, <1>3

\* No step leaves behind a message of the account that the relays serve.
LEMMA NextSync ==
    ASSUME NEW a \in Accounts, Serve(a), SyncInv(a), [Next]_vars
    PROVE  SyncInv(a)'
<1>1. CASE Chains
  BY <1>1, ChainsInv
<1>2. ASSUME NEW r \in Relays, Relay(r) PROVE SyncInv(a)'
  BY <1>2, StartInv, ResumeInv, SyncBasicInv, WatchInv, CheckInv DEF Relay
<1>3. ASSUME NEW r \in Relays, include(r) PROVE SyncInv(a)'
  BY <1>3, IncludeInv
<1>4. ASSUME NEW r \in Relays, drop(r) PROVE SyncInv(a)'
  BY <1>4, DropInv
<1>5. ASSUME NEW r \in Relays, crash(r) PROVE SyncInv(a)'
  BY <1>5, TerminateInv DEF crash, poolVars
<1>6. CASE UNCHANGED vars
  <2>1. UNCHANGED <<channelVars, relayVars, poolVars>>
    BY <1>6 DEF vars
  <2>2. UNCHANGED <<pc, lastSyncedBasicBlock, end, todo, pool>>
    BY <2>1 DEF relayVars, poolVars
  <2>3. RelayTypes'
    BY <2>2 DEF SyncInv, RelayTypes
  <2>4. UNCHANGED <<Emitted, LatestExecutionHeader, Nonce, ExecutionHeaders, block,
                    LatestVerifiedBlockNumber>>
    BY <2>1 DEF channelVars, ethereumVars, clientVars, palletVars, Emitted
  <2>5. ChannelInv' /\ ChainInv' /\ Resumable(a, LatestVerifiedBlockNumber)'
    BY <2>4, NextInv DEF SyncInv, ChainInv, Resumable, AcceptedBefore
  <2>6. Growth
    <3>1. Nonce \in [Accounts -> Nat] /\ LatestExecutionHeader \in Nat
      BY SMTT(60) DEF SyncInv, ChainInv, ChannelInv
    <3>2. QED  BY <2>4, <3>1, SMTT(60) DEF Growth
  <2>7. ASSUME NEW r \in Relays PROVE RelayInv(r, a)'
    <3>1. RelayInv(r, a) /\ \A m \in Entries(pool'[r]) : m.account \in addresses[r]
      BY <2>2 DEF SyncInv, RelayInv
    <3>2. QED  BY <2>2, <2>5, <2>6, <3>1, RelayKept DEF SyncInv
  <2>8. QED  BY <2>3, <2>5, <2>7 DEF SyncInv
<1>7. QED  BY <1>1, <1>2, <1>3, <1>4, <1>5, <1>6 DEF Next

\* Where all relays serve one account, as set-env.sh configures them, a relay that polls
\* has left none of its messages behind, however many relays there are and whatever
\* crashes, drops and gaps there have been.
THEOREM PollingLeavesNothing ==
    ASSUME NEW a \in Accounts, Serve(a)
    PROVE  Spec => []SyncedIsDispatched
<1>1. Init => SyncInv(a)
  <2>1. SUFFICES ASSUME Init PROVE SyncInv(a)
    OBVIOUS
  <2>2. ChannelInv /\ Emitted = {}
    BY <2>1, InitInv, SMTT(60) DEF Init, ChannelInit, Emitted
  <2>3. ChainInv /\ Resumable(a, LatestVerifiedBlockNumber)
    BY <2>1, <2>2, SMTT(60) DEF Init, ChannelInit, ChainInv, Resumable, AcceptedBefore
  <2>4. RelayTypes
    BY <2>1, SMTT(60) DEF Init, RelayTypes
  <2>5. ASSUME NEW r \in Relays PROVE RelayInv(r, a)
    <3>1. pc[r] = "down" /\ Len(todo[r]) = 0 /\ Len(pool[r]) = 0
      BY <2>1 DEF Init
    <3>2. Entries(todo[r]) = {} /\ Entries(pool[r]) = {}
      BY <3>1, NoEntries
    <3>3. QED  BY <3>1, <3>2 DEF RelayInv
  <2>6. QED  BY <2>2, <2>3, <2>4, <2>5 DEF SyncInv
<1>2. SyncInv(a) /\ [Next]_vars => SyncInv(a)'
  BY NextSync
<1>3. SyncInv(a) => SyncedIsDispatched
  BY DEF SyncInv, RelayInv, LeftTo, SyncedIsDispatched
<1>4. QED  BY <1>1, <1>2, <1>3, PTL DEF Spec
=============================================================================

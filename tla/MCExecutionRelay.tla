-------------------------- MODULE MCExecutionRelay --------------------------
(* Two relays for one account, or one relay for two accounts. *)
EXTENDS ExecutionRelay

CONSTANTS alice, bob, r1, r2

OneAccount == {alice}
TwoAccounts == {alice, bob}
OneRelay == {r1}
TwoRelays == {r1, r2}
\* The first payload cannot be decoded, the second call is filtered, the third fails and the
\* fourth succeeds.
MixedPayloads == [id \in MessageId |->
    <<"undecodable", "filtered", "failing", "succeeding">>[((id[2] - 1) % 4) + 1]]
UndecodablePayloads == [id \in MessageId |-> "undecodable"]
\* Each relay has an account of its own, for the resume instance with TwoRelays.
OwnAccount == [r \in Relays |-> IF r = r1 THEN {alice} ELSE {bob}]
EveryAccount == [r \in Relays |-> Accounts]
=============================================================================

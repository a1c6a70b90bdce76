--------------------------- MODULE ReserveTransfer ---------------------------
(***************************************************************************)
(* reserve_transfer (pallets/xcm-support/src/lib.rs): a recipient's assets *)
(* are withdrawn, put into the account of another parachain and announced  *)
(* to it, by an XCM program that runs in a storage transaction.  The XCM   *)
(* executor works through the program one asset and one instruction after  *)
(* the other and stops at the first error, with what it did so far done.   *)
(***************************************************************************)
EXTENDS AmountsMoved

CONSTANTS
    Recipients, Parachains,
    RELAY, AssetIds,         \* the relay chain's token, which pays the fee, and the others
    MaxAmount,               \* amounts and fees are 0 .. MaxAmount
    InitialBalance,
    MaxTransfers             \* bound on the transfers

VARIABLES
    balance,                 \* account -> asset -> amount
    sent,                    \* messages for other parachains: [para_id, assets]
    events                   \* deposited events

Assets == AssetIds \cup {RELAY}

store == [balance |-> balance, sent |-> sent]

----------------------------------------------------------------------------
(* The XCM executor: every instruction yields the storage after it.        *)

withdraw_asset(s, account, asset, amount) ==
    IF s.ok /\ s.balance[account][asset] >= amount
    THEN [s EXCEPT !.balance[account][asset] = @ - amount]
    ELSE [s EXCEPT !.ok = FALSE]

deposit_asset(s, account, asset, amount) ==
    IF s.ok THEN [s EXCEPT !.balance[account][asset] = @ + amount] ELSE s

send_xcm(s, para_id, asset_id, amount, fee, routed) ==
    IF s.ok /\ routed
    THEN [s EXCEPT !.sent = Append(@, [para_id |-> para_id, asset_id |-> asset_id,
                                       amount |-> amount, fee |-> fee])]
    ELSE [s EXCEPT !.ok = FALSE]

\* WithdrawAsset, which takes the fee and the amount, and DepositReserveAsset.
execute_xcm(asset_id, recipient, amount, destination, routed) ==
    LET start == [balance |-> balance, sent |-> sent, ok |-> TRUE]
        paid == withdraw_asset(start, recipient, RELAY, destination.fee)
        withdrawn == withdraw_asset(paid, recipient, asset_id, amount)
        fee_paid == deposit_asset(withdrawn, destination.para_id, RELAY, destination.fee)
        reserved == deposit_asset(fee_paid, destination.para_id, asset_id, amount)
    IN  send_xcm(reserved, destination.para_id, asset_id, amount, destination.fee, routed)

----------------------------------------------------------------------------
(* pallets/xcm-support/src/lib.rs                                          *)

\* Mutant: what the program did before it failed is kept.
with_transaction_committed(outcome) == [balance |-> outcome.balance, sent |-> outcome.sent]

with_transaction(outcome) ==
    IF outcome.ok THEN [balance |-> outcome.balance, sent |-> outcome.sent] ELSE store

\* weighed: the weigher can weigh the program; routed: the router takes the message.
reserve_transfer_unsafe(asset_id, recipient, amount, destination, weighed, routed) ==
    IF destination.fee > 0 /\ weighed
    THEN execute_xcm(asset_id, recipient, amount, destination, routed)
    ELSE [balance |-> balance, sent |-> sent, ok |-> FALSE]

reserve_transfer(asset_id, recipient, amount, destination, weighed, routed) ==
    LET outcome == reserve_transfer_unsafe(asset_id, recipient, amount, destination,
                                           weighed, routed)
        after == with_transaction(outcome)
    IN  /\ balance' = after.balance
        /\ sent' = after.sent
        /\ events' = Append(events, [event |-> IF outcome.ok THEN "TransferSent" ELSE "TransferFailed",
                                     asset_id |-> asset_id, recipient |-> recipient, amount |-> amount,
                                     para_id |-> destination.para_id, fee |-> destination.fee])

----------------------------------------------------------------------------
TransferInit ==
    /\ balance = [a \in Recipients \cup Parachains |->
                     [c \in Assets |-> IF a \in Recipients THEN InitialBalance ELSE 0]]
    /\ sent = <<>> /\ events = <<>>

TransferNext ==
    /\ Len(events) < MaxTransfers
    /\ \E asset_id \in AssetIds, recipient \in Recipients, amount \in 0 .. MaxAmount,
          destination \in [para_id : Parachains, fee : 0 .. MaxAmount],
          weighed \in BOOLEAN, routed \in BOOLEAN :
           reserve_transfer(asset_id, recipient, amount, destination, weighed, routed)

transferVars == <<balance, sent, events>>

TransferSpec == TransferInit /\ [][TransferNext]_transferVars

\* No recipient has a parachain's account, and the fee is paid in a token of its own.
TransferAssumption ==
    /\ Recipients \cap Parachains = {} /\ RELAY \notin AssetIds
    /\ MaxAmount \in Nat /\ InitialBalance \in Nat

\* What a transfer moves of an asset.
moved(x, c) == IF c = RELAY THEN x.fee ELSE IF c = x.asset_id THEN x.amount ELSE 0

\* TransferFailed: "The transfer failed. However assets remain on the parachain", and with
\* their owner: after any sequence of transfers, failed ones in between, an owner is short
\* of exactly what the TransferSent events say, and the account of every other parachain
\* holds exactly what the messages sent to it announce.
ReservesMatch ==
    \A c \in Assets :
        /\ \A r \in Recipients :
               balance[r][c] + Sum([i \in DOMAIN events |->
                   IF events[i].event = "TransferSent" /\ events[i].recipient = r
                   THEN moved(events[i], c) ELSE 0]) = InitialBalance
        /\ \A p \in Parachains :
               balance[p][c] = Sum([i \in DOMAIN sent |->
                   IF sent[i].para_id = p THEN moved(sent[i], c) ELSE 0])
=============================================================================

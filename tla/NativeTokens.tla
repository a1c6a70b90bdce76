---------------------------- MODULE NativeTokens -----------------------------
(***************************************************************************)
(* ERC20 tokens locked for the parachain: NativeTokens.sol, the vault it   *)
(* owns (ERC20Vault.sol), and the outbound channel it submits to, with the *)
(* operators that accounts authorize there (ChannelAccess.sol).  The       *)
(* tokens are plain ones: a transfer moves the amount or reverts.  A call  *)
(* that reverts changes nothing, so it is no step.                         *)
(***************************************************************************)
EXTENDS AmountsMoved

CONSTANTS
    Users, Tokens,
    App, Vault,              \* the contracts NativeTokens and ERC20Vault
    MaxLock,                 \* amounts are 0 .. MaxLock
    Funds,                   \* what a user starts with, of each token
    MaxCalls                 \* bound on the events of App and on the messages

VARIABLES
    held,                    \* the tokens' own books: owner -> token -> amount
    balances,                \* the vault's book: token -> amount
    tokenEvents,             \* events of App
    submitted,               \* Message events of the channel: [operator, account, nonce]
    operators,               \* account -> the operators it authorized
    defaultOperators

nonce(account) == Cardinality({i \in DOMAIN submitted : submitted[i].account = account})

----------------------------------------------------------------------------
(* ChannelAccess and BasicOutboundChannel                                  *)

isOperatorFor(operator, account) ==
    operator = account \/ operator \in defaultOperators \/ operator \in operators[account]

submit(operator, account) ==
    /\ isOperatorFor(operator, account)
    /\ submitted' = Append(submitted, [operator |-> operator, account |-> account,
                                       nonce |-> nonce(account) + 1])
    /\ UNCHANGED <<operators, defaultOperators>>

authorizeOperator(account, operator) ==
    /\ account # operator
    /\ operators' = [operators EXCEPT ![account] = @ \cup {operator}]
    /\ UNCHANGED <<held, balances, tokenEvents, submitted, defaultOperators>>

revokeOperator(account, operator) ==
    /\ account # operator
    /\ operators' = [operators EXCEPT ![account] = @ \ {operator}]
    /\ UNCHANGED <<held, balances, tokenEvents, submitted, defaultOperators>>

authorizeDefaultOperator(operator) ==
    /\ defaultOperators' = defaultOperators \cup {operator}
    /\ UNCHANGED <<held, balances, tokenEvents, submitted, operators>>

revokeDefaultOperator(operator) ==
    /\ defaultOperators' = defaultOperators \ {operator}
    /\ UNCHANGED <<held, balances, tokenEvents, submitted, operators>>

----------------------------------------------------------------------------
(* ERC20Vault                                                              *)

safeTransfer(from, to, token, amount) ==
    /\ held[from][token] >= amount
    /\ held' = [[held EXCEPT ![from][token] = @ - amount] EXCEPT ![to][token] = @ + amount]

deposit(sender, token, amount) ==
    /\ balances' = [balances EXCEPT ![token] = @ + amount]
    /\ safeTransfer(sender, Vault, token, amount)

\* Mutant: the vault relies on what it holds.
withdraw_held(recipient, token, amount) ==
    /\ balances' = [balances EXCEPT ![token] = IF amount > @ THEN 0 ELSE @ - amount]
    /\ safeTransfer(Vault, recipient, token, amount)

withdraw(recipient, token, amount) ==
    /\ amount <= balances[token]
    /\ balances' = [balances EXCEPT ![token] = @ - amount]
    /\ safeTransfer(Vault, recipient, token, amount)

----------------------------------------------------------------------------
(* NativeTokens                                                            *)

emit(event, token, account, amount) ==
    tokenEvents' = Append(tokenEvents, [event |-> event, token |-> token,
                                        account |-> account, amount |-> amount])

lock(sender, token, amount) ==
    /\ amount # 0
    /\ deposit(sender, token, amount)
    /\ emit("Locked", token, sender, amount)
    /\ submit(App, sender)

create(sender, token) ==
    /\ emit("Created", token, sender, 0)
    /\ submit(App, sender)
    /\ UNCHANGED <<held, balances>>

\* Called by the owner with a message of allowedOrigin.
doUnlock(token, recipient, amount) ==
    /\ emit("Unlocked", token, recipient, amount)
    /\ IF amount > 0 THEN withdraw(recipient, token, amount) ELSE UNCHANGED <<held, balances>>
    /\ UNCHANGED <<submitted, operators, defaultOperators>>

\* A user transfers tokens to the vault's address.
transferToVault(user, token, amount) ==
    /\ amount > 0
    /\ safeTransfer(user, Vault, token, amount)
    /\ UNCHANGED <<balances, tokenEvents, submitted, operators, defaultOperators>>

\* A user submits to the channel without App.
submitDirectly(user) ==
    /\ submit(user, user)
    /\ UNCHANGED <<held, balances, tokenEvents>>

----------------------------------------------------------------------------
TokenInit ==
    /\ held = [o \in Users \cup {Vault} |-> [t \in Tokens |-> IF o = Vault THEN 0 ELSE Funds]]
    /\ balances = [t \in Tokens |-> 0]
    /\ tokenEvents = <<>> /\ submitted = <<>>
    /\ operators = [u \in Users |-> {}] /\ defaultOperators = {App}

TokenNext ==
    \/ /\ Len(tokenEvents) < MaxCalls /\ Len(submitted) < MaxCalls
       /\ \E u \in Users, t \in Tokens :
              \/ create(u, t)
              \/ \E amount \in 0 .. MaxLock : lock(u, t, amount) \/ doUnlock(t, u, amount)
              \/ submitDirectly(u)
    \/ \E u \in Users : authorizeOperator(u, App) \/ revokeOperator(u, App)
    \/ authorizeDefaultOperator(App) \/ revokeDefaultOperator(App)
    \/ \E u \in Users, t \in Tokens, amount \in 0 .. MaxLock : transferToVault(u, t, amount)

tokenVars == <<held, balances, tokenEvents, submitted, operators, defaultOperators>>

TokenSpec == TokenInit /\ [][TokenNext]_tokenVars

\* The two contracts are not users, and amounts are natural numbers.
TokenAssumption ==
    /\ App \notin Users /\ Vault \notin Users
    /\ MaxLock \in Nat /\ Funds \in Nat

\* What the events of a kind say was moved of a token.
Total(event, token) ==
    Sum([i \in DOMAIN tokenEvents |->
            IF tokenEvents[i].event = event /\ tokenEvents[i].token = token
            THEN tokenEvents[i].amount ELSE 0])

\* Whoever may submit at the time, and whatever is sent to the vault directly: the vault's
\* book of a token is what the Locked events put in less what the Unlocked ones took out,
\* it is covered by tokens, and every Locked or Created event of an account stands for one
\* message of App to the parachain in the account's name.
VaultMatches ==
    /\ \A t \in Tokens :
        /\ balances[t] + Total("Unlocked", t) = Total("Locked", t)
        /\ held[Vault][t] >= balances[t]
    /\ \A u \in Users :
        Cardinality({i \in DOMAIN tokenEvents :
                        tokenEvents[i].account = u /\ tokenEvents[i].event # "Unlocked"})
            = Cardinality({i \in DOMAIN submitted :
                              submitted[i].account = u /\ submitted[i].operator = App})
=============================================================================

---------------------------- MODULE Ledger_proofs ----------------------------
(***************************************************************************)
(* The books of the bridge's assets, for any number of users, tokens,      *)
(* parachains and calls: the vault on Ethereum (NativeTokens) and the      *)
(* reserves on the parachain (ReserveTransfer).                            *)
(***************************************************************************)
EXTENDS NativeTokens, ReserveTransfer, FiniteSetTheorems, TLAPS

\* Leaves are for Zenon; SMTT marks those that need arithmetic, sequences or records. A prover
\* may work a minute on a leaf, so that a busy machine checks the same proofs: few take seconds.
USE ZenonT(60)

----------------------------------------------------------------------------
(* Sums and counts                                                         *)

\* A sequence of amounts stands for finitely many units.
LEMMA UnitsAreFinite ==
    ASSUME NEW s \in Seq(Nat)
    PROVE  IsFiniteSet(Units(s)) /\ Sum(s) \in Nat
<1> DEFINE T == {{i} \X (1 .. s[i]) : i \in DOMAIN s}
           f == [i \in DOMAIN s |-> {i} \X (1 .. s[i])]
<1>1. IsFiniteSet(DOMAIN s)
  <2>1. DOMAIN s = 1 .. Len(s) /\ 1 \in Int /\ Len(s) \in Int
    BY SMTT(60)
  <2>2. QED  BY <2>1, FS_Interval
<1>2. f \in Surjection(DOMAIN s, T)
  BY DEF Surjection
<1>3. IsFiniteSet(T)
  <2> HIDE DEF f, T
  <2> QED  BY <1>1, <1>2, FS_Surjection
<1>4. ASSUME NEW i \in DOMAIN s PROVE IsFiniteSet({i} \X (1 .. s[i]))
  <2>1. s[i] \in Int /\ 1 \in Int
    BY SMTT(60)
  <2>2. IsFiniteSet(1 .. s[i]) /\ IsFiniteSet({i})
    BY <2>1, FS_Interval, FS_Singleton
  <2>3. QED  BY <2>2, FS_Product
<1>5. IsFiniteSet(UNION T)
  <2>1. \A t \in T : IsFiniteSet(t)
    BY <1>4
  <2> HIDE DEF T
  <2>2. QED  BY <1>3, <2>1, FS_UNION
<1>6. QED  BY <1>5, FS_CardinalityType DEF Units, Sum

\* A further amount adds to the sum.
LEMMA SumGrows ==
    ASSUME NEW s \in Seq(Nat), NEW t \in Seq(Nat), Len(t) = Len(s) + 1,
           \A i \in 1 .. Len(s) : t[i] = s[i]
    PROVE  Sum(t) = Sum(s) + t[Len(t)]
<1> DEFINE n == Len(t)
           new == {n} \X (1 .. t[n])
<1>1. n \in Nat /\ n \in DOMAIN t /\ t[n] \in Nat /\ n \notin DOMAIN s
  BY SMTT(60)
<1>2. Units(t) = Units(s) \cup new
  <2>1. DOMAIN s = 1 .. Len(s) /\ DOMAIN t = 1 .. n /\ Len(s) \in Nat
    BY SMTT(60)
  <2>2. 1 .. (Len(s) + 1) = 1 .. Len(s) \cup {Len(s) + 1}
    BY <2>1, SMTT(60)
  <2>3. DOMAIN t = DOMAIN s \cup {n} /\ \A i \in DOMAIN s : t[i] = s[i]
    BY <2>1, <2>2
  <2> HIDE DEF n
  <2>4. QED  BY <2>3, SMTT(60) DEF Units
<1>3. Units(s) \cap new = {}
  <2> HIDE DEF n
  <2> QED  BY <1>1, SMTT(60) DEF Units
<1>4. IsFiniteSet(new) /\ Cardinality(new) = t[n]
  <2>1. IsFiniteSet(1 .. t[n]) /\ Cardinality(1 .. t[n]) = t[n]
    <3>1. t[n] \in Int /\ 1 \in Int
      BY <1>1, SMTT(60)
    <3>2. /\ IsFiniteSet(1 .. t[n])
          /\ Cardinality(1 .. t[n]) = IF 1 > t[n] THEN 0 ELSE t[n] - 1 + 1
      BY <3>1, FS_Interval
    <3>3. QED  BY <1>1, <3>2, SMTT(60)
  <2>2. IsFiniteSet({n}) /\ Cardinality({n}) = 1
    BY FS_Singleton
  <2> HIDE DEF n
  <2>3. /\ IsFiniteSet({n} \X (1 .. t[n]))
        /\ Cardinality({n} \X (1 .. t[n])) = Cardinality({n}) * Cardinality(1 .. t[n])
    BY <2>1, <2>2, FS_Product
  <2>4. Cardinality(new) = 1 * t[n]
    BY <2>1, <2>2, <2>3
  <2>5. QED  BY <1>1, <2>3, <2>4, SMTT(60)
<1>5. QED
  <2> HIDE DEF n, new
  <2>1. IsFiniteSet(Units(s)) /\ Cardinality(Units(s)) \in Nat
    BY UnitsAreFinite DEF Sum
  <2>2. Cardinality(Units(t)) =
            Cardinality(Units(s)) + Cardinality(new) - Cardinality(Units(s) \cap new)
    BY <1>2, <1>4, <2>1, FS_Union
  <2>3. Cardinality(Units(s) \cap new) = 0
    BY <1>3, FS_EmptySet
  <2>4. QED  BY <1>1, <1>4, <2>1, <2>2, <2>3, SMTT(60) DEF Sum, n

\* The sum of the amounts that a gives to the entries of a log.
Tally(s, a) == Sum([i \in DOMAIN s |-> a[s[i]]])

\* An entry that is added to a log adds its amount.
LEMMA EntryAdds ==
    ASSUME NEW M, NEW s \in Seq(M), NEW x \in M, NEW a \in [M -> Nat]
    PROVE  Tally(s, a) \in Nat /\ Tally(Append(s, x), a) = Tally(s, a) + a[x]
<1> DEFINE t == Append(s, x)
           old == [i \in DOMAIN s |-> a[s[i]]]
           new == [i \in DOMAIN t |-> a[t[i]]]
<1>1. /\ t \in Seq(M) /\ Len(t) = Len(s) + 1 /\ t[Len(t)] = x
      /\ \A i \in 1 .. Len(s) : t[i] = s[i]
  BY SMTT(60)
<1>2. old \in Seq(Nat) /\ Len(old) = Len(s)
  BY SMTT(60)
<1>3. new \in Seq(Nat) /\ Len(new) = Len(t)
  <2> HIDE DEF t
  <2> QED  BY <1>1, SMTT(60)
<1>4. new[Len(new)] = a[x] /\ \A i \in 1 .. Len(s) : new[i] = old[i]
  <2> HIDE DEF t
  <2> QED  BY <1>1, <1>3, SMTT(60)
<1>5. Sum(old) \in Nat
  <2> HIDE DEF old
  <2> QED  BY <1>2, UnitsAreFinite
<1>6. Sum(new) = Sum(old) + a[x]
  <2> HIDE DEF t, old, new
  <2>1. Len(new) = Len(old) + 1 /\ \A i \in 1 .. Len(old) : new[i] = old[i]
    BY <1>1, <1>2, <1>3, <1>4
  <2>2. Sum(new) = Sum(old) + new[Len(new)]
    BY <1>2, <1>3, <2>1, SumGrows
  <2>3. QED  BY <1>4, <2>2
<1>7. QED  BY <1>5, <1>6 DEF Tally

\* How many entries of a log are in the set.
Count(s, S) == Cardinality({i \in DOMAIN s : s[i] \in S})

\* An entry that is added to a log counts if it is in the set.
LEMMA EntryCounts ==
    ASSUME NEW M, NEW s \in Seq(M), NEW x \in M, NEW S
    PROVE  /\ Count(s, S) \in Nat
           /\ Count(Append(s, x), S) = Count(s, S) + (IF x \in S THEN 1 ELSE 0)
<1> DEFINE t == Append(s, x)
           n == Len(s) + 1
           old == {i \in DOMAIN s : s[i] \in S}
           new == {i \in DOMAIN t : t[i] \in S}
<1>1. /\ t \in Seq(M) /\ DOMAIN t = DOMAIN s \cup {n} /\ t[n] = x /\ n \notin DOMAIN s
      /\ \A i \in DOMAIN s : t[i] = s[i]
  BY SMTT(60)
<1>2. IsFiniteSet(old)
  <2>1. DOMAIN s = 1 .. Len(s) /\ 1 \in Int /\ Len(s) \in Int
    BY SMTT(60)
  <2>2. IsFiniteSet(DOMAIN s) /\ old \in SUBSET DOMAIN s
    BY <2>1, FS_Interval
  <2> HIDE DEF old
  <2>3. QED  BY <2>2, FS_Subset
<1>3. Cardinality(old) \in Nat
  BY <1>2, FS_CardinalityType
<1>4. CASE x \in S
  <2>1. new = old \cup {n} /\ n \notin old
    <3> HIDE DEF t, n
    <3> QED  BY <1>1, <1>4
  <2> HIDE DEF old, new, n
  <2>2. Cardinality(new) = Cardinality(old) + 1
    BY <1>2, <2>1, FS_AddElement
  <2>3. QED  BY <1>3, <1>4, <2>2 DEF old, new, Count
<1>5. CASE x \notin S
  <2>1. new = old
    <3> HIDE DEF t, n
    <3> QED  BY <1>1, <1>5
  <2> HIDE DEF old, new
  <2>2. Cardinality(new) = Cardinality(old) + 0
    BY <1>3, <2>1, SMTT(60)
  <2>3. QED  BY <1>3, <1>5, <2>2 DEF old, new, Count
<1>6. QED  BY <1>4, <1>5

----------------------------------------------------------------------------
(* The vault                                                               *)

Event == [event : {"Locked", "Created", "Unlocked"}, token : Tokens, account : Users, amount : Nat]

Submission == [operator : Users \cup {App}, account : Users, nonce : Nat]

\* The messages that App's events of an account announce, and App's messages in its name.
Announced(u) ==
    Cardinality({i \in DOMAIN tokenEvents :
                    tokenEvents[i].account = u /\ tokenEvents[i].event # "Unlocked"})

Messages(u) ==
    Cardinality({i \in DOMAIN submitted :
                    submitted[i].account = u /\ submitted[i].operator = App})

\* The books of the vault and of the tokens have their types.
VaultTypes ==
    /\ held \in [Users \cup {Vault} -> [Tokens -> Nat]]
    /\ balances \in [Tokens -> Nat]
    /\ tokenEvents \in Seq(Event)
    /\ submitted \in Seq(Submission)

VaultInv == VaultTypes /\ VaultMatches

\* An event of App adds its amount to the total of its kind and token.
LEMMA Emits ==
    ASSUME VaultTypes, NEW e \in Event, tokenEvents' = Append(tokenEvents, e)
    PROVE  /\ tokenEvents' \in Seq(Event)
           /\ \A k, t : /\ Total(k, t) \in Nat
                        /\ Total(k, t)' = Total(k, t)
                               + (IF e.event = k /\ e.token = t THEN e.amount ELSE 0)
           /\ \A u : /\ Announced(u) \in Nat
                     /\ Announced(u)' = Announced(u)
                            + (IF e.account = u /\ e.event # "Unlocked" THEN 1 ELSE 0)
<1>1. tokenEvents \in Seq(Event) /\ tokenEvents' \in Seq(Event)
  BY SMTT(60) DEF VaultTypes
<1>2. ASSUME NEW k, NEW t
      PROVE  /\ Total(k, t) \in Nat
             /\ Total(k, t)' = Total(k, t)
                    + (IF e.event = k /\ e.token = t THEN e.amount ELSE 0)
  <2> DEFINE a == [x \in Event |-> IF x.event = k /\ x.token = t THEN x.amount ELSE 0]
  <2>1. a \in [Event -> Nat]
    BY DEF Event
  <2>2. a[e] = IF e.event = k /\ e.token = t THEN e.amount ELSE 0
    OBVIOUS
  <2>3. \A s \in Seq(Event) : \A i \in DOMAIN s :
            a[s[i]] = IF s[i].event = k /\ s[i].token = t THEN s[i].amount ELSE 0
    BY SMTT(60)
  <2> HIDE DEF a
  <2>4. Total(k, t) = Tally(tokenEvents, a) /\ Total(k, t)' = Tally(tokenEvents', a)
    BY <1>1, <2>3 DEF Total, Tally
  <2>5. QED  BY <1>1, <2>1, <2>2, <2>4, EntryAdds, SMTT(60)
<1>3. ASSUME NEW u
      PROVE  /\ Announced(u) \in Nat
             /\ Announced(u)' = Announced(u)
                    + (IF e.account = u /\ e.event # "Unlocked" THEN 1 ELSE 0)
  <2> DEFINE S == {x \in Event : x.account = u /\ x.event # "Unlocked"}
  <2>1. e \in S <=> e.account = u /\ e.event # "Unlocked"
    OBVIOUS
  <2>2. \A s \in Seq(Event) : Count(s, S) =
            Cardinality({i \in DOMAIN s : s[i].account = u /\ s[i].event # "Unlocked"})
    <3>1. \A s \in Seq(Event) : {i \in DOMAIN s : s[i] \in S} =
              {i \in DOMAIN s : s[i].account = u /\ s[i].event # "Unlocked"}
      BY SMTT(60)
    <3> HIDE DEF S
    <3>2. QED  BY <3>1 DEF Count
  <2>3. Announced(u) = Count(tokenEvents, S) /\ Announced(u)' = Count(tokenEvents', S)
    <3> HIDE DEF S
    <3> QED  BY <1>1, <2>2 DEF Announced
  <2> HIDE DEF S
  <2>4. QED  BY <1>1, <2>1, <2>3, EntryCounts, SMTT(60)
<1>4. QED  BY <1>1, <1>2, <1>3

\* submit takes the message of an operator.
LEMMA Submits ==
    ASSUME VaultTypes, NEW o \in Users \cup {App}, NEW a \in Users, submit(o, a)
    PROVE  /\ submitted' \in Seq(Submission)
           /\ \A u : /\ Messages(u) \in Nat
                     /\ Messages(u)' = Messages(u) + (IF a = u /\ o = App THEN 1 ELSE 0)
<1> DEFINE new == [operator |-> o, account |-> a, nonce |-> nonce(a) + 1]
<1>1. submitted \in Seq(Submission) /\ submitted' = Append(submitted, new)
  BY DEF VaultTypes, submit
<1>2. nonce(a) \in Nat
  <2> DEFINE S == {x \in Submission : x.account = a}
             x0 == [operator |-> o, account |-> a, nonce |-> 0]
  <2>1. {i \in DOMAIN submitted : submitted[i] \in S} =
            {i \in DOMAIN submitted : submitted[i].account = a}
    BY <1>1, SMTT(60)
  <2>2. x0 \in Submission
    BY DEF Submission
  <2> HIDE DEF S, x0
  <2>3. Count(submitted, S) \in Nat
    BY <1>1, <2>2, EntryCounts
  <2>4. QED  BY <2>1, <2>3 DEF Count, nonce
<1>3. new \in Submission
  BY <1>2, SMTT(60) DEF Submission
<1>4. submitted' \in Seq(Submission)
  BY <1>1, <1>3, SMTT(60)
<1>5. ASSUME NEW u
      PROVE  /\ Messages(u) \in Nat
             /\ Messages(u)' = Messages(u) + (IF a = u /\ o = App THEN 1 ELSE 0)
  <2> DEFINE S == {x \in Submission : x.account = u /\ x.operator = App}
  <2>1. new \in S <=> a = u /\ o = App
    BY <1>3
  <2>2. \A s \in Seq(Submission) : {i \in DOMAIN s : s[i] \in S} =
            {i \in DOMAIN s : s[i].account = u /\ s[i].operator = App}
    BY SMTT(60)
  <2> HIDE DEF S, new
  <2>3. Messages(u) = Count(submitted, S) /\ Messages(u)' = Count(submitted', S)
    BY <1>1, <1>4, <2>2 DEF Count, Messages
  <2>4. QED  BY <1>1, <1>3, <2>1, <2>3, EntryCounts, SMTT(60)
<1>6. QED  BY <1>4, <1>5

\* A transfer to or from the vault moves the amount.
LEMMA Transfers ==
    ASSUME VaultTypes, NEW from \in Users \cup {Vault}, NEW to \in Users \cup {Vault},
           from # to, NEW t \in Tokens, NEW amount \in Nat, safeTransfer(from, to, t, amount)
    PROVE  /\ held' \in [Users \cup {Vault} -> [Tokens -> Nat]]
           /\ \A c \in Tokens : c # t => held'[Vault][c] = held[Vault][c]
           /\ from = Vault => held'[Vault][t] = held[Vault][t] - amount
           /\ to = Vault => held'[Vault][t] = held[Vault][t] + amount
<1> DEFINE mid == [held EXCEPT ![from][t] = @ - amount]
<1>1. held \in [Users \cup {Vault} -> [Tokens -> Nat]] /\ held[from][t] >= amount
  BY DEF VaultTypes, safeTransfer
<1>2. held' = [mid EXCEPT ![to][t] = @ + amount]
  BY DEF safeTransfer
<1>3. mid \in [Users \cup {Vault} -> [Tokens -> Nat]]
  BY <1>1, SMTT(60)
<1>4. /\ \A c \in Tokens : c # t => mid[Vault][c] = held[Vault][c]
      /\ mid[Vault][t] = IF from = Vault THEN held[Vault][t] - amount ELSE held[Vault][t]
  BY <1>1
<1> HIDE DEF mid
<1>5. held' \in [Users \cup {Vault} -> [Tokens -> Nat]]
  BY <1>2, <1>3, SMTT(60)
<1>6. /\ \A c \in Tokens : c # t => held'[Vault][c] = mid[Vault][c]
      /\ held'[Vault][t] = IF to = Vault THEN mid[Vault][t] + amount ELSE mid[Vault][t]
  BY <1>2, <1>3
<1>7. QED  BY <1>4, <1>5, <1>6

\* The conjuncts of VaultMatches.
LEMMA Matches ==
    VaultMatches <=> /\ \A t \in Tokens : /\ balances[t] + Total("Unlocked", t) = Total("Locked", t)
                                          /\ held[Vault][t] >= balances[t]
                     /\ \A u \in Users : Announced(u) = Messages(u)
  BY DEF VaultMatches, Announced, Messages

\* lock: the amount is added to the book, to what the vault holds and to the Locked events,
\* and a message of App goes out.
LEMMA LockInv ==
    ASSUME TokenAssumption, VaultInv, NEW u \in Users, NEW t \in Tokens, NEW amount \in 0 .. MaxLock,
           lock(u, t, amount)
    PROVE  VaultInv'
<1> DEFINE e == [event |-> "Locked", token |-> t, account |-> u, amount |-> amount]
<1>1. amount \in Nat /\ u # Vault /\ VaultTypes
  BY SMTT(60) DEF TokenAssumption, VaultInv
<1>2. e \in Event /\ tokenEvents' = Append(tokenEvents, e)
  BY <1>1 DEF lock, emit, Event
<1>3. /\ tokenEvents' \in Seq(Event)
      /\ \A c \in Tokens : /\ Total("Unlocked", c) \in Nat /\ Total("Unlocked", c)' = Total("Unlocked", c)
                           /\ Total("Locked", c) \in Nat
                           /\ Total("Locked", c)' = Total("Locked", c) + (IF c = t THEN amount ELSE 0)
      /\ \A v \in Users : Announced(v) \in Nat /\ Announced(v)' = Announced(v) + (IF v = u THEN 1 ELSE 0)
  <2>1. e.event = "Locked" /\ e.token = t /\ e.account = u /\ e.amount = amount
    OBVIOUS
  <2> HIDE DEF e
  <2>2. QED  BY <1>1, <1>2, <2>1, Emits, SMTT(60)
<1>4. /\ submitted' \in Seq(Submission)
      /\ \A v \in Users : Messages(v) \in Nat /\ Messages(v)' = Messages(v) + (IF v = u THEN 1 ELSE 0)
  <2>1. App \in Users \cup {App} /\ submit(App, u)
    BY DEF lock
  <2>2. QED  BY <1>1, <2>1, Submits
<1>5. /\ held' \in [Users \cup {Vault} -> [Tokens -> Nat]]
      /\ \A c \in Tokens : c # t => held'[Vault][c] = held[Vault][c]
      /\ held'[Vault][t] = held[Vault][t] + amount
  <2>1. safeTransfer(u, Vault, t, amount)
    BY DEF lock, deposit
  <2>2. u \in Users \cup {Vault} /\ Vault \in Users \cup {Vault}
    OBVIOUS
  <2>3. /\ held' \in [Users \cup {Vault} -> [Tokens -> Nat]]
        /\ \A c \in Tokens : c # t => held'[Vault][c] = held[Vault][c]
        /\ u = Vault => held'[Vault][t] = held[Vault][t] - amount
        /\ Vault = Vault => held'[Vault][t] = held[Vault][t] + amount
    BY <1>1, <2>1, <2>2, Transfers
  <2>4. QED  BY <1>1, <2>3
<1>6. /\ balances' \in [Tokens -> Nat]
      /\ \A c \in Tokens : c # t => balances'[c] = balances[c]
      /\ balances'[t] = balances[t] + amount
  BY <1>1, SMTT(60) DEF lock, deposit, VaultTypes
<1>7. VaultMatches'
  <2>1. \A c \in Tokens : /\ balances[c] \in Nat /\ held[Vault][c] \in Nat
                          /\ balances[c] + Total("Unlocked", c) = Total("Locked", c)
                          /\ held[Vault][c] >= balances[c]
    BY Matches DEF VaultInv, VaultTypes
  <2>2. ASSUME NEW c \in Tokens
        PROVE  /\ balances'[c] + Total("Unlocked", c)' = Total("Locked", c)'
               /\ held'[Vault][c] >= balances'[c]
    <3>0. /\ Total("Unlocked", c) \in Nat /\ Total("Locked", c) \in Nat
          /\ Total("Unlocked", c)' = Total("Unlocked", c)
      BY <1>3
    <3>1. CASE c = t
      <4>1. Total("Locked", c)' = Total("Locked", c) + amount
        BY <1>3, <3>1
      <4>2. balances'[c] = balances[c] + amount /\ held'[Vault][c] = held[Vault][c] + amount
        BY <1>5, <1>6, <3>1
      <4>3. QED  BY <1>1, <2>1, <3>0, <4>1, <4>2, SMTT(60)
    <3>2. CASE c # t
      <4>1. Total("Locked", c)' = Total("Locked", c) + 0
        BY <1>3, <3>2
      <4>2. balances'[c] = balances[c] /\ held'[Vault][c] = held[Vault][c]
        BY <1>5, <1>6, <3>2
      <4>3. QED  BY <2>1, <3>0, <4>1, <4>2, SMTT(60)
    <3>3. QED  BY <3>1, <3>2
  <2>3. \A v \in Users : Announced(v)' = Messages(v)'
    BY <1>3, <1>4, Matches DEF VaultInv
  <2>4. QED  BY <2>2, <2>3 DEF VaultMatches, Announced, Messages
<1>8. QED  BY <1>3, <1>4, <1>5, <1>6, <1>7 DEF VaultInv, VaultTypes

\* create: an event and a message, and no tokens.
LEMMA CreateInv ==
    ASSUME VaultInv, NEW u \in Users, NEW t \in Tokens, create(u, t)
    PROVE  VaultInv'
<1> DEFINE e == [event |-> "Created", token |-> t, account |-> u, amount |-> 0]
<1>1. VaultTypes /\ UNCHANGED <<held, balances>> /\ submit(App, u) /\ App \in Users \cup {App}
  BY DEF VaultInv, create
<1>2. e \in Event /\ tokenEvents' = Append(tokenEvents, e)
  BY DEF create, emit, Event
<1>3. /\ tokenEvents' \in Seq(Event)
      /\ \A k \in {"Locked", "Unlocked"}, c \in Tokens :
             Total(k, c) \in Nat /\ Total(k, c)' = Total(k, c) + 0
      /\ \A v \in Users : Announced(v) \in Nat /\ Announced(v)' = Announced(v) + (IF v = u THEN 1 ELSE 0)
  <2>1. e.event = "Created" /\ e.account = u
    OBVIOUS
  <2> HIDE DEF e
  <2>2. QED  BY <1>1, <1>2, <2>1, Emits
<1>4. /\ submitted' \in Seq(Submission)
      /\ \A v \in Users : Messages(v) \in Nat /\ Messages(v)' = Messages(v) + (IF v = u THEN 1 ELSE 0)
  BY <1>1, Submits
<1>5. VaultMatches'
  <2>1. \A c \in Tokens : /\ balances[c] + Total("Unlocked", c) = Total("Locked", c)
                          /\ held[Vault][c] >= balances[c]
    BY Matches DEF VaultInv
  <2>2. \A k \in {"Locked", "Unlocked"}, c \in Tokens : Total(k, c)' = Total(k, c)
    BY <1>3, SMTT(60)
  <2>3. \A c \in Tokens : /\ balances'[c] + Total("Unlocked", c)' = Total("Locked", c)'
                          /\ held'[Vault][c] >= balances'[c]
    BY <1>1, <2>1, <2>2
  <2>4. \A v \in Users : Announced(v)' = Messages(v)'
    BY <1>3, <1>4, Matches DEF VaultInv
  <2>5. QED  BY <2>3, <2>4 DEF VaultMatches, Announced, Messages
<1>6. QED  BY <1>1, <1>3, <1>4, <1>5 DEF VaultInv, VaultTypes

\* doUnlock: the amount is taken from the book, which covers it, and from what the vault
\* holds.
LEMMA UnlockInv ==
    ASSUME TokenAssumption, VaultInv, NEW u \in Users, NEW t \in Tokens, NEW amount \in 0 .. MaxLock,
           doUnlock(t, u, amount)
    PROVE  VaultInv'
<1> DEFINE e == [event |-> "Unlocked", token |-> t, account |-> u, amount |-> amount]
<1>1. amount \in Nat /\ u # Vault /\ VaultTypes /\ UNCHANGED submitted
  BY SMTT(60) DEF TokenAssumption, VaultInv, doUnlock
<1>2. e \in Event /\ tokenEvents' = Append(tokenEvents, e)
  BY <1>1 DEF doUnlock, emit, Event
<1>3. /\ tokenEvents' \in Seq(Event)
      /\ \A c \in Tokens : /\ Total("Locked", c) \in Nat /\ Total("Locked", c)' = Total("Locked", c)
                           /\ Total("Unlocked", c) \in Nat
                           /\ Total("Unlocked", c)' = Total("Unlocked", c) + (IF c = t THEN amount ELSE 0)
      /\ \A v \in Users : Announced(v) \in Nat /\ Announced(v)' = Announced(v)
  <2>1. e.event = "Unlocked" /\ e.token = t /\ e.account = u /\ e.amount = amount
    OBVIOUS
  <2> HIDE DEF e
  <2>2. QED  BY <1>1, <1>2, <2>1, Emits, SMTT(60)
<1>4. \A c \in Tokens : balances[c] \in Nat /\ held[Vault][c] \in Nat
  BY <1>1 DEF VaultTypes
<1>5. /\ held' \in [Users \cup {Vault} -> [Tokens -> Nat]] /\ balances' \in [Tokens -> Nat]
      /\ \A c \in Tokens : c # t => held'[Vault][c] = held[Vault][c] /\ balances'[c] = balances[c]
      /\ held'[Vault][t] = held[Vault][t] - amount
      /\ balances'[t] = balances[t] - amount
  <2>1. CASE amount > 0
    <3>1. /\ amount <= balances[t] /\ balances' = [balances EXCEPT ![t] = @ - amount]
          /\ safeTransfer(Vault, u, t, amount)
      BY <2>1 DEF doUnlock, withdraw
    <3>2. u \in Users \cup {Vault} /\ Vault \in Users \cup {Vault}
      OBVIOUS
    <3>3. /\ held' \in [Users \cup {Vault} -> [Tokens -> Nat]]
          /\ \A c \in Tokens : c # t => held'[Vault][c] = held[Vault][c]
          /\ Vault = Vault => held'[Vault][t] = held[Vault][t] - amount
          /\ u = Vault => held'[Vault][t] = held[Vault][t] + amount
      BY <1>1, <3>1, <3>2, Transfers
    <3>4. /\ balances' \in [Tokens -> Nat] /\ balances'[t] = balances[t] - amount
          /\ \A c \in Tokens : c # t => balances'[c] = balances[c]
      BY <1>1, <3>1, SMTT(60) DEF VaultTypes
    <3>5. QED  BY <3>3, <3>4
  <2>2. CASE ~(amount > 0)
    <3>1. UNCHANGED <<held, balances>> /\ amount = 0
      BY <1>1, <2>2, SMTT(60) DEF doUnlock
    <3>2. QED  BY <1>1, <1>4, <3>1, SMTT(60) DEF VaultTypes
  <2>3. QED  BY <2>1, <2>2
<1>6. VaultMatches'
  <2>1. \A c \in Tokens : /\ balances[c] + Total("Unlocked", c) = Total("Locked", c)
                          /\ held[Vault][c] >= balances[c]
    BY Matches DEF VaultInv
  <2>2. ASSUME NEW c \in Tokens
        PROVE  /\ balances'[c] + Total("Unlocked", c)' = Total("Locked", c)'
               /\ held'[Vault][c] >= balances'[c]
    <3>0. /\ Total("Unlocked", c) \in Nat /\ Total("Locked", c) \in Nat
          /\ Total("Locked", c)' = Total("Locked", c)
      BY <1>3
    <3>1. CASE c = t
      <4>1. Total("Unlocked", c)' = Total("Unlocked", c) + amount
        BY <1>3, <3>1
      <4>2. balances'[c] = balances[c] - amount /\ held'[Vault][c] = held[Vault][c] - amount
        BY <1>5, <3>1
      <4>3. QED  BY <1>1, <1>4, <2>1, <3>0, <4>1, <4>2, SMTT(60)
    <3>2. CASE c # t
      <4>1. Total("Unlocked", c)' = Total("Unlocked", c) + 0
        BY <1>3, <3>2
      <4>2. balances'[c] = balances[c] /\ held'[Vault][c] = held[Vault][c]
        BY <1>5, <3>2
      <4>3. QED  BY <1>4, <2>1, <3>0, <4>1, <4>2, SMTT(60)
    <3>3. QED  BY <3>1, <3>2
  <2>3. \A v \in Users : Announced(v)' = Messages(v)'
    <3>1. \A v \in Users : Messages(v)' = Messages(v)
      BY <1>1 DEF Messages
    <3>2. QED  BY <1>3, <3>1, Matches DEF VaultInv
  <2>4. QED  BY <2>2, <2>3 DEF VaultMatches, Announced, Messages
<1>7. QED  BY <1>1, <1>3, <1>5, <1>6 DEF VaultInv, VaultTypes

\* Tokens that are sent to the vault directly are in no book.
LEMMA TransferInv ==
    ASSUME TokenAssumption, VaultInv, NEW u \in Users, NEW t \in Tokens, NEW amount \in 0 .. MaxLock,
           transferToVault(u, t, amount)
    PROVE  VaultInv'
<1>1. /\ amount \in Nat /\ u # Vault /\ VaultTypes
      /\ u \in Users \cup {Vault} /\ Vault \in Users \cup {Vault}
  BY SMTT(60) DEF TokenAssumption, VaultInv
<1>2. UNCHANGED <<balances, tokenEvents, submitted>> /\ safeTransfer(u, Vault, t, amount)
  BY DEF transferToVault
<1>3. /\ held' \in [Users \cup {Vault} -> [Tokens -> Nat]]
      /\ \A c \in Tokens : c # t => held'[Vault][c] = held[Vault][c]
      /\ u = Vault => held'[Vault][t] = held[Vault][t] - amount
      /\ Vault = Vault => held'[Vault][t] = held[Vault][t] + amount
  BY <1>1, <1>2, Transfers
<1>4. \A c \in Tokens : held'[Vault][c] >= balances[c]
  <2>1. \A c \in Tokens : /\ balances[c] \in Nat /\ held[Vault][c] \in Nat
                          /\ held[Vault][c] >= balances[c]
    BY <1>1, Matches DEF VaultInv, VaultTypes
  <2>2. QED  BY <1>1, <1>3, <2>1, SMTT(60)
<1>5. VaultMatches'
  <2>1. \A k, c : Total(k, c)' = Total(k, c)
    BY <1>2 DEF Total
  <2>2. QED  BY <1>2, <1>4, <2>1, SMTT(60) DEF VaultInv, VaultMatches
<1>6. QED  BY <1>1, <1>2, <1>3, <1>5 DEF VaultInv, VaultTypes

\* A user's own message is none of App's.
LEMMA DirectInv ==
    ASSUME TokenAssumption, VaultInv, NEW u \in Users, submitDirectly(u)
    PROVE  VaultInv'
<1>1. /\ VaultTypes /\ u \in Users \cup {App} /\ u # App /\ submit(u, u)
      /\ UNCHANGED <<held, balances, tokenEvents>>
  BY DEF TokenAssumption, VaultInv, submitDirectly
<1>2. submitted' \in Seq(Submission) /\ \A v \in Users : Messages(v)' = Messages(v)
  BY <1>1, Submits, SMTT(60)
<1>3. VaultMatches'
  <2>1. \A k, c : Total(k, c)' = Total(k, c)
    BY <1>1 DEF Total
  <2>2. \A v \in Users : Announced(v)' = Messages(v)'
    <3>1. \A v \in Users : Announced(v)' = Announced(v)
      BY <1>1 DEF Announced
    <3>2. QED  BY <1>2, <3>1, Matches DEF VaultInv
  <2>3. QED  BY <1>1, <2>1, <2>2 DEF VaultInv, VaultMatches, Announced, Messages
<1>4. QED  BY <1>1, <1>2, <1>3 DEF VaultInv, VaultTypes

\* Authorizations move nothing.
LEMMA IdleInv ==
    ASSUME VaultInv, UNCHANGED <<held, balances, tokenEvents, submitted>>
    PROVE  VaultInv'
  BY DEF VaultInv, VaultTypes, VaultMatches, Total

\* Whoever may submit, and whatever is sent to the vault: the vault's book is what was
\* locked less what was unlocked, is covered by tokens, and every event stands for a message.
THEOREM VaultAlwaysMatches == ASSUME TokenAssumption PROVE TokenSpec => []VaultMatches
<1>1. TokenInit => VaultInv
  <2>1. SUFFICES ASSUME TokenInit PROVE VaultInv
    OBVIOUS
  <2>2. VaultTypes /\ tokenEvents = <<>> /\ submitted = <<>>
    BY <2>1, SMTT(60) DEF TokenInit, VaultTypes, TokenAssumption
  <2>3. \A k, t : Total(k, t) = 0
    <3>1. Units(<<>>) = {}
      BY SMTT(60) DEF Units
    <3>2. \A k, t : Total(k, t) = Sum(<<>>)
      BY <2>2, SMTT(60) DEF Total
    <3>3. QED  BY <3>1, <3>2, FS_EmptySet DEF Sum
  <2>4. \A u : Announced(u) = Messages(u)
    BY <2>2, SMTT(60) DEF Announced, Messages
  <2>5. \A t \in Tokens : balances[t] = 0 /\ held[Vault][t] = 0
    BY <2>1 DEF TokenInit, TokenAssumption
  <2>6. VaultMatches
    BY <2>3, <2>4, <2>5, Matches, SMTT(60)
  <2>7. QED  BY <2>2, <2>6 DEF VaultInv
<1>2. VaultInv /\ [TokenNext]_tokenVars => VaultInv'
  <2>1. SUFFICES ASSUME VaultInv, [TokenNext]_tokenVars PROVE VaultInv'
    OBVIOUS
  <2>2. ASSUME NEW u \in Users, NEW t \in Tokens, create(u, t) PROVE VaultInv'
    BY <2>1, <2>2, CreateInv
  <2>3. ASSUME NEW u \in Users, NEW t \in Tokens, NEW amount \in 0 .. MaxLock, lock(u, t, amount)
        PROVE  VaultInv'
    BY <2>1, <2>3, LockInv
  <2>4. ASSUME NEW u \in Users, NEW t \in Tokens, NEW amount \in 0 .. MaxLock, doUnlock(t, u, amount)
        PROVE  VaultInv'
    BY <2>1, <2>4, UnlockInv
  <2>5. ASSUME NEW u \in Users, submitDirectly(u) PROVE VaultInv'
    BY <2>1, <2>5, DirectInv
  <2>6. ASSUME NEW u \in Users, NEW t \in Tokens, NEW amount \in 0 .. MaxLock,
               transferToVault(u, t, amount)
        PROVE  VaultInv'
    BY <2>1, <2>6, TransferInv
  <2>7. ASSUME NEW u \in Users, authorizeOperator(u, App) \/ revokeOperator(u, App) PROVE VaultInv'
    BY <2>1, <2>7, IdleInv DEF authorizeOperator, revokeOperator
  <2>8. ASSUME authorizeDefaultOperator(App) \/ revokeDefaultOperator(App) PROVE VaultInv'
    BY <2>1, <2>8, IdleInv DEF authorizeDefaultOperator, revokeDefaultOperator
  <2>9. CASE UNCHANGED tokenVars
    BY <2>1, <2>9, IdleInv DEF tokenVars
  <2>10. QED  BY <2>1, <2>2, <2>3, <2>4, <2>5, <2>6, <2>7, <2>8, <2>9 DEF TokenNext
<1>3. VaultInv => VaultMatches
  BY DEF VaultInv
<1>4. QED  BY <1>1, <1>2, <1>3, PTL DEF TokenSpec

----------------------------------------------------------------------------
(* The reserves                                                            *)

Owners == Recipients \cup Parachains

Books == [Owners -> [Assets -> Nat]]

Sent == [para_id : Parachains, asset_id : AssetIds, amount : Nat, fee : Nat]

Transfer == [event : {"TransferSent", "TransferFailed"}, asset_id : AssetIds,
             recipient : Recipients, amount : Nat, para_id : Parachains, fee : Nat]

\* The storage that the XCM executor works on.
Storage == [balance : Books, sent : Seq(Sent), ok : BOOLEAN]

ReserveInv ==
    /\ balance \in Books /\ sent \in Seq(Sent) /\ events \in Seq(Transfer)
    /\ ReservesMatch

\* One amount of one account is changed to v.
Changed(new, old, a, c, v) ==
    /\ new.sent = old.sent
    /\ new.balance[a][c] = v
    /\ \A b \in Owners, k \in Assets : b # a \/ k # c => new.balance[b][k] = old.balance[b][k]

\* WithdrawAsset takes one amount from one account, or fails.
LEMMA Withdraws ==
    ASSUME NEW s \in Storage, NEW a \in Owners, NEW c \in Assets, NEW n \in Nat
    PROVE  /\ withdraw_asset(s, a, c, n) \in Storage
           /\ withdraw_asset(s, a, c, n).ok =>
                  /\ s.ok /\ s.balance[a][c] >= n
                  /\ Changed(withdraw_asset(s, a, c, n), s, a, c, s.balance[a][c] - n)
<1>1. CASE s.ok /\ s.balance[a][c] >= n
  <2>1. withdraw_asset(s, a, c, n) = [s EXCEPT !.balance = [s.balance EXCEPT ![a][c] = @ - n]]
    BY <1>1 DEF withdraw_asset, Storage, Books
  <2> DEFINE f == [s.balance EXCEPT ![a][c] = s.balance[a][c] - n]
  <2>2. f \in Books
    BY <1>1, SMTT(60) DEF Storage, Books
  <2>3. /\ f[a][c] = s.balance[a][c] - n
        /\ \A b \in Owners, k \in Assets : b # a \/ k # c => f[b][k] = s.balance[b][k]
    <3>1. s.balance \in Books
      BY DEF Storage
    <3>2. QED  BY <3>1 DEF Books
  <2>4. withdraw_asset(s, a, c, n) = [s EXCEPT !.balance = f]
    BY <2>1
  <2> HIDE DEF f
  <2>5. QED  BY <1>1, <2>2, <2>3, <2>4, SMTT(60) DEF Storage, Changed
<1>2. CASE ~(s.ok /\ s.balance[a][c] >= n)
  BY <1>2 DEF withdraw_asset, Storage
<1>3. QED  BY <1>1, <1>2

\* DepositReserveAsset puts one amount into one account.
LEMMA Deposits ==
    ASSUME NEW s \in Storage, NEW a \in Owners, NEW c \in Assets, NEW n \in Nat
    PROVE  /\ deposit_asset(s, a, c, n) \in Storage
           /\ deposit_asset(s, a, c, n).ok =>
                  /\ s.ok
                  /\ Changed(deposit_asset(s, a, c, n), s, a, c, s.balance[a][c] + n)
<1>1. CASE s.ok
  <2>1. deposit_asset(s, a, c, n) = [s EXCEPT !.balance = [s.balance EXCEPT ![a][c] = @ + n]]
    BY <1>1 DEF deposit_asset, Storage, Books
  <2> DEFINE f == [s.balance EXCEPT ![a][c] = s.balance[a][c] + n]
  <2>2. f \in Books
    BY SMTT(60) DEF Storage, Books
  <2>3. /\ f[a][c] = s.balance[a][c] + n
        /\ \A b \in Owners, k \in Assets : b # a \/ k # c => f[b][k] = s.balance[b][k]
    <3>1. s.balance \in Books
      BY DEF Storage
    <3>2. QED  BY <3>1 DEF Books
  <2>4. deposit_asset(s, a, c, n) = [s EXCEPT !.balance = f]
    BY <2>1
  <2> HIDE DEF f
  <2>5. QED  BY <1>1, <2>2, <2>3, <2>4, SMTT(60) DEF Storage, Changed
<1>2. CASE ~s.ok
  BY <1>2 DEF deposit_asset, Storage
<1>3. QED  BY <1>1, <1>2

\* What a transfer of n of asset x for a fee moves of asset c.
Share(x, n, fee, c) == IF c = RELAY THEN fee ELSE IF c = x THEN n ELSE 0

\* The fee and the amount are moved from recipient r to destination d and announced there.
Moved(o, x, r, n, d) ==
    /\ o.sent = Append(sent, [para_id |-> d.para_id, asset_id |-> x, amount |-> n, fee |-> d.fee])
    /\ \A c \in Assets :
           /\ balance[r][c] = o.balance[r][c] + Share(x, n, d.fee, c)
           /\ o.balance[d.para_id][c] = balance[d.para_id][c] + Share(x, n, d.fee, c)
           /\ \A b \in Owners \ {r, d.para_id} : o.balance[b][c] = balance[b][c]

\* The program does that or fails.
LEMMA Executes ==
    ASSUME TransferAssumption, ReserveInv, NEW x \in AssetIds, NEW r \in Recipients, NEW n \in Nat,
           NEW d \in [para_id : Parachains, fee : Nat], NEW routed \in BOOLEAN
    PROVE  /\ execute_xcm(x, r, n, d, routed) \in Storage
           /\ execute_xcm(x, r, n, d, routed).ok =>
                  Moved(execute_xcm(x, r, n, d, routed), x, r, n, d)
<1> DEFINE p == d.para_id
           s0 == [balance |-> balance, sent |-> sent, ok |-> TRUE]
           s1 == withdraw_asset(s0, r, RELAY, d.fee)
           s2 == withdraw_asset(s1, r, x, n)
           s3 == deposit_asset(s2, p, RELAY, d.fee)
           s4 == deposit_asset(s3, p, x, n)
           new == [para_id |-> p, asset_id |-> x, amount |-> n, fee |-> d.fee]
           o == send_xcm(s4, p, x, n, d.fee, routed)
           m(c) == Share(x, n, d.fee, c)
<1>1. execute_xcm(x, r, n, d, routed) = o
  BY DEF execute_xcm
<1>2. /\ p \in Parachains /\ p \in Owners /\ r \in Owners /\ p # r /\ d.fee \in Nat
      /\ RELAY \in Assets /\ x \in Assets /\ x # RELAY
  BY DEF TransferAssumption, Owners, Assets
<1>3. s0 \in Storage /\ s0.balance = balance /\ s0.sent = sent
  BY DEF ReserveInv, Storage
<1> HIDE DEF p, s0
<1>4. /\ s1 \in Storage
      /\ s1.ok => /\ s0.ok /\ s0.balance[r][RELAY] >= d.fee
                 /\ Changed(s1, s0, r, RELAY, s0.balance[r][RELAY] - d.fee)
  BY <1>2, <1>3, Withdraws
<1> HIDE DEF s1
<1>5. /\ s2 \in Storage
      /\ s2.ok => /\ s1.ok /\ s1.balance[r][x] >= n
                 /\ Changed(s2, s1, r, x, s1.balance[r][x] - n)
  BY <1>2, <1>4, Withdraws
<1> HIDE DEF s2
<1>6. /\ s3 \in Storage
      /\ s3.ok => s2.ok /\ Changed(s3, s2, p, RELAY, s2.balance[p][RELAY] + d.fee)
  BY <1>2, <1>5, Deposits
<1> HIDE DEF s3
<1>7. /\ s4 \in Storage
      /\ s4.ok => s3.ok /\ Changed(s4, s3, p, x, s3.balance[p][x] + n)
  BY <1>2, <1>6, Deposits
<1> HIDE DEF s4
<1>8. new \in Sent
  BY <1>2 DEF Sent
<1>9. /\ o \in Storage
      /\ o.ok => s4.ok /\ o.balance = s4.balance /\ o.sent = Append(s4.sent, new)
  <2>1. CASE s4.ok /\ routed
    <3>1. o = [s4 EXCEPT !.sent = Append(s4.sent, new)]
      BY <1>7, <2>1 DEF send_xcm, Storage
    <3>2. Append(s4.sent, new) \in Seq(Sent)
      <4>1. s4.sent \in Seq(Sent)
        BY <1>7 DEF Storage
      <4> HIDE DEF new
      <4>2. QED  BY <1>8, <4>1, SMTT(60)
    <3> HIDE DEF new, o
    <3>3. QED  BY <1>7, <2>1, <3>1, <3>2 DEF Storage
  <2>2. CASE ~(s4.ok /\ routed)
    BY <1>7, <2>2 DEF send_xcm, Storage
  <2>3. QED  BY <2>1, <2>2
<1> HIDE DEF o, new
<1>10. ASSUME o.ok
       PROVE  /\ o.sent = Append(sent, new)
              /\ \A c \in Assets :
                     /\ balance[r][c] = o.balance[r][c] + m(c)
                     /\ o.balance[p][c] = balance[p][c] + m(c)
                     /\ \A b \in Owners \ {r, p} : o.balance[b][c] = balance[b][c]
  <2>1. s1.ok /\ s2.ok /\ s3.ok /\ s4.ok /\ o.sent = Append(sent, new)
    BY <1>3, <1>4, <1>5, <1>6, <1>7, <1>9, <1>10, SMTT(60) DEF Changed
  <2>2. \A b \in Owners, c \in Assets : balance[b][c] \in Nat
    BY DEF ReserveInv, Books
  <2>3. ASSUME NEW c \in Assets
        PROVE  /\ balance[r][c] = o.balance[r][c] + m(c)
               /\ o.balance[p][c] = balance[p][c] + m(c)
               /\ \A b \in Owners \ {r, p} : o.balance[b][c] = balance[b][c]
    <3>1. \A b \in Owners : balance[b][c] \in Nat /\ s0.balance[b][c] = balance[b][c]
      BY <1>3, <2>2
    <3>2. o.balance = s4.balance
      BY <1>9, <1>10
    <3>3. /\ \A b \in Owners \ {r} : s2.balance[b][c] = balance[b][c]
          /\ balance[r][c] = s2.balance[r][c] + m(c)
      <4>1. /\ \A b \in Owners \ {r} : s1.balance[b][c] = balance[b][c]
            /\ c = RELAY => s1.balance[r][c] = balance[r][c] - d.fee
            /\ c # RELAY => s1.balance[r][c] = balance[r][c]
        BY <1>2, <1>4, <2>1, <3>1 DEF Changed
      <4>2. /\ \A b \in Owners \ {r} : s2.balance[b][c] = s1.balance[b][c]
            /\ c = x => s2.balance[r][c] = s1.balance[r][c] - n
            /\ c # x => s2.balance[r][c] = s1.balance[r][c]
        BY <1>2, <1>5, <2>1 DEF Changed
      <4>3. QED  BY <1>2, <3>1, <4>1, <4>2, SMTT(60) DEF Share
    <3>4. /\ \A b \in Owners \ {p} : s4.balance[b][c] = s2.balance[b][c]
          /\ s2.balance[p][c] \in Nat => s4.balance[p][c] = s2.balance[p][c] + m(c)
      BY <1>2, <1>6, <1>7, <2>1, SMTT(60) DEF Changed, Share
    <3>5. QED  BY <1>2, <3>1, <3>2, <3>3, <3>4
  <2>4. QED  BY <2>1, <2>3
<1>11. QED  BY <1>1, <1>9, <1>10, SMTT(60) DEF new, p, Moved

\* What the TransferSent events took from a recipient, and what the messages announce.
Spent(r, c) ==
    Sum([i \in DOMAIN events |->
            IF events[i].event = "TransferSent" /\ events[i].recipient = r
            THEN moved(events[i], c) ELSE 0])

Reserved(p, c) == Sum([i \in DOMAIN sent |-> IF sent[i].para_id = p THEN moved(sent[i], c) ELSE 0])

\* What an event says was taken from a recipient.
Outlay(e, r, c) ==
    IF e.event = "TransferSent" /\ e.recipient = r
    THEN Share(e.asset_id, e.amount, e.fee, c) ELSE 0

\* An event adds to what was taken if the transfer was sent.
LEMMA Records ==
    ASSUME events \in Seq(Transfer), NEW e \in Transfer, events' = Append(events, e)
    PROVE  /\ events' \in Seq(Transfer)
           /\ \A r, c : Spent(r, c) \in Nat /\ Spent(r, c)' = Spent(r, c) + Outlay(e, r, c)
<1>1. events' \in Seq(Transfer)
  BY SMTT(60)
<1>2. ASSUME NEW r, NEW c
      PROVE  Spent(r, c) \in Nat /\ Spent(r, c)' = Spent(r, c) + Outlay(e, r, c)
  <2> DEFINE a == [y \in Transfer |-> IF y.event = "TransferSent" /\ y.recipient = r
                                      THEN moved(y, c) ELSE 0]
  <2>1. a \in [Transfer -> Nat]
    BY DEF Transfer, moved
  <2>2. a[e] = Outlay(e, r, c)
    BY DEF moved, Share, Outlay
  <2>3. \A s \in Seq(Transfer) : \A i \in DOMAIN s :
            a[s[i]] = IF s[i].event = "TransferSent" /\ s[i].recipient = r
                      THEN moved(s[i], c) ELSE 0
    BY SMTT(60)
  <2> HIDE DEF a
  <2>4. Spent(r, c) = Tally(events, a) /\ Spent(r, c)' = Tally(events', a)
    BY <1>1, <2>3 DEF Spent, Tally
  <2>5. QED  BY <2>1, <2>2, <2>4, EntryAdds, SMTT(60)
<1>3. QED  BY <1>1, <1>2

\* A message adds to what is announced to its parachain.
LEMMA Announces ==
    ASSUME sent \in Seq(Sent), NEW e \in Sent, sent' = Append(sent, e)
    PROVE  /\ sent' \in Seq(Sent)
           /\ \A p, c : /\ Reserved(p, c) \in Nat
                        /\ Reserved(p, c)' = Reserved(p, c)
                               + (IF e.para_id = p THEN Share(e.asset_id, e.amount, e.fee, c) ELSE 0)
<1>1. sent' \in Seq(Sent)
  BY SMTT(60)
<1>2. ASSUME NEW p, NEW c
      PROVE  /\ Reserved(p, c) \in Nat
             /\ Reserved(p, c)' = Reserved(p, c)
                    + (IF e.para_id = p THEN Share(e.asset_id, e.amount, e.fee, c) ELSE 0)
  <2> DEFINE a == [y \in Sent |-> IF y.para_id = p THEN moved(y, c) ELSE 0]
  <2>1. a \in [Sent -> Nat]
    BY DEF Sent, moved
  <2>2. a[e] = IF e.para_id = p THEN Share(e.asset_id, e.amount, e.fee, c) ELSE 0
    BY DEF moved, Share
  <2>3. \A s \in Seq(Sent) : \A i \in DOMAIN s :
            a[s[i]] = IF s[i].para_id = p THEN moved(s[i], c) ELSE 0
    BY SMTT(60)
  <2> HIDE DEF a
  <2>4. Reserved(p, c) = Tally(sent, a) /\ Reserved(p, c)' = Tally(sent', a)
    BY <1>1, <2>3 DEF Reserved, Tally
  <2>5. QED  BY <2>1, <2>2, <2>4, EntryAdds, SMTT(60)
<1>3. QED  BY <1>1, <1>2

\* The conjuncts of ReservesMatch.
LEMMA ReservesAre ==
    ReservesMatch <=>
        \A c \in Assets :
            /\ \A r \in Recipients : balance[r][c] + Spent(r, c) = InitialBalance
            /\ \A p \in Parachains : balance[p][c] = Reserved(p, c)
<1>1. \A s : Sum(s) = Sum(s)
  BY DEF Sum, Units, Sum, Units, Cardinality, Cardinality
<1>2. QED  BY <1>1 DEF ReservesMatch, Spent, Reserved

\* The same of the state after a step.
LEMMA ReservesNext ==
    ASSUME \A c \in Assets :
               /\ \A r \in Recipients : balance'[r][c] + Spent(r, c)' = InitialBalance
               /\ \A p \in Parachains : balance'[p][c] = Reserved(p, c)'
    PROVE  ReservesMatch'
<1>1. \A s : Sum(s) = Sum(s)
  BY DEF Sum, Units, Sum, Units, Cardinality, Cardinality
<1>2. QED  BY <1>1 DEF ReservesMatch, Spent, Reserved

\* reserve_transfer takes effect as a whole, or not at all.
LEMMA TransferSteps ==
    ASSUME TransferAssumption, ReserveInv, NEW x \in AssetIds, NEW r \in Recipients, NEW n \in Nat,
           NEW d \in [para_id : Parachains, fee : Nat], NEW weighed \in BOOLEAN, NEW routed \in BOOLEAN,
           reserve_transfer(x, r, n, d, weighed, routed)
    PROVE  \E e \in Transfer :
               /\ events' = Append(events, e)
               /\ e.recipient = r /\ e.asset_id = x /\ e.amount = n /\ e.fee = d.fee
               /\ \/ e.event = "TransferFailed" /\ UNCHANGED <<balance, sent>>
                  \/ /\ e.event = "TransferSent" /\ balance' \in Books
                     /\ Moved([balance |-> balance', sent |-> sent'], x, r, n, d)
<1> DEFINE o == reserve_transfer_unsafe(x, r, n, d, weighed, routed)
           e(k) == [event |-> k, asset_id |-> x, recipient |-> r, amount |-> n,
                    para_id |-> d.para_id, fee |-> d.fee]
<1>1. /\ balance' = with_transaction(o).balance /\ sent' = with_transaction(o).sent
      /\ events' = Append(events, e(IF o.ok THEN "TransferSent" ELSE "TransferFailed"))
  BY DEF reserve_transfer
<1>2. \A k \in {"TransferSent", "TransferFailed"} : e(k) \in Transfer /\ e(k).event = k
  BY DEF Transfer
<1>3. \A k : e(k).recipient = r /\ e(k).asset_id = x /\ e(k).amount = n /\ e(k).fee = d.fee
  OBVIOUS
<1>4. o.ok => o.balance \in Books /\ Moved(o, x, r, n, d)
  <2>1. CASE d.fee > 0 /\ weighed
    <3>1. o = execute_xcm(x, r, n, d, routed)
      BY <2>1 DEF reserve_transfer_unsafe
    <3> HIDE DEF o
    <3>2. o \in Storage /\ (o.ok => Moved(o, x, r, n, d))
      BY <3>1, Executes
    <3>3. QED  BY <3>2 DEF Storage
  <2>2. CASE ~(d.fee > 0 /\ weighed)
    BY <2>2 DEF reserve_transfer_unsafe
  <2>3. QED  BY <2>1, <2>2
<1> HIDE DEF o, e
<1>5. CASE o.ok
  <2>1. balance' = o.balance /\ sent' = o.sent
    BY <1>1, <1>5 DEF with_transaction
  <2>2. Moved([balance |-> balance', sent |-> sent'], x, r, n, d)
    BY <1>4, <1>5, <2>1 DEF Moved
  <2>3. events' = Append(events, e("TransferSent"))
    BY <1>1, <1>5
  <2>4. QED  BY <1>2, <1>3, <1>4, <1>5, <2>1, <2>2, <2>3
<1>6. CASE ~o.ok
  <2>1. balance' = balance /\ sent' = sent
    BY <1>1, <1>6 DEF with_transaction, store
  <2>2. events' = Append(events, e("TransferFailed"))
    BY <1>1, <1>6
  <2>3. QED  BY <1>2, <1>3, <2>1, <2>2
<1>7. QED  BY <1>5, <1>6

\* The books match after a transfer, sent or failed.
LEMMA TransferKeeps ==
    ASSUME TransferAssumption, ReserveInv, NEW x \in AssetIds, NEW r \in Recipients, NEW n \in Nat,
           NEW d \in [para_id : Parachains, fee : Nat], NEW weighed \in BOOLEAN, NEW routed \in BOOLEAN,
           reserve_transfer(x, r, n, d, weighed, routed)
    PROVE  ReserveInv'
<1>1. PICK e \in Transfer :
          /\ events' = Append(events, e)
          /\ e.recipient = r /\ e.asset_id = x /\ e.amount = n /\ e.fee = d.fee
          /\ \/ e.event = "TransferFailed" /\ UNCHANGED <<balance, sent>>
             \/ /\ e.event = "TransferSent" /\ balance' \in Books
                /\ Moved([balance |-> balance', sent |-> sent'], x, r, n, d)
  BY TransferSteps, SMTT(60)
<1> DEFINE m(c) == Share(x, n, d.fee, c)
           p == d.para_id
<1>2. /\ balance \in Books /\ sent \in Seq(Sent) /\ events \in Seq(Transfer)
      /\ \A c \in Assets :
             /\ \A q \in Recipients : balance[q][c] + Spent(q, c) = InitialBalance
             /\ \A q \in Parachains : balance[q][c] = Reserved(q, c)
  BY ReservesAre DEF ReserveInv
<1>3. /\ events' \in Seq(Transfer)
      /\ \A q, c : /\ Spent(q, c) \in Nat
                   /\ Spent(q, c)' = Spent(q, c)
                          + (IF e.event = "TransferSent" /\ q = r THEN m(c) ELSE 0)
  <2>1. /\ events' \in Seq(Transfer)
        /\ \A q, c : Spent(q, c) \in Nat /\ Spent(q, c)' = Spent(q, c) + Outlay(e, q, c)
    BY <1>1, <1>2, Records
  <2>2. \A q, c : Outlay(e, q, c) = IF e.event = "TransferSent" /\ q = r THEN m(c) ELSE 0
    BY <1>1 DEF Outlay
  <2>3. QED  BY <2>1, <2>2
<1>4. \A q \in Owners, c \in Assets : balance[q][c] \in Nat
  BY <1>2 DEF Books
<1>5. CASE e.event = "TransferFailed" /\ UNCHANGED <<balance, sent>>
  <2>1. \A q, c : Spent(q, c)' = Spent(q, c) /\ Reserved(q, c)' = Reserved(q, c)
    BY <1>3, <1>5, SMTT(60) DEF Reserved
  <2>2. \A c \in Assets :
            /\ \A q \in Recipients : balance'[q][c] + Spent(q, c)' = InitialBalance
            /\ \A q \in Parachains : balance'[q][c] = Reserved(q, c)'
    BY <1>2, <1>5, <2>1
  <2>3. QED  BY <1>2, <1>3, <1>5, <2>2, ReservesNext DEF ReserveInv
<1>6. CASE /\ e.event = "TransferSent" /\ balance' \in Books
           /\ Moved([balance |-> balance', sent |-> sent'], x, r, n, d)
  <2> DEFINE new == [para_id |-> p, asset_id |-> x, amount |-> n, fee |-> d.fee]
  <2>1. new \in Sent /\ p \in Parachains /\ p \in Owners /\ r \in Owners /\ p # r /\ d.fee \in Nat
    BY DEF Sent, Owners, TransferAssumption
  <2>2. /\ sent' = Append(sent, new)
        /\ \A c \in Assets :
               /\ balance[r][c] = balance'[r][c] + m(c)
               /\ balance'[p][c] = balance[p][c] + m(c)
               /\ \A b \in Owners \ {r, p} : balance'[b][c] = balance[b][c]
    <3> DEFINE o == [balance |-> balance', sent |-> sent']
    <3>1. o.balance = balance' /\ o.sent = sent' /\ Moved(o, x, r, n, d)
      BY <1>6
    <3> HIDE DEF o
    <3>2. QED  BY <3>1 DEF Moved
  <2>3. /\ sent' \in Seq(Sent)
        /\ \A q, c : /\ Reserved(q, c) \in Nat
                     /\ Reserved(q, c)' = Reserved(q, c) + (IF q = p THEN m(c) ELSE 0)
    <3>1. new.para_id = p /\ new.asset_id = x /\ new.amount = n /\ new.fee = d.fee
      OBVIOUS
    <3> HIDE DEF new, p
    <3>2. /\ sent' \in Seq(Sent)
          /\ \A q, c : /\ Reserved(q, c) \in Nat
                       /\ Reserved(q, c)' = Reserved(q, c)
                              + (IF new.para_id = q
                                   THEN Share(new.asset_id, new.amount, new.fee, c) ELSE 0)
      BY <1>2, <2>1, <2>2, Announces
    <3>3. \A q, c : (IF new.para_id = q THEN Share(new.asset_id, new.amount, new.fee, c) ELSE 0)
                        = IF q = p THEN m(c) ELSE 0
      BY <3>1
    <3>4. QED  BY <3>2, <3>3
  <2>4. \A q \in Owners, c \in Assets : balance'[q][c] \in Nat
    BY <1>6 DEF Books
  <2>5. \A c : m(c) \in Nat
    BY <2>1 DEF Share
  <2> HIDE DEF m, p, new
  <2>6. ASSUME NEW c \in Assets, NEW q \in Recipients
        PROVE  balance'[q][c] + Spent(q, c)' = InitialBalance
    <3>1. q \in Owners /\ q # p /\ balance[q][c] + Spent(q, c) = InitialBalance
      BY <1>2, <2>1 DEF Owners, TransferAssumption
    <3>2. CASE q = r
      <4>1. Spent(q, c)' = Spent(q, c) + m(c) /\ balance[q][c] = balance'[q][c] + m(c)
        <5>1. Spent(q, c)' = Spent(q, c) + m(c)
          BY <1>3, <1>6, <3>2
        <5>2. balance[q][c] = balance'[q][c] + m(c)
          BY <2>2, <3>2
        <5>3. QED  BY <5>1, <5>2
      <4>2. balance'[q][c] \in Nat /\ m(c) \in Nat /\ Spent(q, c) \in Nat
        BY <1>3, <2>4, <2>5, <3>1
      <4>3. QED  BY <3>1, <4>1, <4>2, SMTT(60)
    <3>3. CASE q # r
      <4>1. Spent(q, c)' = Spent(q, c) + 0 /\ balance[q][c] = balance'[q][c]
        BY <1>3, <2>2, <3>1, <3>3
      <4>2. \A n1 \in Nat : n1 + 0 = n1
        BY SMTT(60)
      <4>3. Spent(q, c) \in Nat
        BY <1>3
      <4>4. QED  BY <3>1, <4>1, <4>2, <4>3
    <3>4. QED  BY <3>2, <3>3
  <2>7. ASSUME NEW c \in Assets, NEW q \in Parachains
        PROVE  balance'[q][c] = Reserved(q, c)'
    <3>1. q \in Owners /\ q # r /\ balance[q][c] = Reserved(q, c)
      BY <1>2 DEF Owners, TransferAssumption
    <3>2. CASE q = p
      <4>1. Reserved(q, c)' = Reserved(q, c) + m(c)
        BY <2>3, <3>2
      <4>2. balance'[q][c] = balance[q][c] + m(c)
        BY <2>2, <3>2
      <4>3. QED  BY <3>1, <4>1, <4>2
    <3>3. CASE q # p
      <4>1. Reserved(q, c)' = Reserved(q, c) + 0 /\ balance'[q][c] = balance[q][c]
        BY <2>2, <2>3, <3>1, <3>3
      <4>2. \A n1 \in Nat : n1 + 0 = n1
        BY SMTT(60)
      <4>3. Reserved(q, c) \in Nat
        BY <2>3
      <4>4. QED  BY <3>1, <4>1, <4>2, <4>3
    <3>4. QED  BY <3>2, <3>3
  <2>8. ReservesMatch'
    BY <2>6, <2>7, ReservesNext
  <2>9. QED  BY <1>3, <1>6, <2>3, <2>8 DEF ReserveInv
<1>7. QED  BY <1>1, <1>5, <1>6

\* After any sequence of transfers, failed ones in between, every recipient is short of
\* exactly what was sent and every parachain's account holds what was announced to it.
THEOREM ReservesAlwaysMatch ==
    ASSUME TransferAssumption PROVE TransferSpec => []ReservesMatch
<1>1. TransferInit => ReserveInv
  <2>1. SUFFICES ASSUME TransferInit PROVE ReserveInv
    OBVIOUS
  <2>2. balance \in Books /\ sent = <<>> /\ events = <<>>
    BY <2>1 DEF TransferInit, Books, Owners, TransferAssumption
  <2>3. \A q, c : Spent(q, c) = 0 /\ Reserved(q, c) = 0
    <3>1. Units(<<>>) = {}
      BY SMTT(60) DEF Units
    <3>2. \A q, c : Spent(q, c) = Sum(<<>>) /\ Reserved(q, c) = Sum(<<>>)
      BY <2>2, SMTT(60) DEF Spent, Reserved
    <3>3. QED  BY <3>1, <3>2, FS_EmptySet DEF Sum
  <2>4. /\ \A q \in Recipients, c \in Assets : balance[q][c] = InitialBalance
        /\ \A q \in Parachains, c \in Assets : balance[q][c] = 0
    BY <2>1 DEF TransferInit, TransferAssumption
  <2>5. ReservesMatch
    BY <2>3, <2>4, ReservesAre, SMTT(60) DEF TransferAssumption
  <2>6. QED  BY <2>2, <2>5, SMTT(60) DEF ReserveInv
<1>2. ReserveInv /\ [TransferNext]_(transferVars) => ReserveInv'
  <2>1. SUFFICES ASSUME ReserveInv, [TransferNext]_(transferVars) PROVE ReserveInv'
    OBVIOUS
  <2>2. CASE TransferNext
    <3>1. PICK x \in AssetIds, r \in Recipients, n \in 0 .. MaxAmount,
               d \in [para_id : Parachains, fee : 0 .. MaxAmount],
               weighed \in BOOLEAN, routed \in BOOLEAN :
                   reserve_transfer(x, r, n, d, weighed, routed)
      BY <2>2 DEF TransferNext
    <3>2. n \in Nat /\ d \in [para_id : Parachains, fee : Nat]
      BY SMTT(60) DEF TransferAssumption
    <3>3. QED  BY <2>1, <3>1, <3>2, TransferKeeps
  <2>3. CASE UNCHANGED transferVars
    <3>1. UNCHANGED <<balance, sent, events>>
      BY <2>3 DEF transferVars
    <3>2. QED  BY <2>1, <3>1 DEF ReserveInv, ReservesMatch
  <2>4. QED  BY <2>1, <2>2, <2>3
<1>3. ReserveInv => ReservesMatch
  BY DEF ReserveInv
<1>4. QED  BY <1>1, <1>2, <1>3, PTL DEF TransferSpec
=============================================================================

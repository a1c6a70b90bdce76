----------------------------- MODULE EthashCache -----------------------------
(***************************************************************************)
(* EthashCache (primitives/ethereum/src/ethashproof.rs), which keeps the   *)
(* data of some epochs for the light variant of hashimoto: a map by epoch, *)
(* and a list of the epochs in the map, ordered by their last use.         *)
(***************************************************************************)
EXTENDS Naturals, Sequences, Functions

CONSTANTS
    EPOCH_LENGTH,
    max_capacity,
    MaxHeaderNumber          \* bound on the header numbers

VARIABLES
    caches_by_epoch,         \* epoch -> data
    recently_accessed_epochs \* pairs of timestamp and epoch

cache_gen_fn(epoch) == <<"cache", epoch>>

\* Ord of pairs.
before(p, q) == p[1] < q[1] \/ (p[1] = q[1] /\ p[2] <= q[2])

\* Vec::sort
sort(pairs) ==
    LET places == 1 .. Len(pairs)
        order == CHOOSE o \in Bijection(places, places) :
                     \A i, j \in places : i < j => before(pairs[o[i]], pairs[o[j]])
    IN  [i \in places |-> pairs[order[i]]]

\* Mutant: a full cache does not drop the data of the epoch it replaces.
replaced_kept(caches, accessed) == caches

\* The data left when accessed is full and its first epoch makes room.
replaced(caches, accessed) ==
    IF Len(accessed) = max_capacity
    THEN [e \in DOMAIN caches \ {accessed[1][2]} |-> caches[e]]
    ELSE caches

get(epoch, timestamp) ==
    LET accessed == recently_accessed_epochs
        found == CHOOSE i \in DOMAIN accessed : accessed[i][2] = epoch
        kept == replaced(caches_by_epoch, accessed)
    IN  IF epoch \in DOMAIN caches_by_epoch
        THEN /\ recently_accessed_epochs' = sort([accessed EXCEPT ![found] = <<timestamp, epoch>>])
             /\ UNCHANGED caches_by_epoch
        ELSE /\ recently_accessed_epochs' =
                    sort(IF Len(accessed) = max_capacity
                         THEN [accessed EXCEPT ![1] = <<timestamp, epoch>>]
                         ELSE Append(accessed, <<timestamp, epoch>>))
             /\ caches_by_epoch' =
                    [e \in DOMAIN kept \cup {epoch} |->
                        IF e = epoch THEN cache_gen_fn(epoch) ELSE kept[e]]

----------------------------------------------------------------------------
CacheInit == caches_by_epoch = <<>> /\ recently_accessed_epochs = <<>>

\* The header's number serves as the timestamp.
hashimoto_light ==
    \E header_number \in 0 .. MaxHeaderNumber :
        get(header_number \div EPOCH_LENGTH, header_number)

cacheVars == <<caches_by_epoch, recently_accessed_epochs>>

CacheSpec == CacheInit /\ [][hashimoto_light]_cacheVars

\* EthashCache::new asserts that the capacity is positive.
CacheAssumption ==
    EPOCH_LENGTH \in Nat \ {0} /\ max_capacity \in Nat \ {0} /\ MaxHeaderNumber \in Nat

\* The list of accessed epochs and the map of caches hold the same epochs, each once and
\* no more than max_capacity, so that neither unwrap of EthashCache.get can fail; the
\* first entry is the least, and the data is that of its epoch.
CacheAgrees ==
    LET accessed == recently_accessed_epochs
    IN  /\ {accessed[i][2] : i \in DOMAIN accessed} = DOMAIN caches_by_epoch
        /\ \A i, j \in DOMAIN accessed : accessed[i][2] = accessed[j][2] => i = j
        /\ Len(accessed) <= max_capacity
        /\ \A i, j \in DOMAIN accessed : i < j => accessed[i][1] < accessed[j][1]
        /\ \A i \in DOMAIN accessed : accessed[i][1] \div EPOCH_LENGTH = accessed[i][2]
        /\ \A e \in DOMAIN caches_by_epoch : caches_by_epoch[e] = cache_gen_fn(e)
=============================================================================

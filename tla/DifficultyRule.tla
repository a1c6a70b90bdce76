--------------------------- MODULE DifficultyRule ----------------------------
(* calc_difficulty for one parent and time of the next block after another. *)
EXTENDS Difficulty

CONSTANTS
    Config,                  \* a DifficultyConfig
    Parents, Times           \* headers, and times of the block after one

VARIABLES parent, time

RuleInit == parent \in Parents /\ time \in Times

RuleNext == time' \in Times /\ UNCHANGED parent

RuleSpec == RuleInit /\ [][RuleNext]_<<parent, time>>

\* The blocks where the bomb's delay changes, each with the delay of its EIP (649, 1234,
\* 2384 and 3554).
ForkDelays ==
    {<<Config.byzantium_fork_block, 3000000>>, <<Config.constantinople_fork_block, 5000000>>,
     <<Config.muir_glacier_fork_block, 9000000>>, <<Config.london_fork_block, 9700000>>}

\* The config has block numbers, and parents and times are those of headers.
RuleAssumption ==
    /\ Config \in [byzantium_fork_block : Nat, constantinople_fork_block : Nat,
                   muir_glacier_fork_block : Nat, london_fork_block : Nat]
    /\ Parents \subseteq [number : Nat, timestamp : Nat, has_ommers : BOOLEAN, difficulty : Nat]
    /\ Times \subseteq Nat

\* calc_difficulty, which works with the parent's number and skips the exponent below
\* two periods, is the rule of EIP-649 for the block after parent, with the delay of the
\* latest fork that includes the block: difficulty.rs says that it "follows Byzantium
\* rules" and is not for older blocks.
DifficultyAsEIP649 ==
    LET block == parent.number + 1
        Latest(delays) == CHOOSE d \in delays : \A e \in delays : e <= d
        delays == {d[2] : d \in {e \in ForkDelays : block >= e[1]}}
        fake_block_number == larger(0, block - Latest(delays))
        elapsed == time - parent.timestamp
        factor == larger((IF parent.has_ommers THEN 2 ELSE 1) - elapsed \div 9, -99)
        adjusted == parent.difficulty + (parent.difficulty \div 2048) * factor
    IN  calc_difficulty(Config, time, parent) =
            IF delays = {} \/ elapsed < 0 THEN InvalidBlock
            ELSE larger(adjusted, 131072) + two_pow(fake_block_number \div 100000) \div 4
=============================================================================

----------------------------- MODULE Difficulty -----------------------------
(***************************************************************************)
(* Ethereum's difficulty rule (primitives/ethereum/src/difficulty.rs),     *)
(* which the proof-of-work light client uses to accept or refuse a header. *)
(* None and Err are NoDelay and InvalidBlock.                              *)
(***************************************************************************)
EXTENDS Integers

DIFFICULTY_BOUND_DIVISOR == 11

EXP_DIFFICULTY_PERIOD == 100000

MINIMUM_DIFFICULTY == 131072

BombDelay == [Byzantium |-> 3000000, Constantinople |-> 5000000,
              MuirGlacier |-> 9000000, London |-> 9700000]

mainnet == [byzantium_fork_block |-> 4370000, constantinople_fork_block |-> 7280000,
            muir_glacier_fork_block |-> 9200000, london_fork_block |-> 12965000]

ropsten == [byzantium_fork_block |-> 1700000, constantinople_fork_block |-> 4230000,
            muir_glacier_fork_block |-> 7117117, london_fork_block |-> 10499401]

NoDelay == -1

InvalidBlock == -1

\* Mutant: the Muir Glacier fork starts one block late.
bomb_delay_late(config, block_number) ==
    IF block_number >= config.london_fork_block THEN BombDelay.London
    ELSE IF block_number > config.muir_glacier_fork_block THEN BombDelay.MuirGlacier
    ELSE IF block_number >= config.constantinople_fork_block THEN BombDelay.Constantinople
    ELSE IF block_number >= config.byzantium_fork_block THEN BombDelay.Byzantium
    ELSE NoDelay

bomb_delay(config, block_number) ==
    IF block_number >= config.london_fork_block THEN BombDelay.London
    ELSE IF block_number >= config.muir_glacier_fork_block THEN BombDelay.MuirGlacier
    ELSE IF block_number >= config.constantinople_fork_block THEN BombDelay.Constantinople
    ELSE IF block_number >= config.byzantium_fork_block THEN BombDelay.Byzantium
    ELSE NoDelay

larger(a, b) == IF a >= b THEN a ELSE b

\* U256::from(2).pow(n)
two_pow(n) ==
    LET p[i \in 0 .. n] == IF i = 0 THEN 1 ELSE 2 * p[i - 1]
    IN  p[n]

\* One step of parent.difficulty is parent.difficulty >> 11.
calc_difficulty(config, time, parent) ==
    LET delay == bomb_delay(config, parent.number + 1)
        block_time_div_9 == (time - parent.timestamp) \div 9
        sigma2 == larger((IF parent.has_ommers THEN 2 ELSE 1) - block_time_div_9, -99)
        step == parent.difficulty \div 2 ^ DIFFICULTY_BOUND_DIVISOR
        difficulty_without_exp == larger(parent.difficulty + step * sigma2, MINIMUM_DIFFICULTY)
        fake_block_number == larger(parent.number - (delay - 1), 0)
        period_count == fake_block_number \div EXP_DIFFICULTY_PERIOD
    IN  IF delay = NoDelay \/ time < parent.timestamp THEN InvalidBlock
        ELSE IF period_count >= 2 THEN difficulty_without_exp + two_pow(period_count - 2)
        ELSE difficulty_without_exp
=============================================================================

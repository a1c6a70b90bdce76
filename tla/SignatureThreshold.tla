------------------------- MODULE SignatureThreshold -------------------------
(***************************************************************************)
(* How many signatures submitFinal demands of a validator set              *)
(* (BeefyClient.sol, minimumSignatureThreshold).                           *)
(***************************************************************************)
EXTENDS Integers

\* Mutant: the first range is one too long.
minimumSignatureThreshold_late(n) ==
    IF n <= 10 THEN n - ((n - 1) \div 3)
    ELSE IF n < 343 THEN 10
    ELSE IF n < 683 THEN 11
    ELSE IF n < 1366 THEN 12
    ELSE IF n < 2731 THEN 13
    ELSE IF n < 5462 THEN 14
    ELSE IF n < 10923 THEN 15
    ELSE IF n < 21846 THEN 16
    ELSE 17

minimumSignatureThreshold(n) ==
    IF n <= 10 THEN n - ((n - 1) \div 3)
    ELSE IF n < 342 THEN 10
    ELSE IF n < 683 THEN 11
    ELSE IF n < 1366 THEN 12
    ELSE IF n < 2731 THEN 13
    ELSE IF n < 5462 THEN 14
    ELSE IF n < 10923 THEN 15
    ELSE IF n < 21846 THEN 16
    ELSE 17

\* For x > 10 the formula of BeefyClient.sol:395, max(10, ceil(log2(3 x))): the least k from
\* 10 on with 2 ^ k >= 3 x.  For x <= 10 the comment names two values, and they differ: line
\* 394 has x * (2/3), line 401 "minimum 2/3 + 1 validators must sign".  The code follows the
\* second, the least number above two thirds, which is one more than the first rounded down.
LeastSecure(x) ==
    LET f == minimumSignatureThreshold(x)
    IN  IF x <= 10 THEN 3 * f > 2 * x /\ 3 * (f - 1) <= 2 * x
        ELSE /\ f >= 10
             /\ 2 ^ f >= 3 * x
             /\ f = 10 \/ 2 ^ (f - 1) < 3 * x
=============================================================================

--------------------------- MODULE ThresholdOfSize ---------------------------
(* minimumSignatureThreshold for one size of a validator set after another. *)
EXTENDS SignatureThreshold

CONSTANT MaxValidators       \* bound on the sizes

VARIABLE validatorSetLen

SizeInit == validatorSetLen = 1

SizeNext ==
    /\ validatorSetLen < MaxValidators
    /\ validatorSetLen' = validatorSetLen + 1

SizeSpec == SizeInit /\ [][SizeNext]_validatorSetLen

\* minimumSignatureThreshold demands of a set of any size what lines 395 and 401 of its comment
\* say and not a signature more: above two thirds of up to 10 validators, which is not the
\* x * (2/3) of line 394 (3 of 3 and not 2, 7 of 9 and not 6), and max(10, ceil(log2(3 x)))
\* of x > 10.
ThresholdIsLeast == LeastSecure(validatorSetLen)
=============================================================================

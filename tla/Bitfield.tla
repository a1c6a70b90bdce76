------------------------------ MODULE Bitfield ------------------------------
(***************************************************************************)
(* utils/Bitfield.sol and utils/Bits.sol: bitfields as arrays of words,    *)
(* their population count, and the loop that draws n of the bits set in    *)
(* prior.  keccak256 of the seed and a counter, modulo length, is any      *)
(* index below length.  A word has 2 ^ LogBits bits (256 in the code).     *)
(***************************************************************************)
EXTENDS Integers, Sequences, FiniteSets, Bitwise

CONSTANTS
    LogBits,                 \* 8
    Lengths                  \* lengths of the validator sets considered

VARIABLES prior, n, length, bitfield, found

vars == <<prior, n, length, bitfield, found>>

WordBits == 2 ^ LogBits
Word == 0 .. 2 ^ WordBits - 1

bit(self, index) == (self \div 2 ^ index) % 2
setBit(self, index) == self | 2 ^ index

\* The element is 1-based here.
toLocation(index) == [element |-> index \div WordBits + 1, within |-> index % WordBits]

isSet(self, at) == bit(self[at.element], at.within) = 1

set(self, at) == [self EXCEPT ![at.element] = setBit(@, at.within)]

arrayLength(len) == (len + WordBits - 1) \div WordBits

createBitfield(bitsToSet, len) ==
    [e \in 1 .. arrayLength(len) |->
        CHOOSE w \in Word : \A i \in 0 .. WordBits - 1 :
            bit(w, i) = 1 <=> (e - 1) * WordBits + i \in bitsToSet]

\* M1, M2, M4, ...: 2 ^ k ones and 2 ^ k zeros in turn.
M(k) == (2 ^ WordBits - 1) \div (2 ^ (2 ^ k) + 1)

\* Mutant: the last addition is left out.
hammingWeight_short(word) ==
    LET x[k \in 0 .. LogBits - 1] ==
            IF k = 0 THEN word
            ELSE (x[k - 1] & M(k - 1)) + ((x[k - 1] \div 2 ^ (2 ^ (k - 1))) & M(k - 1))
    IN  x[LogBits - 1]

\* Step k adds neighbouring groups of 2 ^ k bits.
hammingWeight(word) ==
    LET x[k \in 0 .. LogBits] ==
            IF k = 0 THEN word
            ELSE (x[k - 1] & M(k - 1)) + ((x[k - 1] \div 2 ^ (2 ^ (k - 1))) & M(k - 1))
    IN  x[LogBits]

countSetBits(self) ==
    LET count[i \in 0 .. Len(self)] ==
            IF i = 0 THEN 0 ELSE count[i - 1] + hammingWeight(self[i])
    IN  count[Len(self)]

\* Mutant: the last index is left out.
makeIndex_short == 0 .. length - 2

\* The indices that a hash can be reduced to.
makeIndex == 0 .. length - 1

isNotSetInAOrIsSetInB(a, b, at) == ~isSet(a, at) \/ isSet(b, at)

Bits(self) == {i \in 0 .. Len(self) * WordBits - 1 : isSet(self, toLocation(i))}

----------------------------------------------------------------------------
\* The caller asks for no more bits than are set below length: half of them, or all.
Init ==
    /\ length \in Lengths
    /\ \E claimed \in SUBSET (0 .. length - 1) : prior = createBitfield(claimed, length)
    /\ n \in {countSetBits(prior) \div 2, countSetBits(prior)}
    /\ bitfield = [e \in 1 .. Len(prior) |-> 0]
    /\ found = 0

\* Mutant: the prior is not looked at.
drawIndex_any(index) ==
    /\ found < n
    /\ ~isSet(bitfield, toLocation(index))
    /\ bitfield' = set(bitfield, toLocation(index))
    /\ found' = found + 1
    /\ UNCHANGED <<prior, n, length>>

\* One turn of the loop in randomNBitsWithPriorCheck.  A turn that finds an unusable
\* index changes only the counter that the next index is hashed from.
drawIndex(index) ==
    /\ found < n
    /\ ~isNotSetInAOrIsSetInB(prior, bitfield, toLocation(index))
    /\ bitfield' = set(bitfield, toLocation(index))
    /\ found' = found + 1
    /\ UNCHANGED <<prior, n, length>>

Next == \E index \in makeIndex : drawIndex(index)

\* The hashes of ever new counters reach every index again and again.
Fairness ==
    \A index \in 0 .. (CHOOSE m \in Lengths : \A l \in Lengths : l <= m) - 1 :
        WF_vars(index \in makeIndex /\ drawIndex(index))

Spec == Init /\ [][Next]_vars /\ Fairness

----------------------------------------------------------------------------
\* countSetBits, which decides how many validators a bitfield claims, is exact.
CountIsExact == countSetBits(prior) = Cardinality(Bits(prior))

\* The loop ends when prior has n bits below length, and it ends with n different
\* validators, all of whom claimed to have signed: the signatures that verifyCommitment
\* checks are theirs.
DrawEnds ==
    <>(/\ found = n
       /\ Bits(bitfield) \subseteq Bits(prior)
       /\ Cardinality(Bits(bitfield)) = n)
=============================================================================

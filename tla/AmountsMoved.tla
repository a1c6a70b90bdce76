---------------------------- MODULE AmountsMoved ----------------------------
(* What the entries of a log moved in all, to hold against the books of a  *)
(* contract or pallet: a sum, as the number of units that were moved.      *)
EXTENDS Naturals, Sequences, FiniteSets

\* Each unit of the amounts, with the place it is from.
Units(amounts) == UNION {{i} \X (1 .. amounts[i]) : i \in DOMAIN amounts}

Sum(amounts) == Cardinality(Units(amounts))
=============================================================================

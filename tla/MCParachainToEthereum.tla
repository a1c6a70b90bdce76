----------------------- MODULE MCParachainToEthereum -----------------------
(* A small instance of ParachainToEthereum: one or two sources. *)
EXTENDS ParachainToEthereum

CONSTANTS a, b

OneSource == {a}
MCSources == {a, b}
=============================================================================

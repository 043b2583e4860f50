-------------------------------- MODULE MCBoot --------------------------------
(* Boot with two boards that have firmware, one bit of the status register     *)
(* beside QE, and any number of power cycles and runs of fpgav3init.           *)
EXTENDS Boot

MCIdByte == [qe |-> TRUE, other |-> 1]   \* 0xef, the manufacturer

=============================================================================

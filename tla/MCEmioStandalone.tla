--------------------------- MODULE MCEmioStandalone ---------------------------
(* EmioStandalone on a small instance: four registers, of which the last and  *)
(* (wrapping) the first are PROM registers, blocks of up to three quadlets,   *)
(* PROM data of up to two.                                                    *)
EXTENDS EmioStandalone

MCIdentity == [v \in Quads |-> v]
MCEndianSwap == [v \in Quads |-> CASE v = "ab" -> "ba" [] v = "ba" -> "ab" [] OTHER -> v]

=============================================================================

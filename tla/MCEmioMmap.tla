------------------------------ MODULE MCEmioMmap ------------------------------
(* EmioMmap on a small instance: four registers, two quadlets that are each  *)
(* other's byte swap, blocks of up to three quadlets.                        *)
EXTENDS EmioMmap

MCSwap == [v \in Quads |-> CASE v = "ab" -> "ba" [] v = "ba" -> "ab" [] OTHER -> v]

=============================================================================

------------------------------ MODULE MCEmioGpiod ------------------------------
(* EmioGpiod on a small instance: two quadlets that are each other's byte swap. *)
EXTENDS EmioGpiod

MCSwap == [v \in Quads |-> CASE v = "ab" -> "ba" [] v = "ba" -> "ab" [] OTHER -> v]

=============================================================================

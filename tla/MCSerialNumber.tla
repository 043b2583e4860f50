---------------------------- MODULE MCSerialNumber ----------------------------
(* SerialNumber with numbers of two characters and some memory behind the     *)
(* buffer. The buffer has four bytes, so that a number that leaves room in it *)
(* can be torn in the middle; three are enough for the full one.              *)
EXTENDS SerialNumber

=============================================================================

----------------------------- MODULE MCQspiFlash -----------------------------
(* QspiFlash on a partition of two sectors of two cells: images that end      *)
(* within either sector, an empty one, and one that does not fit.             *)
EXTENDS QspiFlash

Image(n, blanks) ==
    [len |-> n, data |-> [k \in 0 .. n - 1 |-> IF k \in blanks THEN Blank ELSE Zero]]
MCFiles == {Image(0, {}), Image(1, {}), Image(3, {}), Image(3, {1}), Image(4, {2}), Image(5, {})}

=============================================================================

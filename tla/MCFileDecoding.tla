--------------------------- MODULE MCFileDecoding ---------------------------
(* Model-checking instances of FileDecoding.                               *)
EXTENDS FileDecoding

Filled(size, lens) == {[size |-> size, len |-> l] : l \in [0 .. (size - 1) -> lens]}

(* Files with datablocks of the same length, the last one possibly cut.    *)
RegularFiles == UNION {Filled(n, {2}) : n \in 2 .. 7}

(* Every file of up to three bytes with every LEN up to three; files of    *)
(* several batches, with datablocks of equal and of different lengths.     *)
AllFiles ==
  (UNION {Filled(n, 0 .. 3) : n \in 1 .. 3}) \cup Filled(5, {1, 3}) \cup RegularFiles
=============================================================================

------------------------- MODULE MCDecodingPipeline -------------------------
(* Model-checking instances of DecodingPipeline: the byte streams a client *)
(* passes, small enough for every interleaving to be explored.             *)
EXTENDS DecodingPipeline, TLC

Block(outcomes) == [complete |-> TRUE, records |-> outcomes]
CutOff == [complete |-> FALSE, records |-> <<>>]

(* Two datablocks in parallel, every way a datablock can end short, an     *)
(* exception in a parser and one in a decoder.                             *)
AllEndings ==
  {<<Block(<<"decoded", "decoded">>), Block(<<"decoded">>)>>,
   <<Block(<<"throws">>), Block(<<"skipped">>)>>,
   <<Block(<<"poison">>)>>,
   <<Block(<<"rejected", "decoded">>), CutOff>>}

(* More records than a free queue of one holds, and a parser that throws.  *)
LiveBlocks ==
  {<<Block(<<"decoded", "decoded">>), Block(<<"skipped">>)>>,
   <<Block(<<"throws">>)>>}

PoisonedBlocks == {<<Block(<<"poison", "decoded">>)>>}

Symmetry == Permutations(Producer) \cup Permutations(Consumer)
=============================================================================

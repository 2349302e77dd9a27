-------------------------------- MODULE MCCodec --------------------------------
(* Model-checking instance of Codec and of ClientApplication: two set-ups  *)
(* and two calls, of up to two decoding threads, with one kind of value    *)
(* that a release resets and one that it forgets, by any program; and the  *)
(* application under the command lines that differ in the order of calls,  *)
(* in the numbers of threads or in the files written.                      *)
EXTENDS ClientApplication, TLC

Threads(total, producer, consumer, encoder, pool) ==
  [total |-> total, producer |-> producer, consumer |-> consumer, encoder |-> encoder, pool |-> pool]

Numbered ==
  {Threads(0, 0, 0, 0, 0), Threads(3, 0, 0, 0, 0), Threads(1, 0, 0, 0, 0), Threads(3, 2, 0, 0, 3),
   Threads(0, 1, 2, 0, 0), Threads(0, 2, 1, 0, 0), Threads(0, 2, 0, 3, 3), Threads(0, 2, 2, 0, 0)}

Runs ==
  {[NoOptions EXCEPT !.file = f, !.encode = e, !.encoder_off = off, !.serialize = archive, !.outputs = out] :
     f, e, off, archive \in BOOLEAN, out \in SUBSET {"json", "dump", "ast"}}

Lines == {numbers @@ run : numbers \in Numbered, run \in Runs}
================================================================================

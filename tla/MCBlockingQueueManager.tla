------------------------ MODULE MCBlockingQueueManager ----------------------
(* Model-checking instance of BlockingQueueManager.                        *)
EXTENDS BlockingQueueManager, TLC

(* Threads of one pool are interchangeable: no definition names one.       *)
Symmetry == Permutations(Producer) \cup Permutations(Consumer)
=============================================================================

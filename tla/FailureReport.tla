---------------------------- MODULE FailureReport ---------------------------
(***************************************************************************)
(* The FailureReport singleton: failures are appended by every thread of   *)
(* the library under one mutex, read back by index and cleared by the      *)
(* client.  The class keeps five parallel vectors.  Four of them (category *)
(* numbers, offsets, item names, return statuses) change together and are  *)
(* one sequence of failures here; rawDatablocks is kept apart.             *)
(***************************************************************************)
EXTENDS Naturals, Sequences

CONSTANT Raw   (* the rawDatablock argument: a copy of a datablock, nullptr *)

(* The other arguments stay with the failure and are left out.             *)
Failure == [raw : Raw]

VARIABLES
  failures,      (* the failures in the report, oldest first                 *)
  rawDatablocks  (* the vector of pointers to copies of the raw datablocks   *)

reportVars == <<failures, rawDatablocks>>

Init == failures = <<>> /\ rawDatablocks = <<>>

AddFailure(f) ==
  /\ failures' = Append(failures, f)
  /\ rawDatablocks' = Append(rawDatablocks, f.raw)

ClearFailures ==
  /\ failures' = <<>>
  /\ UNCHANGED rawDatablocks

Next == (\E f \in Failure : AddFailure(f)) \/ ClearFailures

Spec == Init /\ [][Next]_reportVars

-----------------------------------------------------------------------------
TypeOK == failures \in Seq(Failure) /\ rawDatablocks \in Seq(Raw)

(* get and printOnFile index rawDatablocks with the index of a failure:    *)
(* they never read past its end, and the pointers of the failures in the   *)
(* report are the last ones of the vector, in order.                       *)
LastPointersMatch ==
  /\ Len(failures) <= Len(rawDatablocks)
  /\ \A i \in 1 .. Len(failures) :
       rawDatablocks[Len(rawDatablocks) - Len(failures) + i] = failures[i].raw

=============================================================================

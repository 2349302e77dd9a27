--------------------------- MODULE RecordDelivery ---------------------------
(***************************************************************************)
(* What decoding promises about records, with threads, queues and pools    *)
(* left out: a record of a byte stream becomes in flight once, when it is  *)
(* parsed, and leaves once: it is delivered in the collection of one call, *)
(* or it is discarded because an exception left the code.                  *)
(***************************************************************************)
CONSTANTS RecordId, Calls

VARIABLES
  inFlight,   (* parsed records no client has seen yet                       *)
  delivered   (* delivered[c]: the records in the collection of call c       *)

deliveryVars == <<inFlight, delivered>>

Delivered == UNION {delivered[c] : c \in Calls}

Publish(id) ==
  /\ id \notin inFlight \cup Delivered
  /\ inFlight' = inFlight \cup {id}
  /\ UNCHANGED delivered

(* A call may return records that an earlier call left in flight.          *)
Deliver(c, S) ==
  /\ delivered[c] = {}
  /\ S \subseteq inFlight
  /\ delivered' = [delivered EXCEPT ![c] = S]
  /\ inFlight' = inFlight \ S

Discard(S) ==
  /\ S \subseteq inFlight
  /\ inFlight' = inFlight \ S
  /\ UNCHANGED delivered

Init ==
  /\ inFlight = {}
  /\ delivered = [c \in Calls |-> {}]

Next ==
  \/ \E S \in SUBSET inFlight : Discard(S)
  \/ \E id \in RecordId : Publish(id)
  \/ \E c \in Calls : \E S \in SUBSET inFlight : Deliver(c, S)

Spec == Init /\ [][Next]_deliveryVars
=============================================================================

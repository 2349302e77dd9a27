-------------------------------- MODULE Fspec -------------------------------
(***************************************************************************)
(* The field specification of a record, as the encoder builds it while it  *)
(* walks the items of a category (encodeAllItemsFromRecordCollection, and  *)
(* encodeAllItemsFromSingleRecord, which repeats it) and as the parser     *)
(* reads it (readFspec).  Every byte is built by shifting one bit in from  *)
(* the right; after seven items the extension bit FX is shifted in.  After *)
(* the loop the last byte is filled, the field is cut behind the last item *)
(* present, and its last FX is cleared.                                    *)
(*                                                                         *)
(* A field under construction is a record: its buffer (a sequence), the  *)
(* byte being built, the items visited (FX bits not counted), the FRN of   *)
(* the last item present, and whether a write fell outside the buffer.     *)
(***************************************************************************)
EXTENDS Integers, Sequences, SequencesExt

(* Mutant: one byte for eight items, none to spare.                        *)
MutantCleared(n) == n \div 8

(* memset clears one byte less than the buffer has.                        *)
Cleared(n) == n \div 8 + 1

NewField(n, garbage) ==
  [FSPEC |-> [b \in 1 .. Cleared(n) |-> 0] \o <<garbage>>,
   FSPEC_index |-> 0, bits |-> 0, lastFRNset |-> 0, outside |-> FALSE]

ShiftIn(field, bit) ==
  IF field.FSPEC_index < Len(field.FSPEC)
  THEN [field EXCEPT !.FSPEC[field.FSPEC_index + 1] = (2 * @ + bit) % 256]
  ELSE [field EXCEPT !.outside = TRUE]

(* One item: its bit, and the FX bit when seven items are in the byte.     *)
Visited(field, present) ==
  LET withItem == ShiftIn([field EXCEPT !.bits = @ + 1,
                                        !.lastFRNset = IF present THEN field.bits + 1 ELSE @],
                          IF present THEN 1 ELSE 0)
  IN IF withItem.bits % 7 = 0
     THEN [ShiftIn(withItem, 1) EXCEPT !.FSPEC_index = @ + 1]
     ELSE withItem

(* The bytes needed for n items and their FX bits.                         *)
LengthInByte(n) == (n + n \div 7 + 7) \div 8

(* The bits still missing in the last byte are shifted in as zeros.        *)
Filled(field) ==
  LET missing == 8 * LengthInByte(field.lastFRNset) - (field.bits + field.bits \div 7)
  IN IF missing <= 0 \/ field.outside THEN field.FSPEC
     ELSE [field.FSPEC EXCEPT ![field.FSPEC_index + 1] = (@ * 2 ^ missing) % 256]

(* The first bytes of the buffer; FX of the last one is cleared.  (Bytes   *)
(* outside the buffer could have any value: WritesInsideBuffer.)           *)
FieldBytes(field) ==
  LET n == LengthInByte(field.lastFRNset)
  IN [b \in 1 .. n |-> LET byte == IF b <= Len(field.FSPEC) THEN Filled(field)[b] ELSE 0
                       IN IF b = n THEN byte - (byte % 2) ELSE byte]

-----------------------------------------------------------------------------
(* The parser: the bytes up to the first one without FX, and the FRNs of   *)
(* the bits that are set.  source[n] is what it reads at index n.            *)
FieldLength(source, index) ==
  LET end[n \in Nat] == IF source[index + n] % 2 = 1 THEN end[n + 1] ELSE n + 1
  IN end[0]

Announced(byte, first) ==
  FlattenSeq([k \in 1 .. 7 |->
                IF (byte \div 2 ^ (8 - k)) % 2 = 1 THEN <<first + k - 1>> ELSE <<>>])

ReadFspec(source, index) ==
  FlattenSeq([b \in 1 .. FieldLength(source, index) |->
                Announced(source[index + b - 1], 7 * (b - 1) + 1)])
=============================================================================

----------------------------- MODULE RecordParsing -----------------------------
(***************************************************************************)
(* The parser of a datablock, parseAllRecords: records are taken off the   *)
(* bytes one after the other, each with its field specification, the       *)
(* description its first two bytes lead to, and the items announced.  A    *)
(* fault gives up the rest of the datablock; the records before it have    *)
(* been handed to the decoders already.  The caller goes from datablock to *)
(* datablock by CAT and LEN (startDecodingDatablocks).                     *)
(*                                                                         *)
(* An item is parsed for its length and its bytes; the elements in them    *)
(* and compound items are in ItemCoding.  The queues are in                *)
(* BlockingQueueManager.  No code of the repository clears toBeDecoded, so *)
(* no category is skipped.                                                 *)
(***************************************************************************)
EXTENDS RecordEncoding

CONSTANTS
  Streams,  (* byte streams received from others                             *)
  Beyond    (* bytes that may lie in memory behind the stream                *)

ASSUME ParsingAssumption ==
  /\ Streams \subseteq Seq(0 .. 255)
  /\ \A byte \in Beyond : byte \in 0 .. 255 /\ byte % 2 = 0

VARIABLES
  pc,           (* "idle", "datablock", "record", "items" or "done"          *)
  stream,       (* the source bytes                                          *)
  beyond,       (* the byte read behind them                                 *)
  bufferIndex,  (* where the datablock begins                                *)
  bytesRead,    (* how much of it was read                                   *)
  recordStart,  (* recordStartIndex                                          *)
  FRN_list,     (* the items announced                                       *)
  key,          (* the description found for the record                      *)
  parsed,       (* the items parsed: name and bytes                          *)
  delivered,    (* the records handed to the decoders                        *)
  failures      (* the failures reported: code and item                      *)

recordVars == <<recordStart, FRN_list, key, parsed>>
parserVars == <<pc, stream, beyond, bufferIndex, bytesRead, recordVars, delivered, failures>>

Byte == [n \in Nat |-> IF n < Len(stream) THEN stream[n + 1] ELSE beyond]
Bytes(from, n) == [b \in 1 .. n |-> Byte[from + b - 1]]

Category == Byte[bufferIndex]
Length == 256 * Byte[bufferIndex + 1] + Byte[bufferIndex + 2]
Here == bufferIndex + bytesRead

(* Mutant: SIC before SAC.                                                 *)
MutantParserKey(index) == SacSicKey(Category, Byte[index + 1], Byte[index])

(* The first two bytes behind the field specification stand for SAC and    *)
(* SIC, whatever item they belong to.                                      *)
ParserKey(index) == SacSicKey(Category, Byte[index], Byte[index + 1])

(* The bytes an item takes, or -1 for an explicit item that is neither the *)
(* reserved expansion nor the special purpose field.                       *)
ExtendedLength(item, index) ==
  LET end[n \in Nat] == IF Byte[index + n - 1] % 2 = 1 THEN end[n + 1] ELSE n
  IN end[item.length]

ItemLength(item, index) ==
  CASE item.kind = "Fixed"      -> item.length
    [] item.kind = "Extended"   -> ExtendedLength(item, index)
    [] item.kind = "Repetitive" -> Byte[index] * item.length + 1
    [] item.kind = "Explicit"   -> IF item.name \in Fields THEN Byte[index] ELSE -1

-----------------------------------------------------------------------------
Start(bytes) ==
  /\ pc = "idle"
  /\ stream' = bytes
  /\ beyond' \in Beyond
  /\ pc' = "datablock"
  /\ UNCHANGED <<encoderVars, bufferIndex, bytesRead, recordVars, delivered, failures>>

(* What the encoder made comes back, or a stream from elsewhere.           *)
ParseEncoded ==
  /\ call = "none" /\ calls = Len(client) /\ calls > 0
  /\ Start(IF astOutput THEN FlattenSeq(file) ELSE output)

ParseReceived == client = <<>> /\ \E s \in Streams : Start(s)

(* One datablock is given to a parser thread when all of it is there.      *)
NextDatablock ==
  /\ pc = "datablock" /\ bufferIndex < Len(stream)
  /\ IF bufferIndex + Length <= Len(stream)
     THEN /\ pc' = "record"
          /\ bytesRead' = 3
          /\ UNCHANGED failures
     ELSE /\ pc' = "done"
          /\ failures' = Append(failures, <<"INCOMPLETE_DATABLOCK", "">>)
          /\ UNCHANGED bytesRead
  /\ UNCHANGED <<encoderVars, stream, beyond, bufferIndex, recordVars, delivered>>

NoMoreDatablocks ==
  /\ pc = "datablock" /\ bufferIndex >= Len(stream)
  /\ pc' = "done"
  /\ UNCHANGED <<encoderVars, stream, beyond, bufferIndex, bytesRead, recordVars, delivered, failures>>

(* parseAllRecords returns 0, or ends by an exception nobody reports.      *)
GiveUp(reported) ==
  /\ failures' = failures \o reported
  /\ pc' = "datablock"
  /\ bufferIndex' = bufferIndex + Length
  /\ UNCHANGED <<encoderVars, stream, beyond, delivered>>

(* The name reported is that of the item at index frn, which counts from 0 *)
(* and so is the item after the one missing; behind the last item at()     *)
(* throws.                                                                 *)
MissingReport(items, frn) ==
  IF frn < Len(items) THEN <<<<"MISSING_MANDATORY_ITEM", items[frn + 1].name>>>> ELSE <<>>

(* Where the mandatory items name one that is not announced.               *)
MissingAt(list, mandatory) == {n \in DOMAIN mandatory : mandatory[n] \notin ToSet(list)}

BeginRecord ==
  /\ pc = "record" /\ bytesRead < Length
  /\ LET list == ReadFspec(Byte, Here)
         index == Here + FieldLength(Byte, Here)
         found == IF list = <<>> THEN NoDescription ELSE Lookup(ParserKey(index), Category)
         mandatory == IF found = NoDescription THEN <<>> ELSE Descriptions[found].mandatoryItemFRNs
         missing == MissingAt(list, mandatory)
     IN /\ recordStart' = bytesRead
        /\ FRN_list' = list
        /\ key' = found
        /\ parsed' = <<>>
        /\ bytesRead' = index - bufferIndex
        /\ IF found = NoDescription THEN GiveUp(<<<<"UNKNOWN_CATEGORY", "">>>>)
           ELSE IF missing # {}
           THEN GiveUp(MissingReport(Descriptions[found].items, mandatory[Min(missing)]))
           ELSE /\ pc' = "items"
                /\ UNCHANGED <<encoderVars, stream, beyond, bufferIndex, delivered, failures>>

ParseItem ==
  /\ pc = "items" /\ Len(parsed) < Len(FRN_list)
  /\ LET frn == FRN_list[Len(parsed) + 1]
         items == Descriptions[key].items
     IN IF frn > Len(items)
        THEN GiveUp(<<<<"UNKNOWN_FRN", "">>>>) /\ UNCHANGED <<recordVars, bytesRead>>
        ELSE LET n == ItemLength(items[frn], Here) IN
             IF n < 0
             THEN GiveUp(<<<<"PARSING_ERROR", items[frn].name>>>>) /\ UNCHANGED <<recordVars, bytesRead>>
             ELSE /\ parsed' = Append(parsed, <<items[frn].name, Bytes(Here, n)>>)
                  /\ bytesRead' = bytesRead + n
                  /\ UNCHANGED <<encoderVars, pc, stream, beyond, bufferIndex, recordStart,
                                 FRN_list, key, delivered, failures>>

(* Mutant: the size of the record leaves its field specification out.      *)
MutantRecordSize == Len(FlattenSeq([n \in DOMAIN parsed |-> parsed[n][2]]))

RecordSize == bytesRead - recordStart

(* The record is handed on.  Its raw bytes are copied from the start of    *)
(* the stream, not of the datablock.                                       *)
EndRecord ==
  /\ pc = "items" /\ Len(parsed) = Len(FRN_list)
  /\ delivered' = Append(delivered,
       [category |-> Category, key |-> key, items |-> parsed, datablock |-> bufferIndex,
        from |-> recordStart, raw |-> Bytes(recordStart, RecordSize)])
  /\ pc' = "record"
  /\ UNCHANGED <<encoderVars, stream, beyond, bufferIndex, bytesRead, recordVars, failures>>

EndDatablock ==
  /\ pc = "record" /\ bytesRead >= Length
  /\ bufferIndex' = bufferIndex + Length
  /\ pc' = "datablock"
  /\ UNCHANGED <<encoderVars, stream, beyond, bytesRead, recordVars, delivered, failures>>

ParserInit ==
  /\ pc = "idle" /\ stream = <<>> /\ bufferIndex = 0 /\ bytesRead = 0
  /\ beyond = 0 /\ recordStart = 0 /\ FRN_list = <<>> /\ key = NoDescription /\ parsed = <<>>
  /\ delivered = <<>> /\ failures = <<>>

ParserNext ==
  \/ ParseEncoded \/ ParseReceived \/ NextDatablock \/ NoMoreDatablocks
  \/ BeginRecord \/ ParseItem \/ EndRecord \/ EndDatablock
=============================================================================

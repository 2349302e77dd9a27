------------------------------ MODULE RecordCoding ------------------------------
(***************************************************************************)
(* Encoder and parser together: the client encodes collections and single  *)
(* records, then parses the bytes it got, or those in the AST file; or it  *)
(* parses a stream received from elsewhere.                                *)
(***************************************************************************)
EXTENDS RecordParsing

VARIABLE sent  (* history: the records whose datablocks were taken, and how
                  each was encoded; of the last call, or of all with the AST
                  output                                                    *)

vars == <<encoderVars, parserVars, sent>>

Init == EncoderInit /\ ParserInit /\ sent = <<>>

Taken(n) ==
  [record |-> records[n], kind |-> call, datablock |-> results[n].datablock,
   code |-> results[n].code, key |-> results[n].key, present |-> results[n].present]

EncoderStep ==
  /\ pc = "idle"
  /\ EncoderNext
  /\ sent' = CASE calls' # calls /\ ~astOutput -> <<>>
               [] calls' = calls /\ joined' = joined + 1 /\ results[joined'].datablock # Nullptr
                    -> Append(sent, Taken(joined'))
               [] OTHER -> sent
  /\ UNCHANGED parserVars

ParserStep == ParserNext /\ UNCHANGED sent

Next == EncoderStep \/ ParserStep

Spec == Init /\ [][Next]_vars

-----------------------------------------------------------------------------
SentItems(s) == Descriptions[s.key].items
ItemsOf(s) ==
  [n \in DOMAIN s.present |-> LET item == SentItems(s)[s.present[n]]
                              IN <<item.name, ItemBytes(item, s.record)>>]

Content(items) == FlattenSeq([n \in DOMAIN items |-> items[n][2]])

(* What the parser may choose for a datablock: its key needs two bytes,    *)
(* and a record may have only one.                                         *)
KeysOf(category) ==
  {k \in DOMAIN Descriptions : k \div 1000000 = category} \cup {Lookup(category, category)}

ParserFinds(s) ==
  LET content == Content(ItemsOf(s))
      category == s.record.category
  IN IF Len(content) >= 2 THEN {Lookup(SacSicKey(category, content[1], content[2]), category)}
     ELSE KeysOf(category)

Lacking(s) == ToSet(Descriptions[s.key].mandatoryItemFRNs) \ ToSet(s.present)
Rejected(s) == Lacking(s) # {}

(* What the parser hands on of a datablock: its record, or nothing.        *)
Parsed(s) == IF Rejected(s) THEN <<>> ELSE <<<<s.record.category, ItemsOf(s)>>>>

-----------------------------------------------------------------------------
(* The encoder builds the field specification inside its buffer, though it *)
(* allocates one byte for eight items and fills one with seven             *)
(* (encodeAllItemsFromRecordCollection).                                   *)
WritesInsideBuffer == \A n \in DOMAIN results : results[n] # NoResult => ~results[n].outside

(* What is parsed is what was encoded: the records the encoder wrote, in   *)
(* their order whatever the order the threads finished in, each with its   *)
(* category and its items byte by byte, for every description whose        *)
(* mandatory items are there and that both sides choose (encodeRecords,    *)
(* parseAllRecords).                                                       *)
ParsedAsEncoded ==
  /\ pc = "done" /\ sent # <<>> /\ counted >= Len(sent)
  /\ astOutput => Len(file) = Len(sent)
  /\ \A s \in ToSet(sent) : ParserFinds(s) = {s.key}
  => [n \in DOMAIN delivered |-> <<delivered[n].category, delivered[n].items>>]
       = FlattenSeq([n \in DOMAIN sent |-> Parsed(sent[n])])

(* A record that begins with its source identifier is parsed with the      *)
(* description it was encoded with; a single Record only when SAC and SIC  *)
(* have three digits each (encodeForDecodedRecord, parseAllRecords).       *)
SameDescription ==
  \A r \in ToSet(delivered), n \in DOMAIN sent :
    LET s == sent[n] IN
    /\ r.datablock = Len(FlattenSeq([m \in 1 .. n - 1 |-> sent[m].datablock]))
    /\ astOutput => Len(file) = Len(sent)
    /\ IsPrefix(<<"SAC", "SIC">>, SentItems(s)[s.present[1]].elements)
    /\ s.kind = "single" => Digits(Value(s.record, "SAC")) = 3 /\ Digits(Value(s.record, "SIC")) = 3
    => r.key = s.key

(* A datablock the parser will refuse for a missing mandatory item was     *)
(* reported by the encoder, unless every item missing comes after the last *)
(* one given: there the encoder's loop has ended                           *)
(* (encodeAllItemsFromRecordCollection).                                   *)
RejectedWasReported ==
  \A s \in ToSet(sent) :
    Rejected(s) =>
      \/ s.code = "MISSING_MANDATORY_ITEM"
      \/ \A frn \in Lacking(s) : frn > s.present[Len(s.present)]

(* The records of a datablock lie one behind the other from the byte after *)
(* LEN on, with no gap and no overlap, whatever the bytes are; the raw     *)
(* bytes kept of a record of the first datablock are its field             *)
(* specification and its items (parseAllRecords).                          *)
RecordsTile ==
  \A n \in DOMAIN delivered :
    LET r == delivered[n]
        first == n = 1 \/ delivered[n - 1].datablock # r.datablock
        at == r.datablock + r.from
        header == FieldLength(Byte, at)
    IN /\ r.from = IF first THEN 3 ELSE delivered[n - 1].from + Len(delivered[n - 1].raw)
       /\ Len(r.raw) = header + Len(Content(r.items))
       /\ r.datablock = 0 => r.raw = Bytes(at, header) \o Content(r.items)

=============================================================================

---------------------------- MODULE RecordEncoding ----------------------------
(***************************************************************************)
(* The encoder.  encodeRecords gives one task per record of a collection   *)
(* to the consumer threads and joins them in the order of the records;     *)
(* encodeSingleRecord does so for one Record made by the client.  A task   *)
(* chooses the description, encodes the items and puts CAT and LEN in      *)
(* front.  The datablocks are returned in one buffer, or appended to the   *)
(* AST file when that output is enabled.                                   *)
(*                                                                         *)
(* A record is its category and its elements: names and bytes.  How        *)
(* elements become the bits of an item is in ItemCoding; here an item is   *)
(* given with all of its elements or with none, and every element has      *)
(* whole bytes.  Filters are off: no code of the repository clears the     *)
(* toBeEncoded flag of a description.                                      *)
(***************************************************************************)
EXTENDS Fspec, FiniteSets, FiniteSetsExt

CONSTANTS
  Descriptions,   (* categoriesDescription: keys to items and mandatory FRNs *)
  Clients,        (* what a client may encode: a sequence of calls, each the *)
                  (* records of a collection or the contents of one Record   *)
  Threads,        (* how many threads encode                                 *)
  Garbage,        (* values an uninitialized byte may have                   *)
  NoResult        (* the future of a task that has not finished              *)

ASSUME EncodingAssumption ==
  /\ Garbage \subseteq 0 .. 255 /\ Threads \in Nat \ {0}

(* The items of a description and what a client gives are sequences.       *)
ASSUME DescriptionsAssumption ==
  \A k \in DOMAIN Descriptions :
    LET items == Descriptions[k].items IN items \in Seq(ToSet(items))

(* An item has a kind, compound items (ItemCoding) left out, a length in   *)
(* bytes, not 0 if it is repeated, and a sequence of elements.             *)
Kinds == {"Fixed", "Extended", "Repetitive", "Explicit"}
ASSUME ItemsAssumption ==
  \A k \in DOMAIN Descriptions : \A item \in ToSet(Descriptions[k].items) :
    /\ item.kind \in Kinds
    /\ item.length \in Nat /\ (item.kind = "Repetitive" => item.length > 0)
    /\ item.elements \in Seq(ToSet(item.elements))

ASSUME ClientsAssumption ==
  \A c \in Clients :
    /\ c \in Seq(ToSet(c))
    /\ \A n \in DOMAIN c : c[n].records \in Seq(ToSet(c[n].records))

(* A record is its category and its elements, which are bytes; a call for  *)
(* a single record has one.                                                *)
ASSUME RecordsAssumption ==
  \A c \in Clients : \A n \in DOMAIN c :
    /\ c[n].kind = "single" => c[n].records # <<>>
    /\ \A r \in ToSet(c[n].records) :
         /\ r = [category |-> r.category, elements |-> r.elements] /\ r.category \in Nat
         /\ \A e \in DOMAIN r.elements : r.elements[e] \in Seq(0 .. 255)

VARIABLES
  astOutput,  (* isAstOutputEnableForEncoder                                 *)
  client,     (* the calls this client makes                                 *)
  calls,      (* how many it has begun                                       *)
  call,       (* the one that runs: "none", "records" or "single"            *)
  records,    (* the records it encodes                                      *)
  results,    (* the futures: what each task returned, or NoResult           *)
  joined,     (* the futures already taken                                   *)
  counted,    (* recordNumberEncoded of every call so far, added up          *)
  collected,  (* encodedDatablocksCollection                                 *)
  output,     (* the buffer the last call returned                           *)
  outFile,    (* the stream of the AST file: open and good                   *)
  file        (* the datablocks in the AST file                              *)

callVars == <<calls, call, records, results, joined>>
outVars == <<counted, collected, output, outFile, file>>
encoderVars == <<astOutput, client, callVars, outVars>>

Nullptr == <<>>
NoDescription == 0

-----------------------------------------------------------------------------
(* The description of a record.                                            *)
Digits(n) == IF n < 10 THEN 1 ELSE IF n < 100 THEN 2 ELSE 3
Has(record, name) == name \in DOMAIN record.elements
Value(record, name) == IF Has(record, name) THEN record.elements[name][1] ELSE 0

(* The key of a source; of a decoded record, a missing SAC or SIC is 0.     *)
SacSicKey(category, sac, sic) == category * 1000000 + sac * 1000 + sic

CollectionKey(record) ==
  SacSicKey(record.category, Value(record, "SAC"), Value(record, "SIC"))

(* The key of a single Record: the decimal numbers written one after the   *)
(* other.                                                                  *)
Written(n, record, name) ==
  IF Has(record, name)
  THEN n * 10 ^ Digits(Value(record, name)) + Value(record, name) ELSE n
SingleKey(record) == Written(Written(record.category, record, "SAC"), record, "SIC")

(* The source's own description, or the default of the category, or none.  *)
Lookup(key, category) ==
  IF key \in DOMAIN Descriptions THEN key
  ELSE IF category \in DOMAIN Descriptions THEN category
  ELSE NoDescription

-----------------------------------------------------------------------------
(* The bytes of an item around those of its elements.                      *)
Wrapped(item, content) ==
  CASE item.kind = "Repetitive" -> <<Len(content) \div item.length>> \o content
    [] item.kind = "Explicit"   -> <<Len(content) + 1>> \o content
    [] item.kind = "Extended"   -> [b \in DOMAIN content |->
                                      content[b] + (IF b < Len(content) THEN 1 ELSE 0)]
    [] OTHER                    -> content

(* An explicit item that is neither of the two fields is never encoded.    *)
Fields == {"RE", "SP"}
Given(item, left) ==
  /\ item.name # "-"
  /\ item.kind = "Explicit" => item.name \in Fields
  /\ item.elements # <<>> /\ ToSet(item.elements) \subseteq left

ItemBytes(item, record) ==
  Wrapped(item, FlattenSeq([e \in DOMAIN item.elements |-> record.elements[item.elements[e]]]))

(* Mutant: only items of fixed length are reported.                        *)
MutantReported(item) == item.mandatory /\ item.kind = "Fixed"

Reported(item) == item.mandatory

(* Before the first item; after item n, which is not looked at when no     *)
(* element is left.                                                        *)
NothingEncoded(record, items, garbage) ==
  [field |-> NewField(Len(items), garbage), left |-> DOMAIN record.elements,
   bytes |-> <<>>, present |-> <<>>, missing |-> <<>>]

AfterItem(s, n, item, record) ==
  IF s.left = {} THEN s
  ELSE IF Given(item, s.left)
  THEN [s EXCEPT !.field = Visited(s.field, TRUE),
                 !.left = @ \ ToSet(item.elements),
                 !.bytes = @ \o ItemBytes(item, record),
                 !.present = Append(@, n)]
  ELSE [s EXCEPT !.field = Visited(s.field, FALSE),
                 !.missing = IF Reported(item) THEN Append(@, item.name) ELSE @]

(* The loop over the items.  It ends when no element is left, so items     *)
(* behind the last one given are not looked at.                            *)
ItemLoop(record, items, garbage) ==
  LET after[n \in 0 .. Len(items)] ==
        IF n = 0 THEN NothingEncoded(record, items, garbage)
                 ELSE AfterItem(after[n - 1], n, items[n], record)
  IN after[Len(items)]

CatAndLength(category, size) == <<category % 256, (size \div 256) % 256, size % 256>>

(* What a task returns: the datablock or nullptr, the code of a failure it *)
(* reported, the mandatory items it reported missing, and, to state the    *)
(* properties, the description used, the FRNs written and the items left.  *)
Failed(code, key) ==
  [datablock |-> Nullptr, code |-> code, missing |-> <<>>, key |-> key,
   present |-> <<>>, outside |-> FALSE]

Datablock(record, key, s) ==
  LET body == FieldBytes(s.field) \o s.bytes
  IN [datablock |-> IF body = <<>> THEN Nullptr
                    ELSE CatAndLength(record.category, Len(body) + 3) \o body,
      code |-> IF s.missing # <<>> THEN "MISSING_MANDATORY_ITEM" ELSE "none",
      missing |-> s.missing, key |-> key, present |-> s.present,
      outside |-> s.field.outside]

(* The constructor of Record clears its elements at the first one the      *)
(* description does not have.                                              *)
ElementsOf(key) == UNION {ToSet(item.elements) : item \in ToSet(Descriptions[key].items)}
Constructed(record) ==
  LET own == IF Has(record, "SAC") /\ Has(record, "SIC") THEN SingleKey(record) ELSE record.category
      key == Lookup(own, record.category)
  IN IF key = NoDescription \/ ~(DOMAIN record.elements \subseteq ElementsOf(key))
     THEN [record EXCEPT !.elements = <<>>] ELSE record

EncodeForDecodedRecord(record, garbage) ==
  LET key == Lookup(CollectionKey(record), record.category) IN
  IF key = NoDescription THEN Failed("UNKNOWN_CATEGORY", key)
  ELSE Datablock(record, key, ItemLoop(record, Descriptions[key].items, garbage))

(* The loop is written a second time for the elements of a Record.         *)
EncodeAllItemsFromSingleRecord(record, key, garbage) ==
  ItemLoop(record, Descriptions[key].items, garbage)

EncodeForSingleRecord(record, garbage) ==
  LET key == Lookup(SingleKey(record), record.category) IN
  IF record.elements = <<>> THEN Failed("ENCODING_ERROR", NoDescription)
  ELSE IF key = NoDescription THEN Failed("UNKNOWN_CATEGORY", key)
  ELSE Datablock(record, key, EncodeAllItemsFromSingleRecord(record, key, garbage))

-----------------------------------------------------------------------------
(* std::fstream: opening a stream that is open fails and leaves it bad;    *)
(* a successful open makes it good again, close does not.                  *)
Opened(f) == IF f.open THEN [f EXCEPT !.good = FALSE] ELSE [open |-> TRUE, good |-> TRUE]
Closed(f) == [f EXCEPT !.open = FALSE]
Write(datablock) == IF outFile.good THEN Append(file, datablock) ELSE file

StartCall(kind, todo) ==
  /\ call = "none" /\ calls < Len(client) /\ client[calls + 1].kind = kind
  /\ calls' = calls + 1
  /\ call' = kind
  /\ records' = todo
  /\ results' = [n \in DOMAIN todo |-> NoResult]
  /\ joined' = 0
  /\ outFile' = IF astOutput THEN Opened(outFile) ELSE outFile
  /\ collected' = <<>>
  /\ UNCHANGED <<astOutput, client, counted, output, file>>

Argument == client[calls + 1].records

EncodeRecords == StartCall("records", Argument)

(* The client makes the Record, then has it encoded.                       *)
EncodeSingleRecord == StartCall("single", <<Constructed(Argument[1])>>)

(* A consumer thread finishes a task: the tasks are started in their       *)
(* order, and as many run as there are threads.                            *)
RunTask ==
  \E n \in DOMAIN results, garbage \in Garbage :
    /\ call # "none" /\ results[n] = NoResult
    /\ Cardinality({m \in 1 .. n : results[m] = NoResult}) <= Threads
    /\ results' = [results EXCEPT ![n] =
                     IF call = "single" THEN EncodeForSingleRecord(records[n], garbage)
                                        ELSE EncodeForDecodedRecord(records[n], garbage)]
    /\ UNCHANGED <<astOutput, client, calls, call, records, joined, outVars>>

(* One result is taken.  encodeSingleRecord closes the file right after    *)
(* writing to it, and so not at all when the task returned nullptr.        *)
JoinTask ==
  /\ call # "none" /\ joined < Len(results) /\ results[joined + 1] # NoResult
  /\ joined' = joined + 1
  /\ LET datablock == results[joined + 1].datablock IN
     IF datablock = Nullptr THEN UNCHANGED <<counted, collected, outFile, file>>
     ELSE /\ counted' = counted + 1
          /\ IF astOutput
             THEN /\ file' = Write(datablock)
                  /\ outFile' = IF call = "single" THEN Closed(outFile) ELSE outFile
                  /\ UNCHANGED collected
             ELSE /\ collected' = Append(collected, datablock)
                  /\ UNCHANGED <<file, outFile>>
  /\ UNCHANGED <<astOutput, client, calls, call, records, results, output>>

(* Mutant: the buffer is filled from the last datablock to the first.      *)
MutantReturnDatablocks ==
  /\ call # "none" /\ joined = Len(results)
  /\ call' = "none"
  /\ output' = FlattenSeq(Reverse(collected))
  /\ outFile' = IF astOutput /\ call = "records" THEN Closed(outFile) ELSE outFile
  /\ UNCHANGED <<astOutput, client, calls, records, results, joined, counted, collected, file>>

(* The call returns; with the AST output the buffer is empty or nullptr.   *)
ReturnDatablocks ==
  /\ call # "none" /\ joined = Len(results)
  /\ call' = "none"
  /\ output' = FlattenSeq(collected)
  /\ outFile' = IF astOutput /\ call = "records" THEN Closed(outFile) ELSE outFile
  /\ UNCHANGED <<astOutput, client, calls, records, results, joined, counted, collected, file>>

EncoderInit ==
  /\ astOutput \in BOOLEAN /\ client \in Clients
  /\ calls = 0 /\ call = "none" /\ records = <<>> /\ results = <<>> /\ joined = 0
  /\ counted = 0 /\ collected = <<>> /\ output = <<>> /\ file = <<>>
  /\ outFile = [open |-> FALSE, good |-> TRUE]

EncoderNext == EncodeRecords \/ EncodeSingleRecord \/ RunTask \/ JoinTask \/ ReturnDatablocks
=============================================================================

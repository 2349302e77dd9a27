--------------------------- MODULE ClientApplication ---------------------------
(* The programs that use the library: any other program, which calls it in *)
(* the order it likes, and the application of client_app, whose main reads *)
(* the command line, loads the categories, sets the threads up and decodes *)
(* and encodes a file, a datablock of its own or a single record.  Codec   *)
(* is the library they call.                                               *)
(*                                                                         *)
(* Of the command line only what changes the order of the calls or the     *)
(* files written is kept; asking for help is the same as giving nothing.   *)
(* Of a file written it is kept whether it holds results of this run, of   *)
(* an earlier one or of both.                                              *)
EXTENDS Codec

CONSTANTS CommandLines    \* the command lines a user may give

(* The options are flags, the outputs asked for and unsigned numbers, zero *)
(* for those not given.                                                    *)
ASSUME CommandLinesAssumption ==
  CommandLines \subseteq
    [file : BOOLEAN, encode : BOOLEAN, encoder_off : BOOLEAN, serialize : BOOLEAN,
     outputs : SUBSET {"json", "dump", "ast"},
     total : Nat, producer : Nat, consumer : Nat, encoder : Nat, pool : Nat]

VARIABLES
  step,                  \* where main is, "other" for another program
  option,                \* command_arguments_map
  isSingleNumberSetted,  \* whether the numbers were asked for one by one
  status,                \* the code of ReturnStatus
  decodedRecords,        \* the collection at hand
  failures, failed,      \* whether the FailureReport holds a failure, ever held one
  disk                   \* what each output file holds

reporting == <<failures, failed>>
clientVars == <<step, option, isSingleNumberSetted, status, decodedRecords, reporting, disk>>
appVars == <<vars, clientVars>>

NoOptions ==
  [file |-> FALSE, encode |-> FALSE, encoder_off |-> FALSE, serialize |-> FALSE, outputs |-> {},
   total |-> 0, producer |-> 0, consumer |-> 0, encoder |-> 0, pool |-> 0]

Files == {"json", "txt", "ast", "log"}
NoRecords == [call |-> MaxCalls, values |-> {}]

ClientInit ==
  /\ Init
  /\ step \in {"other", "arguments"}
  /\ option = NoOptions /\ isSingleNumberSetted = FALSE /\ status = "SUCCESS"
  /\ decodedRecords = NoRecords /\ failures = FALSE /\ failed = FALSE
  /\ \E left \in {"nothing", "earlier"} :
       disk = [f \in Files |-> IF step = "arguments" THEN left ELSE "nothing"]

------------------------------------------------------------------------------
(* The command line.  With --encode the function returns before it passes  *)
(* the numbers to the library.                                             *)
(* Mutant: it passes them first.                                           *)
MutantAfterArguments(line) == "total"
AfterArguments(line) == IF line.encode THEN "load" ELSE "total"

ReadCommandLineArgs ==
  /\ step = "arguments"
  /\ \/ step' = "end" /\ UNCHANGED option
     \/ \E line \in CommandLines : option' = line /\ step' = AfterArguments(line)
  /\ UNCHANGED <<vars, isSingleNumberSetted, status, decodedRecords, reporting, disk>>

Pass(from, to, number, set) ==
  /\ step = from /\ step' = to
  /\ IF number # 0 THEN set ELSE UNCHANGED vars
  /\ isSingleNumberSetted' =
       (isSingleNumberSetted \/ (number # 0 /\ from \in {"producer", "consumer", "encoder"}))
  /\ UNCHANGED <<option, status, decodedRecords, reporting, disk>>

SetParameters ==
  \/ Pass("total", "producer", option.total, SetTotalNumberOfThreads(option.total))
  \/ Pass("producer", "consumer", option.producer, SetNumberOfProducerThreads(option.producer))
  \/ Pass("consumer", "encoder", option.consumer, SetNumberOfConsumerThreads(option.consumer))
  \/ Pass("encoder", "pool", option.encoder, SetNumberOfConsumerThreads(option.encoder))
  \/ Pass("pool", "load", option.pool, SetObjectPoolNumber(option.pool))

------------------------------------------------------------------------------
(* Loading, archiving, setting up.  An error ends main at once; the loader *)
(* never sets the WARNING that main would go on with.                      *)
LoadOutcomes == {"SUCCESS", "AST_CONFIG_LOADER_ERROR", "AST_MALFORMED_DESCRIPTION"}
ArchiveOutcomes == {"SUCCESS", "SERIALIZATION_FAILED"}

LoadAsterixConfiguration ==
  /\ step = "load"
  /\ status' \in LoadOutcomes
  /\ step' = CASE status' # "SUCCESS" -> "end"
               [] status' = "SUCCESS" /\ option.serialize  -> "serialize"
               [] status' = "SUCCESS" /\ ~option.serialize -> "setUp"
  /\ UNCHANGED <<vars, option, isSingleNumberSetted, decodedRecords, reporting, disk>>

SerializeAsterixConfiguration ==
  /\ step = "serialize" /\ step' = "end"
  /\ status' \in ArchiveOutcomes
  /\ UNCHANGED <<vars, option, isSingleNumberSetted, decodedRecords, reporting, disk>>

SetUpStatus ==
  IF Chosen.consumers % Chosen.producers # 0 \/ (isTotalNumberSetted /\ isSingleNumberSetted)
  THEN "SPEED_ISSUE" ELSE "SUCCESS"

(* setUpEnvironment empties the directory of the JSON files or else that   *)
(* of the text files, and removes the AST file.                            *)
Emptied ==
  LET json == "json" \in option.outputs
  IN (IF json THEN {"json"} ELSE {})
       \cup (IF ~json /\ "dump" \in option.outputs THEN {"txt"} ELSE {})
       \cup (IF "ast" \in option.outputs THEN {"ast"} ELSE {})

Source ==
  CASE option.file                     -> "file"
    [] ~option.file /\ option.encode   -> "single"
    [] ~option.file /\ ~option.encode  -> "datablock"

SetUpEnvironment ==
  /\ step = "setUp"
  /\ \/ /\ SetUpRejected /\ status' = "CRITICAL_PARAMETERS" /\ step' = "end"
        /\ UNCHANGED <<isSingleNumberSetted, disk>>
     \/ /\ SetUpAccepted /\ status' = SetUpStatus /\ step' = Source
        /\ isSingleNumberSetted' = (isSingleNumberSetted /\ ~isTotalNumberSetted)
        /\ disk' = [f \in Files |-> IF f \in Emptied THEN "nothing" ELSE disk[f]]
  /\ UNCHANGED <<option, decodedRecords, reporting>>

------------------------------------------------------------------------------
(* Decoding and encoding.  Text and AST files are appended to; every call  *)
(* may report failures.                                                    *)
Appended(f) == [disk EXCEPT ![f] = IF @ \in {"earlier", "both"} THEN "both" ELSE "this"]
MayFail == failures' \in {failures, TRUE} /\ failed' = (failed \/ failures')

(* The directory of the JSON files was emptied before.                     *)
Dumped == IF "dump" \in option.outputs THEN Appended("txt") ELSE disk
Decoded ==
  IF "json" \in option.outputs THEN [Dumped EXCEPT !["json"] = Appended("json")["json"]] ELSE Dumped
Encoded == IF "ast" \in option.outputs THEN Appended("ast") ELSE disk

Keep == UNCHANGED <<option, isSingleNumberSetted>>
AfterDecoding(next) == IF option.encoder_off THEN "release" ELSE next

LoadSourceFile ==
  /\ step = "file"
  /\ \/ status' = "AST_LOADER_ERROR" /\ step' = "end"
     \/ status' = "SUCCESS" /\ step' = "decode"
  /\ UNCHANGED <<vars, decodedRecords, reporting, disk>> /\ Keep

(* decodeFromFile and startDecodingDatablocks; an exception ends main.     *)
(* With JSON output only a collection without values is printed.           *)
DecodeBatch(from, to) ==
  /\ step = from
  /\ \/ /\ Decode /\ step' = to /\ disk' = Decoded
        /\ decodedRecords' \in collections' \ collections
        /\ "json" \in option.outputs => decodedRecords'.values = {}
     \/ /\ "json" \in option.outputs /\ PrintThrows /\ step' = "end" /\ disk' = Dumped
        /\ UNCHANGED decodedRecords
     \/ (DecodeThrows \/ DecodeOutside) /\ step' = "end" /\ UNCHANGED <<decodedRecords, disk>>
  /\ MayFail /\ UNCHANGED status /\ Keep

(* The values of the built-in datablock are printed.                       *)
LookUpValues ==
  /\ step = "lookUp" /\ step' = AfterDecoding("encode")
  /\ UNCHANGED <<vars, status, decodedRecords, reporting, disk>> /\ Keep

EncodeRecords ==
  /\ step = "encode" /\ step' = "release" /\ disk' = Encoded /\ MayFail
  /\ UNCHANGED <<vars, status, decodedRecords>> /\ Keep

(* The loop over the file goes on: decodeFromFile never returns nullptr.   *)
ReleaseBatch ==
  /\ step = "release" /\ step' = IF option.file THEN "decode" ELSE "report"
  /\ ReleaseAllDecodedRecords(decodedRecords)
  /\ UNCHANGED <<status, decodedRecords, reporting, disk>> /\ Keep

(* The status checked afterwards is still that of the set-up.              *)
EncodeSingleRecord ==
  /\ step = "single" /\ step' = (IF status = "SUCCESS" THEN "report" ELSE "end")
  /\ disk' = Encoded /\ MayFail
  /\ UNCHANGED <<vars, status, decodedRecords>> /\ Keep

(* The log is written anew, or removed when there is nothing to report.    *)
PrintOnFile == [disk EXCEPT !["log"] = "this"]
Removed == [disk EXCEPT !["log"] = "nothing"]

SaveReport ==
  /\ step = "report" /\ step' = "memory"
  /\ disk' = IF failures THEN PrintOnFile ELSE Removed
  /\ failures' = FALSE
  /\ UNCHANGED <<vars, status, decodedRecords, failed>> /\ Keep

EndApplication ==
  /\ step = "memory" /\ step' = "end" /\ ReleaseMemory
  /\ UNCHANGED <<status, decodedRecords, reporting, disk>> /\ Keep

DecodeAndEncodeAsterixFile == LoadSourceFile \/ DecodeBatch("decode", AfterDecoding("encode"))
DecodeAndEncodeFromOtherSource == DecodeBatch("datablock", "lookUp") \/ LookUpValues

OtherProgram == step = "other" /\ Next /\ UNCHANGED clientVars

ClientNext ==
  \/ OtherProgram
  \/ ReadCommandLineArgs \/ SetParameters
  \/ LoadAsterixConfiguration \/ SerializeAsterixConfiguration \/ SetUpEnvironment
  \/ DecodeAndEncodeAsterixFile \/ DecodeAndEncodeFromOtherSource
  \/ EncodeRecords \/ ReleaseBatch \/ EncodeSingleRecord
  \/ SaveReport \/ EndApplication

ClientSpec == ClientInit /\ [][ClientNext]_appVars

------------------------------------------------------------------------------
(* The application stays within what the library can bear: it releases a   *)
(* collection before it decodes the next and uses none it has released, no *)
(* number of threads makes its one set-up unfit for its calls, and none of *)
(* them throws unless JSON output is asked for.                            *)
KeepsProtocol ==
  step # "other" =>
    /\ ~early /\ life # "outside" /\ (life = "thrown" => "json" \in option.outputs)
    /\ step \in {"lookUp", "encode", "release"} => decodedRecords \in collections

(* Once it has set up and found its input, it ends only after the failures *)
(* are on disk, or the log of an earlier run is gone, and after everything *)
(* is released: the warning about speed does not end it half-way.  Only    *)
(* the exception of the JSON output does.                                  *)
NothingUnreported ==
  step = "end" /\ setUps > 0 =>
    \/ status = "AST_LOADER_ERROR"
    \/ life = "thrown" /\ "json" \in option.outputs
    \/ /\ life = "released" /\ collections = {}
       /\ disk["log"] = IF failed THEN "this" ELSE "nothing"

(* No file mixes results with those of an earlier run, but the text files  *)
(* when JSON files are wanted too: then they are not emptied.              *)
OutputsOfThisRun ==
  \A f \in Files : disk[f] = "both" => f = "txt" /\ {"json", "dump"} \subseteq option.outputs

ApplicationInOrder == KeepsProtocol /\ NothingUnreported /\ OutputsOfThisRun
================================================================================

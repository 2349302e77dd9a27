---------------------------- MODULE FileDecoding ----------------------------
(***************************************************************************)
(* Decoding a file in batches: DecoderInterface::setSourceDatastream and   *)
(* the client's loop of calls of decodeFromFile.  Each call scans the      *)
(* lengths of the next datablocks (setupDecodingFromFile) and then walks   *)
(* the same bytes again to hand the datablocks to the parsers              *)
(* (startDecodingDatablocks; its threads are in DecodingPipeline).         *)
(*                                                                         *)
(* A file is abstracted to its size and to the value a LEN field has when  *)
(* it is read at an offset, whether or not a datablock starts there.       *)
(***************************************************************************)
EXTENDS Integers, Sequences

CONSTANTS
  Files,        (* the files a client may decode                             *)
  MaxDatablock, (* getMaximumNumberOfDatablock(): datablocks of one batch    *)
  MaxFiles,     (* bound of the model: files decoded one after the other     *)
  MaxReported   (* bound of the model: failures up to the last rejection     *)

ASSUME FileAssumption ==
  /\ \A f \in Files : f.size \in Nat /\ f.len \in [0 .. (f.size - 1) -> Nat]
  /\ MaxDatablock \in Nat \ {0} /\ MaxFiles \in Nat /\ MaxReported \in Nat

VARIABLES
  file,         (* ASTERIX_bytestream and inputFile_sizeInByte               *)
  files,        (* files given to the decoder so far                         *)
  index,        (* asterixBytestream_index                                   *)
  pc,           (* "idle", "scan" or "dispatch"                              *)
  start,        (* asterixBytestream_index_start of the current batch        *)
  count,        (* currentNumberOfDatablocks                                 *)
  toParse,      (* asterixBytestream_toParse_lengthInByte                    *)
  bufferIndex,  (* position of the dispatch loop in the batch                *)
  parsed,       (* offsets of the datablocks of this file given to parsers   *)
  parsing,      (* those whose parse task has not ended                      *)
  cutOff,       (* offsets of this file an incomplete datablock was reported *)
  failures, rawDatablocks, (* the FailureReport                              *)
  decodedRecords(* what the client's last call on this file returned         *)

(* A failure carries the copy of its datablock, known by its place, or     *)
(* nullptr; the category, the message and the code are left out.           *)
Raw == (Nat \X Nat) \cup {"nullptr"}

FR == INSTANCE FailureReport

clientVars == <<file, files>>
scanVars == <<index, start, count>>
dispatchVars == <<toParse, bufferIndex, parsed, parsing, cutOff>>
reportVars == <<failures, rawDatablocks>>
vars == <<clientVars, scanVars, dispatchVars, reportVars, pc, decodedRecords>>

-----------------------------------------------------------------------------
(* A client that is done with a file, or has none yet, sets the next one.  *)
(* The index is not touched.                                               *)
SetSourceDatastream(f) ==
  /\ pc = "idle" /\ index >= file.size /\ files < MaxFiles
  /\ file' = f
  /\ files' = files + 1
  /\ parsed' = <<>> /\ cutOff' = {} /\ decodedRecords' = "nullptr"
  /\ UNCHANGED <<scanVars, pc, toParse, bufferIndex, parsing, reportVars>>

(* Mutant: the counter goes on counting.                                   *)
MutantCountNotReset ==
  /\ pc = "idle" /\ files > 0
  /\ pc' = "scan"
  /\ start' = index
  /\ UNCHANGED <<clientVars, index, count, dispatchVars, reportVars, decodedRecords>>

(* The client's loop: nothing but nullptr ends it.                         *)
DecodeFromFile ==
  /\ pc = "idle" /\ files > 0
  /\ pc' = "scan"
  /\ start' = index /\ count' = 0
  /\ UNCHANGED <<clientVars, index, dispatchVars, reportVars, decodedRecords>>

Scanning == pc = "scan" /\ index < file.size /\ count < MaxDatablock

ScanDatablock ==
  /\ Scanning
  /\ index + file.len[index] <= file.size
  /\ count' = count + 1
  /\ index' = index + file.len[index]
  /\ UNCHANGED <<clientVars, start, dispatchVars, reportVars, pc, decodedRecords>>

(* Mutant: the index stays where it is.                                    *)
MutantKeepIncomplete ==
  /\ Scanning
  /\ index + file.len[index] > file.size
  /\ UNCHANGED <<clientVars, scanVars, dispatchVars, reportVars, pc, decodedRecords>>

(* The last datablock is not complete: the index goes to the end of file.  *)
DropIncomplete ==
  /\ Scanning
  /\ index + file.len[index] > file.size
  /\ index' = file.size
  /\ UNCHANGED <<clientVars, start, count, dispatchVars, reportVars, pc, decodedRecords>>

FinishScan ==
  /\ pc = "scan" /\ ~Scanning
  /\ toParse' = IF count = 0 THEN 0 ELSE index - start
  /\ bufferIndex' = 0
  /\ pc' = "dispatch"
  /\ UNCHANGED <<clientVars, scanVars, parsed, parsing, cutOff, reportVars, decodedRecords>>

(* One turn of the loop of startDecodingDatablocks.                        *)
Length == file.len[start + bufferIndex]

(* Mutant: the next datablock is looked for one byte too early.            *)
MutantDispatchShort ==
  /\ pc = "dispatch" /\ bufferIndex < toParse
  /\ bufferIndex + Length <= toParse
  /\ parsed' = Append(parsed, start + bufferIndex)
  /\ parsing' = parsing \cup {start + bufferIndex}
  /\ bufferIndex' = bufferIndex + (IF Length > 1 THEN Length - 1 ELSE Length)
  /\ UNCHANGED <<clientVars, scanVars, toParse, cutOff, reportVars, pc, decodedRecords>>

DispatchDatablock ==
  /\ pc = "dispatch" /\ bufferIndex < toParse
  /\ bufferIndex + Length <= toParse
  /\ parsed' = Append(parsed, start + bufferIndex)
  /\ parsing' = parsing \cup {start + bufferIndex}
  /\ bufferIndex' = bufferIndex + Length
  /\ UNCHANGED <<clientVars, scanVars, toParse, cutOff, reportVars, pc, decodedRecords>>

ReportIncomplete ==
  /\ pc = "dispatch" /\ bufferIndex < toParse
  /\ bufferIndex + Length > toParse
  /\ FR!AddFailure([raw |-> "nullptr"])
  /\ cutOff' = cutOff \cup {start + bufferIndex}
  /\ bufferIndex' = bufferIndex + Length
  /\ UNCHANGED <<clientVars, scanVars, toParse, parsed, parsing, pc, decodedRecords>>

(* A parser thread ends with its datablock, in any order, or rejects it    *)
(* and adds a failure with a copy of the datablock.                        *)
EndParsing(o) ==
  /\ o \in parsing
  /\ parsing' = parsing \ {o}
  /\ UNCHANGED <<clientVars, scanVars, toParse, bufferIndex, parsed, cutOff,
                 reportVars, pc, decodedRecords>>

RejectDatablock(o) ==
  /\ o \in parsing /\ Len(rawDatablocks) < MaxReported
  /\ FR!AddFailure([raw |-> <<files, o>>])
  /\ parsing' = parsing \ {o}
  /\ UNCHANGED <<clientVars, scanVars, toParse, bufferIndex, parsed, cutOff,
                 pc, decodedRecords>>

(* All parsers are waited for.  A collection is returned, also when the    *)
(* batch was empty.                                                        *)
ReturnRecords ==
  /\ pc = "dispatch" /\ bufferIndex >= toParse
  /\ parsing = {}
  /\ pc' = "idle"
  /\ decodedRecords' = "collection"
  /\ UNCHANGED <<clientVars, scanVars, dispatchVars, reportVars>>

(* The client has read the report and clears it.                           *)
ClearFailures ==
  /\ pc = "idle" /\ failures # <<>>
  /\ FR!ClearFailures
  /\ UNCHANGED <<clientVars, scanVars, dispatchVars, pc, decodedRecords>>

-----------------------------------------------------------------------------
Init ==
  /\ file = [size |-> 0, len |-> <<>>] /\ files = 0
  /\ index = 0 /\ start = 0 /\ count = 0
  /\ toParse = 0 /\ bufferIndex = 0
  /\ parsed = <<>> /\ parsing = {} /\ cutOff = {}
  /\ FR!Init
  /\ pc = "idle"
  /\ decodedRecords = "nullptr"

Decoding ==
  \/ DecodeFromFile
  \/ ScanDatablock
  \/ DropIncomplete
  \/ FinishScan
  \/ DispatchDatablock
  \/ ReportIncomplete
  \/ \E o \in parsing : EndParsing(o)
  \/ \E o \in parsing : RejectDatablock(o)
  \/ ReturnRecords

Next ==
  \/ \E f \in Files : SetSourceDatastream(f)
  \/ ClearFailures
  \/ Decoding

Spec == Init /\ [][Next]_vars

(* The client's loop goes on and the threads of a call are scheduled; the  *)
(* client need not clear the report or decode another file.                *)
FairSpec == Spec /\ WF_vars(Decoding)

-----------------------------------------------------------------------------
TypeOK ==
  /\ file.size \in Nat /\ file.len \in [0 .. (file.size - 1) -> Nat]
  /\ files \in Nat
  /\ index \in Nat /\ start \in Nat /\ count \in 0 .. MaxDatablock
  /\ toParse \in Nat /\ bufferIndex \in Nat
  /\ parsed \in Seq(Nat) /\ parsing \subseteq Nat /\ cutOff \subseteq Nat
  /\ FR!TypeOK
  /\ pc \in {"idle", "scan", "dispatch"}
  /\ decodedRecords \in {"nullptr", "collection"}

(* The datablocks given to the parsers follow each other without gap or    *)
(* overlap, from one batch to the next too, and between two calls they end *)
(* where the next batch begins (unless the rest of the file was dropped).  *)
End(n) == parsed[n] + file.len[parsed[n]]

NoGapNoOverlap ==
  /\ \A n \in 1 .. (Len(parsed) - 1) : parsed[n + 1] = End(n)
  /\ (pc = "idle" /\ parsed # <<>>) => End(Len(parsed)) = index \/ index = file.size

(* setupDecodingFromFile and startDecodingDatablocks agree: a call has     *)
(* dispatched as many datablocks as it counted, from its start on.  (A LEN *)
(* field of 0 is counted again and again and dispatched never.)            *)
NoZeroLength == \A o \in DOMAIN file.len : file.len[o] > 0

TwoScansAgree ==
  (pc = "idle" /\ decodedRecords = "collection" /\ count > 0 /\ NoZeroLength) =>
    count <= Len(parsed) /\ parsed[Len(parsed) - count + 1] = start

(* A file with no LEN of 0 is decoded to its end, whatever the batch size. *)
ReachesEndOfFile ==
  (files > 0 /\ NoZeroLength) ~> (pc = "idle" /\ index >= file.size)

=============================================================================

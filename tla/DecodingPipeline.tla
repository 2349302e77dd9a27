-------------------------- MODULE DecodingPipeline --------------------------
(***************************************************************************)
(* One or more calls of DecoderInterface::startDecodingDatablocks.         *)
(*                                                                         *)
(* The calling thread opens the queues, enqueues one decode task per       *)
(* consumer thread, enqueues one parse task per complete datablock, waits  *)
(* for the parse tasks, closes the queues, waits for the decode tasks and  *)
(* returns the records they collected.  Worker threads and queues outlive  *)
(* the call.                                                               *)
(*                                                                         *)
(* A datablock is abstracted to the outcomes of the successive iterations  *)
(* of the record loop of parseAllRecords:                                  *)
(*   "decoded"   the record is parsed and handed to the consumers          *)
(*   "poison"    parsed, but decoding one of its elements throws           *)
(*   "skipped"   its category is not to be decoded: released, next turn    *)
(*   "rejected"  released and reported, the rest of the block is dropped   *)
(*   "throws"    released, then an exception leaves the parser             *)
(***************************************************************************)
EXTENDS Naturals, Sequences, FiniteSets

CONSTANTS
  Producer, Consumer,   (* worker threads of the two thread pools            *)
  NumQueues, PoolSize,  (* as in BlockingQueueManager                        *)
  Streams,              (* the byte streams a client may pass                *)
  MaxBlocks,            (* bound of the model: datablocks of one stream      *)
  MaxRecords,           (* bound of the model: records of one datablock      *)
  MaxCalls,             (* bound of the model: calls of the decoder          *)
  None, NullPtr

Thread == Producer \cup Consumer
Calls  == 1 .. MaxCalls
NumDecoders == Cardinality(Consumer)

Outcome == {"decoded", "poison", "skipped", "rejected", "throws"}
Datablock == [complete : BOOLEAN, records : Seq(Outcome)]

(* The n-th record of the j-th datablock of the c-th call.                 *)
RecordId == Calls \X (1 .. MaxBlocks) \X (1 .. MaxRecords)

ParseTask == {"parse"} \X Calls \X (1 .. MaxBlocks)
DecodeTask == {"decode"} \X Calls \X (1 .. NumDecoders)
Task == ParseTask \cup DecodeTask

Pool == {"parser", "consumer"}
PoolOf == [t \in Thread |-> IF t \in Producer THEN "parser" ELSE "consumer"]

(* Only the last datablock of a stream can be cut off by its end.          *)
ASSUME PipelineAssumption ==
  /\ IsFiniteSet(Consumer) /\ Producer \cap Consumer = {} /\ NumQueues \in Nat
  /\ MaxCalls \in Nat /\ MaxBlocks \in Nat /\ MaxRecords \in Nat
  /\ \A s \in Streams :
       /\ s \in Seq(Datablock) /\ Len(s) <= MaxBlocks
       /\ \A j \in 1 .. Len(s) :
            /\ Len(s[j].records) <= MaxRecords
            /\ ~s[j].complete => j = Len(s)
  /\ None \notin Task

VARIABLES
  items, isOpen, waiting, inGet, held, matchMap, elements, (* the queues     *)
  tasks, running, future,   (* the parser and consumer thread pools          *)
  cursor,           (* cursor[t]: the record loop of parser thread t         *)
  collected,        (* collected[k]: consumerResult of decode task k         *)
  pc, step,         (* the calling thread: phase, and position in its loop   *)
  call,             (* calls made so far                                     *)
  stream,           (* stream[c]: the byte stream of call c                  *)
  parsingResults,   (* the futures of the parse tasks waited for             *)
  decodingResults,  (* the futures of the decode tasks waited for            *)
  decodedRecords,   (* decodedRecords[c]: the RecordCollection of call c     *)
  raised,           (* the calls an exception has left                       *)
  reported          (* datablocks with an entry in the FailureReport         *)

BQM == INSTANCE BlockingQueueManager WITH Element <- RecordId, MaxElements <- 2
TP  == INSTANCE TaskPool WITH Worker <- Thread, NoTask <- None

(* DecoderInterface gives the manager a queue of each kind for every       *)
(* thread of its parser pool.                                              *)
ASSUME QueuesAssumption == BQM!ManagerAssumption

managerVars == <<items, isOpen, waiting, inGet, held, matchMap, elements>>
poolVars    == <<tasks, running, future>>
callVars    == <<call, stream, decodedRecords, raised>>
mainVars    == <<pc, step, parsingResults, decodingResults>>
vars == <<managerVars, poolVars, cursor, collected, mainVars, callVars, reported>>

-----------------------------------------------------------------------------
(***************************************************************************)
(* The parser threads: parseDatablock and parseAllRecords.                 *)
(***************************************************************************)
Parsing(t) == t \in Producer /\ running[t] # None
BlockOf(k) == stream[k[2]][k[3]]
RecordOf(t) == <<running[t][2], running[t][3], cursor[t]>>
LoopDone(t) == cursor[t] > Len(BlockOf(running[t]).records)
OutcomeOf(t) == BlockOf(running[t]).records[cursor[t]]

Stored(t) == \E n \in 1 .. Len(elements[held[t]]) : elements[held[t]][n] = RecordOf(t)

(* Inside the loop, with the record it got.                                *)
InLoopBody(t) == Parsing(t) /\ ~LoopDone(t) /\ held[t] \in BQM!Record

(* The worker takes a parse task: the record loop starts.                  *)
StartParsing(t) ==
  /\ t \in Producer
  /\ TP!Take(t)
  /\ cursor' = [cursor EXCEPT ![t] = 1]
  /\ UNCHANGED <<managerVars, collected, mainVars, callVars, reported>>

(* while (bytesRead < datablockLength): ask for a free record.             *)
NextRecord(t) ==
  /\ Parsing(t) /\ ~LoopDone(t)
  /\ BQM!GetObjectPoolForProducer(t)
  /\ UNCHANGED <<poolVars, cursor, collected, mainVars, callVars, reported>>

(* The items of the record are stored in the ParsedRecord, of a rejected   *)
(* one those that precede the fault.                                       *)
ParseItems(t) ==
  /\ InLoopBody(t)
  /\ OutcomeOf(t) \in {"decoded", "poison", "rejected"}
  /\ ~Stored(t)
  /\ BQM!SetParsedElement(t, RecordOf(t))
  /\ UNCHANGED <<poolVars, cursor, collected, mainVars, callVars, reported>>

PublishRecord(t) ==
  /\ InLoopBody(t)
  /\ OutcomeOf(t) \in {"decoded", "poison"}
  /\ Stored(t)
  /\ BQM!SetObjectPoolForConsumer(t)
  /\ cursor' = [cursor EXCEPT ![t] = @ + 1]
  /\ UNCHANGED <<poolVars, collected, mainVars, callVars, reported>>

(* Mutant: the record of a skipped category is forgotten.                  *)
MutantSkipWithoutRelease(t) ==
  /\ InLoopBody(t)
  /\ OutcomeOf(t) = "skipped"
  /\ BQM!AbandonRecord(t)
  /\ cursor' = [cursor EXCEPT ![t] = @ + 1]
  /\ UNCHANGED <<poolVars, collected, mainVars, callVars, reported>>

(* Category not to be decoded: release and continue.                       *)
SkipRecord(t) ==
  /\ InLoopBody(t)
  /\ OutcomeOf(t) = "skipped"
  /\ BQM!ReleaseObjectPoolForProducer(t)
  /\ cursor' = [cursor EXCEPT ![t] = @ + 1]
  /\ UNCHANGED <<poolVars, collected, mainVars, callVars, reported>>

(* Mutant: the failure is not reported.                                    *)
MutantRejectSilently(t) ==
  /\ InLoopBody(t)
  /\ OutcomeOf(t) = "rejected"
  /\ BQM!ReleaseObjectPoolForProducer(t)
  /\ cursor' = [cursor EXCEPT ![t] = Len(BlockOf(running[t]).records) + 1]
  /\ UNCHANGED <<poolVars, collected, mainVars, callVars, reported>>

(* Release, addFailure, return 0: the loop ends, whatever is left of the   *)
(* datablock.  addFailure has a mutex of its own that nobody else holds    *)
(* while it needs a queue, so the report is filed in the same step.        *)
RejectDatablock(t) ==
  /\ InLoopBody(t)
  /\ OutcomeOf(t) = "rejected"
  /\ BQM!ReleaseObjectPoolForProducer(t)
  /\ cursor' = [cursor EXCEPT ![t] = Len(BlockOf(running[t]).records) + 1]
  /\ reported' = reported \cup {<<running[t][2], running[t][3]>>}
  /\ UNCHANGED <<poolVars, collected, mainVars, callVars>>

(* The record is released first; the exception is then stored in the       *)
(* future of the task.                                                     *)
ThrowWhileParsing(t) ==
  /\ InLoopBody(t)
  /\ OutcomeOf(t) = "throws"
  /\ BQM!ReleaseObjectPoolForProducer(t)
  /\ TP!Complete(t, "exception")
  /\ cursor' = [cursor EXCEPT ![t] = 0]
  /\ UNCHANGED <<collected, mainVars, callVars, reported>>

FinishParsing(t) ==
  /\ Parsing(t) /\ LoopDone(t)
  /\ TP!Complete(t, "value")
  /\ cursor' = [cursor EXCEPT ![t] = 0]
  /\ UNCHANGED <<managerVars, collected, mainVars, callVars, reported>>

(***************************************************************************)
(* The decoder threads: decodeParsedRecords.                               *)
(***************************************************************************)
Decoding(t) == t \in Consumer /\ running[t] # None
ContentOf(t) == elements[held[t]]
Poisoned(id) == stream[id[1]][id[2]].records[id[3]] = "poison"

StartDecoding(t) ==
  /\ t \in Consumer
  /\ TP!Take(t)
  /\ UNCHANGED <<managerVars, cursor, collected, mainVars, callVars, reported>>

NextParsedRecord(t) ==
  /\ Decoding(t)
  /\ BQM!GetObjectPoolForConsumer(t)
  /\ UNCHANGED <<poolVars, cursor, collected, mainVars, callVars, reported>>

(* Decode every element the record holds, keep the result, release the     *)
(* record for the producer it belongs to.                                  *)
DecodeRecord(t) ==
  /\ Decoding(t) /\ held[t] \in BQM!Record
  /\ \A n \in 1 .. Len(ContentOf(t)) : ~Poisoned(ContentOf(t)[n])
  /\ collected' = [collected EXCEPT ![running[t]] = @ \o ContentOf(t)]
  /\ BQM!ReleaseObjectPoolForProducer(t)
  /\ UNCHANGED <<poolVars, cursor, mainVars, callVars, reported>>

(* An exception leaves decodeParsedRecords: the record is not released and *)
(* what the task has collected is unreachable.                             *)
ThrowWhileDecoding(t) ==
  /\ Decoding(t) /\ held[t] \in BQM!Record
  /\ \E n \in 1 .. Len(ContentOf(t)) : Poisoned(ContentOf(t)[n])
  /\ BQM!AbandonRecord(t)
  /\ TP!Complete(t, "exception")
  /\ collected' = [collected EXCEPT ![running[t]] = <<>>]
  /\ UNCHANGED <<cursor, mainVars, callVars, reported>>

(* nullptr: the queue is closed and empty.                                 *)
FinishDecoding(t) ==
  /\ Decoding(t) /\ held[t] = NullPtr
  /\ BQM!ForgetNull(t)
  /\ TP!Complete(t, "value")
  /\ UNCHANGED <<cursor, collected, mainVars, callVars, reported>>

(* Inside a queue's get, for threads of both kinds.                        *)
GetFromQueue(t) ==
  /\ BQM!GetObjectPoolFromQueue(t)
  /\ UNCHANGED <<poolVars, cursor, collected, mainVars, callVars, reported>>

WakeSpuriously(t) ==
  /\ BQM!SpuriousWakeup(t)
  /\ UNCHANGED <<poolVars, cursor, collected, mainVars, callVars, reported>>

-----------------------------------------------------------------------------
(***************************************************************************)
(* The calling thread: startDecodingDatablocks.                            *)
(***************************************************************************)
Goto(label) == pc' = label /\ step' = 1

CallDecoder(s) ==
  /\ pc = "idle" /\ call < MaxCalls
  /\ call' = call + 1
  /\ stream' = [stream EXCEPT ![call + 1] = s]
  /\ Goto("open")
  /\ UNCHANGED <<managerVars, poolVars, cursor, collected, parsingResults,
                 decodingResults, decodedRecords, raised, reported>>

OpenQueues ==
  /\ pc = "open"
  /\ BQM!OpenAllBlockingQueues
  /\ Goto("start")
  /\ UNCHANGED <<poolVars, cursor, collected, parsingResults, decodingResults,
                 callVars, reported>>

(* startDecoderThreads: one decode task for every consumer thread.         *)
StartDecoderThread ==
  /\ pc = "start"
  /\ \/ /\ step <= NumDecoders
        /\ TP!Enqueue("consumer", <<"decode", call, step>>)
        /\ decodingResults' = Append(decodingResults, <<"decode", call, step>>)
        /\ step' = step + 1
        /\ UNCHANGED pc
     \/ /\ step > NumDecoders
        /\ Goto("dispatch")
        /\ UNCHANGED <<poolVars, decodingResults>>
  /\ UNCHANGED <<managerVars, cursor, collected, parsingResults, callVars, reported>>

(* while (bufferIndex < length): enqueue a complete datablock, report a    *)
(* cut off one.                                                            *)
DispatchDatablock ==
  /\ pc = "dispatch"
  /\ \/ /\ step <= Len(stream[call]) /\ stream[call][step].complete
        /\ TP!Enqueue("parser", <<"parse", call, step>>)
        /\ parsingResults' = Append(parsingResults, <<"parse", call, step>>)
        /\ step' = step + 1
        /\ UNCHANGED <<pc, reported>>
     \/ /\ step <= Len(stream[call]) /\ ~stream[call][step].complete
        /\ reported' = reported \cup {<<call, step>>}
        /\ step' = step + 1
        /\ UNCHANGED <<poolVars, parsingResults, pc>>
     \/ /\ step > Len(stream[call])
        /\ Goto("join")
        /\ UNCHANGED <<poolVars, parsingResults, reported>>
  /\ UNCHANGED <<managerVars, cursor, collected, decodingResults, callVars>>

(* result.get() rethrows the exception of a task, and throws future_error  *)
(* on a future whose result an earlier call already took.  Either leaves   *)
(* startDecodingDatablocks with both vectors as they are.                  *)
RaiseFrom(k) ==
  /\ \/ future[k] = "exception" /\ TP!GetResult(k)
     \/ future[k] = "consumed" /\ UNCHANGED poolVars
  /\ raised' = raised \cup {call}
  /\ decodedRecords' = [decodedRecords EXCEPT ![call] = <<>>]
  /\ pc' = "idle" /\ step' = 0
  /\ UNCHANGED <<parsingResults, decodingResults>>

JoinParser ==
  /\ pc = "join" /\ step <= Len(parsingResults)
  /\ \/ /\ future[parsingResults[step]] = "value"
        /\ TP!GetResult(parsingResults[step])
        /\ step' = step + 1
        /\ UNCHANGED <<pc, parsingResults, decodingResults, decodedRecords, raised>>
     \/ RaiseFrom(parsingResults[step])
  /\ UNCHANGED <<managerVars, cursor, collected, call, stream, reported>>

AllParsed ==
  /\ pc = "join" /\ step > Len(parsingResults)
  /\ Goto("close")
  /\ UNCHANGED <<managerVars, poolVars, cursor, collected, parsingResults,
                 decodingResults, callVars, reported>>

(* closeAllBlockingQueues: the producer queues, then the consumer queues.  *)
ClosedAt(n) ==
  IF n <= NumQueues THEN <<"free", n - 1>> ELSE <<"parsed", n - 1 - NumQueues>>

CloseQueue ==
  /\ pc = "close"
  /\ \/ /\ step <= 2 * NumQueues
        /\ BQM!CloseBlockingQueue(ClosedAt(step))
        /\ step' = step + 1
        /\ UNCHANGED <<pc, parsingResults>>
     \/ /\ step > 2 * NumQueues
        /\ parsingResults' = <<>>
        /\ Goto("collect")
        /\ UNCHANGED managerVars
  /\ UNCHANGED <<poolVars, cursor, collected, decodingResults, callVars, reported>>

(* RecordCollection::addRecordsInCollection.                               *)
AddRecordsInCollection(collection, recordsToAdd) == collection \o recordsToAdd

(* waitForConsumer: append the collection of one decode task.              *)
CollectDecoder ==
  /\ pc = "collect" /\ step <= Len(decodingResults)
  /\ LET k == decodingResults[step] IN
       \/ /\ future[k] = "value"
          /\ TP!GetResult(k)
          /\ decodedRecords' = [decodedRecords EXCEPT ![call] = AddRecordsInCollection(@, collected[k])]
          /\ collected' = [collected EXCEPT ![k] = <<>>]
          /\ step' = step + 1
          /\ UNCHANGED <<pc, parsingResults, decodingResults, raised>>
       \/ RaiseFrom(k) /\ UNCHANGED collected
  /\ UNCHANGED <<managerVars, cursor, call, stream, reported>>

ReturnToClient ==
  /\ pc = "collect" /\ step > Len(decodingResults)
  /\ decodingResults' = <<>>
  /\ pc' = "idle" /\ step' = 0
  /\ UNCHANGED <<managerVars, poolVars, cursor, collected, parsingResults,
                 callVars, reported>>

-----------------------------------------------------------------------------
Init ==
  /\ BQM!Init
  /\ TP!Init
  /\ cursor = [t \in Producer |-> 0]
  /\ collected = [k \in DecodeTask |-> <<>>]
  /\ pc = "idle" /\ step = 0
  /\ call = 0
  /\ stream = [c \in Calls |-> <<>>]
  /\ parsingResults = <<>> /\ decodingResults = <<>>
  /\ decodedRecords = [c \in Calls |-> <<>>]
  /\ raised = {}
  /\ reported = {}

ParserStep(t) ==
  \/ StartParsing(t)
  \/ NextRecord(t)
  \/ ParseItems(t)
  \/ PublishRecord(t)
  \/ SkipRecord(t)
  \/ RejectDatablock(t)
  \/ ThrowWhileParsing(t)
  \/ FinishParsing(t)
  \/ GetFromQueue(t)

DecoderStep(t) ==
  \/ StartDecoding(t)
  \/ NextParsedRecord(t)
  \/ DecodeRecord(t)
  \/ ThrowWhileDecoding(t)
  \/ FinishDecoding(t)
  \/ GetFromQueue(t)

MainStep ==
  \/ OpenQueues
  \/ StartDecoderThread
  \/ DispatchDatablock
  \/ JoinParser
  \/ AllParsed
  \/ CloseQueue
  \/ CollectDecoder
  \/ ReturnToClient

Next ==
  \/ \E s \in Streams : CallDecoder(s)
  \/ MainStep
  \/ \E t \in Producer : ParserStep(t)
  \/ \E t \in Consumer : DecoderStep(t)
  \/ \E t \in Thread : WakeSpuriously(t)

(* Every thread is scheduled again and again.  The client need not call,   *)
(* a blocked thread need not wake up by itself.                            *)
Fairness ==
  /\ WF_vars(MainStep)
  /\ \A t \in Producer : WF_vars(ParserStep(t))
  /\ \A t \in Consumer : WF_vars(DecoderStep(t))

Spec == Init /\ [][Next]_vars
FairSpec == Spec /\ Fairness

-----------------------------------------------------------------------------

SeqSet(s) == {s[n] : n \in 1 .. Len(s)}

(* The threads use the queues within the rules of BlockingQueueManager.    *)
ImplementsManager == BQM!Spec

(* The calls already returned (an interrupted call returns nothing).       *)
Returned == {c \in 1 .. call : c < call \/ pc = "idle"}

(* The contents of the records in the queue q.                             *)
Contents(q) == UNION {SeqSet(elements[items[q][n]]) : n \in 1 .. Len(items[q])}
AllContents == UNION {Contents(q) : q \in {"parsed"} \X BQM!Index}
AllDelivered == UNION {SeqSet(decodedRecords[c]) : c \in Returned}

(* The records of block j of call c that parseAllRecords hands over: those *)
(* before the first rejected one.                                          *)
Accepted(c, j) ==
  {<<c, j, n>> : n \in {m \in 1 .. Len(stream[c][j].records) :
     /\ stream[c][j].complete
     /\ stream[c][j].records[m] \in {"decoded", "poison"}
     /\ \A i \in 1 .. m : stream[c][j].records[i] # "rejected"}}

(* When no call was left by an exception, every accepted record of every   *)
(* call is delivered or still in a consumer queue, in particular after it  *)
(* returned, and every datablock that was cut short, by the parser or by   *)
(* the end of the stream, has an entry in the FailureReport, and no other. *)
EverythingAccounted ==
  (pc = "idle" /\ raised = {}) =>
    \A c \in 1 .. call : \A j \in 1 .. Len(stream[c]) :
      /\ Accepted(c, j) \subseteq AllDelivered \cup AllContents
      /\ <<c, j>> \in reported <=>
           \/ ~stream[c][j].complete
           \/ \E n \in 1 .. Len(stream[c][j].records) : stream[c][j].records[n] = "rejected"

(* With one consumer per queue, the records of a datablock stay together   *)
(* and in stream order, whatever the threads do to different datablocks.   *)
DatablockOrder ==
  \A c \in Calls : \A m, n \in 1 .. Len(decodedRecords[c]) :
    LET a == decodedRecords[c][m]
        b == decodedRecords[c][n]
    IN (m < n /\ a[1] = b[1] /\ a[2] = b[2]) => a[3] < b[3]

(* startDecodingDatablocks returns, whatever the sizes of the pools.       *)
CallReturns == pc # "idle" ~> pc = "idle"

(* Parsed records not yet returned: in a consumer queue, in the hands of a *)
(* decoder, in the result of a decode task, or being gathered.             *)
InFlight ==
  AllContents
  \cup (UNION {SeqSet(ContentOf(t)) : t \in {u \in Consumer : held[u] \in BQM!Record}})
  \cup (UNION {SeqSet(collected[k]) : k \in DecodeTask})
  \cup (IF pc = "collect" THEN SeqSet(decodedRecords[call]) ELSE {})

Delivery == INSTANCE RecordDelivery WITH
  inFlight <- InFlight,
  delivered <- [c \in Calls |-> IF c \in Returned THEN SeqSet(decodedRecords[c]) ELSE {}]

(* Every step publishes, delivers or discards records as RecordDelivery    *)
(* allows, or changes nothing a client could tell.                         *)
ImplementsDelivery == Delivery!Spec
=============================================================================

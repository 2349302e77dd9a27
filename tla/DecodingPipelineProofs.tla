------------------------ MODULE DecodingPipelineProofs ------------------------
(***************************************************************************)
(* What is proved of the decoding pipeline for any number of threads,      *)
(* queues, calls and streams.                                              *)
(*  1. Its threads use the queues as BlockingQueueManager describes, so    *)
(*     what is proved of the manager holds here (ManagerInPipeline).       *)
(*  2. Seen from the client it is RecordDelivery: every record is handed   *)
(*     out at most once, and only when parsed (PipelineImplementsDelivery).*)
(*  3. Every record begun is in exactly one place until it is counted      *)
(*     (RecordsAreAccountedFor).                                           *)
(*  4. When every decoder thread has a queue of its own, the records of a  *)
(*     datablock come out in their order (BlocksStayInOrder).              *)
(***************************************************************************)
EXTENDS DecodingPipeline, FiniteSetTheorems, SequenceTheorems, TLAPS

(* Parse tasks name a datablock of a stream given to an earlier call.      *)
Given == {k \in ParseTask : k[2] <= call /\ k[3] \in 1 .. Len(stream[k[2]])}

(* The pools run tasks of their own kind; the record loop of a parser      *)
(* starts at its first record.                                             *)
TasksInv ==
  /\ call \in 0 .. MaxCalls
  /\ stream \in [Calls -> Streams \cup {<<>>}]
  /\ tasks \in [Pool -> Seq(Task)]
  /\ tasks["parser"] \in Seq(Given)
  /\ running \in [Thread -> Task \cup {None}]
  /\ \A t \in Producer : running[t] # None => running[t] \in Given
  /\ cursor \in [Producer -> Nat]
  /\ \A t \in Producer : running[t] # None => cursor[t] >= 1
  /\ step \in Nat /\ (pc = "idle" \/ call >= 1)
  /\ pc # "idle" => step >= 1

(* The record a parser works on is one of the records there are.           *)
LEMMA RecordOfType ==
  ASSUME TasksInv, NEW t \in Producer, Parsing(t), ~LoopDone(t)
  PROVE  RecordOf(t) \in RecordId
<1> DEFINE k == running[t]
<1>1. k \in ParseTask /\ k[2] \in Calls /\ k[3] \in 1 .. MaxBlocks /\ k[3] \in 1 .. Len(stream[k[2]])
  BY DEF TasksInv, Parsing, Given, ParseTask
<1>2. stream[k[2]] \in Streams
  BY <1>1 DEF TasksInv
<1>3. Len(BlockOf(k).records) <= MaxRecords /\ Len(BlockOf(k).records) \in Nat
  <2> DEFINE s == stream[k[2]]
  <2>1. s \in Seq(Datablock) /\ \A j \in 1 .. Len(s) : Len(s[j].records) <= MaxRecords
    BY <1>2, PipelineAssumption
  <2>2. s[k[3]] \in Datablock
    BY <1>1, <2>1
  <2>3. Len(s[k[3]].records) \in Nat
    BY <2>2 DEF Datablock
  <2> QED
    BY <1>1, <2>1, <2>3 DEF BlockOf
<1>4. cursor[t] \in 1 .. MaxRecords
  BY <1>3, PipelineAssumption DEF TasksInv, Parsing, LoopDone
<1> QED
  BY <1>1, <1>4 DEF RecordOf, RecordId

-----------------------------------------------------------------------------
(* Nothing is given before the first call.                                 *)
LEMMA InitTasks == Init => TasksInv
<1> SUFFICES ASSUME Init PROVE TasksInv
  OBVIOUS
<1>1. /\ tasks \in [Pool -> Seq(Task)] /\ tasks["parser"] \in Seq(Given)
      /\ running \in [Thread -> Task \cup {None}]
      /\ \A t \in Producer : running[t] = None
  BY DEF Init, TP!Init, Pool, Thread
<1> QED
  BY <1>1, PipelineAssumption DEF Init, TasksInv

(* A call given its stream leaves the tasks of the earlier calls valid.    *)
LEMMA GivenGrows ==
  ASSUME TasksInv, NEW s \in Streams, CallDecoder(s)
  PROVE  Given \subseteq Given'
BY DEF TasksInv, CallDecoder, Given, ParseTask, Calls

(* What a worker takes is what the pool was given.                         *)
LEMMA TakeTasks ==
  ASSUME TasksInv, NEW t \in Thread, TP!Take(t)
  PROVE  /\ tasks' \in [Pool -> Seq(Task)] /\ tasks'["parser"] \in Seq(Given)
         /\ running' \in [Thread -> Task \cup {None}]
         /\ \A u \in Thread : u # t => running'[u] = running[u]
         /\ t \in Producer => running'[t] \in Given
<1> DEFINE p == PoolOf[t]
           k == Head(tasks[p])
<1>1. p \in Pool /\ tasks[p] \in Seq(Task) /\ tasks[p] # <<>>
  BY DEF TasksInv, TP!Take, PoolOf, Pool, Thread
<1>2. k \in Task /\ Tail(tasks[p]) \in Seq(Task)
  BY <1>1
<1>3. "parser" \in Pool /\ (t \in Producer => p = "parser")
  BY DEF Pool, PoolOf, Thread
<1>4. tasks["parser"] # <<>> =>
        Head(tasks["parser"]) \in Given /\ Tail(tasks["parser"]) \in Seq(Given)
  BY DEF TasksInv
<1>5. tasks' = [tasks EXCEPT ![p] = Tail(@)] /\ running' = [running EXCEPT ![t] = k]
  BY DEF TP!Take
<1> QED
  BY <1>1, <1>2, <1>3, <1>4, <1>5 DEF TasksInv

(* A block being parsed has a length.                                      *)
LEMMA BlockLength ==
  ASSUME TasksInv, NEW t \in Producer, Parsing(t)
  PROVE  Len(BlockOf(running[t]).records) \in Nat
<1> DEFINE k == running[t]
           s == stream[k[2]]
<1>1. k[2] \in Calls /\ k[3] \in 1 .. Len(s)
  BY DEF TasksInv, Parsing, Given, ParseTask
<1>2. s \in Streams
  BY <1>1 DEF TasksInv
<1>3. s \in Seq(Datablock)
  BY <1>2, PipelineAssumption
<1>4. s[k[3]] \in Datablock
  BY <1>1, <1>3
<1> QED
  BY <1>4 DEF Datablock, BlockOf

(* Parser threads keep to their tasks.                                     *)
LEMMA ParserTasks ==
  ASSUME TasksInv, NEW t \in Producer, ParserStep(t)
  PROVE  TasksInv'
<1> USE DEF poolVars, managerVars, mainVars, callVars
<1>1. CASE StartParsing(t)
  <2>1. TP!Take(t) /\ t \in Thread
    BY <1>1 DEF StartParsing, Thread
  <2>2. /\ tasks' \in [Pool -> Seq(Task)] /\ tasks'["parser"] \in Seq(Given)
        /\ running' \in [Thread -> Task \cup {None}]
        /\ \A u \in Thread : u # t => running'[u] = running[u]
        /\ running'[t] \in Given
    BY <2>1, TakeTasks
  <2>3. cursor' = [cursor EXCEPT ![t] = 1] /\ UNCHANGED <<call, stream, pc, step>>
    BY <1>1 DEF StartParsing
  <2>4. Given' = Given
    BY <2>3 DEF Given
  <2>5. /\ cursor' \in [Producer -> Nat]
        /\ \A u \in Producer : running'[u] # None => running'[u] \in Given' /\ cursor'[u] >= 1
    BY <2>2, <2>3, <2>4 DEF TasksInv, Thread
  <2> QED
    BY <2>2, <2>3, <2>4, <2>5 DEF TasksInv
<1>2. CASE NextRecord(t) \/ ParseItems(t) \/ GetFromQueue(t)
  BY <1>2 DEF NextRecord, ParseItems, GetFromQueue, TasksInv, Given
<1>3. CASE PublishRecord(t) \/ SkipRecord(t) \/ RejectDatablock(t)
  <2>1. Parsing(t) /\ UNCHANGED <<poolVars, call, stream, pc, step>>
    BY <1>3 DEF PublishRecord, SkipRecord, RejectDatablock, InLoopBody
  <2>2. \E n \in Nat : n >= 1 /\ cursor' = [cursor EXCEPT ![t] = n]
    BY <1>3, <2>1, BlockLength DEF PublishRecord, SkipRecord, RejectDatablock, TasksInv
  <2> QED
    BY <2>1, <2>2 DEF TasksInv, Given
<1>4. CASE ThrowWhileParsing(t) \/ FinishParsing(t)
  <2>1. /\ running' = [running EXCEPT ![t] = None] /\ cursor' = [cursor EXCEPT ![t] = 0]
        /\ UNCHANGED <<tasks, call, stream, pc, step>>
    BY <1>4 DEF ThrowWhileParsing, FinishParsing, TP!Complete
  <2> QED
    BY <2>1 DEF TasksInv, Given, Thread
<1> QED
  BY <1>1, <1>2, <1>3, <1>4 DEF ParserStep

(* Decoder threads take no parse task.                                     *)
LEMMA DecoderTasks ==
  ASSUME TasksInv, NEW t \in Consumer, DecoderStep(t)
  PROVE  TasksInv'
<1> USE DEF poolVars, managerVars, mainVars, callVars
<1>0. t \in Thread /\ t \notin Producer
  BY PipelineAssumption DEF Thread
<1>1. CASE StartDecoding(t)
  <2>1. /\ tasks' \in [Pool -> Seq(Task)] /\ tasks'["parser"] \in Seq(Given)
        /\ running' \in [Thread -> Task \cup {None}]
        /\ \A u \in Thread : u # t => running'[u] = running[u]
    BY <1>0, <1>1, TakeTasks DEF StartDecoding
  <2>2. UNCHANGED <<call, stream, cursor, pc, step>>
    BY <1>1 DEF StartDecoding
  <2>3. Given' = Given
    BY <2>2 DEF Given
  <2> QED
    BY <1>0, <2>1, <2>2, <2>3 DEF TasksInv, Thread
<1>2. CASE NextParsedRecord(t) \/ DecodeRecord(t) \/ GetFromQueue(t)
  BY <1>2 DEF NextParsedRecord, DecodeRecord, GetFromQueue, TasksInv, Given
<1>3. CASE ThrowWhileDecoding(t) \/ FinishDecoding(t)
  <2>1. /\ running' = [running EXCEPT ![t] = None]
        /\ UNCHANGED <<tasks, call, stream, cursor, pc, step>>
    BY <1>3 DEF ThrowWhileDecoding, FinishDecoding, TP!Complete
  <2> QED
    BY <1>0, <2>1 DEF TasksInv, Given, Thread
<1> QED
  BY <1>1, <1>2, <1>3 DEF DecoderStep

(* The calling thread enqueues one decode task for each consumer and one   *)
(* parse task for each complete datablock.                                 *)
LEMMA MainTasks == ASSUME TasksInv, MainStep PROVE TasksInv'
<1> USE DEF poolVars, managerVars, mainVars, callVars
<1>1. CASE StartDecoderThread
  <2>1. CASE /\ pc = "start" /\ step <= NumDecoders
             /\ TP!Enqueue("consumer", <<"decode", call, step>>)
             /\ step' = step + 1 /\ pc' = pc
    <3>1. <<"decode", call, step>> \in Task
      <4>1. NumDecoders \in Nat
        BY PipelineAssumption, FS_CardinalityType DEF NumDecoders
      <4>2. call \in Calls /\ step \in 1 .. NumDecoders
        BY <2>1, <4>1, PipelineAssumption DEF TasksInv, Calls
      <4> QED
        BY <4>2 DEF Task, DecodeTask
    <3>2. /\ tasks' = [tasks EXCEPT !["consumer"] = Append(@, <<"decode", call, step>>)]
          /\ UNCHANGED <<running, call, stream, cursor>>
      BY <1>1, <2>1 DEF StartDecoderThread, TP!Enqueue
    <3>3. tasks' \in [Pool -> Seq(Task)] /\ tasks'["parser"] = tasks["parser"]
      BY <3>1, <3>2 DEF TasksInv, Pool
    <3> QED
      BY <2>1, <3>2, <3>3 DEF TasksInv, Given
  <2>2. CASE Goto("dispatch") /\ UNCHANGED <<tasks, running>>
    BY <1>1, <2>2 DEF StartDecoderThread, Goto, TasksInv, Given
  <2> QED
    BY <1>1, <2>1, <2>2 DEF StartDecoderThread
<1>2. CASE DispatchDatablock
  <2>1. CASE /\ pc = "dispatch" /\ step <= Len(stream[call])
             /\ TP!Enqueue("parser", <<"parse", call, step>>)
             /\ step' = step + 1 /\ pc' = pc
    <3>1. <<"parse", call, step>> \in Given
      <4>1. call \in Calls /\ step >= 1 /\ step \in Nat
        BY <2>1, PipelineAssumption DEF TasksInv, Calls
      <4>2. stream[call] \in Seq(Datablock) /\ Len(stream[call]) <= MaxBlocks
        <5>1. stream[call] # <<>> /\ stream[call] \in Streams \cup {<<>>}
          BY <2>1, <4>1 DEF TasksInv
        <5> QED
          BY <5>1, PipelineAssumption
      <4>3. step \in 1 .. MaxBlocks /\ step \in 1 .. Len(stream[call])
        BY <2>1, <4>1, <4>2, PipelineAssumption
      <4> QED
        BY <4>1, <4>3 DEF Given, ParseTask, Calls
    <3>2. /\ tasks' = [tasks EXCEPT !["parser"] = Append(@, <<"parse", call, step>>)]
          /\ UNCHANGED <<running, call, stream, cursor>>
      BY <1>2, <2>1 DEF DispatchDatablock, TP!Enqueue
    <3>3. tasks' \in [Pool -> Seq(Task)] /\ tasks'["parser"] \in Seq(Given)
      BY <3>1, <3>2 DEF TasksInv, Pool, Task, Given
    <3> QED
      BY <2>1, <3>2, <3>3 DEF TasksInv, Given
  <2>2. CASE /\ pc = "dispatch" /\ step' = step + 1 /\ pc' = pc
             /\ UNCHANGED <<tasks, running>>
    BY <1>2, <2>2 DEF DispatchDatablock, TasksInv, Given
  <2>3. CASE pc = "dispatch" /\ Goto("join") /\ UNCHANGED <<tasks, running>>
    BY <1>2, <2>3 DEF DispatchDatablock, Goto, TasksInv, Given
  <2> QED
    BY <1>2, <2>1, <2>2, <2>3 DEF DispatchDatablock
<1>3. CASE OpenQueues \/ AllParsed \/ CloseQueue \/ ReturnToClient
  <2>1. UNCHANGED <<tasks, running, call, stream, cursor>>
    BY <1>3 DEF OpenQueues, AllParsed, CloseQueue, ReturnToClient
  <2>2. \/ pc # "idle" /\ pc' # "idle" /\ step' = 1
        \/ pc = "close" /\ pc' = pc /\ step' = step + 1
        \/ pc' = "idle" /\ step' = 0
    BY <1>3 DEF OpenQueues, AllParsed, CloseQueue, ReturnToClient, Goto
  <2> QED
    BY <2>1, <2>2 DEF TasksInv, Given
<1>4. CASE JoinParser \/ CollectDecoder
  <2>1. UNCHANGED <<tasks, running, call, stream, cursor>>
    BY <1>4 DEF JoinParser, CollectDecoder, RaiseFrom, TP!GetResult
  <2>2. \/ pc # "idle" /\ pc' = pc /\ step' = step + 1
        \/ pc' = "idle" /\ step' = 0
    BY <1>4 DEF JoinParser, CollectDecoder, RaiseFrom
  <2> QED
    BY <2>1, <2>2 DEF TasksInv, Given
<1> QED
  BY <1>1, <1>2, <1>3, <1>4 DEF MainStep

(* The invariant of every reachable state.                                 *)
LEMMA TasksInvariant == Spec => []TasksInv
<1>1. TasksInv /\ [Next]_vars => TasksInv'
  <2> SUFFICES ASSUME TasksInv, [Next]_vars PROVE TasksInv'
    OBVIOUS
  <2>1. ASSUME NEW s \in Streams, CallDecoder(s) PROVE TasksInv'
    <3>1. /\ pc' = "open" /\ step' = 1 /\ call' = call + 1 /\ call' \in 1 .. MaxCalls
          /\ stream' = [stream EXCEPT ![call + 1] = s]
          /\ UNCHANGED <<tasks, running, cursor>>
      BY <2>1, PipelineAssumption DEF CallDecoder, Goto, poolVars, TasksInv
    <3>2. Given \subseteq Given'
      BY <2>1, GivenGrows
    <3>3. stream' \in [Calls -> Streams \cup {<<>>}]
      BY <3>1 DEF TasksInv, Calls
    <3>4. tasks'["parser"] \in Seq(Given')
      BY <3>1, <3>2 DEF TasksInv
    <3> QED
      BY <3>1, <3>2, <3>3, <3>4 DEF TasksInv
  <2>2. ASSUME NEW t \in Thread, WakeSpuriously(t) PROVE TasksInv'
    BY <2>2 DEF WakeSpuriously, poolVars, mainVars, callVars, TasksInv, Given
  <2>3. CASE UNCHANGED vars
    BY <2>3 DEF vars, poolVars, mainVars, callVars, TasksInv, Given
  <2> QED
    BY <2>1, <2>2, <2>3, ParserTasks, DecoderTasks, MainTasks DEF Next
<1> QED
  BY <1>1, InitTasks, PTL DEF Spec

-----------------------------------------------------------------------------
(* A parser thread takes, fills, publishes and gives back records.         *)
LEMMA ParserUsesManager ==
  ASSUME TasksInv, NEW t \in Producer, ParserStep(t)
  PROVE  BQM!Next \/ UNCHANGED managerVars
<1>0. t \in BQM!Thread
  BY DEF BQM!Thread
<1>1. CASE NextRecord(t)
  BY <1>1 DEF NextRecord, BQM!Next, BQM!ProducerStep
<1>2. CASE ParseItems(t)
  <2>1. RecordOf(t) \in RecordId
    BY <1>2, RecordOfType DEF ParseItems, InLoopBody
  <2> QED
    BY <1>2, <2>1 DEF ParseItems, BQM!Next, BQM!ProducerStep
<1>3. CASE PublishRecord(t)
  BY <1>3 DEF PublishRecord, BQM!Next, BQM!ProducerStep
<1>4. CASE SkipRecord(t) \/ RejectDatablock(t) \/ ThrowWhileParsing(t)
  BY <1>0, <1>4 DEF SkipRecord, RejectDatablock, ThrowWhileParsing, BQM!Next, BQM!ThreadStep
<1>5. CASE GetFromQueue(t)
  BY <1>0, <1>5 DEF GetFromQueue, BQM!Next, BQM!ThreadStep
<1>6. CASE StartParsing(t) \/ FinishParsing(t)
  BY <1>6 DEF StartParsing, FinishParsing
<1> QED
  BY <1>1, <1>2, <1>3, <1>4, <1>5, <1>6 DEF ParserStep

(* A decoder thread takes, gives back or loses parsed records.             *)
LEMMA DecoderUsesManager ==
  ASSUME NEW t \in Consumer, DecoderStep(t)
  PROVE  BQM!Next \/ UNCHANGED managerVars
<1>0. t \in BQM!Thread
  BY DEF BQM!Thread
<1>1. CASE NextParsedRecord(t) \/ ThrowWhileDecoding(t)
  BY <1>1 DEF NextParsedRecord, ThrowWhileDecoding, BQM!Next, BQM!ConsumerStep
<1>2. CASE DecodeRecord(t) \/ FinishDecoding(t) \/ GetFromQueue(t)
  BY <1>0, <1>2 DEF DecodeRecord, FinishDecoding, GetFromQueue, BQM!Next, BQM!ThreadStep
<1>3. CASE StartDecoding(t)
  BY <1>3 DEF StartDecoding
<1> QED
  BY <1>1, <1>2, <1>3 DEF DecoderStep

(* The calling thread opens and closes the queues.                         *)
LEMMA MainUsesManager ==
  ASSUME TasksInv, MainStep
  PROVE  BQM!Next \/ UNCHANGED managerVars
<1>1. CASE OpenQueues
  BY <1>1 DEF OpenQueues, BQM!Next
<1>2. CASE CloseQueue
  <2>1. CASE pc = "close" /\ step <= 2 * NumQueues /\ BQM!CloseBlockingQueue(ClosedAt(step))
    <3>1. step \in 1 .. (2 * NumQueues) /\ NumQueues \in Nat
      BY <2>1, PipelineAssumption DEF TasksInv
    <3>2. ClosedAt(step) \in BQM!Queue
      BY <3>1 DEF ClosedAt, BQM!Queue, BQM!Index
    <3> QED
      BY <2>1, <3>2 DEF BQM!Next
  <2>2. CASE UNCHANGED managerVars
    BY <2>2
  <2> QED
    BY <1>2, <2>1, <2>2 DEF CloseQueue
<1>3. CASE \/ StartDecoderThread \/ DispatchDatablock \/ JoinParser \/ AllParsed
           \/ CollectDecoder \/ ReturnToClient
  BY <1>3 DEF StartDecoderThread, DispatchDatablock, JoinParser, AllParsed, CollectDecoder,
              ReturnToClient
<1> QED
  BY <1>1, <1>2, <1>3 DEF MainStep

(* Every step of the decoder, of any of its threads, is a step of the      *)
(* manager or does not touch it: BlockingQueueManager's restrictions (a    *)
(* producer never takes from a consumer queue, only a decoding thread      *)
(* loses a record, ...) are kept by parseAllRecords, decodeParsedRecords   *)
(* and startDecodingDatablocks.                                            *)
THEOREM PipelineUsesManager == Spec => ImplementsManager
<1>1. Init => BQM!Init
  BY DEF Init
<1>2. TasksInv /\ [Next]_vars => [BQM!Next]_(BQM!managerVars)
  <2> SUFFICES ASSUME TasksInv, [Next]_vars PROVE BQM!Next \/ UNCHANGED managerVars
    BY DEF BQM!managerVars, managerVars
  <2>1. ASSUME NEW s \in Streams, CallDecoder(s) PROVE UNCHANGED managerVars
    BY <2>1 DEF CallDecoder
  <2>2. ASSUME NEW t \in Thread, WakeSpuriously(t) PROVE BQM!Next
    BY <2>2 DEF WakeSpuriously, BQM!Next, BQM!ThreadStep, BQM!Thread, Thread
  <2>3. CASE UNCHANGED vars
    BY <2>3 DEF vars
  <2> QED
    BY <2>1, <2>2, <2>3, ParserUsesManager, DecoderUsesManager, MainUsesManager DEF Next
<1> QED
  BY <1>1, <1>2, TasksInvariant, PTL DEF Spec, ImplementsManager, BQM!Spec

-----------------------------------------------------------------------------
(***************************************************************************)
(* What is proved of the manager holds of the manager inside the codec:    *)
(* Proved is the module of those proofs, with the constants it has here.   *)
(***************************************************************************)
Proved == INSTANCE BlockingQueueManagerProofs WITH Element <- RecordId, MaxElements <- 2

(* Both instances of the manager name the same threads, queues, records.   *)
LEMMA SameSets ==
  /\ Proved!Thread = BQM!Thread /\ Proved!Index = BQM!Index
  /\ Proved!Queue = BQM!Queue /\ Proved!Record = BQM!Record
BY DEF Proved!Thread, BQM!Thread, Proved!Index, BQM!Index, Proved!Queue, BQM!Queue,
       Proved!Record, BQM!Record

(* ... and count alike.                                                    *)
LEMMA SameCount ==
  /\ \A S : Proved!IsFiniteSet(S) <=> BQM!IsFiniteSet(S)
  /\ \A S : Proved!Cardinality(S) = BQM!Cardinality(S)
<1>1. \A S : Proved!IsFiniteSet(S) <=> BQM!IsFiniteSet(S)
  BY DEF Proved!IsFiniteSet, BQM!IsFiniteSet
<1>2. \A S : Proved!Cardinality(S) = BQM!Cardinality(S)
  BY DEF Proved!Cardinality, BQM!Cardinality
<1> QED
  BY <1>1, <1>2

(* The pipeline meets the assumption of those proofs.                      *)
LEMMA ProvedAssumption == Proved!ManagerAssumption
BY QueuesAssumption, SameSets, SameCount DEF Proved!ManagerAssumption, BQM!ManagerAssumption

(* Both instances take the same steps.                                     *)
LEMMA SameSteps == BQM!Next => Proved!Next
<1>1. \A S : Proved!Registered(S) = BQM!Registered(S)
  BY DEF Proved!Registered, BQM!Registered
<1>2. \A t : /\ Proved!ProducerIndex(t) = BQM!ProducerIndex(t)
             /\ Proved!ConsumerIndex(t) = BQM!ConsumerIndex(t)
  BY <1>1, SameCount DEF Proved!ProducerIndex, BQM!ProducerIndex, Proved!ConsumerIndex,
                         BQM!ConsumerIndex
<1>3. \A q : BQM!NotifyOne(q) => Proved!NotifyOne(q)
  BY DEF Proved!NotifyOne, BQM!NotifyOne
<1>4. \A t : /\ BQM!SetObjectPoolForConsumer(t) => Proved!SetObjectPoolForConsumer(t)
             /\ BQM!ReleaseObjectPoolForProducer(t) => Proved!ReleaseObjectPoolForProducer(t)
  BY <1>3, SameSets
  DEF Proved!SetObjectPoolForConsumer, BQM!SetObjectPoolForConsumer, Proved!MembershipQueue,
      Proved!ReleaseObjectPoolForProducer, BQM!ReleaseObjectPoolForProducer, BQM!MembershipQueue
<1>5. \A t : BQM!GetObjectPoolFromQueue(t) => Proved!GetObjectPoolFromQueue(t)
  BY DEF Proved!GetObjectPoolFromQueue, BQM!GetObjectPoolFromQueue, Proved!PopFront,
         BQM!PopFront, Proved!WaitOnQueue, BQM!WaitOnQueue, Proved!ReturnNull, BQM!ReturnNull
<1>6. \A t : /\ BQM!GetObjectPoolForProducer(t) => Proved!GetObjectPoolForProducer(t)
             /\ BQM!GetObjectPoolForConsumer(t) => Proved!GetObjectPoolForConsumer(t)
  BY <1>2 DEF Proved!GetObjectPoolForProducer, BQM!GetObjectPoolForProducer,
              Proved!GetObjectPoolForConsumer, BQM!GetObjectPoolForConsumer
<1>7. \A t, e : BQM!SetParsedElement(t, e) => Proved!SetParsedElement(t, e)
  BY SameSets DEF Proved!SetParsedElement, BQM!SetParsedElement
<1>8. \A t : /\ BQM!AbandonRecord(t) => Proved!AbandonRecord(t)
             /\ BQM!ForgetNull(t) => Proved!ForgetNull(t)
             /\ BQM!SpuriousWakeup(t) => Proved!SpuriousWakeup(t)
  BY SameSets DEF Proved!AbandonRecord, BQM!AbandonRecord, Proved!ForgetNull, BQM!ForgetNull,
                  Proved!SpuriousWakeup, BQM!SpuriousWakeup
<1>9. /\ BQM!OpenAllBlockingQueues => Proved!OpenAllBlockingQueues
      /\ \A q : BQM!CloseBlockingQueue(q) => Proved!CloseBlockingQueue(q)
  BY SameSets DEF Proved!OpenAllBlockingQueues, BQM!OpenAllBlockingQueues,
                  Proved!CloseBlockingQueue, BQM!CloseBlockingQueue
<1>10. \A t : /\ BQM!ProducerStep(t) => Proved!ProducerStep(t)
              /\ BQM!ConsumerStep(t) => Proved!ConsumerStep(t)
              /\ BQM!ThreadStep(t) => Proved!ThreadStep(t)
  BY <1>4, <1>5, <1>6, <1>7, <1>8
  DEF Proved!ProducerStep, BQM!ProducerStep, Proved!ConsumerStep, BQM!ConsumerStep,
      Proved!ThreadStep, BQM!ThreadStep
<1> QED
  BY <1>9, <1>10, SameSets DEF Proved!Next, BQM!Next

(* What the manager guarantees of its records.                             *)
RecordsOwned == BQM!TypeOK /\ BQM!Ownership /\ BQM!FreeRecordsAreEmpty

(* The promises of the manager inside the codec: while streams are decoded *)
(* no two threads ever use the same ParsedRecord, a parser is never given  *)
(* one with elements of an earlier record in it, and no thread sleeps      *)
(* while a record it could take is in its queue.                           *)
THEOREM ManagerInPipeline == Spec => []RecordsOwned /\ []BQM!NoLostWakeup
<1>1. BQM!Init => Proved!Init
  BY SameSets DEF BQM!Init, Proved!Init
<1>2. [BQM!Next]_(BQM!managerVars) => [Proved!Next]_(Proved!managerVars)
  BY SameSteps DEF BQM!managerVars, Proved!managerVars
<1>3. /\ Proved!TypeOK /\ Proved!Ownership /\ Proved!FreeRecordsAreEmpty => RecordsOwned
      /\ Proved!NoLostWakeup => BQM!NoLostWakeup
  <2>1. Proved!TypeOK => BQM!TypeOK
    BY SameSets DEF Proved!TypeOK, BQM!TypeOK
  <2>2. Proved!Ownership => BQM!Ownership
    BY SameSets
    DEF Proved!Ownership, BQM!Ownership, Proved!HomeQueue, BQM!HomeQueue, Proved!QueuedOnce,
        BQM!QueuedOnce, Proved!HeldOrQueued, BQM!HeldOrQueued, Proved!HeldByOne, BQM!HeldByOne,
        Proved!MembershipQueue, BQM!MembershipQueue
  <2>3. Proved!FreeRecordsAreEmpty => BQM!FreeRecordsAreEmpty
    BY SameSets DEF Proved!FreeRecordsAreEmpty, BQM!FreeRecordsAreEmpty
  <2>4. Proved!NoLostWakeup => BQM!NoLostWakeup
    BY SameSets, SameCount DEF Proved!NoLostWakeup, BQM!NoLostWakeup, Proved!AwakeInGet,
                               BQM!AwakeInGet
  <2> QED
    BY <2>1, <2>2, <2>3, <2>4 DEF RecordsOwned
<1>4. Proved!Spec => []Proved!TypeOK
  BY ProvedAssumption, Proved!TypeCorrect
<1>5. Proved!Spec => []Proved!Ownership
  BY ProvedAssumption, Proved!OwnershipHolds
<1>6. Proved!Spec => []Proved!FreeRecordsAreEmpty
  BY ProvedAssumption, Proved!FreeRecordsStayEmpty
<1>7. Proved!Spec => []Proved!NoLostWakeup
  BY ProvedAssumption, Proved!NoWakeupIsLost
<1> QED
  BY <1>1, <1>2, <1>3, <1>4, <1>5, <1>6, <1>7, PipelineUsesManager, PTL
  DEF ImplementsManager, BQM!Spec, Proved!Spec

-----------------------------------------------------------------------------
(***************************************************************************)
(* The tasks.  One that was enqueued is queued or running in one place,    *)
(* and its future is pending, until it ends.                               *)
(***************************************************************************)
TasksOnce ==
  /\ future \in [Task -> {"none", "pending", "value", "exception", "consumed"}]
  /\ \A p \in Pool : \A i \in 1 .. Len(tasks[p]) : future[tasks[p][i]] = "pending"
  /\ \A t \in Thread : running[t] # None => future[running[t]] = "pending"
  /\ \A p, q \in Pool : \A i \in 1 .. Len(tasks[p]) : \A j \in 1 .. Len(tasks[q]) :
       tasks[p][i] = tasks[q][j] => p = q /\ i = j
  /\ \A p \in Pool : \A i \in 1 .. Len(tasks[p]) : \A t \in Thread : running[t] # tasks[p][i]
  /\ \A s, t \in Thread : running[s] = running[t] /\ running[s] # None => s = t

TasksTyped == tasks \in [Pool -> Seq(Task)] /\ running \in [Thread -> Task \cup {None}]

(* What the sequences of a pool look like after enqueue and after a worker *)
(* took the front.                                                         *)
LEMMA AppendedTask ==
  ASSUME NEW s \in Seq(Task), NEW k \in Task, NEW i \in 1 .. Len(Append(s, k))
  PROVE  \/ i \in 1 .. Len(s) /\ Append(s, k)[i] = s[i]
         \/ i = Len(s) + 1 /\ Append(s, k)[i] = k
OBVIOUS

LEMMA RemainingTask ==
  ASSUME NEW s \in Seq(Task), s # <<>>
  PROVE  /\ 1 \in 1 .. Len(s) /\ Head(s) = s[1]
         /\ \A i \in 1 .. Len(Tail(s)) : i + 1 \in 1 .. Len(s) /\ Tail(s)[i] = s[i + 1]
OBVIOUS

LEMMA EnqueueOnce ==
  ASSUME TasksTyped, TasksOnce, NEW p \in Pool, NEW k \in Task, TP!Enqueue(p, k)
  PROVE  TasksOnce'
<1>1. /\ future[k] = "none" /\ running' = running
      /\ future' = [future EXCEPT ![k] = "pending"]
      /\ tasks'[p] = Append(tasks[p], k)
      /\ \A q \in Pool : q # p => tasks'[q] = tasks[q]
  BY DEF TP!Enqueue, TasksTyped
<1>2. ASSUME NEW q \in Pool, NEW i \in 1 .. Len(tasks'[q])
      PROVE  \/ i \in 1 .. Len(tasks[q]) /\ tasks'[q][i] = tasks[q][i]
             \/ q = p /\ i = Len(tasks[p]) + 1 /\ tasks'[q][i] = k
  <2>1. CASE q = p
    BY <1>1, <2>1, AppendedTask DEF TasksTyped
  <2>2. CASE q # p
    BY <1>1, <2>2
  <2> QED
    BY <2>1, <2>2
<1>3. \A q \in Pool : \A i \in 1 .. Len(tasks[q]) : tasks[q][i] \in Task /\ tasks[q][i] # k
  BY <1>1 DEF TasksOnce, TasksTyped
<1>4. \A t \in Thread : running[t] # k
  BY <1>1, PipelineAssumption DEF TasksOnce
<1>5. /\ \A q \in Pool : \A i \in 1 .. Len(tasks'[q]) : future'[tasks'[q][i]] = "pending"
      /\ \A t \in Thread : running'[t] # None => future'[running'[t]] = "pending"
      /\ future' \in [Task -> {"none", "pending", "value", "exception", "consumed"}]
  <2>1. /\ future'[k] = "pending" /\ \A m \in Task : m # k => future'[m] = future[m]
        /\ future' \in [Task -> {"none", "pending", "value", "exception", "consumed"}]
    BY <1>1 DEF TasksOnce
  <2>2. \A q \in Pool : \A i \in 1 .. Len(tasks'[q]) : future'[tasks'[q][i]] = "pending"
    BY <1>2, <1>3, <2>1 DEF TasksOnce
  <2>3. \A t \in Thread : running'[t] # None => future'[running'[t]] = "pending"
    BY <1>1, <1>4, <2>1 DEF TasksOnce, TasksTyped
  <2> QED
    BY <2>1, <2>2, <2>3
<1>6. ASSUME NEW q \in Pool, NEW r \in Pool,
             NEW i \in 1 .. Len(tasks'[q]), NEW j \in 1 .. Len(tasks'[r]),
             tasks'[q][i] = tasks'[r][j]
      PROVE  q = r /\ i = j
  BY <1>2, <1>3, <1>6 DEF TasksOnce
<1>7. /\ \A q \in Pool : \A i \in 1 .. Len(tasks'[q]) : \A t \in Thread : running'[t] # tasks'[q][i]
      /\ \A s, t \in Thread : running'[s] = running'[t] /\ running'[s] # None => s = t
  BY <1>1, <1>2, <1>4 DEF TasksOnce
<1> QED
  BY <1>5, <1>6, <1>7 DEF TasksOnce

LEMMA TakeOnce ==
  ASSUME TasksTyped, TasksOnce, NEW w \in Thread, TP!Take(w)
  PROVE  TasksOnce'
<1> DEFINE p == PoolOf[w]
<1>1. p \in Pool /\ tasks[p] \in Seq(Task) /\ tasks[p] # <<>>
  BY DEF TP!Take, TasksTyped, PoolOf, Pool, Thread
<1>2. /\ running[w] = None /\ future' = future
      /\ tasks'[p] = Tail(tasks[p])
      /\ \A q \in Pool : q # p => tasks'[q] = tasks[q]
      /\ running'[w] = tasks[p][1]
      /\ \A t \in Thread : t # w => running'[t] = running[t]
  BY <1>1, RemainingTask DEF TP!Take, TasksTyped
<1>3. 1 \in 1 .. Len(tasks[p]) /\ tasks[p][1] \in Task
  BY <1>1, RemainingTask
<1> HIDE DEF p
<1>4. ASSUME NEW q \in Pool, NEW i \in 1 .. Len(tasks'[q])
      PROVE  \E j \in 1 .. Len(tasks[q]) : /\ tasks'[q][i] = tasks[q][j]
                                          /\ j = IF q = p THEN i + 1 ELSE i
  <2>1. CASE q = p
    <3>1. i + 1 \in 1 .. Len(tasks[p]) /\ Tail(tasks[p])[i] = tasks[p][i + 1]
      BY <1>1, <1>2, <2>1, RemainingTask
    <3> QED
      BY <1>2, <2>1, <3>1
  <2>2. CASE q # p
    BY <1>2, <2>2
  <2> QED
    BY <2>1, <2>2
<1>5. /\ \A q \in Pool : \A i \in 1 .. Len(tasks'[q]) : future'[tasks'[q][i]] = "pending"
      /\ \A t \in Thread : running'[t] # None => future'[running'[t]] = "pending"
  <2>1. \A q \in Pool : \A i \in 1 .. Len(tasks[q]) : future[tasks[q][i]] = "pending"
    BY DEF TasksOnce
  <2>2. \A q \in Pool : \A i \in 1 .. Len(tasks'[q]) : future'[tasks'[q][i]] = "pending"
    BY <1>2, <1>4, <2>1
  <2>3. \A t \in Thread : running'[t] # None => future'[running'[t]] = "pending"
    BY <1>1, <1>2, <1>3, <2>1 DEF TasksOnce
  <2> QED
    BY <2>2, <2>3
<1>6. ASSUME NEW q \in Pool, NEW r \in Pool,
             NEW i \in 1 .. Len(tasks'[q]), NEW j \in 1 .. Len(tasks'[r]),
             tasks'[q][i] = tasks'[r][j]
      PROVE  q = r /\ i = j
  <2>1. PICK m \in 1 .. Len(tasks[q]) : /\ tasks'[q][i] = tasks[q][m]
                                        /\ m = IF q = p THEN i + 1 ELSE i
    BY <1>4
  <2>2. PICK n \in 1 .. Len(tasks[r]) : /\ tasks'[r][j] = tasks[r][n]
                                        /\ n = IF r = p THEN j + 1 ELSE j
    BY <1>4
  <2>3. q = r /\ m = n
    <3>1. tasks[q][m] = tasks[r][n]
      BY <1>6, <2>1, <2>2
    <3>2. \A a \in 1 .. Len(tasks[q]) : \A b \in 1 .. Len(tasks[r]) :
            tasks[q][a] = tasks[r][b] => q = r /\ a = b
      BY DEF TasksOnce
    <3> QED
      BY <3>1, <3>2
  <2>4. i \in Int /\ j \in Int /\ \A x, y \in Int : x + 1 = y + 1 => x = y
    OBVIOUS
  <2>5. CASE q = p
    <3>1. m = i + 1 /\ n = j + 1
      BY <2>1, <2>2, <2>3, <2>5
    <3> QED
      BY <2>3, <2>4, <3>1
  <2>6. CASE q # p
    BY <2>1, <2>2, <2>3, <2>6
  <2> QED
    BY <2>5, <2>6
<1>7. ASSUME NEW q \in Pool, NEW i \in 1 .. Len(tasks'[q]), NEW t \in Thread
      PROVE  running'[t] # tasks'[q][i]
  <2>1. PICK m \in 1 .. Len(tasks[q]) : /\ tasks'[q][i] = tasks[q][m]
                                        /\ m = IF q = p THEN i + 1 ELSE i
    BY <1>4
  <2>2. CASE t = w
    <3>1. q = p => m # 1
      BY <2>1
    <3> QED
      BY <1>1, <1>2, <1>3, <2>1, <2>2, <3>1 DEF TasksOnce
  <2>3. CASE t # w
    BY <1>2, <2>1, <2>3 DEF TasksOnce
  <2> QED
    BY <2>2, <2>3
<1>8. ASSUME NEW s \in Thread, NEW t \in Thread, running'[s] = running'[t], running'[s] # None
      PROVE  s = t
  BY <1>1, <1>2, <1>3, <1>8 DEF TasksOnce
<1> QED
  BY <1>2, <1>5, <1>6, <1>7, <1>8 DEF TasksOnce

LEMMA CompleteOnce ==
  ASSUME TasksTyped, TasksOnce, NEW w \in Thread, NEW o \in {"value", "exception"},
         TP!Complete(w, o)
  PROVE  TasksOnce'
<1>1. /\ running[w] \in Task /\ tasks' = tasks
      /\ future' = [future EXCEPT ![running[w]] = o]
      /\ running'[w] = None
      /\ \A t \in Thread : t # w => running'[t] = running[t]
  BY DEF TP!Complete, TasksTyped
<1>2. \A p \in Pool : \A i \in 1 .. Len(tasks[p]) : tasks[p][i] \in Task
  BY DEF TasksTyped
<1>3. future' \in [Task -> {"none", "pending", "value", "exception", "consumed"}]
  BY <1>1 DEF TasksOnce
<1>4. \A p \in Pool : \A i \in 1 .. Len(tasks'[p]) : future'[tasks'[p][i]] = "pending"
  BY <1>1, <1>2 DEF TasksOnce
<1>5. \A t \in Thread : running'[t] # None => future'[running'[t]] = "pending"
  BY <1>1 DEF TasksOnce, TasksTyped
<1>6. /\ \A p \in Pool : \A i \in 1 .. Len(tasks'[p]) : \A t \in Thread : running'[t] # tasks'[p][i]
      /\ \A s, t \in Thread : running'[s] = running'[t] /\ running'[s] # None => s = t
  BY <1>1, <1>2, PipelineAssumption DEF TasksOnce
<1>7. \A p, q \in Pool : \A i \in 1 .. Len(tasks'[p]) : \A j \in 1 .. Len(tasks'[q]) :
       tasks'[p][i] = tasks'[q][j] => p = q /\ i = j
  BY <1>1 DEF TasksOnce
<1> QED
  BY <1>3, <1>4, <1>5, <1>6, <1>7 DEF TasksOnce

LEMMA GetResultOnce ==
  ASSUME TasksTyped, TasksOnce, NEW k \in Task, TP!GetResult(k)
  PROVE  TasksOnce'
<1>1. /\ future[k] \in {"value", "exception"} /\ UNCHANGED <<tasks, running>>
      /\ future' = [future EXCEPT ![k] = "consumed"]
  BY DEF TP!GetResult
<1>2. \A p \in Pool : \A i \in 1 .. Len(tasks[p]) : tasks[p][i] \in Task /\ tasks[p][i] # k
  BY <1>1 DEF TasksTyped, TasksOnce
<1>3. \A t \in Thread : running[t] # None => running[t] \in Task /\ running[t] # k
  BY <1>1 DEF TasksTyped, TasksOnce
<1> QED
  BY <1>1, <1>2, <1>3 DEF TasksOnce

(* The consumer pool is given decode tasks only, and the calling thread    *)
(* waits for tasks of the right kind.                                      *)
PoolsTyped ==
  /\ tasks["consumer"] \in Seq(DecodeTask)
  /\ \A t \in Consumer : running[t] # None => running[t] \in DecodeTask
  /\ parsingResults \in Seq(ParseTask) /\ decodingResults \in Seq(DecodeTask)

PoolsInv == PoolsTyped /\ TasksOnce

LEMMA TypedTasks == TasksInv => TasksTyped
BY DEF TasksInv, TasksTyped

(* The task of a decoder thread, and of the parser of a datablock.         *)
LEMMA DecodeTaskType ==
  ASSUME TasksInv, pc = "start", step <= NumDecoders
  PROVE  <<"decode", call, step>> \in DecodeTask
<1>1. NumDecoders \in Nat
  BY PipelineAssumption, FS_CardinalityType DEF NumDecoders
<1>2. call \in Calls /\ step \in 1 .. NumDecoders
  BY <1>1, PipelineAssumption DEF TasksInv, Calls
<1> QED
  BY <1>2 DEF DecodeTask

LEMMA ParseTaskType ==
  ASSUME TasksInv, pc = "dispatch", step <= Len(stream[call])
  PROVE  <<"parse", call, step>> \in ParseTask
<1>1. call \in Calls /\ step >= 1 /\ step \in Nat
  BY PipelineAssumption DEF TasksInv, Calls
<1>2. stream[call] \in Seq(Datablock) /\ Len(stream[call]) <= MaxBlocks
  <2>1. stream[call] # <<>> /\ stream[call] \in Streams \cup {<<>>}
    BY <1>1 DEF TasksInv
  <2> QED
    BY <2>1, PipelineAssumption
<1>3. step \in 1 .. MaxBlocks
  BY <1>1, <1>2, PipelineAssumption
<1> QED
  BY <1>1, <1>3 DEF ParseTask

(* What a step of the codec does to the thread pools: nothing, or one of   *)
(* the four steps they allow.                                              *)
PoolStep ==
  \/ UNCHANGED poolVars
  \/ \E p \in Pool, k \in Task : TP!Enqueue(p, k)
  \/ \E w \in Thread : TP!Take(w)
  \/ \E w \in Thread, o \in {"value", "exception"} : TP!Complete(w, o)
  \/ \E k \in Task : TP!GetResult(k)

LEMMA PoolSteps ==
  ASSUME TasksInv, PoolsTyped, [Next]_vars
  PROVE  PoolStep
<1>1. ASSUME NEW s \in Streams, CallDecoder(s) PROVE PoolStep
  BY <1>1 DEF CallDecoder, PoolStep
<1>2. ASSUME NEW t \in Producer, ParserStep(t) PROVE PoolStep
  BY <1>2 DEF ParserStep, StartParsing, NextRecord, ParseItems, PublishRecord, SkipRecord,
      RejectDatablock, ThrowWhileParsing, FinishParsing, GetFromQueue, PoolStep, Thread
<1>3. ASSUME NEW t \in Consumer, DecoderStep(t) PROVE PoolStep
  BY <1>3 DEF DecoderStep, StartDecoding, NextParsedRecord, DecodeRecord, ThrowWhileDecoding,
      FinishDecoding, GetFromQueue, PoolStep, Thread
<1>4. CASE StartDecoderThread
  BY <1>4, DecodeTaskType DEF StartDecoderThread, PoolStep, Pool, Task
<1>5. CASE DispatchDatablock
  BY <1>5, ParseTaskType DEF DispatchDatablock, PoolStep, Pool, Task
<1>6. CASE JoinParser
  <2>1. parsingResults[step] \in Task
    BY <1>6 DEF JoinParser, TasksInv, PoolsTyped, Task
  <2> QED
    BY <1>6, <2>1 DEF JoinParser, RaiseFrom, PoolStep
<1>7. CASE CollectDecoder
  <2>1. decodingResults[step] \in Task
    BY <1>7 DEF CollectDecoder, TasksInv, PoolsTyped, Task
  <2> QED
    BY <1>7, <2>1 DEF CollectDecoder, RaiseFrom, PoolStep
<1>8. CASE OpenQueues \/ AllParsed \/ CloseQueue \/ ReturnToClient
  BY <1>8 DEF OpenQueues, AllParsed, CloseQueue, ReturnToClient, PoolStep
<1>9. ASSUME NEW t \in Thread, WakeSpuriously(t) PROVE PoolStep
  BY <1>9 DEF WakeSpuriously, PoolStep
<1>10. CASE UNCHANGED vars
  BY <1>10 DEF vars, PoolStep
<1> QED
  BY <1>1, <1>2, <1>3, <1>4, <1>5, <1>6, <1>7, <1>8, <1>9, <1>10 DEF Next, MainStep

(* The pools are used as TaskPool describes them.                          *)
LEMMA PoolsTypedKept ==
  ASSUME TasksInv, PoolsTyped, [Next]_vars
  PROVE  PoolsTyped'
<1> USE DEF poolVars, mainVars
<1>1. ASSUME NEW s \in Streams, CallDecoder(s) PROVE PoolsTyped'
  BY <1>1 DEF CallDecoder, PoolsTyped
<1>2. ASSUME NEW t \in Producer, ParserStep(t) PROVE PoolsTyped'
  <2>1. t \in Thread /\ t \notin Consumer /\ PoolOf[t] = "parser"
    BY PipelineAssumption DEF Thread, PoolOf
  <2>2. CASE TP!Take(t) /\ UNCHANGED mainVars
    <3>1. /\ tasks'["consumer"] = tasks["consumer"]
          /\ \A u \in Thread : u # t => running'[u] = running[u]
      BY <2>1, <2>2 DEF TP!Take, TasksInv, Pool
    <3> QED
      BY <2>1, <2>2, <3>1 DEF PoolsTyped, Thread
  <2>3. CASE UNCHANGED <<tasks, mainVars>> /\ running' = [running EXCEPT ![t] = None]
    BY <2>1, <2>3 DEF PoolsTyped, TasksInv, Thread
  <2>4. CASE UNCHANGED <<tasks, running, mainVars>>
    BY <2>4 DEF PoolsTyped
  <2> QED
    BY <1>2, <2>2, <2>3, <2>4
    DEF ParserStep, StartParsing, NextRecord, ParseItems, PublishRecord, SkipRecord,
        RejectDatablock, ThrowWhileParsing, FinishParsing, GetFromQueue, TP!Complete
<1>3. ASSUME NEW t \in Consumer, DecoderStep(t) PROVE PoolsTyped'
  <2>1. t \in Thread /\ t \notin Producer /\ PoolOf[t] = "consumer"
    BY PipelineAssumption DEF Thread, PoolOf
  <2>2. CASE TP!Take(t) /\ UNCHANGED mainVars
    <3>1. /\ tasks'["consumer"] = Tail(tasks["consumer"])
          /\ running'[t] = Head(tasks["consumer"])
          /\ tasks["consumer"] # <<>>
          /\ \A u \in Thread : u # t => running'[u] = running[u]
      BY <2>1, <2>2 DEF TP!Take, TasksInv, Pool
    <3>2. Head(tasks["consumer"]) \in DecodeTask /\ Tail(tasks["consumer"]) \in Seq(DecodeTask)
      BY <3>1 DEF PoolsTyped
    <3> QED
      BY <2>2, <3>1, <3>2 DEF PoolsTyped, Thread
  <2>3. CASE UNCHANGED <<tasks, mainVars>> /\ running' = [running EXCEPT ![t] = None]
    BY <2>1, <2>3 DEF PoolsTyped, TasksInv, Thread
  <2>4. CASE UNCHANGED <<tasks, running, mainVars>>
    BY <2>4 DEF PoolsTyped
  <2> QED
    BY <1>3, <2>2, <2>3, <2>4
    DEF DecoderStep, StartDecoding, NextParsedRecord, DecodeRecord, ThrowWhileDecoding,
        FinishDecoding, GetFromQueue, TP!Complete
<1>4. CASE StartDecoderThread
  <2>1. CASE /\ pc = "start" /\ step <= NumDecoders
             /\ TP!Enqueue("consumer", <<"decode", call, step>>)
             /\ decodingResults' = Append(decodingResults, <<"decode", call, step>>)
    <3>1. <<"decode", call, step>> \in DecodeTask
      BY <2>1, DecodeTaskType
    <3>2. /\ tasks'["consumer"] = Append(tasks["consumer"], <<"decode", call, step>>)
          /\ UNCHANGED <<running, parsingResults>>
      BY <1>4, <2>1 DEF StartDecoderThread, TP!Enqueue, TasksInv, Pool
    <3> QED
      BY <2>1, <3>1, <3>2 DEF PoolsTyped
  <2>2. CASE UNCHANGED <<poolVars, decodingResults>>
    BY <1>4, <2>2 DEF StartDecoderThread, PoolsTyped
  <2> QED
    BY <1>4, <2>1, <2>2 DEF StartDecoderThread
<1>5. CASE DispatchDatablock
  <2>1. CASE /\ pc = "dispatch" /\ step <= Len(stream[call])
             /\ TP!Enqueue("parser", <<"parse", call, step>>)
             /\ parsingResults' = Append(parsingResults, <<"parse", call, step>>)
    <3>1. <<"parse", call, step>> \in ParseTask
      BY <2>1, ParseTaskType
    <3>2. /\ tasks'["consumer"] = tasks["consumer"]
          /\ UNCHANGED <<running, decodingResults>>
      BY <1>5, <2>1 DEF DispatchDatablock, TP!Enqueue, TasksInv, Pool
    <3> QED
      BY <2>1, <3>1, <3>2 DEF PoolsTyped
  <2>2. CASE UNCHANGED <<poolVars, parsingResults>>
    BY <1>5, <2>2 DEF DispatchDatablock, PoolsTyped
  <2> QED
    BY <1>5, <2>1, <2>2 DEF DispatchDatablock
<1>6. CASE JoinParser \/ CollectDecoder
  BY <1>6 DEF JoinParser, CollectDecoder, RaiseFrom, TP!GetResult, PoolsTyped
<1>7. CASE OpenQueues \/ AllParsed \/ CloseQueue \/ ReturnToClient
  <2>1. /\ parsingResults' \in {parsingResults, <<>>}
        /\ decodingResults' \in {decodingResults, <<>>}
        /\ UNCHANGED <<tasks, running>>
    BY <1>7 DEF OpenQueues, AllParsed, CloseQueue, ReturnToClient
  <2>2. parsingResults' \in Seq(ParseTask) /\ decodingResults' \in Seq(DecodeTask)
    <3>1. <<>> \in Seq(ParseTask) /\ <<>> \in Seq(DecodeTask)
      OBVIOUS
    <3> QED
      BY <2>1, <3>1 DEF PoolsTyped
  <2> QED
    BY <2>1, <2>2 DEF PoolsTyped
<1>8. ASSUME NEW t \in Thread, WakeSpuriously(t) PROVE PoolsTyped'
  BY <1>8 DEF WakeSpuriously, PoolsTyped
<1>9. CASE UNCHANGED vars
  BY <1>9 DEF vars, PoolsTyped
<1> QED
  BY <1>1, <1>2, <1>3, <1>4, <1>5, <1>6, <1>7, <1>8, <1>9 DEF Next, MainStep

LEMMA PoolsInvariant == Spec => []PoolsInv
<1>1. Init => PoolsInv
  <2> SUFFICES ASSUME Init PROVE PoolsInv
    OBVIOUS
  <2>1. /\ tasks = [p \in Pool |-> <<>>] /\ running = [t \in Thread |-> None]
        /\ future = [k \in Task |-> "none"]
        /\ parsingResults = <<>> /\ decodingResults = <<>>
    BY DEF Init, TP!Init
  <2>2. TasksOnce
    BY <2>1 DEF TasksOnce
  <2>3. PoolsTyped
    BY <2>1 DEF PoolsTyped, Pool, Thread
  <2> QED
    BY <2>2, <2>3 DEF PoolsInv
<1>2. TasksInv /\ PoolsInv /\ [Next]_vars => PoolsInv'
  <2> SUFFICES ASSUME TasksInv, PoolsInv, [Next]_vars PROVE PoolsInv'
    OBVIOUS
  <2>1. TasksTyped /\ PoolsTyped /\ TasksOnce
    BY TypedTasks DEF PoolsInv
  <2>2. PoolsTyped'
    BY <2>1, PoolsTypedKept
  <2>3. ASSUME UNCHANGED poolVars PROVE TasksOnce'
    BY <2>1, <2>3 DEF poolVars, TasksOnce
  <2>4. ASSUME ~UNCHANGED poolVars PROVE TasksOnce'
    BY <2>1, <2>4, PoolSteps, EnqueueOnce, TakeOnce, CompleteOnce, GetResultOnce DEF PoolStep
  <2> QED
    BY <2>2, <2>3, <2>4 DEF PoolsInv
<1> QED
  BY <1>1, <1>2, TasksInvariant, PTL DEF Spec

-----------------------------------------------------------------------------
(***************************************************************************)
(* The records the threads hold.  A parser asks for a record, and holds    *)
(* one, only inside its record loop; the record is fresh from a free queue *)
(* or holds the one record being parsed.                                   *)
(***************************************************************************)
InLoop(t) == Parsing(t) /\ ~LoopDone(t)

ParserHolds(t) ==
  /\ inGet[t] # None => InLoop(t) /\ held[t] = None /\ inGet[t][1] = "free"
  /\ held[t] # None => InLoop(t) /\ inGet[t] = None
  /\ held[t] \in BQM!Record => elements[held[t]] \in {<<>>, <<RecordOf(t)>>}

DecoderHolds(t) ==
  /\ inGet[t] # None => Decoding(t) /\ held[t] = None /\ inGet[t][1] = "parsed"
  /\ held[t] # None => Decoding(t) /\ inGet[t] = None

HoldsInv ==
  /\ \A t \in Producer : ParserHolds(t)
  /\ \A t \in Consumer : DecoderHolds(t)

(* A parser keeps what it holds while others work.                         *)
LEMMA ParserStays ==
  ASSUME NEW u \in Producer, ParserHolds(u),
         inGet'[u] = inGet[u], held'[u] = held[u],
         running'[u] = running[u], cursor'[u] = cursor[u],
         running[u] # None => stream'[running[u][2]] = stream[running[u][2]],
         held[u] \in BQM!Record => elements'[held[u]] = elements[held[u]]
  PROVE  ParserHolds(u)'
<1>1. InLoop(u) => InLoop(u)' /\ RecordOf(u)' = RecordOf(u)
  BY DEF InLoop, Parsing, LoopDone, BlockOf, RecordOf
<1>2. held[u] \in BQM!Record => held[u] # None
  BY QueuesAssumption DEF BQM!ManagerAssumption
<1> QED
  BY <1>1, <1>2 DEF ParserHolds

LEMMA DecoderStays ==
  ASSUME NEW u \in Consumer, DecoderHolds(u),
         inGet'[u] = inGet[u], held'[u] = held[u], running'[u] = running[u]
  PROVE  DecoderHolds(u)'
BY DEF DecoderHolds, Decoding

(* Inside get of a queue: what the thread has in its hands afterwards.     *)
LEMMA GetGives ==
  ASSUME RecordsOwned, NEW t \in Thread, BQM!GetObjectPoolFromQueue(t)
  PROVE  /\ inGet[t] \in BQM!Queue /\ elements' = elements
         /\ \A u \in Thread : u # t => held'[u] = held[u] /\ inGet'[u] = inGet[u]
         /\ \/ /\ items[inGet[t]] # <<>> /\ held'[t] = items[inGet[t]][1]
               /\ inGet'[t] = None
               /\ items' = [items EXCEPT ![inGet[t]] = Tail(@)]
            \/ held'[t] = held[t] /\ inGet'[t] = inGet[t] /\ items' = items
            \/ held'[t] = NullPtr /\ inGet'[t] = None /\ items' = items
<1>1. /\ inGet[t] \in BQM!Queue /\ inGet \in [Thread -> BQM!Queue \cup {None}]
      /\ held \in [Thread -> BQM!Record \cup {None, NullPtr}]
      /\ items[inGet[t]] \in Seq(BQM!Record)
  BY DEF RecordsOwned, BQM!TypeOK, BQM!GetObjectPoolFromQueue, BQM!Thread, Thread
<1>2. CASE BQM!PopFront(t, inGet[t])
  <2>1. items[inGet[t]] # <<>> => Head(items[inGet[t]]) = items[inGet[t]][1]
    BY <1>1
  <2> QED
    BY <1>1, <1>2, <2>1 DEF BQM!GetObjectPoolFromQueue, BQM!PopFront
<1>3. CASE BQM!WaitOnQueue(t, inGet[t])
  BY <1>1, <1>3 DEF BQM!GetObjectPoolFromQueue, BQM!WaitOnQueue
<1>4. CASE BQM!ReturnNull(t, inGet[t])
  BY <1>1, <1>4 DEF BQM!GetObjectPoolFromQueue, BQM!ReturnNull
<1> QED
  BY <1>2, <1>3, <1>4 DEF BQM!GetObjectPoolFromQueue

(* What a thread does to the manager outside get.                          *)
LEMMA OtherManagerSteps ==
  ASSUME RecordsOwned, NEW t \in Thread
  PROVE  /\ BQM!GetObjectPoolForProducer(t) =>
              /\ held[t] = None /\ inGet[t] = None /\ inGet'[t][1] = "free"
              /\ UNCHANGED <<items, held, elements>>
              /\ \A u \in Thread : u # t => inGet'[u] = inGet[u]
         /\ BQM!GetObjectPoolForConsumer(t) =>
              /\ held[t] = None /\ inGet[t] = None /\ inGet'[t][1] = "parsed"
              /\ UNCHANGED <<items, held, elements>>
              /\ \A u \in Thread : u # t => inGet'[u] = inGet[u]
         /\ \A e : BQM!SetParsedElement(t, e) =>
              /\ elements'[held[t]] = Append(elements[held[t]], e)
              /\ \A r \in BQM!Record : r # held[t] => elements'[r] = elements[r]
              /\ UNCHANGED <<items, held, inGet>>
         /\ BQM!SetObjectPoolForConsumer(t) =>
              /\ held'[t] = None /\ UNCHANGED <<elements, inGet>>
              /\ \A u \in Thread : u # t => held'[u] = held[u]
         /\ BQM!ReleaseObjectPoolForProducer(t) =>
              /\ held'[t] = None /\ UNCHANGED inGet
              /\ elements'[held[t]] = <<>>
              /\ \A r \in BQM!Record : r # held[t] => elements'[r] = elements[r]
              /\ \A u \in Thread : u # t => held'[u] = held[u]
         /\ BQM!AbandonRecord(t) \/ BQM!ForgetNull(t) =>
              /\ held'[t] = None /\ UNCHANGED <<items, elements, inGet>>
              /\ \A u \in Thread : u # t => held'[u] = held[u]
         /\ BQM!SpuriousWakeup(t) => UNCHANGED <<items, held, inGet, elements>>
<1>1. /\ inGet \in [Thread -> BQM!Queue \cup {None}]
      /\ held \in [Thread -> BQM!Record \cup {None, NullPtr}]
      /\ elements \in [BQM!Record -> Seq(RecordId)]
  BY DEF RecordsOwned, BQM!TypeOK, BQM!Thread, Thread
<1>2. BQM!GetObjectPoolForProducer(t) =>
        /\ held[t] = None /\ inGet[t] = None /\ inGet'[t][1] = "free"
        /\ UNCHANGED <<items, held, elements>>
        /\ \A u \in Thread : u # t => inGet'[u] = inGet[u]
  BY <1>1 DEF BQM!GetObjectPoolForProducer
<1>3. BQM!GetObjectPoolForConsumer(t) =>
        /\ held[t] = None /\ inGet[t] = None /\ inGet'[t][1] = "parsed"
        /\ UNCHANGED <<items, held, elements>>
        /\ \A u \in Thread : u # t => inGet'[u] = inGet[u]
  BY <1>1 DEF BQM!GetObjectPoolForConsumer
<1>4. \A e : BQM!SetParsedElement(t, e) =>
        /\ elements'[held[t]] = Append(elements[held[t]], e)
        /\ \A r \in BQM!Record : r # held[t] => elements'[r] = elements[r]
        /\ UNCHANGED <<items, held, inGet>>
  BY <1>1 DEF BQM!SetParsedElement
<1>5. BQM!SetObjectPoolForConsumer(t) =>
        /\ held'[t] = None /\ UNCHANGED <<elements, inGet>>
        /\ \A u \in Thread : u # t => held'[u] = held[u]
  BY <1>1 DEF BQM!SetObjectPoolForConsumer
<1>6. BQM!ReleaseObjectPoolForProducer(t) =>
        /\ held'[t] = None /\ UNCHANGED inGet
        /\ elements'[held[t]] = <<>>
        /\ \A r \in BQM!Record : r # held[t] => elements'[r] = elements[r]
        /\ \A u \in Thread : u # t => held'[u] = held[u]
  BY <1>1 DEF BQM!ReleaseObjectPoolForProducer
<1>7. BQM!AbandonRecord(t) \/ BQM!ForgetNull(t) =>
        /\ held'[t] = None /\ UNCHANGED <<items, elements, inGet>>
        /\ \A u \in Thread : u # t => held'[u] = held[u]
  BY <1>1 DEF BQM!AbandonRecord, BQM!ForgetNull
<1>8. BQM!SpuriousWakeup(t) => UNCHANGED <<items, held, inGet, elements>>
  BY DEF BQM!SpuriousWakeup
<1> QED
  BY <1>2, <1>3, <1>4, <1>5, <1>6, <1>7, <1>8

(* A step of one thread leaves the others with what they hold.             *)
LEMMA OthersHold ==
  ASSUME RecordsOwned, HoldsInv, NEW t \in Thread, stream' = stream,
         \A u \in Thread : u # t =>
           held'[u] = held[u] /\ inGet'[u] = inGet[u] /\ running'[u] = running[u],
         \A u \in Producer : u # t => cursor'[u] = cursor[u],
         \A r \in BQM!Record : r # held[t] => elements'[r] = elements[r],
         t \in Producer => ParserHolds(t)',
         t \in Consumer => DecoderHolds(t)'
  PROVE  HoldsInv'
<1>1. ASSUME NEW u \in Producer, u # t PROVE ParserHolds(u)'
  <2>1. u \in Thread /\ u \in BQM!Thread /\ t \in BQM!Thread
    BY DEF Thread, BQM!Thread
  <2>2. held[u] \in BQM!Record => held[u] # held[t]
    BY <1>1, <2>1 DEF RecordsOwned, BQM!Ownership, BQM!HeldByOne
  <2>3. held[u] \in BQM!Record => elements'[held[u]] = elements[held[u]]
    BY <2>2
  <2> QED
    BY <1>1, <2>1, <2>3, ParserStays DEF HoldsInv
<1>2. ASSUME NEW u \in Consumer, u # t PROVE DecoderHolds(u)'
  BY <1>2, DecoderStays DEF HoldsInv, Thread
<1> QED
  BY <1>1, <1>2 DEF HoldsInv

(* The steps of a parser.                                                  *)
LEMMA ParserKeepsHolds ==
  ASSUME TasksInv, RecordsOwned, HoldsInv, NEW t \in Producer, ParserStep(t)
  PROVE  HoldsInv'
<1>1. /\ t \in Thread /\ t \notin Consumer
      /\ ParserHolds(t) /\ None \notin BQM!Record /\ NullPtr \notin BQM!Record
  BY QueuesAssumption, PipelineAssumption DEF HoldsInv, Thread, BQM!ManagerAssumption
<1>2. /\ running \in [Thread -> Task \cup {None}] /\ cursor \in [Producer -> Nat]
      /\ held[t] \in BQM!Record \cup {None, NullPtr}
  BY <1>1 DEF TasksInv, RecordsOwned, BQM!TypeOK, BQM!Thread, Thread
<1>3. CASE StartParsing(t)
  <2>1. /\ running[t] = None /\ UNCHANGED <<managerVars, stream>>
        /\ \A u \in Thread : u # t => running'[u] = running[u]
        /\ \A u \in Producer : u # t => cursor'[u] = cursor[u]
    BY <1>2, <1>3 DEF StartParsing, TP!Take, callVars
  <2>2. held[t] = None /\ inGet[t] = None
    BY <1>1, <2>1 DEF ParserHolds, InLoop, Parsing
  <2>3. ParserHolds(t)'
    BY <1>1, <2>1, <2>2 DEF ParserHolds, managerVars
  <2> QED
    BY <1>1, <2>1, <2>3, OthersHold DEF managerVars
<1>4. CASE NextRecord(t)
  <2>1. /\ InLoop(t) /\ UNCHANGED <<running, cursor, stream>>
        /\ BQM!GetObjectPoolForProducer(t)
    BY <1>4 DEF NextRecord, poolVars, callVars, InLoop
  <2>2. /\ held[t] = None /\ inGet[t] = None /\ inGet'[t][1] = "free"
        /\ UNCHANGED <<items, held, elements>>
        /\ \A u \in Thread : u # t => inGet'[u] = inGet[u]
    BY <1>1, <2>1, OtherManagerSteps
  <2>3. InLoop(t)'
    BY <2>1 DEF InLoop, Parsing, LoopDone, BlockOf
  <2>4. ParserHolds(t)'
    BY <1>1, <2>2, <2>3 DEF ParserHolds
  <2> QED
    BY <1>1, <2>1, <2>2, <2>4, OthersHold
<1>5. CASE ParseItems(t)
  <2>1. /\ InLoop(t) /\ UNCHANGED <<running, cursor, stream>> /\ held[t] \in BQM!Record
        /\ BQM!SetParsedElement(t, RecordOf(t)) /\ ~Stored(t)
    BY <1>5 DEF ParseItems, InLoopBody, poolVars, callVars, InLoop
  <2>2. /\ elements'[held[t]] = Append(elements[held[t]], RecordOf(t))
        /\ \A r \in BQM!Record : r # held[t] => elements'[r] = elements[r]
        /\ UNCHANGED <<items, held, inGet>>
    BY <1>1, <2>1, OtherManagerSteps
  <2>3. elements[held[t]] = <<>>
    <3>1. ASSUME elements[held[t]] = <<RecordOf(t)>> PROVE Stored(t)
      <4>1. 1 \in 1 .. Len(elements[held[t]]) /\ elements[held[t]][1] = RecordOf(t)
        BY <3>1
      <4> QED
        BY <4>1 DEF Stored
    <3> QED
      BY <1>1, <2>1, <3>1 DEF ParserHolds
  <2>4. InLoop(t)' /\ RecordOf(t)' = RecordOf(t)
    BY <2>1 DEF InLoop, Parsing, LoopDone, BlockOf, RecordOf
  <2>5. Append(<<>>, RecordOf(t)) = <<RecordOf(t)>>
    OBVIOUS
  <2>6. ParserHolds(t)'
    BY <1>1, <2>1, <2>2, <2>3, <2>4, <2>5 DEF ParserHolds
  <2> QED
    BY <1>1, <2>1, <2>2, <2>6, OthersHold
<1>6. CASE PublishRecord(t) \/ SkipRecord(t) \/ RejectDatablock(t) \/ ThrowWhileParsing(t)
  <2>1. /\ held[t] \in BQM!Record /\ UNCHANGED stream
        /\ BQM!SetObjectPoolForConsumer(t) \/ BQM!ReleaseObjectPoolForProducer(t)
        /\ \A u \in Thread : u # t => running'[u] = running[u]
        /\ \A u \in Producer : u # t => cursor'[u] = cursor[u]
    BY <1>2, <1>6 DEF PublishRecord, SkipRecord, RejectDatablock, ThrowWhileParsing, InLoopBody,
                      TP!Complete, poolVars, callVars
  <2>2. /\ held'[t] = None /\ UNCHANGED inGet
        /\ \A r \in BQM!Record : r # held[t] => elements'[r] = elements[r]
        /\ \A u \in Thread : u # t => held'[u] = held[u]
    BY <1>1, <2>1, OtherManagerSteps
  <2>3. inGet[t] = None
    BY <1>1, <2>1 DEF ParserHolds
  <2>4. ParserHolds(t)'
    BY <1>1, <2>2, <2>3 DEF ParserHolds
  <2> QED
    BY <1>1, <2>1, <2>2, <2>4, OthersHold
<1>7. CASE FinishParsing(t)
  <2>1. /\ LoopDone(t) /\ UNCHANGED <<managerVars, stream>>
        /\ \A u \in Thread : u # t => running'[u] = running[u]
        /\ \A u \in Producer : u # t => cursor'[u] = cursor[u]
    BY <1>2, <1>7 DEF FinishParsing, TP!Complete, callVars
  <2>2. held[t] = None /\ inGet[t] = None
    BY <1>1, <2>1 DEF ParserHolds, InLoop
  <2>3. ParserHolds(t)'
    BY <1>1, <2>1, <2>2 DEF ParserHolds, managerVars
  <2> QED
    BY <1>1, <2>1, <2>3, OthersHold DEF managerVars
<1>8. CASE GetFromQueue(t)
  <2>1. /\ UNCHANGED <<running, cursor, stream>> /\ BQM!GetObjectPoolFromQueue(t)
        /\ inGet[t] # None
    BY <1>8 DEF GetFromQueue, poolVars, callVars, BQM!GetObjectPoolFromQueue
  <2>2. InLoop(t) /\ held[t] = None /\ inGet[t][1] = "free"
    BY <1>1, <2>1 DEF ParserHolds
  <2>3. InLoop(t)'
    BY <2>1, <2>2 DEF InLoop, Parsing, LoopDone, BlockOf
  <2>4. /\ inGet[t] \in BQM!Queue /\ elements' = elements
        /\ \A u \in Thread : u # t => held'[u] = held[u] /\ inGet'[u] = inGet[u]
        /\ \/ /\ items[inGet[t]] # <<>> /\ held'[t] = items[inGet[t]][1]
              /\ inGet'[t] = None
           \/ held'[t] = held[t] /\ inGet'[t] = inGet[t]
           \/ held'[t] = NullPtr /\ inGet'[t] = None
    BY <1>1, <2>1, GetGives
  <2>5. items[inGet[t]] # <<>> => elements[items[inGet[t]][1]] = <<>>
    <3>1. items[inGet[t]] \in Seq(BQM!Record)
      BY <2>4 DEF RecordsOwned, BQM!TypeOK
    <3>2. items[inGet[t]] # <<>> => 1 \in 1 .. Len(items[inGet[t]])
      BY <3>1
    <3> QED
      BY <2>2, <2>4, <3>2 DEF RecordsOwned, BQM!FreeRecordsAreEmpty
  <2>6. ParserHolds(t)'
    BY <1>1, <2>2, <2>3, <2>4, <2>5 DEF ParserHolds
  <2> QED
    BY <1>1, <2>1, <2>4, <2>6, OthersHold
<1> QED
  BY <1>3, <1>4, <1>5, <1>6, <1>7, <1>8 DEF ParserStep

(* The steps of a decoder.                                                 *)
LEMMA DecoderKeepsHolds ==
  ASSUME TasksInv, RecordsOwned, HoldsInv, NEW t \in Consumer, DecoderStep(t)
  PROVE  HoldsInv'
<1>1. t \in Thread /\ t \notin Producer /\ DecoderHolds(t) /\ None \notin BQM!Record
  BY QueuesAssumption, PipelineAssumption DEF HoldsInv, Thread, BQM!ManagerAssumption
<1>2. running \in [Thread -> Task \cup {None}] /\ NullPtr # None
  BY QueuesAssumption DEF TasksInv, BQM!ManagerAssumption
<1>3. CASE StartDecoding(t)
  <2>1. /\ running[t] = None /\ UNCHANGED <<managerVars, stream, cursor>>
        /\ \A u \in Thread : u # t => running'[u] = running[u]
    BY <1>2, <1>3 DEF StartDecoding, TP!Take, callVars
  <2>2. held[t] = None /\ inGet[t] = None
    BY <1>1, <2>1 DEF DecoderHolds, Decoding
  <2>3. DecoderHolds(t)'
    BY <1>1, <2>1, <2>2 DEF DecoderHolds, managerVars
  <2> QED
    BY <1>1, <2>1, <2>3, OthersHold DEF managerVars
<1>4. CASE NextParsedRecord(t)
  <2>1. /\ Decoding(t) /\ UNCHANGED <<running, cursor, stream>>
        /\ BQM!GetObjectPoolForConsumer(t)
    BY <1>4 DEF NextParsedRecord, poolVars, callVars
  <2>2. /\ held[t] = None /\ inGet[t] = None /\ inGet'[t][1] = "parsed"
        /\ UNCHANGED <<items, held, elements>>
        /\ \A u \in Thread : u # t => inGet'[u] = inGet[u]
    BY <1>1, <2>1, OtherManagerSteps
  <2>3. DecoderHolds(t)'
    BY <1>1, <2>1, <2>2 DEF DecoderHolds, Decoding
  <2> QED
    BY <1>1, <2>1, <2>2, <2>3, OthersHold
<1>5. CASE DecodeRecord(t) \/ ThrowWhileDecoding(t) \/ FinishDecoding(t)
  <2>1. /\ held[t] # None /\ UNCHANGED <<stream, cursor>>
        /\ BQM!ReleaseObjectPoolForProducer(t) \/ BQM!AbandonRecord(t) \/ BQM!ForgetNull(t)
        /\ \A u \in Thread : u # t => running'[u] = running[u]
    BY <1>1, <1>2, <1>5 DEF DecodeRecord, ThrowWhileDecoding, FinishDecoding, TP!Complete,
                            poolVars, callVars
  <2>2. /\ held'[t] = None /\ UNCHANGED inGet
        /\ \A r \in BQM!Record : r # held[t] => elements'[r] = elements[r]
        /\ \A u \in Thread : u # t => held'[u] = held[u]
    BY <1>1, <2>1, OtherManagerSteps
  <2>3. inGet[t] = None
    BY <1>1, <2>1 DEF DecoderHolds
  <2>4. DecoderHolds(t)'
    BY <2>2, <2>3 DEF DecoderHolds
  <2> QED
    BY <1>1, <2>1, <2>2, <2>4, OthersHold
<1>6. CASE GetFromQueue(t)
  <2>1. /\ UNCHANGED <<running, cursor, stream>> /\ BQM!GetObjectPoolFromQueue(t)
        /\ inGet[t] # None
    BY <1>6 DEF GetFromQueue, poolVars, callVars, BQM!GetObjectPoolFromQueue
  <2>2. Decoding(t) /\ held[t] = None /\ inGet[t][1] = "parsed"
    BY <1>1, <2>1 DEF DecoderHolds
  <2>3. /\ elements' = elements
        /\ \A u \in Thread : u # t => held'[u] = held[u] /\ inGet'[u] = inGet[u]
        /\ \/ inGet'[t] = None
           \/ held'[t] = held[t] /\ inGet'[t] = inGet[t]
    BY <1>1, <2>1, GetGives
  <2>4. DecoderHolds(t)'
    BY <2>1, <2>2, <2>3 DEF DecoderHolds, Decoding
  <2> QED
    BY <1>1, <2>1, <2>3, <2>4, OthersHold
<1> QED
  BY <1>3, <1>4, <1>5, <1>6 DEF DecoderStep

LEMMA HoldsInvariant == Spec => []HoldsInv
<1>1. Init => HoldsInv
  BY QueuesAssumption DEF Init, BQM!Init, HoldsInv, ParserHolds, DecoderHolds, BQM!Thread,
     BQM!ManagerAssumption
<1>2. TasksInv /\ RecordsOwned /\ HoldsInv /\ [Next]_vars => HoldsInv'
  <2> SUFFICES ASSUME TasksInv, RecordsOwned, HoldsInv, [Next]_vars PROVE HoldsInv'
    OBVIOUS
  <2>1. ASSUME UNCHANGED <<held, inGet, elements, running, cursor>>,
               \A u \in Producer : running[u] # None =>
                 stream'[running[u][2]] = stream[running[u][2]]
        PROVE  HoldsInv'
    BY <2>1, ParserStays, DecoderStays DEF HoldsInv
  <2>2. ASSUME NEW s \in Streams, CallDecoder(s) PROVE HoldsInv'
    <3>1. \A u \in Producer : running[u] # None => running[u][2] \in Calls /\ running[u][2] <= call
      BY DEF TasksInv, Given, ParseTask
    <3>2. \A c \in Calls : c <= call => stream'[c] = stream[c]
      BY <2>2 DEF CallDecoder, TasksInv, Calls
    <3> QED
      BY <2>1, <2>2, <3>1, <3>2 DEF CallDecoder, managerVars, poolVars
  <2>3. ASSUME NEW t \in Thread, WakeSpuriously(t) PROVE HoldsInv'
    BY <2>1, <2>3 DEF WakeSpuriously, BQM!SpuriousWakeup, poolVars, callVars
  <2>4. CASE MainStep
    <3>1. UNCHANGED <<held, inGet, elements, running, cursor, stream>>
      BY <2>4 DEF MainStep, OpenQueues, StartDecoderThread, DispatchDatablock, JoinParser,
         AllParsed, CloseQueue, CollectDecoder, ReturnToClient, RaiseFrom, managerVars, poolVars,
         callVars, TP!Enqueue, TP!GetResult, BQM!OpenAllBlockingQueues, BQM!CloseBlockingQueue
    <3> QED
      BY <2>1, <3>1
  <2>5. CASE UNCHANGED vars
    BY <2>1, <2>5 DEF vars, managerVars, poolVars, callVars
  <2> QED
    BY <2>2, <2>3, <2>4, <2>5, ParserKeepsHolds, DecoderKeepsHolds DEF Next
<1> QED
  BY <1>1, <1>2, TasksInvariant, ManagerInPipeline, PTL DEF Spec

-----------------------------------------------------------------------------
(***************************************************************************)
(* Where the records are.  What a parser published is in one place: in a   *)
(* ParsedRecord that is queued or in the hands of a decoder, in the result *)
(* of a decode task, or in the collection of a call.                       *)
(***************************************************************************)
Published(r) ==
  \/ \E q \in {"parsed"} \X BQM!Index : r \in SeqSet(items[q])
  \/ \E t \in Consumer : held[t] = r

Place == ({"record"} \X BQM!Record) \cup ({"task"} \X DecodeTask) \cup ({"call"} \X Calls)

Ids(p) ==
  IF p[1] = "record" THEN IF Published(p[2]) THEN SeqSet(elements[p[2]]) ELSE {}
  ELSE IF p[1] = "task" THEN SeqSet(collected[p[2]])
  ELSE SeqSet(decodedRecords[p[2]])

OnePlace == \A p, q \in Place : p # q => Ids(p) \cap Ids(q) = {}

(* The parser of the block of record id is past that record.               *)
ParseTaskOf(id) == <<"parse", id[1], id[2]>>

Passed(id) ==
  /\ future[ParseTaskOf(id)] # "none"
  /\ \A i \in 1 .. Len(tasks["parser"]) : tasks["parser"][i] # ParseTaskOf(id)
  /\ \A t \in Producer : running[t] = ParseTaskOf(id) => id[3] < cursor[t]

PlacesInv ==
  /\ collected \in [DecodeTask -> Seq(RecordId)]
  /\ decodedRecords \in [Calls -> Seq(RecordId)]
  /\ OnePlace
  /\ \A p \in Place : \A id \in Ids(p) : id \in RecordId /\ Passed(id)
  /\ \A c \in Calls : c > call => decodedRecords[c] = <<>>
  /\ pc \notin {"collect", "idle"} => decodedRecords[call] = <<>>

(* The elements of sequences that grow, shrink or are joined.              *)
LEMMA SeqSetEmpty == SeqSet(<<>>) = {}
BY DEF SeqSet

LEMMA SeqSetAppend ==
  ASSUME NEW S, NEW s \in Seq(S), NEW e \in S
  PROVE  SeqSet(Append(s, e)) = SeqSet(s) \cup {e}
<1>1. /\ Len(s) \in Nat /\ Len(Append(s, e)) = Len(s) + 1
      /\ \A i \in 1 .. Len(s) : Append(s, e)[i] = s[i]
      /\ Append(s, e)[Len(s) + 1] = e
  OBVIOUS
<1>2. 1 .. (Len(s) + 1) = (1 .. Len(s)) \cup {Len(s) + 1}
  BY <1>1
<1> QED
  BY <1>1, <1>2 DEF SeqSet

LEMMA SeqSetTail ==
  ASSUME NEW S, NEW s \in Seq(S), s # <<>>
  PROVE  SeqSet(s) = SeqSet(Tail(s)) \cup {s[1]}
<1>1. /\ Len(s) \in Nat \ {0} /\ Len(Tail(s)) = Len(s) - 1
      /\ \A i \in 1 .. Len(Tail(s)) : i + 1 \in 1 .. Len(s) /\ Tail(s)[i] = s[i + 1]
  OBVIOUS
<1>2. SeqSet(Tail(s)) \cup {s[1]} \subseteq SeqSet(s)
  BY <1>1 DEF SeqSet
<1>3. ASSUME NEW i \in 1 .. Len(s) PROVE s[i] \in SeqSet(Tail(s)) \cup {s[1]}
  <2>1. CASE i = 1
    BY <2>1
  <2>2. CASE i # 1
    <3>1. i - 1 \in 1 .. Len(Tail(s)) /\ (i - 1) + 1 = i
      BY <1>1, <2>2
    <3>2. Tail(s)[i - 1] = s[i]
      BY <1>1, <3>1
    <3> QED
      BY <3>1, <3>2 DEF SeqSet
  <2> QED
    BY <2>1, <2>2
<1> QED
  BY <1>2, <1>3 DEF SeqSet

LEMMA SeqSetConcat ==
  ASSUME NEW S, NEW s \in Seq(S), NEW t \in Seq(S)
  PROVE  s \o t \in Seq(S) /\ SeqSet(s \o t) = SeqSet(s) \cup SeqSet(t)
<1>1. /\ s \o t \in Seq(S) /\ Len(s) \in Nat /\ Len(t) \in Nat
      /\ Len(s \o t) = Len(s) + Len(t)
  OBVIOUS
<1>2. ASSUME NEW i \in 1 .. Len(s \o t)
      PROVE  (s \o t)[i] \in SeqSet(s) \cup SeqSet(t)
  <2>1. CASE i <= Len(s)
    BY <1>1, <2>1 DEF SeqSet
  <2>2. CASE i > Len(s)
    <3>1. i - Len(s) \in 1 .. Len(t) /\ (s \o t)[i] = t[i - Len(s)]
      BY <1>1, <2>2
    <3> QED
      BY <3>1 DEF SeqSet
  <2> QED
    BY <1>1, <2>1, <2>2
<1>3. ASSUME NEW i \in 1 .. Len(s) PROVE s[i] \in SeqSet(s \o t)
  <2>1. i \in 1 .. Len(s \o t) /\ (s \o t)[i] = s[i]
    BY <1>1
  <2> QED
    BY <2>1 DEF SeqSet
<1>4. ASSUME NEW i \in 1 .. Len(t) PROVE t[i] \in SeqSet(s \o t)
  <2>1. i + Len(s) \in 1 .. Len(s \o t) /\ (s \o t)[i + Len(s)] = t[i]
    BY <1>1
  <2> QED
    BY <2>1 DEF SeqSet
<1> QED
  BY <1>1, <1>2, <1>3, <1>4 DEF SeqSet

(* Moving, dropping and adding records keeps each in one place.            *)
LEMMA DropKeepsOnePlace ==
  ASSUME OnePlace, \A p \in Place : Ids(p)' \subseteq Ids(p)
  PROVE  OnePlace'
BY DEF OnePlace

LEMMA MoveKeepsOnePlace ==
  ASSUME OnePlace, NEW a \in Place, NEW b \in Place,
         Ids(a)' = {}, Ids(b)' = Ids(b) \cup Ids(a),
         \A p \in Place \ {a, b} : Ids(p)' = Ids(p)
  PROVE  OnePlace'
BY DEF OnePlace

LEMMA AddKeepsOnePlace ==
  ASSUME OnePlace, NEW a \in Place, NEW id, \A p \in Place : id \notin Ids(p),
         Ids(a)' = {id},
         \A p \in Place \ {a} : Ids(p)' = Ids(p)
  PROVE  OnePlace'
BY DEF OnePlace

(* A parser never goes back, and no datablock is parsed twice.             *)
LEMMA PassedStays ==
  ASSUME TasksInv, PoolsInv, [Next]_vars, NEW id \in RecordId, Passed(id)
  PROVE  Passed(id)'
<1> DEFINE k == ParseTaskOf(id)
<1>1. k \in ParseTask /\ k \in Task
  BY DEF RecordId, ParseTaskOf, ParseTask, Task
<1>2. /\ tasks \in [Pool -> Seq(Task)] /\ running \in [Thread -> Task \cup {None}]
      /\ future \in [Task -> {"none", "pending", "value", "exception", "consumed"}]
      /\ cursor \in [Producer -> Nat] /\ Pool = {"parser", "consumer"} /\ None \notin Task
  BY PipelineAssumption DEF TasksInv, PoolsInv, TasksOnce, Pool
<1>3. k' = k
  BY DEF ParseTaskOf
<1> HIDE DEF k
<1>4. ASSUME UNCHANGED <<tasks, running>>, future'[k] # "none",
             \A t \in Producer : running[t] = k => cursor'[t] >= cursor[t] /\ cursor'[t] \in Nat
      PROVE  Passed(id)'
  <2>1. id[3] \in Nat
    BY PipelineAssumption DEF RecordId
  <2> QED
    BY <1>2, <1>3, <1>4, <2>1 DEF Passed, k
<1>5. ASSUME NEW p \in Pool, NEW m \in Task, TP!Enqueue(p, m), cursor' = cursor
      PROVE  Passed(id)'
  <2>1. m # k /\ future'[k] = future[k] /\ running' = running
    BY <1>1, <1>2, <1>5 DEF Passed, k, TP!Enqueue
  <2>2. ASSUME NEW i \in 1 .. Len(tasks'["parser"]) PROVE tasks'["parser"][i] # k
    <3>1. CASE p = "parser"
      <4>1. tasks["parser"] \in Seq(Task) /\ tasks'["parser"] = Append(tasks["parser"], m)
        BY <1>2, <1>5, <3>1 DEF TP!Enqueue
      <4>2. \/ i \in 1 .. Len(tasks["parser"]) /\ tasks'["parser"][i] = tasks["parser"][i]
            \/ tasks'["parser"][i] = m
        BY <4>1, AppendedTask
      <4> QED
        BY <2>1, <4>2 DEF Passed, k
    <3>2. CASE p # "parser"
      <4>1. tasks'["parser"] = tasks["parser"]
        BY <1>2, <1>5, <3>2 DEF TP!Enqueue
      <4> QED
        BY <4>1 DEF Passed, k
    <3> QED
      BY <3>1, <3>2
  <2> QED
    BY <1>3, <1>5, <2>1, <2>2 DEF Passed, k
<1>6. ASSUME NEW w \in Thread, TP!Take(w), w \in Producer => cursor' = [cursor EXCEPT ![w] = 1],
             w \notin Producer => cursor' = cursor
      PROVE  Passed(id)'
  <2>1. /\ future' = future
        /\ \A t \in Thread : t # w => running'[t] = running[t]
    BY <1>2, <1>6 DEF TP!Take
  <2>2. CASE w \in Producer
    <3>1. /\ tasks["parser"] \in Seq(Task) /\ tasks["parser"] # <<>>
          /\ tasks'["parser"] = Tail(tasks["parser"]) /\ running'[w] = Head(tasks["parser"])
      BY <1>2, <1>6, <2>2 DEF TP!Take, PoolOf
    <3>2. running'[w] # k /\ \A i \in 1 .. Len(tasks'["parser"]) : tasks'["parser"][i] # k
      BY <3>1, RemainingTask DEF Passed, k
    <3>3. \A t \in Producer : t # w => cursor'[t] = cursor[t]
      BY <1>2, <1>6, <2>2
    <3> QED
      BY <1>3, <2>1, <3>2, <3>3 DEF Passed, k, Thread
  <2>3. CASE w \notin Producer
    <3>1. tasks'["parser"] = tasks["parser"] /\ \A t \in Producer : t # w
      BY <1>2, <1>6, <2>3 DEF TP!Take, PoolOf
    <3> QED
      BY <1>3, <1>6, <2>1, <2>3, <3>1 DEF Passed, k, Thread
  <2> QED
    BY <2>2, <2>3
<1>7. ASSUME NEW w \in Thread, NEW o \in {"value", "exception"}, TP!Complete(w, o),
             \A t \in Producer : t # w => cursor'[t] = cursor[t]
      PROVE  Passed(id)'
  <2>1. /\ tasks' = tasks /\ running'[w] = None
        /\ \A t \in Thread : t # w => running'[t] = running[t]
        /\ future'[k] # "none"
    BY <1>1, <1>2, <1>7 DEF TP!Complete, Passed, k
  <2>2. k # None
    BY <1>1, <1>2
  <2> QED
    BY <1>3, <1>7, <2>1, <2>2 DEF Passed, k, Thread
<1>8. ASSUME NEW m \in Task, TP!GetResult(m), cursor' = cursor PROVE Passed(id)'
  <2>1. future'[k] # "none" /\ UNCHANGED <<tasks, running>>
    BY <1>1, <1>2, <1>8 DEF TP!GetResult, Passed, k
  <2> QED
    BY <1>2, <1>4, <1>8, <2>1
<1>9. ASSUME UNCHANGED poolVars, UNCHANGED cursor PROVE Passed(id)'
  BY <1>2, <1>4, <1>9 DEF poolVars, Passed, k
<1>10. ASSUME NEW t \in Producer, ParserStep(t) PROVE Passed(id)'
  <2>1. t \in Thread
    BY DEF Thread
  <2>2. CASE StartParsing(t)
    BY <1>6, <2>1, <2>2 DEF StartParsing
  <2>3. CASE NextRecord(t) \/ ParseItems(t) \/ GetFromQueue(t)
    BY <1>9, <2>3 DEF NextRecord, ParseItems, GetFromQueue
  <2>4. CASE PublishRecord(t) \/ SkipRecord(t) \/ RejectDatablock(t)
    <3>1. /\ UNCHANGED poolVars /\ Parsing(t) /\ ~LoopDone(t)
          /\ cursor' \in {[cursor EXCEPT ![t] = @ + 1],
                          [cursor EXCEPT ![t] = Len(BlockOf(running[t]).records) + 1]}
      BY <2>4 DEF PublishRecord, SkipRecord, RejectDatablock, InLoopBody
    <3>2. Len(BlockOf(running[t]).records) \in Nat
      BY <3>1, BlockLength
    <3> DEFINE n == Len(BlockOf(running[t]).records)
    <3>3. cursor[t] \in Nat /\ cursor[t] <= n /\ n \in Nat
      BY <1>2, <3>1, <3>2 DEF LoopDone
    <3> HIDE DEF n
    <3>4. cursor'[t] \in {cursor[t] + 1, n + 1} /\ \A u \in Producer : u # t => cursor'[u] = cursor[u]
      BY <1>2, <3>1 DEF n
    <3>5. \A u \in Producer : cursor'[u] >= cursor[u] /\ cursor'[u] \in Nat
      BY <1>2, <3>3, <3>4
    <3> QED
      BY <1>4, <3>1, <3>5 DEF poolVars, Passed, k
  <2>5. CASE ThrowWhileParsing(t) \/ FinishParsing(t)
    <3>1. \A u \in Producer : u # t => cursor'[u] = cursor[u]
      BY <1>2, <2>5 DEF ThrowWhileParsing, FinishParsing
    <3> QED
      BY <1>7, <2>1, <2>5, <3>1 DEF ThrowWhileParsing, FinishParsing
  <2> QED
    BY <1>10, <2>2, <2>3, <2>4, <2>5 DEF ParserStep
<1>11. ASSUME NEW t \in Consumer, DecoderStep(t) PROVE Passed(id)'
  <2>1. t \in Thread /\ t \notin Producer
    BY PipelineAssumption DEF Thread
  <2>2. cursor' = cursor
    BY <1>11 DEF DecoderStep, StartDecoding, NextParsedRecord, DecodeRecord, ThrowWhileDecoding,
                 FinishDecoding, GetFromQueue
  <2> QED
    BY <1>6, <1>7, <1>9, <1>11, <2>1, <2>2
    DEF DecoderStep, StartDecoding, NextParsedRecord, DecodeRecord, ThrowWhileDecoding,
        FinishDecoding, GetFromQueue
<1>12. ASSUME \/ MainStep \/ UNCHANGED vars
              \/ \E s \in Streams : CallDecoder(s)
              \/ \E t \in Thread : WakeSpuriously(t)
       PROVE  Passed(id)'
  <2>1. cursor' = cursor
    BY <1>12 DEF MainStep, OpenQueues, StartDecoderThread, DispatchDatablock, JoinParser,
       AllParsed, CloseQueue, CollectDecoder, ReturnToClient, CallDecoder, WakeSpuriously, vars
  <2>2. \/ UNCHANGED poolVars \/ \E p \in Pool, m \in Task : TP!Enqueue(p, m)
        \/ \E m \in Task : TP!GetResult(m)
    <3>1. PoolStep
      BY PoolSteps DEF PoolsInv
    <3>2. running' = running
      BY <1>12 DEF MainStep, OpenQueues, StartDecoderThread, DispatchDatablock, JoinParser,
         AllParsed, CloseQueue, CollectDecoder, ReturnToClient, CallDecoder, WakeSpuriously, vars,
         poolVars, RaiseFrom, TP!Enqueue, TP!GetResult
    <3>3. \A w \in Thread, o \in {"value", "exception"} : ~TP!Take(w) /\ ~TP!Complete(w, o)
      <4>1. ASSUME NEW w \in Thread, TP!Take(w) PROVE FALSE
        <5>1. PoolOf[w] \in Pool /\ tasks[PoolOf[w]] # <<>> /\ tasks[PoolOf[w]] \in Seq(Task)
          BY <1>2, <4>1 DEF TP!Take, PoolOf, Thread
        <5>2. Head(tasks[PoolOf[w]]) \in Task
          BY <5>1
        <5> QED
          BY <1>2, <3>2, <4>1, <5>2 DEF TP!Take
      <4>2. ASSUME NEW w \in Thread, NEW o \in {"value", "exception"}, TP!Complete(w, o) PROVE FALSE
        BY <1>2, <3>2, <4>2 DEF TP!Complete
      <4> QED
        BY <4>1, <4>2
    <3> QED
      BY <3>1, <3>3 DEF PoolStep
  <2> QED
    BY <1>5, <1>8, <1>9, <2>1, <2>2
<1> QED
  BY <1>10, <1>11, <1>12 DEF Next

(* What a step does to the places: nothing, ...                            *)
SamePlaces == \A p \in Place : Ids(p)' = Ids(p)

(* ... the record a parser publishes appears in a place, ...               *)
Adds(a, id) ==
  /\ a \in Place /\ id \in RecordId
  /\ ~Passed(id) /\ Passed(id)'
  /\ a[1] = "record" /\ Ids(a)' = {id} /\ Ids(a) = {}
  /\ \A p \in Place \ {a} : Ids(p)' = Ids(p)

(* ... or all records of one place move to another.                        *)
Moves(a, b) ==
  /\ a \in Place /\ b \in Place /\ a # b
  /\ Ids(a)' = {} /\ Ids(b)' = Ids(b) \cup Ids(a)
  /\ \A p \in Place \ {a, b} : Ids(p)' = Ids(p)

(* The kinds of places do not mix.                                         *)
LEMMA PlaceKinds ==
  ASSUME NEW p \in Place
  PROVE  \/ \E r \in BQM!Record : p = <<"record", r>>
         \/ \E k \in DecodeTask : p = <<"task", k>>
         \/ \E c \in Calls : p = <<"call", c>>
BY DEF Place

(* Queues of parsed records and decoders' hands unchanged.                 *)
LEMMA PublishedSame ==
  ASSUME \A q \in {"parsed"} \X BQM!Index : items'[q] = items[q],
         \A t \in Consumer : \/ held'[t] = held[t]
                             \/ held[t] \notin BQM!Record /\ held'[t] \notin BQM!Record
  PROVE  \A r \in BQM!Record : Published(r)' <=> Published(r)
<1>1. \A q \in {"parsed"} \X BQM!Index : SeqSet(items[q])' = SeqSet(items[q])
  BY DEF SeqSet
<1> QED
  BY <1>1 DEF Published

LEMMA PlacesSame ==
  ASSUME \A r \in BQM!Record : Published(r)' <=> Published(r),
         \A r \in BQM!Record : Published(r) => elements'[r] = elements[r],
         UNCHANGED <<collected, decodedRecords>>
  PROVE  SamePlaces
<1> SUFFICES ASSUME NEW p \in Place PROVE Ids(p)' = Ids(p)
  BY DEF SamePlaces
<1>1. ASSUME NEW r \in BQM!Record, p = <<"record", r>> PROVE Ids(p)' = Ids(p)
  BY <1>1 DEF Ids, SeqSet
<1>2. ASSUME p[1] # "record" PROVE Ids(p)' = Ids(p)
  BY <1>2 DEF Ids, SeqSet
<1> QED
  BY <1>1, <1>2, PlaceKinds

(* A record in the hands of a thread is in no queue and in no other hands. *)
LEMMA HeldAlone ==
  ASSUME RecordsOwned, NEW t \in Thread, held[t] \in BQM!Record
  PROVE  /\ \A q \in BQM!Queue : held[t] \notin SeqSet(items[q])
         /\ \A u \in Thread : u # t => held[u] # held[t]
         /\ t \in Producer => ~Published(held[t])
<1>1. t \in BQM!Thread /\ BQM!Thread = Thread
  BY DEF Thread, BQM!Thread
<1>2. \A q \in BQM!Queue : held[t] \notin SeqSet(items[q])
  BY <1>1 DEF RecordsOwned, BQM!Ownership, BQM!HeldOrQueued, SeqSet
<1>3. \A u \in Thread : u # t => held[u] # held[t]
  BY <1>1 DEF RecordsOwned, BQM!Ownership, BQM!HeldByOne
<1>4. \A q \in {"parsed"} \X BQM!Index : q \in BQM!Queue
  BY DEF BQM!Queue
<1>5. t \in Producer => \A u \in Consumer : u \in Thread /\ u # t
  BY PipelineAssumption DEF Thread
<1> QED
  BY <1>2, <1>3, <1>4, <1>5 DEF Published

(* Giving a record back does not touch the queues of parsed records.       *)
LEMMA ReleaseLeavesParsed ==
  ASSUME RecordsOwned, NEW t \in Thread, BQM!ReleaseObjectPoolForProducer(t)
  PROVE  \A q \in {"parsed"} \X BQM!Index : items'[q] = items[q]
<1>1. items' = [items EXCEPT ![<<"free", BQM!MembershipQueue(held[t])>>] = Append(@, held[t])]
  BY DEF BQM!ReleaseObjectPoolForProducer
<1>2. \A q \in {"parsed"} \X BQM!Index :
        q # <<"free", BQM!MembershipQueue(held[t])>> /\ q \in DOMAIN items
  BY DEF RecordsOwned, BQM!TypeOK, BQM!Queue
<1> QED
  BY <1>1, <1>2

(* A published record is one nobody published before, and appears in one   *)
(* place.                                                                  *)
LEMMA PublishAdds ==
  ASSUME TasksInv, PoolsInv, RecordsOwned, HoldsInv, NEW t \in Producer, PublishRecord(t)
  PROVE  \E r \in BQM!Record, id \in RecordId :
           r = held[t] /\ id = RecordOf(t) /\ elements[r] = <<id>> /\ Adds(<<"record", r>>, id)
<1>1. PICK r : r = held[t]
  OBVIOUS
<1>2. PICK id : id = RecordOf(t)
  OBVIOUS
<1>3. PICK k : k = running[t]
  OBVIOUS
<1> DEFINE q == <<"parsed", BQM!MembershipQueue(r)>>
<1>4. /\ r \in BQM!Record /\ t \in Thread /\ Parsing(t) /\ ~LoopDone(t)
      /\ cursor' = [cursor EXCEPT ![t] = @ + 1]
      /\ Stored(t) /\ UNCHANGED <<tasks, running, future, collected, decodedRecords, elements>>
      /\ items' = [items EXCEPT ![q] = Append(@, r)]
      /\ held' = [held EXCEPT ![t] = None]
  BY <1>1 DEF PublishRecord, InLoopBody, BQM!SetObjectPoolForConsumer, poolVars, callVars, Thread
<1>5. /\ q \in {"parsed"} \X BQM!Index /\ q \in BQM!Queue
      /\ items \in [BQM!Queue -> Seq(BQM!Record)]
      /\ held \in [Thread -> BQM!Record \cup {None, NullPtr}]
  BY <1>4 DEF RecordsOwned, BQM!TypeOK, BQM!Queue, BQM!Record, BQM!MembershipQueue, BQM!Thread,
              Thread
<1>6. id \in RecordId
  BY <1>2, <1>4, RecordOfType
<1>7. elements[r] = <<id>>
  <2>1. elements[r] # <<>>
    BY <1>1, <1>4 DEF Stored
  <2> QED
    BY <1>1, <1>2, <1>4, <2>1 DEF HoldsInv, ParserHolds
<1>8. k \in Task /\ k = ParseTaskOf(id) /\ id[3] = cursor[t] /\ cursor[t] \in Nat
  BY <1>2, <1>3, <1>4 DEF TasksInv, Parsing, Given, ParseTask, Task, ParseTaskOf, RecordOf
<1>9. ~Passed(id)
  <2>1. Passed(id) => cursor[t] < cursor[t]
    BY <1>3, <1>8 DEF Passed
  <2> QED
    BY <1>8, <2>1
<1>10. Passed(id)'
  <2>1. future[k] = "pending" /\ \A u \in Producer : running[u] = k => u = t
    BY <1>3, <1>4, <1>8 DEF PoolsInv, TasksOnce, Parsing, Thread
  <2>3. \A i \in 1 .. Len(tasks["parser"]) : tasks["parser"][i] # k
    BY <1>3, <1>4 DEF PoolsInv, TasksOnce, Pool
  <2>2. cursor'[t] = cursor[t] + 1
    BY <1>4 DEF TasksInv
  <2> QED
    BY <1>4, <1>8, <2>1, <2>2, <2>3 DEF Passed, ParseTaskOf
<1> HIDE DEF q
<1>11. \A x \in BQM!Record : Published(x)' <=> Published(x) \/ x = r
  <2>1. SeqSet(items'[q]) = SeqSet(items[q]) \cup {r}
    <3>1. items[q] \in Seq(BQM!Record) /\ items'[q] = Append(items[q], r)
      BY <1>4, <1>5
    <3> QED
      BY <1>4, <3>1, SeqSetAppend
  <2>2. \A p \in {"parsed"} \X BQM!Index : p # q => items'[p] = items[p]
    BY <1>4, <1>5 DEF BQM!Queue
  <2>3. \A u \in Consumer : held'[u] = held[u]
    BY <1>4, <1>5, PipelineAssumption DEF Thread
  <2>4. \A x, p : x \in SeqSet(items[p])' <=> x \in SeqSet(items'[p])
    BY DEF SeqSet
  <2> QED
    BY <1>5, <2>1, <2>2, <2>3, <2>4 DEF Published
<1>12. ~Published(r)
  BY <1>1, <1>4, HeldAlone
<1> DEFINE a == <<"record", r>>
<1>13. Ids(a)' = {id} /\ Ids(a) = {}
  <2>1. SeqSet(<<id>>) = {id}
    <3>1. Len(<<id>>) = 1 /\ <<id>>[1] = id
      OBVIOUS
    <3> QED
      BY <3>1 DEF SeqSet
  <2>2. Ids(a)' = SeqSet(elements'[r])
    BY <1>4, <1>11 DEF Ids, SeqSet
  <2> QED
    BY <1>4, <1>7, <1>12, <2>1, <2>2 DEF Ids
<1>14. ASSUME NEW p \in Place, p # a PROVE Ids(p)' = Ids(p)
  <2>1. ASSUME NEW x \in BQM!Record, p = <<"record", x>> PROVE Ids(p)' = Ids(p)
    BY <1>4, <1>11, <1>14, <2>1 DEF Ids, SeqSet
  <2>2. ASSUME p[1] # "record" PROVE Ids(p)' = Ids(p)
    BY <1>4, <2>2 DEF Ids, SeqSet
  <2> QED
    BY <2>1, <2>2, PlaceKinds
<1>15. a \in Place /\ a[1] = "record"
  BY <1>4 DEF Place
<1>16. Adds(a, id)
  <2> HIDE DEF a
  <2> QED
    BY <1>6, <1>9, <1>10, <1>13, <1>14, <1>15 DEF Adds
<1> QED
  BY <1>1, <1>2, <1>4, <1>6, <1>7, <1>16

(* What a parser does besides concerns records nobody published.           *)
LEMMA ParserPlaces ==
  ASSUME TasksInv, PoolsInv, RecordsOwned, HoldsInv, NEW t \in Producer, ParserStep(t)
  PROVE  \/ SamePlaces
         \/ PublishRecord(t) /\ \E a \in Place, id \in RecordId : Adds(a, id)
<1>1. t \in Thread /\ \A u \in Consumer : u \in Thread /\ u # t
  BY PipelineAssumption DEF Thread
<1>2. CASE StartParsing(t) \/ FinishParsing(t)
  <2>1. UNCHANGED <<items, held, elements, collected, decodedRecords>>
    BY <1>2 DEF StartParsing, FinishParsing, managerVars, callVars
  <2> QED
    BY <2>1, PublishedSame, PlacesSame
<1>3. CASE NextRecord(t)
  <2>1. UNCHANGED <<items, held, elements, collected, decodedRecords>>
    BY <1>1, <1>3, OtherManagerSteps DEF NextRecord, callVars
  <2> QED
    BY <2>1, PublishedSame, PlacesSame
<1>4. CASE ParseItems(t)
  <2>1. /\ held[t] \in BQM!Record /\ UNCHANGED <<items, held, collected, decodedRecords>>
        /\ \A r \in BQM!Record : r # held[t] => elements'[r] = elements[r]
    BY <1>1, <1>4, OtherManagerSteps DEF ParseItems, InLoopBody, callVars
  <2>2. ~Published(held[t])
    BY <1>1, <2>1, HeldAlone
  <2>3. \A r \in BQM!Record : Published(r)' <=> Published(r)
    BY <2>1, PublishedSame
  <2> QED
    BY <2>1, <2>2, <2>3, PlacesSame
<1>5. CASE SkipRecord(t) \/ RejectDatablock(t) \/ ThrowWhileParsing(t)
  <2>1. /\ held[t] \in BQM!Record /\ UNCHANGED <<collected, decodedRecords>>
        /\ BQM!ReleaseObjectPoolForProducer(t)
    BY <1>5 DEF SkipRecord, RejectDatablock, ThrowWhileParsing, InLoopBody, callVars
  <2>2. /\ \A r \in BQM!Record : r # held[t] => elements'[r] = elements[r]
        /\ \A u \in Consumer : held'[u] = held[u]
    BY <1>1, <2>1, OtherManagerSteps
  <2>3. \A q \in {"parsed"} \X BQM!Index : items'[q] = items[q]
    BY <1>1, <2>1, ReleaseLeavesParsed
  <2>4. ~Published(held[t])
    BY <1>1, <2>1, HeldAlone
  <2>5. \A r \in BQM!Record : Published(r)' <=> Published(r)
    BY <2>2, <2>3, PublishedSame
  <2> QED
    BY <2>1, <2>2, <2>4, <2>5, PlacesSame
<1>6. CASE PublishRecord(t)
  <2>1. PICK r \in BQM!Record, id \in RecordId : Adds(<<"record", r>>, id)
    BY <1>6, PublishAdds
  <2> QED
    BY <1>6, <2>1 DEF Adds
<1>7. CASE GetFromQueue(t)
  <2>1. /\ BQM!GetObjectPoolFromQueue(t) /\ inGet[t] # None
        /\ UNCHANGED <<collected, decodedRecords>>
    BY <1>7 DEF GetFromQueue, callVars, BQM!GetObjectPoolFromQueue
  <2>2. /\ inGet[t] \in BQM!Queue /\ elements' = elements
        /\ \A u \in Consumer : held'[u] = held[u]
        /\ items' = items \/ items' = [items EXCEPT ![inGet[t]] = Tail(@)]
    BY <1>1, <2>1, GetGives
  <2>3. inGet[t][1] = "free"
    BY <2>1 DEF HoldsInv, ParserHolds
  <2>4. \A q \in {"parsed"} \X BQM!Index : q # inGet[t] /\ q \in DOMAIN items
    BY <2>3 DEF RecordsOwned, BQM!TypeOK, BQM!Queue
  <2>5. \A r \in BQM!Record : Published(r)' <=> Published(r)
    BY <2>2, <2>4, PublishedSame
  <2> QED
    BY <2>1, <2>2, <2>5, PlacesSame
<1> QED
  BY <1>2, <1>3, <1>4, <1>5, <1>6, <1>7 DEF ParserStep

(* The record a decoder takes stays published.                             *)
LEMMA TakingParsed ==
  ASSUME RecordsOwned, HoldsInv, NEW t \in Consumer, GetFromQueue(t)
  PROVE  SamePlaces
<1>1. t \in Thread /\ inGet[t] # None /\ BQM!GetObjectPoolFromQueue(t)
      /\ UNCHANGED <<collected, decodedRecords>>
  BY DEF Thread, GetFromQueue, callVars, BQM!GetObjectPoolFromQueue
<1>2. PICK q : q = inGet[t]
  OBVIOUS
<1>3. held[t] = None /\ q[1] = "parsed" /\ None \notin BQM!Record /\ NullPtr \notin BQM!Record
  BY <1>1, <1>2, QueuesAssumption DEF HoldsInv, DecoderHolds, BQM!ManagerAssumption
<1>4. /\ q \in BQM!Queue /\ elements' = elements
      /\ \A u \in Thread : u # t => held'[u] = held[u]
      /\ \/ /\ items[q] # <<>> /\ held'[t] = items[q][1]
            /\ items' = [items EXCEPT ![q] = Tail(@)]
         \/ held'[t] \in {None, NullPtr} /\ items' = items
  BY <1>1, <1>2, <1>3, GetGives
<1>5. CASE held'[t] \in {None, NullPtr} /\ items' = items
  <2>1. \A r \in BQM!Record : Published(r)' <=> Published(r)
    BY <1>3, <1>4, <1>5, PublishedSame DEF Thread
  <2> QED
    BY <1>1, <1>4, <2>1, PlacesSame
<1>6. CASE /\ items[q] # <<>> /\ held'[t] = items[q][1]
           /\ items' = [items EXCEPT ![q] = Tail(@)]
  <2>1. items[q] \in Seq(BQM!Record) /\ q \in {"parsed"} \X BQM!Index
    BY <1>3, <1>4 DEF RecordsOwned, BQM!TypeOK, BQM!Queue
  <2>2. /\ SeqSet(items[q]) = SeqSet(items'[q]) \cup {items[q][1]}
        /\ \A p \in {"parsed"} \X BQM!Index : p # q => items'[p] = items[p]
    <3>1. items'[q] = Tail(items[q]) /\ \A p \in BQM!Queue : p # q => items'[p] = items[p]
      BY <1>4, <1>6 DEF RecordsOwned, BQM!TypeOK
    <3> QED
      BY <1>6, <2>1, <3>1, SeqSetTail DEF BQM!Queue
  <2>3. \A x, p : x \in SeqSet(items[p])' <=> x \in SeqSet(items'[p])
    BY DEF SeqSet
  <2>4. ASSUME NEW r \in BQM!Record PROVE Published(r)' <=> Published(r)
    <3>1. (\E u \in Consumer : held'[u] = r) <=> r = items[q][1] \/ \E u \in Consumer : held[u] = r
      BY <1>3, <1>4, <1>6 DEF Thread
    <3>2. (\E p \in {"parsed"} \X BQM!Index : r \in SeqSet(items[p])) <=>
            \/ r = items[q][1]
            \/ \E p \in {"parsed"} \X BQM!Index : r \in SeqSet(items'[p])
      BY <2>1, <2>2
    <3> QED
      BY <2>3, <3>1, <3>2 DEF Published
  <2> QED
    BY <1>1, <1>4, <2>4, PlacesSame
<1> QED
  BY <1>4, <1>5, <1>6

(* A decoder that gives a record back, or loses it, ends its publication.  *)
LEMMA EndOfPublication ==
  ASSUME RecordsOwned, NEW t \in Consumer, held[t] \in BQM!Record,
         BQM!ReleaseObjectPoolForProducer(t) \/ BQM!AbandonRecord(t)
  PROVE  /\ Published(held[t])
         /\ \A x \in BQM!Record : Published(x)' <=> Published(x) /\ x # held[t]
<1>1. t \in Thread
  BY DEF Thread
<1>2. /\ held'[t] = None /\ \A u \in Thread : u # t => held'[u] = held[u]
      /\ None \notin BQM!Record
  BY <1>1, OtherManagerSteps, QueuesAssumption DEF BQM!ManagerAssumption
<1>3. \A q \in {"parsed"} \X BQM!Index : items'[q] = items[q] /\ q \in BQM!Queue
  BY <1>1, ReleaseLeavesParsed DEF BQM!AbandonRecord, BQM!Queue
<1>4. /\ \A q \in BQM!Queue : held[t] \notin SeqSet(items[q])
      /\ \A u \in Thread : u # t => held[u] # held[t]
  BY <1>1, HeldAlone
<1>5. \A x, p : x \in SeqSet(items[p])' <=> x \in SeqSet(items'[p])
  BY DEF SeqSet
<1> QED
  BY <1>2, <1>3, <1>4, <1>5 DEF Published, Thread

LEMMA DecodeMoves ==
  ASSUME TasksInv, PoolsInv, RecordsOwned, HoldsInv, PlacesInv, NEW t \in Consumer, DecodeRecord(t)
  PROVE  /\ collected' \in [DecodeTask -> Seq(RecordId)]
         /\ \E r \in BQM!Record, k \in DecodeTask :
              r = held[t] /\ k = running[t] /\ Moves(<<"record", r>>, <<"task", k>>)
<1>1. PICK r : r = held[t]
  OBVIOUS
<1>2. PICK k : k = running[t]
  OBVIOUS
<1>3. /\ t \in Thread /\ r \in BQM!Record /\ k \in DecodeTask
      /\ BQM!ReleaseObjectPoolForProducer(t) /\ decodedRecords' = decodedRecords
      /\ collected' = [collected EXCEPT ![k] = @ \o elements[r]]
  BY <1>1, <1>2 DEF DecodeRecord, Decoding, ContentOf, PoolsInv, PoolsTyped, Thread, callVars
<1>4. /\ Published(r) /\ \A x \in BQM!Record : Published(x)' <=> Published(x) /\ x # r
      /\ \A x \in BQM!Record : x # r => elements'[x] = elements[x]
  BY <1>1, <1>3, EndOfPublication, OtherManagerSteps
<1>5. elements[r] \in Seq(RecordId) /\ collected[k] \in Seq(RecordId)
  BY <1>3 DEF RecordsOwned, BQM!TypeOK, PlacesInv
<1>6. /\ collected[k] \o elements[r] \in Seq(RecordId)
      /\ SeqSet(collected[k] \o elements[r]) = SeqSet(collected[k]) \cup SeqSet(elements[r])
  BY <1>5, SeqSetConcat
<1>7. /\ collected' \in [DecodeTask -> Seq(RecordId)]
      /\ collected'[k] = collected[k] \o elements[r]
      /\ \A m \in DecodeTask : m # k => collected'[m] = collected[m]
  BY <1>3, <1>6 DEF PlacesInv
<1> DEFINE a == <<"record", r>>
           b == <<"task", k>>
<1>8. a \in Place /\ b \in Place /\ a # b /\ a[1] = "record" /\ b[1] = "task"
  BY <1>3 DEF Place
<1>9. Ids(a)' = {}
  BY <1>3, <1>4 DEF Ids
<1>10. Ids(b)' = Ids(b) \cup Ids(a)
  <2>1. Ids(b)' = SeqSet(collected'[k])
    BY DEF Ids, SeqSet
  <2>2. Ids(b) = SeqSet(collected[k]) /\ Ids(a) = SeqSet(elements[r])
    BY <1>4 DEF Ids
  <2> QED
    BY <1>6, <1>7, <2>1, <2>2
<1>11. ASSUME NEW p \in Place \ {a, b} PROVE Ids(p)' = Ids(p)
  <2>1. ASSUME NEW x \in BQM!Record, p = <<"record", x>> PROVE Ids(p)' = Ids(p)
    <3>1. x # r
      BY <2>1
    <3>2. (Published(x)' <=> Published(x)) /\ elements'[x] = elements[x]
      BY <1>4, <3>1
    <3> QED
      BY <2>1, <3>2 DEF Ids, SeqSet
  <2>2. ASSUME NEW m \in DecodeTask, p = <<"task", m>> PROVE Ids(p)' = Ids(p)
    <3>1. Ids(p)' = SeqSet(collected'[m]) /\ Ids(p) = SeqSet(collected[m])
      BY <2>2 DEF Ids, SeqSet
    <3>2. m # k
      BY <2>2
    <3> QED
      BY <1>7, <3>1, <3>2
  <2>3. ASSUME NEW c \in Calls, p = <<"call", c>> PROVE Ids(p)' = Ids(p)
    BY <1>3, <2>3 DEF Ids, SeqSet
  <2> QED
    BY <2>1, <2>2, <2>3, PlaceKinds
<1>12. Moves(a, b)
  <2> HIDE DEF a, b
  <2> QED
    BY <1>8, <1>9, <1>10, <1>11 DEF Moves
<1> QED
  BY <1>1, <1>2, <1>3, <1>7, <1>12

(* Records disappear from places only.                                     *)
Drops == \A p \in Place : Ids(p)' \subseteq Ids(p)

LEMMA SameDrops == SamePlaces => Drops
BY DEF SamePlaces, Drops

LEMMA DecoderPlaces ==
  ASSUME TasksInv, PoolsInv, RecordsOwned, HoldsInv, PlacesInv, NEW t \in Consumer, DecoderStep(t)
  PROVE  /\ collected' \in [DecodeTask -> Seq(RecordId)]
         /\ \/ SamePlaces
            \/ Drops /\ ThrowWhileDecoding(t)
            \/ /\ DecodeRecord(t)
               /\ \E a, b \in Place : a[1] = "record" /\ b[1] = "task" /\ Moves(a, b)
<1>1. t \in Thread /\ None \notin BQM!Record /\ NullPtr \notin BQM!Record
  BY QueuesAssumption DEF Thread, BQM!ManagerAssumption
<1>2. CASE DecodeRecord(t)
  <2>1. PICK r \in BQM!Record, k \in DecodeTask : Moves(<<"record", r>>, <<"task", k>>)
    BY <1>2, DecodeMoves
  <2>2. <<"record", r>> \in Place /\ <<"task", k>> \in Place
    BY <2>1 DEF Moves
  <2> QED
    BY <1>2, <2>1, <2>2, DecodeMoves
<1>3. CASE StartDecoding(t) \/ NextParsedRecord(t)
  <2>1. UNCHANGED <<items, held, elements, collected, decodedRecords>>
    BY <1>1, <1>3, OtherManagerSteps DEF StartDecoding, NextParsedRecord, managerVars, callVars
  <2>2. SamePlaces
    BY <2>1, PublishedSame, PlacesSame
  <2> QED
    BY <2>1, <2>2 DEF PlacesInv
<1>4. CASE FinishDecoding(t)
  <2>1. /\ held[t] = NullPtr /\ held'[t] = None /\ UNCHANGED <<items, elements>>
        /\ \A u \in Thread : u # t => held'[u] = held[u]
        /\ UNCHANGED <<collected, decodedRecords>>
    BY <1>1, <1>4, OtherManagerSteps DEF FinishDecoding, callVars
  <2>2. \A r \in BQM!Record : Published(r)' <=> Published(r)
    BY <1>1, <2>1, PublishedSame DEF Thread
  <2>3. SamePlaces
    BY <2>1, <2>2, PlacesSame
  <2> QED
    BY <2>1, <2>3 DEF PlacesInv
<1>5. CASE GetFromQueue(t)
  BY <1>5, TakingParsed DEF GetFromQueue, PlacesInv
<1>6. CASE ThrowWhileDecoding(t)
  <2>1. PICK k : k = running[t]
    OBVIOUS
  <2>2. /\ held[t] \in BQM!Record /\ BQM!AbandonRecord(t) /\ k \in DecodeTask
        /\ collected' = [collected EXCEPT ![k] = <<>>] /\ decodedRecords' = decodedRecords
    BY <1>6, <2>1 DEF ThrowWhileDecoding, Decoding, PoolsInv, PoolsTyped, callVars
  <2>3. \A x \in BQM!Record : Published(x)' => Published(x)
    BY <2>2, EndOfPublication
  <2>4. elements' = elements
    BY <2>2 DEF BQM!AbandonRecord
  <2>5. \A m \in DecodeTask : collected'[m] = collected[m] \/ collected'[m] = <<>>
    BY <2>2 DEF PlacesInv
  <2>6. ASSUME NEW p \in Place PROVE Ids(p)' \subseteq Ids(p)
    <3>1. ASSUME NEW x \in BQM!Record, p = <<"record", x>> PROVE Ids(p)' \subseteq Ids(p)
      BY <2>3, <2>4, <3>1 DEF Ids, SeqSet
    <3>2. ASSUME NEW m \in DecodeTask, p = <<"task", m>> PROVE Ids(p)' \subseteq Ids(p)
      <4>1. Ids(p)' = SeqSet(collected'[m]) /\ Ids(p) = SeqSet(collected[m])
        BY <3>2 DEF Ids, SeqSet
      <4> QED
        BY <2>5, <4>1, SeqSetEmpty
    <3>3. ASSUME NEW c \in Calls, p = <<"call", c>> PROVE Ids(p)' \subseteq Ids(p)
      BY <2>2, <3>3 DEF Ids, SeqSet
    <3> QED
      BY <3>1, <3>2, <3>3, PlaceKinds
  <2>7. <<>> \in Seq(RecordId)
    OBVIOUS
  <2> QED
    BY <1>6, <2>2, <2>6, <2>7 DEF Drops, PlacesInv
<1> QED
  BY <1>2, <1>3, <1>4, <1>5, <1>6 DEF DecoderStep

(* The calling thread gathers the result of a decode task, or drops what   *)
(* it had gathered when an exception leaves the call.                      *)
CollectedLater ==
  /\ \A c \in Calls : c > call => decodedRecords[c] = <<>>
  /\ pc \notin {"collect", "idle"} => decodedRecords[call] = <<>>

LEMMA CollectMoves ==
  ASSUME TasksInv, PoolsInv, PlacesInv, CollectDecoder, pc' = pc
  PROVE  /\ collected' \in [DecodeTask -> Seq(RecordId)]
         /\ decodedRecords' \in [Calls -> Seq(RecordId)]
         /\ \A c \in Calls : c # call => decodedRecords'[c] = decodedRecords[c]
         /\ \E k \in DecodeTask, c \in Calls :
              /\ k = decodingResults[step] /\ c = call
              /\ Moves(<<"task", k>>, <<"call", c>>)
<1>1. PICK k : k = decodingResults[step]
  OBVIOUS
<1>2. PICK c : c = call
  OBVIOUS
<1>3. k \in DecodeTask /\ c \in Calls
  <2>1. step \in 1 .. Len(decodingResults)
    BY DEF CollectDecoder, TasksInv
  <2>2. k \in DecodeTask
    BY <1>1, <2>1 DEF PoolsInv, PoolsTyped
  <2> QED
    BY <1>2, <2>2 DEF CollectDecoder, TasksInv, Calls
<1>4. /\ decodedRecords' = [decodedRecords EXCEPT ![c] = @ \o collected[k]]
      /\ collected' = [collected EXCEPT ![k] = <<>>]
      /\ UNCHANGED managerVars
  BY <1>1, <1>2 DEF CollectDecoder, RaiseFrom, AddRecordsInCollection
<1>5. /\ decodedRecords[c] \o collected[k] \in Seq(RecordId)
      /\ SeqSet(decodedRecords[c] \o collected[k]) = SeqSet(decodedRecords[c]) \cup SeqSet(collected[k])
  BY <1>3, SeqSetConcat DEF PlacesInv
<1>6. /\ collected' \in [DecodeTask -> Seq(RecordId)] /\ collected'[k] = <<>>
      /\ \A m \in DecodeTask : m # k => collected'[m] = collected[m]
  BY <1>3, <1>4 DEF PlacesInv
<1>7. /\ decodedRecords' \in [Calls -> Seq(RecordId)]
      /\ decodedRecords'[c] = decodedRecords[c] \o collected[k]
      /\ \A d \in Calls : d # c => decodedRecords'[d] = decodedRecords[d]
  BY <1>3, <1>4, <1>5 DEF PlacesInv
<1> DEFINE a == <<"task", k>>
           b == <<"call", c>>
<1>8. a \in Place /\ b \in Place /\ a # b
  BY <1>3 DEF Place
<1>9. Ids(a)' = {}
  <2>1. Ids(a)' = SeqSet(collected'[k])
    BY DEF Ids, SeqSet
  <2> QED
    BY <1>6, <2>1, SeqSetEmpty
<1>10. Ids(b)' = Ids(b) \cup Ids(a)
  <2>1. Ids(b)' = SeqSet(decodedRecords'[c])
    BY DEF Ids, SeqSet
  <2>2. Ids(b) = SeqSet(decodedRecords[c]) /\ Ids(a) = SeqSet(collected[k])
    BY DEF Ids
  <2> QED
    BY <1>5, <1>7, <2>1, <2>2
<1>11. ASSUME NEW p \in Place \ {a, b} PROVE Ids(p)' = Ids(p)
  <2>1. ASSUME NEW x \in BQM!Record, p = <<"record", x>> PROVE Ids(p)' = Ids(p)
    BY <1>4, <2>1 DEF Ids, SeqSet, Published, managerVars
  <2>2. ASSUME NEW m \in DecodeTask, p = <<"task", m>> PROVE Ids(p)' = Ids(p)
    <3>1. Ids(p)' = SeqSet(collected'[m]) /\ Ids(p) = SeqSet(collected[m])
      BY <2>2 DEF Ids, SeqSet
    <3>2. m # k
      BY <2>2
    <3> QED
      BY <1>6, <3>1, <3>2
  <2>3. ASSUME NEW d \in Calls, p = <<"call", d>> PROVE Ids(p)' = Ids(p)
    <3>1. Ids(p)' = SeqSet(decodedRecords'[d]) /\ Ids(p) = SeqSet(decodedRecords[d])
      BY <2>3 DEF Ids, SeqSet
    <3>2. d # c
      BY <2>3
    <3> QED
      BY <1>7, <3>1, <3>2
  <2> QED
    BY <2>1, <2>2, <2>3, PlaceKinds
<1>12. Moves(a, b)
  BY <1>8, <1>9, <1>10, <1>11 DEF Moves
<1> QED
  BY <1>1, <1>2, <1>3, <1>6, <1>7, <1>12

LEMMA MainPlaces ==
  ASSUME TasksInv, PoolsInv, PlacesInv, MainStep
  PROVE  /\ collected' \in [DecodeTask -> Seq(RecordId)]
         /\ decodedRecords' \in [Calls -> Seq(RecordId)]
         /\ CollectedLater'
         /\ \/ Drops /\ (SamePlaces \/ raised' # {})
            \/ /\ CollectDecoder /\ pc = "collect" /\ pc' = pc
               /\ \E k \in DecodeTask, c \in Calls : c = call /\ Moves(<<"task", k>>, <<"call", c>>)
<1>1. CollectedLater
  BY DEF PlacesInv, CollectedLater
<1>2. call' = call /\ UNCHANGED <<items, held, elements>>
  BY DEF MainStep, OpenQueues, StartDecoderThread, DispatchDatablock, JoinParser, AllParsed,
     CloseQueue, CollectDecoder, ReturnToClient, managerVars, callVars,
     BQM!OpenAllBlockingQueues, BQM!CloseBlockingQueue
<1>3. CASE CollectDecoder /\ pc' = pc
  <2>1. pc = "collect" /\ call \in Nat
    BY <1>3 DEF CollectDecoder, TasksInv
  <2>2. CollectedLater'
    BY <1>1, <1>2, <1>3, <2>1, CollectMoves DEF CollectedLater, Calls
  <2> QED
    BY <1>3, <2>1, <2>2, CollectMoves
<1>4. ASSUME \/ decodedRecords' = decodedRecords
             \/ decodedRecords' = [decodedRecords EXCEPT ![call] = <<>>] /\ raised' # {},
             collected' = collected,
             pc' \in {"collect", "idle"} \/ pc \notin {"collect", "idle"}
      PROVE  /\ collected' \in [DecodeTask -> Seq(RecordId)]
             /\ decodedRecords' \in [Calls -> Seq(RecordId)]
             /\ CollectedLater' /\ Drops /\ (SamePlaces \/ raised' # {})
  <2>1. \A c \in Calls : decodedRecords'[c] = decodedRecords[c] \/ decodedRecords'[c] = <<>>
    BY <1>4 DEF PlacesInv
  <2>2. <<>> \in Seq(RecordId)
    OBVIOUS
  <2>3. decodedRecords' \in [Calls -> Seq(RecordId)]
    BY <1>4, <2>2 DEF PlacesInv
  <2>4. CollectedLater'
    <3>1. CASE decodedRecords' = decodedRecords
      BY <1>1, <1>2, <1>4, <3>1 DEF CollectedLater
    <3>2. CASE decodedRecords' = [decodedRecords EXCEPT ![call] = <<>>]
      <4>1. \A c \in Calls : c > call => decodedRecords'[c] = <<>>
        BY <1>1, <2>1 DEF CollectedLater
      <4>2. pc' \notin {"collect", "idle"} => decodedRecords'[call] = <<>>
        BY <1>1, <1>4, <3>2 DEF CollectedLater, PlacesInv
      <4> QED
        BY <1>2, <4>1, <4>2 DEF CollectedLater
    <3> QED
      BY <1>4, <3>1, <3>2
  <2>5. ASSUME NEW p \in Place PROVE Ids(p)' \subseteq Ids(p)
    <3>1. ASSUME NEW x \in BQM!Record, p = <<"record", x>> PROVE Ids(p)' \subseteq Ids(p)
      BY <1>2, <3>1 DEF Ids, SeqSet, Published
    <3>2. ASSUME NEW m \in DecodeTask, p = <<"task", m>> PROVE Ids(p)' \subseteq Ids(p)
      BY <1>4, <3>2 DEF Ids, SeqSet
    <3>3. ASSUME NEW c \in Calls, p = <<"call", c>> PROVE Ids(p)' \subseteq Ids(p)
      <4>1. Ids(p)' = SeqSet(decodedRecords'[c]) /\ Ids(p) = SeqSet(decodedRecords[c])
        BY <3>3 DEF Ids, SeqSet
      <4> QED
        BY <2>1, <4>1, SeqSetEmpty
    <3> QED
      BY <3>1, <3>2, <3>3, PlaceKinds
  <2>6. decodedRecords' = decodedRecords => SamePlaces
    BY <1>2, <1>4, PublishedSame, PlacesSame
  <2> QED
    BY <1>4, <2>3, <2>4, <2>5, <2>6 DEF Drops, PlacesInv
<1>5. CASE ~(CollectDecoder /\ pc' = pc)
  <2>1. /\ \/ decodedRecords' = decodedRecords
           \/ decodedRecords' = [decodedRecords EXCEPT ![call] = <<>>] /\ raised' # {}
        /\ collected' = collected
        /\ pc' \in {"collect", "idle"} \/ pc \notin {"collect", "idle"}
    <3>1. CASE CollectDecoder
      BY <1>5, <3>1 DEF CollectDecoder, RaiseFrom
    <3>2. CASE JoinParser
      BY <3>2 DEF JoinParser, RaiseFrom
    <3>3. CASE \/ OpenQueues \/ StartDecoderThread \/ DispatchDatablock \/ AllParsed \/ CloseQueue
               \/ ReturnToClient
      BY <3>3 DEF OpenQueues, StartDecoderThread, DispatchDatablock, AllParsed, CloseQueue,
                  ReturnToClient, callVars, Goto
    <3> QED
      BY <3>1, <3>2, <3>3 DEF MainStep
  <2> QED
    BY <1>4, <2>1
<1> QED
  BY <1>3, <1>5

(* Every record a parser published is in one place only, in every state.   *)
LEMMA PlacesInvariant == Spec => []PlacesInv
<1>1. Init => PlacesInv
  <2> SUFFICES ASSUME Init PROVE PlacesInv
    OBVIOUS
  <2>1. \A q \in {"parsed"} \X BQM!Index : items[q] = <<>>
    BY DEF Init, BQM!Init, BQM!Queue
  <2>2. \A t \in Consumer : held[t] \notin BQM!Record
    BY QueuesAssumption DEF Init, BQM!Init, BQM!Thread, BQM!ManagerAssumption
  <2>3. \A r \in BQM!Record : ~Published(r)
    BY <2>1, <2>2, SeqSetEmpty DEF Published
  <2>4. /\ \A k \in DecodeTask : collected[k] = <<>>
        /\ \A c \in Calls : decodedRecords[c] = <<>>
        /\ collected \in [DecodeTask -> Seq(RecordId)]
        /\ decodedRecords \in [Calls -> Seq(RecordId)]
        /\ pc = "idle"
    BY DEF Init
  <2>5. ASSUME NEW p \in Place PROVE Ids(p) = {}
    <3>1. ASSUME NEW x \in BQM!Record, p = <<"record", x>> PROVE Ids(p) = {}
      BY <2>3, <3>1 DEF Ids
    <3>2. ASSUME NEW m \in DecodeTask, p = <<"task", m>> PROVE Ids(p) = {}
      BY <2>4, <3>2, SeqSetEmpty DEF Ids
    <3>3. ASSUME NEW c \in Calls, p = <<"call", c>> PROVE Ids(p) = {}
      BY <2>4, <3>3, SeqSetEmpty DEF Ids
    <3> QED
      BY <3>1, <3>2, <3>3, PlaceKinds
  <2> QED
    BY <2>4, <2>5 DEF PlacesInv, OnePlace
<1>2. TasksInv /\ PoolsInv /\ RecordsOwned /\ HoldsInv /\ PlacesInv /\ [Next]_vars => PlacesInv'
  <2> SUFFICES ASSUME TasksInv, PoolsInv, RecordsOwned, HoldsInv, PlacesInv, [Next]_vars
               PROVE  PlacesInv'
    OBVIOUS
  <2>1. ASSUME collected' \in [DecodeTask -> Seq(RecordId)],
               decodedRecords' \in [Calls -> Seq(RecordId)], CollectedLater',
               \/ Drops
               \/ \E a, b \in Place : Moves(a, b)
               \/ \E a \in Place, id \in RecordId : Adds(a, id)
        PROVE  PlacesInv'
    <3>1. OnePlace'
      <4>1. OnePlace
        BY DEF PlacesInv
      <4>2. CASE Drops
        BY <4>1, <4>2, DropKeepsOnePlace DEF Drops
      <4>3. CASE \E a, b \in Place : Moves(a, b)
        BY <4>1, <4>3, MoveKeepsOnePlace DEF Moves
      <4>4. CASE \E a \in Place, id \in RecordId : Adds(a, id)
        <5>1. PICK a \in Place, id \in RecordId : Adds(a, id)
          BY <4>4
        <5>2. \A p \in Place : id \notin Ids(p)
          BY <5>1 DEF Adds, PlacesInv
        <5> QED
          BY <4>1, <5>1, <5>2, AddKeepsOnePlace DEF Adds
      <4> QED
        BY <2>1, <4>2, <4>3, <4>4
    <3>2. ASSUME NEW p \in Place, NEW id \in Ids(p)' PROVE id \in RecordId /\ Passed(id)'
      <4>1. CASE \E a \in Place : id \in Ids(a)
        BY <4>1, PassedStays DEF PlacesInv
      <4>2. CASE \A a \in Place : id \notin Ids(a)
        BY <2>1, <3>2, <4>2 DEF Drops, Moves, Adds
      <4> QED
        BY <4>1, <4>2
    <3> QED
      BY <2>1, <3>1, <3>2 DEF PlacesInv, CollectedLater
  <2>2. CollectedLater
    BY DEF PlacesInv, CollectedLater
  <2>3. ASSUME NEW t \in Producer, ParserStep(t) PROVE PlacesInv'
    <3>1. UNCHANGED <<collected, decodedRecords, call, pc>>
      BY <2>3 DEF ParserStep, StartParsing, NextRecord, ParseItems, PublishRecord, SkipRecord,
                  RejectDatablock, ThrowWhileParsing, FinishParsing, GetFromQueue, mainVars, callVars
    <3>2. CollectedLater'
      BY <2>2, <3>1 DEF CollectedLater
    <3> QED
      BY <2>1, <2>3, <3>1, <3>2, ParserPlaces, SameDrops DEF PlacesInv
  <2>4. ASSUME NEW t \in Consumer, DecoderStep(t) PROVE PlacesInv'
    <3>1. UNCHANGED <<decodedRecords, call, pc>>
      BY <2>4 DEF DecoderStep, StartDecoding, NextParsedRecord, DecodeRecord, ThrowWhileDecoding,
                  FinishDecoding, GetFromQueue, mainVars, callVars
    <3>2. CollectedLater'
      BY <2>2, <3>1 DEF CollectedLater
    <3> QED
      BY <2>1, <2>4, <3>1, <3>2, DecoderPlaces, SameDrops DEF PlacesInv
  <2>5. CASE MainStep
    <3>1. \A k \in DecodeTask, c \in Calls : <<"task", k>> \in Place /\ <<"call", c>> \in Place
      BY DEF Place
    <3> QED
      BY <2>1, <2>5, <3>1, MainPlaces
  <2>6. ASSUME UNCHANGED <<items, held, elements, collected, decodedRecords>>, CollectedLater'
        PROVE  PlacesInv'
    BY <2>1, <2>6, PublishedSame, PlacesSame, SameDrops DEF PlacesInv
  <2>7. ASSUME NEW s \in Streams, CallDecoder(s) PROVE PlacesInv'
    <3>1. CollectedLater'
      <4>1. /\ call \in Nat /\ call' = call + 1 /\ call' \in Calls /\ pc' = "open"
            /\ decodedRecords' = decodedRecords
        BY <2>7, PipelineAssumption DEF CallDecoder, Goto, TasksInv, Calls
      <4> QED
        BY <2>2, <4>1 DEF CollectedLater, Calls
    <3> QED
      BY <2>6, <2>7, <3>1 DEF CallDecoder, managerVars
  <2>8. ASSUME NEW t \in Thread, WakeSpuriously(t) PROVE PlacesInv'
    <3>1. UNCHANGED <<items, held, elements, collected, decodedRecords, call, pc>>
      BY <2>8 DEF WakeSpuriously, BQM!SpuriousWakeup, mainVars, callVars
    <3> QED
      BY <2>2, <2>6, <3>1 DEF CollectedLater
  <2>9. CASE UNCHANGED vars
    BY <2>2, <2>6, <2>9 DEF vars, managerVars, callVars, mainVars, CollectedLater
  <2> QED
    BY <2>3, <2>4, <2>5, <2>7, <2>8, <2>9 DEF Next
<1> QED
  BY <1>1, <1>2, TasksInvariant, PoolsInvariant, ManagerInPipeline, HoldsInvariant, PTL DEF Spec

-----------------------------------------------------------------------------
(***************************************************************************)
(* The pipeline delivers records as RecordDelivery promises.               *)
(***************************************************************************)
(* The places whose records are in flight, and what clients have received. *)
Flying(p) == p[1] # "call" \/ (pc = "collect" /\ p = <<"call", call>>)

Received == [c \in Calls |-> IF c \in Returned THEN SeqSet(decodedRecords[c]) ELSE {}]

InFlightPlaces == UNION {Ids(p) : p \in {x \in Place : Flying(x)}}

Located == InFlight = InFlightPlaces

LEMMA InFlightIsPlaces == TasksInv /\ RecordsOwned => Located
<1> SUFFICES ASSUME TasksInv, RecordsOwned PROVE Located
  OBVIOUS
<1> DEFINE inHands  == UNION {SeqSet(ContentOf(t)) : t \in {u \in Consumer : held[u] \in BQM!Record}}
           inTasks  == UNION {SeqSet(collected[k]) : k \in DecodeTask}
           gathered == IF pc = "collect" THEN SeqSet(decodedRecords[call]) ELSE {}
<1>3. InFlight = AllContents \cup inHands \cup inTasks \cup gathered
  BY DEF InFlight
<1> HIDE DEF inHands, inTasks, gathered
<1>1. ASSUME NEW id, id \in InFlight PROVE id \in InFlightPlaces
  <2>1. CASE id \in AllContents
    <3>1. PICK q \in {"parsed"} \X BQM!Index :
            \E n \in 1 .. Len(items[q]) : id \in SeqSet(elements[items[q][n]])
      BY <2>1 DEF AllContents, Contents
    <3>7. PICK n \in 1 .. Len(items[q]) : id \in SeqSet(elements[items[q][n]])
      BY <3>1
    <3>2. PICK r : r = items[q][n]
      OBVIOUS
    <3>3. items[q] \in Seq(BQM!Record)
      BY DEF RecordsOwned, BQM!TypeOK, BQM!Queue
    <3>4. r \in BQM!Record /\ r \in SeqSet(items[q])
      BY <3>2, <3>3 DEF SeqSet
    <3>5. Published(r)
      BY <3>4 DEF Published
    <3> DEFINE p == <<"record", r>>
    <3>6. p \in Place /\ Flying(p) /\ Ids(p) = SeqSet(elements[r])
      BY <3>4, <3>5 DEF Place, Flying, Ids
    <3> QED
      BY <3>2, <3>6, <3>7 DEF InFlightPlaces
  <2>2. CASE \E t \in Consumer : held[t] \in BQM!Record /\ id \in SeqSet(ContentOf(t))
    <3>1. PICK t \in Consumer : held[t] \in BQM!Record /\ id \in SeqSet(elements[held[t]])
      BY <2>2 DEF ContentOf
    <3>2. PICK r : r = held[t]
      OBVIOUS
    <3> DEFINE p == <<"record", r>>
    <3>3. p \in Place /\ Flying(p) /\ Ids(p) = SeqSet(elements[r])
      BY <3>1, <3>2 DEF Place, Flying, Ids, Published
    <3> QED
      BY <3>1, <3>2, <3>3 DEF InFlightPlaces
  <2>3. CASE \E k \in DecodeTask : id \in SeqSet(collected[k])
    <3>1. PICK k \in DecodeTask : id \in SeqSet(collected[k])
      BY <2>3
    <3> DEFINE p == <<"task", k>>
    <3>2. p \in Place /\ Flying(p) /\ Ids(p) = SeqSet(collected[k])
      BY DEF Place, Flying, Ids
    <3> QED
      BY <3>1, <3>2 DEF InFlightPlaces
  <2>4. CASE pc = "collect" /\ id \in SeqSet(decodedRecords[call])
    <3> DEFINE p == <<"call", call>>
    <3>1. call \in Calls
      BY <2>4 DEF TasksInv, Calls
    <3>2. p \in Place /\ Flying(p) /\ Ids(p) = SeqSet(decodedRecords[call])
      BY <2>4, <3>1 DEF Place, Flying, Ids
    <3> QED
      BY <2>4, <3>2 DEF InFlightPlaces
  <2> QED
    BY <1>1, <1>3, <2>1, <2>2, <2>3, <2>4 DEF inHands, inTasks, gathered
<1>2. ASSUME NEW p \in Place, Flying(p), NEW id \in Ids(p) PROVE id \in InFlight
  <2>1. ASSUME NEW r \in BQM!Record, p = <<"record", r>> PROVE id \in InFlight
    <3>1. Published(r) /\ id \in SeqSet(elements[r])
      BY <1>2, <2>1 DEF Ids
    <3>2. ASSUME NEW q \in {"parsed"} \X BQM!Index, r \in SeqSet(items[q]) PROVE id \in InFlight
      BY <1>3, <3>1, <3>2 DEF AllContents, Contents, SeqSet
    <3>3. ASSUME NEW t \in Consumer, held[t] = r PROVE id \in InFlight
      BY <1>3, <3>1, <3>3 DEF inHands, ContentOf
    <3> QED
      BY <3>1, <3>2, <3>3 DEF Published
  <2>2. ASSUME NEW k \in DecodeTask, p = <<"task", k>> PROVE id \in InFlight
    BY <1>2, <1>3, <2>2 DEF Ids, inTasks
  <2>3. ASSUME NEW c \in Calls, p = <<"call", c>> PROVE id \in InFlight
    <3>1. pc = "collect" /\ id \in SeqSet(decodedRecords[call])
      BY <1>2, <2>3 DEF Ids, Flying
    <3> QED
      BY <1>3, <3>1 DEF gathered
  <2> QED
    BY <2>1, <2>2, <2>3, PlaceKinds
<1> QED
  BY <1>1, <1>2 DEF Located, InFlightPlaces

LEMMA AlwaysLocated == Spec => []Located
BY InFlightIsPlaces, TasksInvariant, ManagerInPipeline, PTL

(* A step that publishes and delivers nothing discards at most.            *)
LEMMA DiscardStep ==
  ASSUME InFlight' \subseteq InFlight, Received' = Received
  PROVE  Delivery!Next
<1>1. InFlight' = InFlight \ (InFlight \ InFlight')
  OBVIOUS
<1> QED
  BY <1>1 DEF Delivery!Next, Delivery!Discard, Received

LEMMA FlyingDrops ==
  ASSUME Located, Located', Drops,
         \A p \in Place : Flying(p)' => Flying(p) \/ Ids(p)' = {}
  PROVE  InFlight' \subseteq InFlight
BY DEF Located, InFlightPlaces, Drops

LEMMA FlyingMoves ==
  ASSUME Located, Located', NEW a, NEW b, Moves(a, b), Flying(a),
         \A p \in Place : Flying(p)' <=> Flying(p)
  PROVE  InFlight' \subseteq InFlight
<1> SUFFICES ASSUME NEW p \in Place, Flying(p), NEW id \in Ids(p)'
             PROVE  \E x \in Place : Flying(x) /\ id \in Ids(x)
  BY DEF Located, InFlightPlaces
<1> QED
  BY DEF Moves

(* Nothing changes for a client while nobody returns to it.                *)
LEMMA SameForClient ==
  ASSUME UNCHANGED <<decodedRecords, call, pc>>
  PROVE  Received' = Received /\ \A p : Flying(p)' <=> Flying(p)
BY DEF Received, Returned, SeqSet, Flying

LEMMA ParserDelivers ==
  ASSUME TasksInv, PoolsInv, RecordsOwned, HoldsInv, PlacesInv, Located, Located',
         NEW t \in Producer, ParserStep(t)
  PROVE  Delivery!Next
<1>1. UNCHANGED <<decodedRecords, call, pc>>
  BY DEF ParserStep, StartParsing, NextRecord, ParseItems, PublishRecord, SkipRecord,
         RejectDatablock, ThrowWhileParsing, FinishParsing, GetFromQueue, mainVars, callVars
<1>2. Received' = Received /\ \A p : Flying(p)' <=> Flying(p)
  BY <1>1, SameForClient
<1>3. CASE SamePlaces
  BY <1>2, <1>3, SameDrops, FlyingDrops, DiscardStep
<1>4. ASSUME NEW a \in Place, NEW id \in RecordId, Adds(a, id) PROVE Delivery!Next
  <2>1. \A p \in Place : id \notin Ids(p)
    BY <1>4 DEF Adds, PlacesInv
  <2>2. id \notin InFlight
    BY <2>1 DEF Located, InFlightPlaces
  <2>3. ASSUME NEW c \in Calls PROVE id \notin Received[c]
    <3> DEFINE p == <<"call", c>>
    <3>1. p \in Place /\ Ids(p) = SeqSet(decodedRecords[c])
      BY DEF Place, Ids
    <3>2. Received[c] \subseteq Ids(p)
      BY <3>1 DEF Received
    <3> QED
      BY <2>1, <3>1, <3>2
  <2>4. Flying(a)
    BY <1>4 DEF Adds, Flying
  <2>5. InFlight' = InFlight \cup {id}
    <3>1. \A p \in Place : p # a => Ids(p)' = Ids(p)
      BY <1>4 DEF Adds
    <3>2. Ids(a)' = {id} /\ Ids(a) = {}
      BY <1>4 DEF Adds
    <3> QED
      BY <1>2, <2>4, <3>1, <3>2 DEF Located, InFlightPlaces
  <2>6. id \notin InFlight \cup Delivery!Delivered
    BY <2>2, <2>3 DEF Delivery!Delivered, Received
  <2>7. Delivery!Publish(id)
    BY <1>2, <2>5, <2>6 DEF Delivery!Publish, Received
  <2> QED
    BY <2>7 DEF Delivery!Next
<1> QED
  BY <1>3, <1>4, ParserPlaces

LEMMA DecoderDelivers ==
  ASSUME TasksInv, PoolsInv, RecordsOwned, HoldsInv, PlacesInv, Located, Located',
         NEW t \in Consumer, DecoderStep(t)
  PROVE  Delivery!Next
<1>1. UNCHANGED <<decodedRecords, call, pc>>
  BY DEF DecoderStep, StartDecoding, NextParsedRecord, DecodeRecord, ThrowWhileDecoding,
         FinishDecoding, GetFromQueue, mainVars, callVars
<1>2. Received' = Received /\ \A p : Flying(p)' <=> Flying(p)
  BY <1>1, SameForClient
<1>3. CASE Drops
  BY <1>2, <1>3, FlyingDrops, DiscardStep
<1>4. ASSUME NEW a \in Place, NEW b \in Place, a[1] = "record", Moves(a, b) PROVE Delivery!Next
  <2>1. Flying(a)
    BY <1>4 DEF Flying
  <2> QED
    BY <1>2, <1>4, <2>1, FlyingMoves, DiscardStep
<1> QED
  BY <1>3, <1>4, DecoderPlaces, SameDrops

(* The end of a call: its collection is delivered.                         *)
LEMMA ReturnDelivers ==
  ASSUME TasksInv, PlacesInv, Located, Located', ReturnToClient
  PROVE  Delivery!Next
<1>1. PICK c : c = call
  OBVIOUS
<1>2. /\ c \in Calls /\ pc = "collect" /\ pc' = "idle"
      /\ UNCHANGED <<items, held, elements, collected, decodedRecords, call>>
  BY <1>1 DEF ReturnToClient, TasksInv, Calls, managerVars, callVars
<1>12. PICK S : S = SeqSet(decodedRecords[c])
  OBVIOUS
<1> DEFINE b == <<"call", c>>
<1>3. SamePlaces
  BY <1>2, PublishedSame, PlacesSame
<1>4. b \in Place /\ Ids(b) = S /\ Flying(b)
  BY <1>1, <1>2, <1>12 DEF Place, Ids, Flying
<1>5. ASSUME NEW p \in Place PROVE Flying(p)' <=> Flying(p) /\ p # b
  BY <1>1, <1>2 DEF Flying
<1>6. \A p \in Place : p # b => Ids(p) \cap S = {}
  BY <1>4 DEF PlacesInv, OnePlace
<1>7. Received[c] = {} /\ Received' = [Received EXCEPT ![c] = S]
  <2>1. c \notin Returned
    BY <1>1, <1>2 DEF Returned
  <2>2. Returned' = Returned \cup {c}
    BY <1>1, <1>2 DEF Returned, Calls, TasksInv
  <2> QED
    BY <1>2, <1>12, <2>1, <2>2 DEF Received, SeqSet
<1> HIDE DEF b
<1>8. InFlight' = InFlight \ S
  BY <1>3, <1>4, <1>5, <1>6 DEF SamePlaces, Located, InFlightPlaces
<1>9. S \subseteq InFlight
  BY <1>4 DEF Located, InFlightPlaces
<1>10. Delivery!Deliver(c, S)
  BY <1>7, <1>8, <1>9 DEF Delivery!Deliver, Received
<1>11. c \in Calls /\ S \in SUBSET InFlight
  BY <1>2, <1>9
<1> QED
  BY <1>10, <1>11 DEF Delivery!Next

(* The calling thread otherwise gathers, discards, or does neither.        *)
LEMMA MainDelivers ==
  ASSUME TasksInv, PoolsInv, PlacesInv, Located, Located', MainStep
  PROVE  Delivery!Next
<1>1. CASE ReturnToClient
  BY <1>1, ReturnDelivers
<1>2. CASE CollectDecoder /\ pc' = pc
  <2>1. /\ \A c \in Calls : c # call => decodedRecords'[c] = decodedRecords[c]
        /\ \E k \in DecodeTask, c \in Calls : c = call /\ Moves(<<"task", k>>, <<"call", c>>)
    BY <1>2, CollectMoves
  <2>2. pc = "collect" /\ call' = call
    BY <1>2 DEF CollectDecoder, RaiseFrom
  <2>3. \A p : Flying(p)' <=> Flying(p)
    BY <1>2, <2>2 DEF Flying
  <2>4. Received' = Received
    <3>1. Returned' = Returned /\ \A c \in Returned : c # call
      BY <1>2, <2>2 DEF Returned, TasksInv
    <3> QED
      BY <2>1, <3>1 DEF Received, SeqSet
  <2>5. \A k : Flying(<<"task", k>>)
    BY DEF Flying
  <2> QED
    BY <2>1, <2>3, <2>4, <2>5, FlyingMoves, DiscardStep
<1>3. CASE ~ReturnToClient /\ ~(CollectDecoder /\ pc' = pc)
  <2>1. /\ pc # "idle" /\ call' = call
        /\ \/ pc' # "idle" /\ decodedRecords' = decodedRecords
           \/ pc' = "idle" /\ decodedRecords' = [decodedRecords EXCEPT ![call] = <<>>]
        /\ ~(pc = "collect" /\ pc' = pc)
    <3>1. CASE CollectDecoder
      BY <1>3, <3>1 DEF CollectDecoder, RaiseFrom
    <3>2. CASE JoinParser
      BY <3>2 DEF JoinParser, RaiseFrom
    <3>3. CASE OpenQueues \/ StartDecoderThread \/ DispatchDatablock \/ AllParsed \/ CloseQueue
      BY <3>3 DEF OpenQueues, StartDecoderThread, DispatchDatablock, AllParsed, CloseQueue,
                  callVars, Goto
    <3> QED
      BY <1>3, <3>1, <3>2, <3>3 DEF MainStep
  <2>2. Drops
    BY <2>1, MainPlaces
  <2>3. call \in Calls
    BY <2>1 DEF TasksInv, Calls
  <2>4. ASSUME NEW p \in Place, Flying(p)' PROVE Flying(p) \/ Ids(p)' = {}
    <3>1. CASE p = <<"call", call>> /\ pc # "collect"
      <4>1. Ids(p) = {}
        BY <2>1, <3>1, SeqSetEmpty DEF Ids, PlacesInv
      <4> QED
        BY <2>2, <4>1 DEF Drops
    <3>2. CASE ~(p = <<"call", call>> /\ pc # "collect")
      BY <2>1, <2>4, <3>2 DEF Flying
    <3> QED
      BY <3>1, <3>2
  <2>5. Received' = Received
    <3>1. call \notin Returned /\ Returned \subseteq Calls
      BY <2>1, <2>3, PipelineAssumption DEF Returned, Calls, TasksInv
    <3>2. CASE pc' # "idle"
      BY <2>1, <3>2 DEF Received, Returned, SeqSet
    <3>3. CASE pc' = "idle"
      <4>1. Returned' = Returned \cup {call}
        BY <2>1, <2>3, <3>3 DEF Returned, Calls, TasksInv
      <4>2. decodedRecords'[call] = <<>> /\ \A c \in Returned : decodedRecords'[c] = decodedRecords[c]
        BY <2>1, <2>3, <3>1, <3>3 DEF PlacesInv
      <4>3. SeqSet(decodedRecords'[call]) = {}
        BY <4>2, SeqSetEmpty
      <4>4. \A c \in Calls : (SeqSet(decodedRecords[c]))' = SeqSet(decodedRecords'[c])
        BY DEF SeqSet
      <4>5. \A c \in Calls : Received'[c] = Received[c]
        BY <3>1, <4>1, <4>2, <4>3, <4>4 DEF Received
      <4> QED
        BY <4>5 DEF Received
    <3> QED
      BY <3>2, <3>3
  <2> QED
    BY <2>2, <2>4, <2>5, FlyingDrops, DiscardStep
<1> QED
  BY <1>1, <1>2, <1>3

(* A new call leaves what earlier ones received.                           *)
LEMMA CallDelivers ==
  ASSUME TasksInv, PlacesInv, Located, Located', NEW s \in Streams, CallDecoder(s)
  PROVE  Delivery!Next
<1>1. /\ pc = "idle" /\ pc' = "open" /\ call' = call + 1 /\ call \in Nat
      /\ UNCHANGED <<items, held, elements, collected, decodedRecords>>
  BY DEF CallDecoder, Goto, TasksInv, managerVars
<1>2. SamePlaces /\ Drops
  BY <1>1, PublishedSame, PlacesSame, SameDrops
<1>3. \A p \in Place : Flying(p)' => Flying(p)
  BY <1>1 DEF Flying
<1>4. Returned' = Returned
  BY <1>1 DEF Returned
<1>5. Received' = Received
  BY <1>1, <1>4 DEF Received, SeqSet
<1> QED
  BY <1>2, <1>3, <1>5, FlyingDrops, DiscardStep

(* ImplementsDelivery: a record becomes in flight once, when its parser    *)
(* publishes it, and leaves once: with the collection of the call that     *)
(* returns it, or discarded by an exception.  For every number of threads, *)
(* queues, calls and records.                                              *)
THEOREM PipelineImplementsDelivery == Spec => ImplementsDelivery
<1>1. Init /\ Located /\ PlacesInv => Delivery!Init
  <2> SUFFICES ASSUME Init, Located, PlacesInv PROVE Delivery!Init
    OBVIOUS
  <2>1. call = 0 /\ pc = "idle"
    BY DEF Init
  <2>2. Returned = {}
    BY <2>1 DEF Returned
  <2>3. Received = [c \in Calls |-> {}]
    BY <2>2 DEF Received
  <2>4. ASSUME NEW p \in Place PROVE Ids(p) = {}
    <3>1. ASSUME NEW r \in BQM!Record, p = <<"record", r>> PROVE Ids(p) = {}
      <4>1. elements[r] = <<>>
        BY DEF Init, BQM!Init
      <4> QED
        BY <3>1, <4>1, SeqSetEmpty DEF Ids
    <3>2. ASSUME NEW m \in DecodeTask, p = <<"task", m>> PROVE Ids(p) = {}
      BY <3>2, SeqSetEmpty DEF Ids, Init
    <3>3. ASSUME NEW c \in Calls, p = <<"call", c>> PROVE Ids(p) = {}
      BY <3>3, SeqSetEmpty DEF Ids, Init
    <3> QED
      BY <3>1, <3>2, <3>3, PlaceKinds
  <2>5. InFlight = {}
    BY <2>4 DEF Located, InFlightPlaces
  <2> QED
    BY <2>3, <2>5 DEF Delivery!Init, Received
<1>2. /\ TasksInv /\ PoolsInv /\ RecordsOwned /\ HoldsInv /\ PlacesInv /\ Located /\ Located'
      /\ [Next]_vars
      => [Delivery!Next]_(Delivery!deliveryVars)
  <2> SUFFICES ASSUME TasksInv, PoolsInv, RecordsOwned, HoldsInv, PlacesInv, Located, Located',
                      [Next]_vars
               PROVE  Delivery!Next
    OBVIOUS
  <2>1. ASSUME UNCHANGED <<items, held, elements, collected, decodedRecords, call, pc>>
        PROVE  Delivery!Next
    <3>1. SamePlaces /\ Drops
      BY <2>1, PublishedSame, PlacesSame, SameDrops
    <3> QED
      BY <2>1, <3>1, SameForClient, FlyingDrops, DiscardStep
  <2>2. ASSUME NEW t \in Thread, WakeSpuriously(t) PROVE Delivery!Next
    BY <2>1, <2>2 DEF WakeSpuriously, BQM!SpuriousWakeup, mainVars, callVars
  <2>3. CASE UNCHANGED vars
    BY <2>1, <2>3 DEF vars, managerVars, callVars, mainVars
  <2> QED
    BY <2>2, <2>3, ParserDelivers, DecoderDelivers, MainDelivers, CallDelivers DEF Next
<1> QED
  BY <1>1, <1>2, AlwaysLocated, TasksInvariant, PoolsInvariant, ManagerInPipeline, HoldsInvariant,
     PlacesInvariant, PTL DEF Spec, ImplementsDelivery, Delivery!Spec

-----------------------------------------------------------------------------
(***************************************************************************)
(* No record is lost while no exception is raised.                         *)
(***************************************************************************)
(* The life of a future: asked for by the calling thread, ended by the     *)
(* thread that runs the task, taken by the calling thread.                 *)
Asked(k) ==
  /\ future[k] = "none" /\ future'[k] = "pending"
  /\ \/ StartDecoderThread /\ step <= NumDecoders /\ k = <<"decode", call, step>>
     \/ /\ DispatchDatablock /\ k = <<"parse", call, step>>
        /\ step <= Len(stream[call]) /\ stream[call][step].complete

Ended(k) ==
  /\ future[k] = "pending"
  /\ \/ \E t \in Producer : /\ running[t] = k
                            /\ \/ ThrowWhileParsing(t) /\ future'[k] = "exception"
                               \/ FinishParsing(t) /\ future'[k] = "value"
     \/ \E t \in Consumer : /\ running[t] = k
                            /\ \/ ThrowWhileDecoding(t) /\ future'[k] = "exception"
                               \/ FinishDecoding(t) /\ future'[k] = "value"

Taken(k) ==
  /\ future[k] \in {"value", "exception"} /\ future'[k] = "consumed"
  /\ \/ JoinParser /\ k \in ParseTask
     \/ CollectDecoder /\ k \in DecodeTask
  /\ future[k] = "exception" => raised' # {}

LEMMA FutureSteps ==
  ASSUME TasksInv, PoolsInv, [Next]_vars, NEW k \in Task, future'[k] # future[k]
  PROVE  Asked(k) \/ Ended(k) \/ Taken(k)
<1>1. /\ future \in [Task -> {"none", "pending", "value", "exception", "consumed"}]
      /\ \A t \in Thread : running[t] # None => running[t] \in Task /\ future[running[t]] = "pending"
  BY DEF PoolsInv, TasksOnce, TasksInv
<1>2. ASSUME NEW t \in Thread, NEW o \in {"value", "exception"}, TP!Complete(t, o)
      PROVE  running[t] = k /\ future[k] = "pending" /\ future'[k] = o
  BY <1>1, <1>2 DEF TP!Complete
<1>3. ASSUME NEW m \in Task, TP!GetResult(m)
      PROVE  m = k /\ future[k] \in {"value", "exception"} /\ future'[k] = "consumed"
  BY <1>1, <1>3 DEF TP!GetResult
<1>4. ASSUME NEW p \in Pool, NEW m \in Task, TP!Enqueue(p, m)
      PROVE  m = k /\ future[k] = "none" /\ future'[k] = "pending"
  BY <1>1, <1>4 DEF TP!Enqueue
<1>5. ASSUME NEW t \in Producer, ParserStep(t) PROVE Ended(k)
  <2>1. t \in Thread
    BY DEF Thread
  <2>2. ThrowWhileParsing(t) \/ FinishParsing(t)
    BY <1>5 DEF ParserStep, StartParsing, NextRecord, ParseItems, PublishRecord, SkipRecord,
                RejectDatablock, GetFromQueue, TP!Take, poolVars
  <2> QED
    BY <1>2, <2>1, <2>2 DEF Ended, ThrowWhileParsing, FinishParsing
<1>6. ASSUME NEW t \in Consumer, DecoderStep(t) PROVE Ended(k)
  <2>1. t \in Thread
    BY DEF Thread
  <2>2. ThrowWhileDecoding(t) \/ FinishDecoding(t)
    BY <1>6 DEF DecoderStep, StartDecoding, NextParsedRecord, DecodeRecord, GetFromQueue, TP!Take,
                poolVars
  <2> QED
    BY <1>2, <2>1, <2>2 DEF Ended, ThrowWhileDecoding, FinishDecoding
<1>7. CASE StartDecoderThread
  <2>1. step <= NumDecoders /\ TP!Enqueue("consumer", <<"decode", call, step>>) /\ pc = "start"
    BY <1>7 DEF StartDecoderThread, poolVars
  <2>2. <<"decode", call, step>> \in Task
    BY <2>1, DecodeTaskType DEF Task
  <2>3. k = <<"decode", call, step>> /\ future[k] = "none" /\ future'[k] = "pending"
    BY <1>4, <2>1, <2>2 DEF Pool
  <2> QED
    BY <1>7, <2>1, <2>3 DEF Asked
<1>8. CASE DispatchDatablock
  <2>1. /\ step <= Len(stream[call]) /\ stream[call][step].complete /\ pc = "dispatch"
        /\ TP!Enqueue("parser", <<"parse", call, step>>)
    BY <1>8 DEF DispatchDatablock, poolVars
  <2>2. <<"parse", call, step>> \in Task
    BY <2>1, ParseTaskType DEF Task
  <2>3. k = <<"parse", call, step>> /\ future[k] = "none" /\ future'[k] = "pending"
    BY <1>4, <2>1, <2>2 DEF Pool
  <2> QED
    BY <1>8, <2>1, <2>3 DEF Asked
<1>9. CASE JoinParser
  <2>1. PICK m : m = parsingResults[step]
    OBVIOUS
  <2>2. m \in ParseTask /\ m \in Task
    BY <1>9, <2>1 DEF JoinParser, TasksInv, PoolsInv, PoolsTyped, Task
  <2>3. TP!GetResult(m) /\ (future[m] = "exception" => raised' # {})
    BY <1>9, <2>1 DEF JoinParser, RaiseFrom, poolVars
  <2> QED
    BY <1>3, <1>9, <2>2, <2>3 DEF Taken
<1>10. CASE CollectDecoder
  <2>1. PICK m : m = decodingResults[step]
    OBVIOUS
  <2>2. m \in DecodeTask /\ m \in Task
    BY <1>10, <2>1 DEF CollectDecoder, TasksInv, PoolsInv, PoolsTyped, Task
  <2>3. TP!GetResult(m) /\ (future[m] = "exception" => raised' # {})
    BY <1>10, <2>1 DEF CollectDecoder, RaiseFrom, poolVars
  <2> QED
    BY <1>3, <1>10, <2>2, <2>3 DEF Taken
<1>11. CASE \/ OpenQueues \/ AllParsed \/ CloseQueue \/ ReturnToClient \/ UNCHANGED vars
            \/ \E s \in Streams : CallDecoder(s)
            \/ \E t \in Thread : WakeSpuriously(t)
  BY <1>11 DEF OpenQueues, AllParsed, CloseQueue, ReturnToClient, vars, CallDecoder,
               WakeSpuriously, poolVars
<1> QED
  BY <1>5, <1>6, <1>7, <1>8, <1>9, <1>10, <1>11 DEF Next, MainStep

(* No exception has left a task or a call so far.                          *)
NoException == raised = {} /\ \A k \in Task : future[k] # "exception"

LEMMA RaisedStays ==
  ASSUME [Next]_vars, raised' = {}
  PROVE  raised = {}
<1>1. raised' = raised \/ raised' = raised \cup {call}
  BY DEF Next, MainStep, ParserStep, DecoderStep, StartParsing, NextRecord, ParseItems,
     PublishRecord, SkipRecord, RejectDatablock, ThrowWhileParsing, FinishParsing, GetFromQueue,
     StartDecoding, NextParsedRecord, DecodeRecord, ThrowWhileDecoding, FinishDecoding,
     OpenQueues, StartDecoderThread, DispatchDatablock, JoinParser, AllParsed, CloseQueue,
     CollectDecoder, ReturnToClient, RaiseFrom, CallDecoder, WakeSpuriously, callVars, vars
<1> QED
  BY <1>1

LEMMA ExceptionStays ==
  ASSUME TasksInv, PoolsInv, [Next]_vars, NoException'
  PROVE  NoException
<1>1. ASSUME NEW k \in Task, future[k] = "exception" PROVE FALSE
  <2>1. future'[k] # future[k] /\ raised' = {}
    BY <1>1 DEF NoException
  <2>2. Taken(k)
    BY <1>1, <2>1, FutureSteps DEF Asked, Ended
  <2> QED
    BY <1>1, <2>1, <2>2 DEF Taken
<1> QED
  BY <1>1, RaisedStays DEF NoException

LEMMA ConsumedStays ==
  ASSUME TasksInv, PoolsInv, [Next]_vars, NEW k \in Task, future[k] = "consumed"
  PROVE  future'[k] = "consumed"
<1>1. CASE future'[k] # future[k]
  BY <1>1, FutureSteps DEF Asked, Ended, Taken
<1> QED
  BY <1>1

(* The streams of the calls made so far do not change.                     *)
LEMMA StreamStays ==
  ASSUME TasksInv, [Next]_vars
  PROVE  /\ call \in Nat /\ call' \in Nat /\ call <= call'
         /\ \A c \in Calls : c <= call => stream'[c] = stream[c]
<1>1. ASSUME NEW s \in Streams, CallDecoder(s)
      PROVE  call' = call + 1 /\ \A c \in Calls : c <= call => stream'[c] = stream[c]
  BY <1>1 DEF CallDecoder, TasksInv, Calls
<1>2. CASE \/ MainStep \/ UNCHANGED vars
           \/ \E t \in Producer : ParserStep(t)
           \/ \E t \in Consumer : DecoderStep(t)
           \/ \E t \in Thread : WakeSpuriously(t)
  <2>1. UNCHANGED <<call, stream>>
    BY <1>2 DEF MainStep, ParserStep, DecoderStep, StartParsing, NextRecord, ParseItems,
       PublishRecord, SkipRecord, RejectDatablock, ThrowWhileParsing, FinishParsing, GetFromQueue,
       StartDecoding, NextParsedRecord, DecodeRecord, ThrowWhileDecoding, FinishDecoding,
       OpenQueues, StartDecoderThread, DispatchDatablock, JoinParser, AllParsed, CloseQueue,
       CollectDecoder, ReturnToClient, RaiseFrom, WakeSpuriously, callVars, vars
  <2> QED
    BY <2>1 DEF TasksInv
<1> QED
  BY <1>1, <1>2 DEF Next, TasksInv

(* Only complete datablocks of streams already given are parsed, and only  *)
(* the calls already made have decode tasks.                               *)
AskedFor ==
  /\ \A k \in ParseTask : future[k] # "none" => k \in Given /\ BlockOf(k).complete
  /\ \A k \in DecodeTask : future[k] # "none" => k[2] <= call

LEMMA AskedForKept ==
  ASSUME TasksInv, PoolsInv, AskedFor, [Next]_vars
  PROVE  AskedFor'
<1>1. /\ call \in Nat /\ call' \in Nat /\ call <= call'
      /\ \A c \in Calls : c <= call => stream'[c] = stream[c]
  BY StreamStays
<1>2. ASSUME NEW k \in Task, future[k] = "none", future'[k] # "none"
      PROVE  Asked(k)
  BY <1>2, FutureSteps DEF Ended, Taken
<1>3. ASSUME NEW k \in ParseTask, future'[k] # "none"
      PROVE  k \in Given' /\ (BlockOf(k).complete)'
  <2>1. k \in Task /\ k[2] \in Calls /\ k[2] \in Nat
    BY DEF Task, ParseTask, Calls
  <2>2. CASE future[k] # "none"
    <3>1. k[2] <= call /\ k[3] \in 1 .. Len(stream[k[2]]) /\ stream[k[2]][k[3]].complete
      BY <2>2 DEF AskedFor, Given, BlockOf
    <3> QED
      BY <1>1, <2>1, <3>1 DEF Given, BlockOf
  <2>3. CASE future[k] = "none"
    <3>1. Asked(k)
      BY <1>2, <1>3, <2>1, <2>3
    <3>2. k[1] = "parse"
      BY DEF ParseTask
    <3>3. DispatchDatablock /\ k = <<"parse", call, step>> /\ step <= Len(stream[call])
          /\ stream[call][step].complete
      BY <3>1, <3>2 DEF Asked
    <3>4. step >= 1 /\ step \in Nat /\ call' = call /\ stream' = stream
      BY <3>3 DEF DispatchDatablock, TasksInv, callVars
    <3>5. k[2] = call /\ k[3] = step
      BY <3>3
    <3>6. Len(stream[call]) \in Nat
      <4>1. stream[call] \in Streams \cup {<<>>}
        BY <2>1, <3>5 DEF TasksInv
      <4> QED
        BY <4>1, PipelineAssumption
    <3>7. k[2] <= call' /\ stream'[k[2]] = stream[call]
      BY <1>1, <3>4, <3>5
    <3>8. k[3] \in 1 .. Len(stream[call]) /\ stream[call][k[3]].complete
      BY <3>3, <3>4, <3>5, <3>6
    <3> QED
      BY <3>7, <3>8 DEF Given, BlockOf
  <2> QED
    BY <2>2, <2>3
<1>4. ASSUME NEW k \in DecodeTask, future'[k] # "none"
      PROVE  k[2] <= call'
  <2>1. k \in Task /\ k[1] = "decode" /\ k[2] \in Nat
    BY DEF Task, DecodeTask, Calls
  <2>2. CASE future[k] # "none"
    BY <1>1, <2>1, <2>2 DEF AskedFor
  <2>3. CASE future[k] = "none"
    <3>1. Asked(k)
      BY <1>2, <1>4, <2>1, <2>3
    <3>2. k[2] = call
      BY <2>1, <3>1 DEF Asked
    <3> QED
      BY <1>1, <3>2
  <2> QED
    BY <2>2, <2>3
<1> QED
  BY <1>3, <1>4 DEF AskedFor

LEMMA AlwaysAskedFor == Spec => []AskedFor
<1>1. Init => AskedFor
  BY DEF Init, TP!Init, AskedFor, Task
<1> QED
  BY <1>1, AskedForKept, TasksInvariant, PoolsInvariant, PTL DEF Spec

(* The result of a decode task is there from its end until it is taken.    *)
Emptied ==
  \A k \in DecodeTask : future[k] \in {"none", "consumed", "exception"} => collected[k] = <<>>

LEMMA EmptiedKept ==
  ASSUME TasksInv, PoolsInv, PlacesInv, Emptied, [Next]_vars
  PROVE  Emptied'
<1> SUFFICES ASSUME NEW k \in DecodeTask, future'[k] \in {"none", "consumed", "exception"}
             PROVE  collected'[k] = <<>>
  BY DEF Emptied
<1>1. k \in Task /\ k \notin ParseTask /\ collected \in [DecodeTask -> Seq(RecordId)]
  BY DEF Task, PlacesInv, DecodeTask, ParseTask
<1>2. \A t \in Consumer : running[t] # None => running[t] \in DecodeTask /\ future[running[t]] = "pending"
  BY DEF PoolsInv, PoolsTyped, TasksOnce, Thread
<1>3. \A t \in Producer : running[t] # k
  BY <1>1, PipelineAssumption DEF TasksInv, Given
<1>4. \/ collected' = collected
      \/ \E t \in Consumer : DecodeRecord(t)
      \/ \E t \in Consumer : ThrowWhileDecoding(t)
      \/ CollectDecoder
  BY DEF Next, MainStep, ParserStep, DecoderStep, StartParsing, NextRecord, ParseItems,
     PublishRecord, SkipRecord, RejectDatablock, ThrowWhileParsing, FinishParsing, GetFromQueue,
     StartDecoding, NextParsedRecord, FinishDecoding, OpenQueues, StartDecoderThread,
     DispatchDatablock, JoinParser, AllParsed, CloseQueue, ReturnToClient, CallDecoder,
     WakeSpuriously, vars
<1>5. ASSUME NEW t \in Consumer, DecodeRecord(t) PROVE collected'[k] = <<>>
  <2>1. running[t] # None /\ future' = future
        /\ collected' = [collected EXCEPT ![running[t]] = @ \o ContentOf(t)]
    BY <1>5 DEF DecodeRecord, Decoding, poolVars
  <2>2. running[t] \in DecodeTask /\ running[t] # k
    BY <1>2, <2>1
  <2> QED
    BY <1>1, <2>1, <2>2 DEF Emptied
<1>6. ASSUME NEW t \in Consumer, ThrowWhileDecoding(t) PROVE collected'[k] = <<>>
  <2>1. /\ running[t] # None /\ TP!Complete(t, "exception")
        /\ collected' = [collected EXCEPT ![running[t]] = <<>>]
    BY <1>6 DEF ThrowWhileDecoding, Decoding
  <2>2. running[t] # k => future'[k] = future[k]
    BY <1>1, <2>1 DEF TP!Complete, PoolsInv, TasksOnce
  <2> QED
    BY <1>1, <1>2, <2>1, <2>2 DEF Emptied
<1>7. CASE CollectDecoder
  <2>1. PICK m : m = decodingResults[step]
    OBVIOUS
  <2>2. m \in DecodeTask
    BY <1>7, <2>1 DEF CollectDecoder, TasksInv, PoolsInv, PoolsTyped
  <2>3. \/ /\ future[m] = "value" /\ TP!GetResult(m)
           /\ collected' = [collected EXCEPT ![m] = <<>>]
        \/ /\ future[m] = "exception" /\ TP!GetResult(m) /\ collected' = collected
        \/ future' = future /\ collected' = collected
    BY <1>7, <2>1 DEF CollectDecoder, RaiseFrom, poolVars
  <2>4. m # k /\ TP!GetResult(m) => future'[k] = future[k]
    BY <1>1, <2>2 DEF TP!GetResult, PoolsInv, TasksOnce
  <2> QED
    BY <1>1, <2>2, <2>3, <2>4 DEF Emptied
<1>8. CASE collected' = collected /\ ~CollectDecoder /\ ~\E t \in Consumer : ThrowWhileDecoding(t)
  <2>1. CASE future'[k] # future[k]
    <3>1. Asked(k) \/ Ended(k) \/ Taken(k)
      BY <1>1, <2>1, FutureSteps
    <3> QED
      BY <1>1, <1>3, <1>8, <3>1 DEF Asked, Ended, Taken
  <2> QED
    BY <1>8, <2>1 DEF Emptied
<1> QED
  BY <1>4, <1>5, <1>6, <1>7, <1>8

LEMMA AlwaysEmptied == Spec => []Emptied
<1>1. Init => Emptied
  BY DEF Init, Emptied
<1> QED
  BY <1>1, EmptiedKept, TasksInvariant, PoolsInvariant, PlacesInvariant, PTL DEF Spec

(* A record in a place is in some place until an exception is raised.      *)
LEMMA IdsStay ==
  ASSUME TasksInv, PoolsInv, RecordsOwned, HoldsInv, PlacesInv, [Next]_vars, NoException',
         NEW id, \E p \in Place : id \in Ids(p)
  PROVE  \E p \in Place : id \in Ids(p)'
<1>1. PICK p \in Place : id \in Ids(p)
  OBVIOUS
<1>2. CASE SamePlaces
  BY <1>1, <1>2 DEF SamePlaces
<1>3. CASE \E a \in Place, i \in RecordId : Adds(a, i)
  BY <1>1, <1>3 DEF Adds
<1>4. CASE \E a, b \in Place : Moves(a, b)
  BY <1>1, <1>4 DEF Moves
<1>5. ASSUME NEW t \in Consumer, ThrowWhileDecoding(t) PROVE FALSE
  <2>1. running[t] \in Task
    BY <1>5 DEF ThrowWhileDecoding, Decoding, PoolsInv, PoolsTyped, Task
  <2>2. future' = [future EXCEPT ![running[t]] = "exception"]
    BY <1>5 DEF ThrowWhileDecoding, TP!Complete
  <2> QED
    BY <2>1, <2>2 DEF NoException, PoolsInv, TasksOnce
<1>6. CASE \/ \E s \in Streams : CallDecoder(s)
           \/ \E t \in Thread : WakeSpuriously(t)
           \/ UNCHANGED vars
  <2>1. UNCHANGED <<items, held, elements, collected, decodedRecords>>
    BY <1>6 DEF CallDecoder, WakeSpuriously, BQM!SpuriousWakeup, managerVars, callVars, vars
  <2> QED
    BY <1>2, <2>1, PublishedSame, PlacesSame
<1>7. CASE MainStep
  <2>1. \A k \in DecodeTask, c \in Calls : <<"task", k>> \in Place /\ <<"call", c>> \in Place
    BY DEF Place
  <2>2. raised' = {}
    BY DEF NoException
  <2> QED
    BY <1>2, <1>4, <1>7, <2>1, <2>2, MainPlaces
<1>8. ASSUME NEW t \in Producer, ParserStep(t) PROVE \E x \in Place : id \in Ids(x)'
  BY <1>2, <1>3, <1>8, ParserPlaces
<1>9. ASSUME NEW t \in Consumer, DecoderStep(t) PROVE \E x \in Place : id \in Ids(x)'
  BY <1>2, <1>4, <1>5, <1>9, DecoderPlaces
<1> QED
  BY <1>6, <1>7, <1>8, <1>9 DEF Next

(* The steps that take a parser past a record.                             *)
Passes(t, id) ==
  /\ Parsing(t) /\ running[t] = ParseTaskOf(id) /\ ~(id[3] < cursor[t])
  /\ \/ PublishRecord(t) \/ SkipRecord(t) \/ RejectDatablock(t) \/ ThrowWhileParsing(t)
     \/ FinishParsing(t)

LEMMA NewlyPassed ==
  ASSUME TasksInv, PoolsInv, [Next]_vars, NEW id \in RecordId, ~Passed(id), Passed(id)'
  PROVE  \E t \in Producer : Passes(t, id)
<1>1. PICK k : k = ParseTaskOf(id)
  OBVIOUS
<1>2. k \in Task /\ k \in ParseTask /\ k \notin DecodeTask /\ k # None
  <2>1. k \in ParseTask /\ k[1] = "parse"
    BY <1>1 DEF RecordId, ParseTaskOf, ParseTask
  <2>2. k \notin DecodeTask
    BY <2>1 DEF DecodeTask
  <2> QED
    BY <2>1, <2>2, PipelineAssumption DEF Task
<1>3. /\ tasks \in [Pool -> Seq(Task)] /\ running \in [Thread -> Task \cup {None}]
      /\ cursor \in [Producer -> Nat] /\ Pool = {"parser", "consumer"}
  BY DEF TasksInv, Pool
<1>4. /\ future'[k] # "none"
      /\ \A i \in 1 .. Len(tasks'["parser"]) : tasks'["parser"][i] # k
      /\ \A t \in Producer : running'[t] = k => id[3] < cursor'[t]
  BY <1>1 DEF Passed, ParseTaskOf
<1>5. CASE future[k] = "none"
  <2>1. Asked(k)
    BY <1>2, <1>4, <1>5, FutureSteps DEF Ended, Taken
  <2>2. k[1] = "parse"
    BY <1>2 DEF ParseTask
  <2>6. DispatchDatablock /\ k = <<"parse", call, step>>
    BY <2>1, <2>2 DEF Asked
  <2>3. TP!Enqueue("parser", k)
    BY <1>4, <1>5, <2>6 DEF DispatchDatablock, poolVars
  <2>4. tasks'["parser"] = Append(tasks["parser"], k) /\ tasks["parser"] \in Seq(Task)
    BY <1>3, <2>3 DEF TP!Enqueue
  <2>5. Len(tasks'["parser"]) \in 1 .. Len(tasks'["parser"])
        /\ tasks'["parser"][Len(tasks'["parser"])] = k
    BY <1>2, <2>4
  <2> QED
    BY <1>4, <2>5
<1>6. CASE \E i \in 1 .. Len(tasks["parser"]) : tasks["parser"][i] = k
  <2>1. PICK i \in 1 .. Len(tasks["parser"]) : tasks["parser"][i] = k
    BY <1>6
  <2>2. tasks["parser"] \in Seq(Task)
    BY <1>3
  <2>3. ASSUME tasks'["parser"] = tasks["parser"] PROVE FALSE
    BY <1>4, <2>1, <2>3
  <2>4. ASSUME NEW m \in Task, tasks'["parser"] = Append(tasks["parser"], m) PROVE FALSE
    BY <1>4, <2>1, <2>2, <2>4
  <2>5. ASSUME NEW w \in Thread, TP!Take(w), StartParsing(w) \/ w \in Consumer PROVE FALSE
    <3>1. CASE w \in Consumer
      <4>1. PoolOf[w] = "consumer"
        BY <3>1, PipelineAssumption DEF PoolOf, Thread
      <4> QED
        BY <1>3, <2>3, <2>5, <4>1 DEF TP!Take
    <3>2. CASE StartParsing(w)
      <4>1. w \in Producer /\ PoolOf[w] = "parser" /\ cursor' = [cursor EXCEPT ![w] = 1]
        BY <3>2 DEF StartParsing, PoolOf, Thread
      <4>2. /\ tasks["parser"] # <<>> /\ tasks'["parser"] = Tail(tasks["parser"])
            /\ running'[w] = tasks["parser"][1]
        BY <1>3, <2>2, <2>5, <4>1 DEF TP!Take
      <4>3. CASE i = 1
        <5>1. id[3] >= 1 /\ id[3] \in Nat /\ cursor'[w] = 1
          BY <1>3, <4>1, PipelineAssumption DEF RecordId
        <5> QED
          BY <1>4, <2>1, <4>1, <4>2, <4>3, <5>1
      <4>4. CASE i # 1
        <5>1. i - 1 \in 1 .. Len(Tail(tasks["parser"]))
              /\ Tail(tasks["parser"])[i - 1] = tasks["parser"][i]
          BY <2>1, <2>2, <4>2, <4>4
        <5> QED
          BY <1>4, <2>1, <4>2, <5>1
      <4> QED
        BY <4>3, <4>4
    <3> QED
      BY <2>5, <3>1, <3>2
  <2>6. ASSUME NEW t \in Producer, ParserStep(t) PROVE FALSE
    <3>1. StartParsing(t) \/ tasks' = tasks
      BY <2>6 DEF ParserStep, NextRecord, ParseItems, PublishRecord, SkipRecord, RejectDatablock,
                  ThrowWhileParsing, FinishParsing, GetFromQueue, TP!Complete, poolVars
    <3>2. StartParsing(t) => TP!Take(t) /\ t \in Thread
      BY DEF StartParsing, Thread
    <3> QED
      BY <2>3, <2>5, <3>1, <3>2
  <2>7. ASSUME NEW t \in Consumer, DecoderStep(t) PROVE FALSE
    <3>1. TP!Take(t) \/ tasks' = tasks
      BY <2>7 DEF DecoderStep, StartDecoding, NextParsedRecord, DecodeRecord, ThrowWhileDecoding,
                  FinishDecoding, GetFromQueue, TP!Complete, poolVars
    <3> QED
      BY <2>3, <2>5, <3>1 DEF Thread
  <2>8. CASE DispatchDatablock
    <3>1. \/ /\ pc = "dispatch" /\ step <= Len(stream[call])
             /\ TP!Enqueue("parser", <<"parse", call, step>>)
          \/ tasks' = tasks
      BY <2>8 DEF DispatchDatablock, poolVars
    <3>2. CASE tasks' = tasks
      BY <2>3, <3>2
    <3>3. CASE tasks' # tasks
      <4>1. <<"parse", call, step>> \in Task
        BY <3>1, <3>3, ParseTaskType DEF Task
      <4>2. tasks'["parser"] = Append(tasks["parser"], <<"parse", call, step>>)
        BY <1>3, <3>1, <3>3 DEF TP!Enqueue
      <4> QED
        BY <2>4, <4>1, <4>2
    <3> QED
      BY <3>2, <3>3
  <2>9. CASE StartDecoderThread
    <3>1. tasks'["parser"] = tasks["parser"]
      BY <1>3, <2>9 DEF StartDecoderThread, TP!Enqueue, poolVars
    <3> QED
      BY <2>3, <3>1
  <2>10. CASE \/ OpenQueues \/ JoinParser \/ AllParsed \/ CloseQueue \/ CollectDecoder
              \/ ReturnToClient \/ UNCHANGED vars
              \/ \E s \in Streams : CallDecoder(s)
              \/ \E t \in Thread : WakeSpuriously(t)
    <3>1. tasks' = tasks
      BY <2>10 DEF OpenQueues, JoinParser, AllParsed, CloseQueue, CollectDecoder, RaiseFrom,
                   ReturnToClient, CallDecoder, WakeSpuriously, TP!GetResult, poolVars, vars
    <3> QED
      BY <2>3, <3>1
  <2> QED
    BY <2>6, <2>7, <2>8, <2>9, <2>10 DEF Next, MainStep
<1>7. ASSUME NEW t \in Producer, running[t] = k, ~(id[3] < cursor[t])
      PROVE  Passes(t, id)
  <2>1. Parsing(t) /\ t \in Thread
    BY <1>2, <1>7 DEF Parsing, Thread
  <2>2. ASSUME running'[t] = running[t], cursor'[t] = cursor[t] PROVE FALSE
    BY <1>4, <1>7, <2>2
  <2>3. ASSUME NEW u \in Producer, ParserStep(u), u # t PROVE FALSE
    <3>1. u \in Thread
      BY DEF Thread
    <3>2. running'[t] = running[t] /\ cursor'[t] = cursor[t]
      BY <1>3, <2>1, <2>3, <3>1
      DEF ParserStep, StartParsing, NextRecord, ParseItems, PublishRecord, SkipRecord,
          RejectDatablock, ThrowWhileParsing, FinishParsing, GetFromQueue, TP!Complete, TP!Take,
          poolVars
    <3> QED
      BY <2>2, <3>2
  <2>4. CASE ParserStep(t)
    <3>1. CASE NextRecord(t) \/ ParseItems(t) \/ GetFromQueue(t)
      BY <2>2, <3>1 DEF NextRecord, ParseItems, GetFromQueue, poolVars
    <3>2. CASE StartParsing(t)
      BY <2>1, <3>2 DEF StartParsing, TP!Take, Parsing
    <3> QED
      BY <1>1, <1>7, <2>1, <2>4, <3>1, <3>2 DEF ParserStep, Passes
  <2>5. ASSUME NEW u \in Consumer, DecoderStep(u) PROVE FALSE
    <3>1. u \in Thread /\ u # t
      BY PipelineAssumption DEF Thread
    <3>2. running'[t] = running[t] /\ cursor' = cursor
      BY <1>3, <2>1, <2>5, <3>1
      DEF DecoderStep, StartDecoding, NextParsedRecord, DecodeRecord, ThrowWhileDecoding,
          FinishDecoding, GetFromQueue, TP!Complete, TP!Take, poolVars
    <3> QED
      BY <2>2, <3>2
  <2>6. CASE \/ MainStep \/ UNCHANGED vars
             \/ \E s \in Streams : CallDecoder(s)
             \/ \E u \in Thread : WakeSpuriously(u)
    <3>1. running' = running /\ cursor' = cursor
      BY <2>6 DEF MainStep, OpenQueues, StartDecoderThread, DispatchDatablock, JoinParser,
         AllParsed, CloseQueue, CollectDecoder, ReturnToClient, RaiseFrom, CallDecoder,
         WakeSpuriously, TP!Enqueue, TP!GetResult, poolVars, vars
    <3> QED
      BY <2>2, <3>1
  <2> QED
    BY <2>3, <2>4, <2>5, <2>6 DEF Next
<1> QED
  BY <1>1, <1>5, <1>6, <1>7 DEF Passed

(* A record its parser is past is in a place if it was to be handed over,  *)
(* and its datablock is reported if it was rejected.                       *)
RecordsOf(id) == stream[id[1]][id[2]].records

Handled(id) ==
  /\ id \in Accepted(id[1], id[2]) => \E p \in Place : id \in Ids(p)
  /\ RecordsOf(id)[id[3]] = "rejected" => <<id[1], id[2]>> \in reported

HandledInv ==
  NoException => \A id \in RecordId : Passed(id) /\ id[3] <= Len(RecordsOf(id)) => Handled(id)

(* What it means for a record to be accepted.                              *)
LEMMA AcceptedMeans ==
  ASSUME NEW id \in RecordId, id \in Accepted(id[1], id[2])
  PROVE  /\ id[3] \in 1 .. Len(RecordsOf(id))
         /\ RecordsOf(id)[id[3]] \in {"decoded", "poison"}
         /\ \A i \in 1 .. id[3] : RecordsOf(id)[i] # "rejected"
BY DEF Accepted, RecordsOf

LEMMA ReportedStays == ASSUME [Next]_vars PROVE reported \subseteq reported'
<1>1. \/ reported' = reported \/ \E x : reported' = reported \cup {x}
  BY DEF Next, MainStep, ParserStep, DecoderStep, StartParsing, NextRecord, ParseItems,
     PublishRecord, SkipRecord, RejectDatablock, ThrowWhileParsing, FinishParsing, GetFromQueue,
     StartDecoding, NextParsedRecord, DecodeRecord, ThrowWhileDecoding, FinishDecoding,
     OpenQueues, StartDecoderThread, DispatchDatablock, JoinParser, AllParsed, CloseQueue,
     CollectDecoder, ReturnToClient, CallDecoder, WakeSpuriously, vars
<1> QED
  BY <1>1

LEMMA PassedHandled ==
  ASSUME TasksInv, PoolsInv, RecordsOwned, HoldsInv, [Next]_vars, NoException',
         NEW id \in RecordId, Passed(id)', id[3] <= Len(RecordsOf(id)),
         NEW t \in Producer, Passes(t, id)
  PROVE  Handled(id)'
<1>1. PICK k : k = ParseTaskOf(id)
  OBVIOUS
<1>2. /\ Parsing(t) /\ running[t] = k /\ ~(id[3] < cursor[t]) /\ k \in Task
      /\ k[2] = id[1] /\ k[3] = id[2] /\ t \in Thread
  BY <1>1 DEF Passes, ParseTaskOf, RecordId, Task, ParseTask, Thread
<1>3. /\ id[3] \in Nat /\ cursor[t] \in Nat /\ cursor[t] >= 1 /\ cursor \in [Producer -> Nat]
      /\ BlockOf(k).records = RecordsOf(id) /\ Len(RecordsOf(id)) \in Nat
  BY <1>2, BlockLength, PipelineAssumption DEF TasksInv, Parsing, RecordId, BlockOf, RecordsOf
<1>4. stream' = stream
  BY DEF Passes, PublishRecord, SkipRecord, RejectDatablock, ThrowWhileParsing, FinishParsing,
         callVars
<1>5. RecordsOf(id)' = RecordsOf(id) /\ Accepted(id[1], id[2])' = Accepted(id[1], id[2])
  BY <1>4 DEF RecordsOf, Accepted
<1>6. ASSUME cursor' = [cursor EXCEPT ![t] = @ + 1], running' = running
      PROVE  id = RecordOf(t)
  <2>1. id[3] < cursor'[t] /\ cursor'[t] = cursor[t] + 1
    BY <1>1, <1>2, <1>3, <1>6 DEF Passed, ParseTaskOf
  <2>2. id[3] = cursor[t]
    BY <1>2, <1>3, <2>1
  <2> QED
    BY <1>1, <1>2, <2>2 DEF RecordOf, RecordId
<1>7. CASE PublishRecord(t)
  <2>1. id = RecordOf(t) /\ OutcomeOf(t) \in {"decoded", "poison"}
    BY <1>6, <1>7 DEF PublishRecord, poolVars
  <2>2. PICK r \in BQM!Record, i \in RecordId : i = RecordOf(t) /\ Adds(<<"record", r>>, i)
    BY <1>7, PublishAdds
  <2>3. <<"record", r>> \in Place /\ id \in Ids(<<"record", r>>)'
    BY <2>1, <2>2 DEF Adds
  <2>4. id[3] = cursor[t]
    BY <2>1 DEF RecordOf
  <2>5. RecordsOf(id)[id[3]] # "rejected"
    BY <1>2, <1>3, <2>1, <2>4 DEF OutcomeOf
  <2> QED
    BY <1>5, <2>3, <2>5 DEF Handled
<1>8. CASE SkipRecord(t)
  <2>1. id = RecordOf(t) /\ OutcomeOf(t) = "skipped"
    BY <1>6, <1>8 DEF SkipRecord, poolVars
  <2>2. id[3] = cursor[t]
    BY <2>1 DEF RecordOf
  <2>3. RecordsOf(id)[id[3]] = "skipped"
    BY <1>2, <1>3, <2>1, <2>2 DEF OutcomeOf
  <2> QED
    BY <1>5, <2>3, AcceptedMeans DEF Handled
<1>9. CASE RejectDatablock(t)
  <2>1. /\ OutcomeOf(t) = "rejected" /\ <<id[1], id[2]>> \in reported'
    BY <1>2, <1>9 DEF RejectDatablock
  <2>2. cursor[t] \in 1 .. id[3] /\ RecordsOf(id)[cursor[t]] = "rejected"
    BY <1>2, <1>3, <2>1 DEF OutcomeOf
  <2>3. id \notin Accepted(id[1], id[2])
    BY <2>2, AcceptedMeans
  <2> QED
    BY <1>5, <2>1, <2>3 DEF Handled
<1>10. CASE ThrowWhileParsing(t)
  <2>1. future'[k] = "exception"
    BY <1>2, <1>10 DEF ThrowWhileParsing, TP!Complete, PoolsInv, TasksOnce
  <2> QED
    BY <1>2, <2>1 DEF NoException
<1>11. CASE FinishParsing(t)
  <2>1. cursor[t] > Len(RecordsOf(id))
    BY <1>2, <1>3, <1>11 DEF FinishParsing, LoopDone
  <2> QED
    BY <1>2, <1>3, <2>1
<1> QED
  BY <1>7, <1>8, <1>9, <1>10, <1>11 DEF Passes

LEMMA HandledKept ==
  ASSUME TasksInv, PoolsInv, RecordsOwned, HoldsInv, PlacesInv, AskedFor, HandledInv, [Next]_vars
  PROVE  HandledInv'
<1> SUFFICES ASSUME NoException', NEW id \in RecordId, Passed(id)', (id[3] <= Len(RecordsOf(id)))'
             PROVE  Handled(id)'
  BY DEF HandledInv
<1>1. NoException
  BY ExceptionStays
<1>2. CASE Passed(id)
  <2>1. id[1] \in Calls /\ id[1] <= call
    BY <1>2 DEF Passed, AskedFor, Given, ParseTaskOf, RecordId, ParseTask
  <2>2. stream'[id[1]] = stream[id[1]]
    BY <2>1, StreamStays
  <2>3. RecordsOf(id)' = RecordsOf(id) /\ Accepted(id[1], id[2])' = Accepted(id[1], id[2])
    BY <2>2 DEF RecordsOf, Accepted
  <2>4. Handled(id)
    BY <1>1, <1>2, <2>3 DEF HandledInv
  <2> QED
    BY <2>3, <2>4, IdsStay, ReportedStays DEF Handled
<1>3. CASE ~Passed(id)
  <2>1. PICK t \in Producer : Passes(t, id)
    BY <1>3, NewlyPassed
  <2>2. stream' = stream
    BY <2>1 DEF Passes, PublishRecord, SkipRecord, RejectDatablock, ThrowWhileParsing,
                FinishParsing, callVars
  <2>3. id[3] <= Len(RecordsOf(id))
    BY <2>2 DEF RecordsOf
  <2> QED
    BY <2>1, <2>3, PassedHandled
<1> QED
  BY <1>2, <1>3

LEMMA AlwaysHandled == Spec => []HandledInv
<1>1. Init => HandledInv
  <2> SUFFICES ASSUME Init, NEW id \in RecordId PROVE ~Passed(id)
    BY DEF HandledInv
  <2>1. ParseTaskOf(id) \in Task
    BY DEF ParseTaskOf, RecordId, Task, ParseTask
  <2> QED
    BY <2>1 DEF Init, TP!Init, Passed
<1> QED
  BY <1>1, HandledKept, TasksInvariant, PoolsInvariant, ManagerInPipeline, HoldsInvariant,
     PlacesInvariant, AlwaysAskedFor, PTL DEF Spec

(* The tasks a call waits for, while no call was left by an exception: all *)
(* parse tasks before it closes the queues, ...                            *)
Complete(c) == {j \in 1 .. Len(stream[c]) : stream[c][j].complete}

ParsesAwaited ==
  raised = {} =>
    /\ \A c \in Calls : (c < call \/ (c = call /\ pc \in {"close", "collect", "idle"})) =>
         \A j \in Complete(c) : future[<<"parse", c, j>>] = "consumed"
    /\ pc \in {"dispatch", "join"} => \A j \in Complete(call) :
         pc = "join" \/ j < step => <<"parse", call, j>> \in SeqSet(parsingResults)
    /\ pc = "join" => \A i \in 1 .. Len(parsingResults) :
         i < step => future[parsingResults[i]] = "consumed"

(* ... all decode tasks before it returns, ...                             *)
DecodesAwaited ==
  raised = {} =>
    /\ \A c \in Calls : (c < call \/ (c = call /\ pc = "idle")) =>
         \A i \in 1 .. NumDecoders : future[<<"decode", c, i>>] = "consumed"
    /\ pc \in {"start", "dispatch", "join", "close", "collect"} => \A i \in 1 .. NumDecoders :
         pc # "start" \/ i < step => <<"decode", call, i>> \in SeqSet(decodingResults)
    /\ pc = "collect" => \A i \in 1 .. Len(decodingResults) :
         i < step => future[decodingResults[i]] = "consumed"

(* ... and a datablock that is cut off is reported when it is met.         *)
CutOffsReported ==
  raised = {} =>
    \A c \in Calls :
      (c < call \/ (c = call /\ pc \in {"dispatch", "join", "close", "collect", "idle"})) =>
        \A j \in 1 .. Len(stream[c]) :
          ~stream[c][j].complete /\ (c < call \/ pc # "dispatch" \/ j < step)
            => <<c, j>> \in reported

AwaitInv == ParsesAwaited /\ DecodesAwaited /\ CutOffsReported

(* A block of a stream already given is a parse task.                      *)
LEMMA BlockTask ==
  ASSUME TasksInv, NEW c \in Calls, NEW j \in 1 .. Len(stream[c])
  PROVE  <<"parse", c, j>> \in Task /\ j \in Nat /\ Len(stream[c]) \in Nat
<1>1. stream[c] \in Streams \cup {<<>>}
  BY DEF TasksInv
<1>2. Len(stream[c]) \in Nat /\ j \in 1 .. MaxBlocks
  <2>1. CASE stream[c] = <<>>
    BY <2>1
  <2>2. CASE stream[c] \in Streams
    BY <2>2, PipelineAssumption
  <2> QED
    BY <1>1, <2>1, <2>2
<1> QED
  BY <1>2 DEF Task, ParseTask

LEMMA DecoderTask ==
  ASSUME NEW c \in Calls, NEW i \in 1 .. NumDecoders
  PROVE  <<"decode", c, i>> \in Task
BY DEF Task, DecodeTask

(* Steps of other threads leave what the calling thread waits for.         *)
LEMMA AwaitStays ==
  ASSUME TasksInv, PoolsInv, AwaitInv, [Next]_vars,
         UNCHANGED <<call, stream, pc, step, parsingResults, decodingResults>>
  PROVE  AwaitInv'
<1>1. CASE raised' # {}
  BY <1>1 DEF AwaitInv, ParsesAwaited, DecodesAwaited, CutOffsReported
<1>2. CASE raised' = {}
  <2>1. raised = {} /\ reported \subseteq reported'
    BY <1>2, RaisedStays, ReportedStays
  <2>2. ParsesAwaited'
    <3>1. ParsesAwaited
      BY DEF AwaitInv
    <3>2. ASSUME NEW c \in Calls, c < call \/ (c = call /\ pc \in {"close", "collect", "idle"}),
                 NEW j \in Complete(c)
          PROVE  future'[<<"parse", c, j>>] = "consumed"
      <4>1. future[<<"parse", c, j>>] = "consumed"
        BY <2>1, <3>1, <3>2 DEF ParsesAwaited
      <4>2. <<"parse", c, j>> \in Task
        BY BlockTask DEF Complete
      <4> QED
        BY <4>1, <4>2, ConsumedStays
    <3>3. ASSUME NEW i \in 1 .. Len(parsingResults), pc = "join", i < step
          PROVE  future'[parsingResults[i]] = "consumed"
      <4>1. parsingResults[i] \in Task
        BY DEF PoolsInv, PoolsTyped, Task
      <4> QED
        BY <2>1, <3>1, <3>3, <4>1, ConsumedStays DEF ParsesAwaited
    <3> QED
      BY <2>1, <3>1, <3>2, <3>3 DEF ParsesAwaited, Complete, SeqSet
  <2>3. DecodesAwaited'
    <3>1. DecodesAwaited
      BY DEF AwaitInv
    <3>2. ASSUME NEW c \in Calls, c < call \/ (c = call /\ pc = "idle"), NEW i \in 1 .. NumDecoders
          PROVE  future'[<<"decode", c, i>>] = "consumed"
      <4>1. future[<<"decode", c, i>>] = "consumed"
        BY <2>1, <3>1, <3>2 DEF DecodesAwaited
      <4> QED
        BY <4>1, DecoderTask, ConsumedStays
    <3>3. ASSUME NEW i \in 1 .. Len(decodingResults), pc = "collect", i < step
          PROVE  future'[decodingResults[i]] = "consumed"
      <4>1. decodingResults[i] \in Task
        BY DEF PoolsInv, PoolsTyped, Task
      <4> QED
        BY <2>1, <3>1, <3>3, <4>1, ConsumedStays DEF DecodesAwaited
    <3> QED
      BY <2>1, <3>1, <3>2, <3>3 DEF DecodesAwaited, SeqSet
  <2>4. CutOffsReported'
    BY <2>1 DEF AwaitInv, CutOffsReported
  <2> QED
    BY <2>2, <2>3, <2>4 DEF AwaitInv
<1> QED
  BY <1>1, <1>2

(* The calling thread: a step that raises no exception.                    *)
LEMMA ParsesMain ==
  ASSUME TasksInv, PoolsInv, ParsesAwaited, MainStep, raised' = {}, raised = {}
  PROVE  ParsesAwaited'
<1>1. call' = call /\ stream' = stream /\ pc # "idle" /\ call \in Calls
  BY DEF MainStep, OpenQueues, StartDecoderThread, DispatchDatablock, JoinParser, AllParsed,
     CloseQueue, CollectDecoder, ReturnToClient, callVars, TasksInv, Calls
<1>2. \A c : Complete(c)' = Complete(c)
  BY <1>1 DEF Complete
<1>3. ASSUME NEW c \in Calls, NEW j \in Complete(c), future[<<"parse", c, j>>] = "consumed"
      PROVE  future'[<<"parse", c, j>>] = "consumed"
  <2>1. <<"parse", c, j>> \in Task
    BY BlockTask DEF Complete
  <2>2. [Next]_vars
    BY DEF Next
  <2> QED
    BY <1>3, <2>1, <2>2, ConsumedStays
<1>4. \A c \in Calls : c < call => \A j \in Complete(c) : future'[<<"parse", c, j>>] = "consumed"
  <2> SUFFICES ASSUME NEW c \in Calls, c < call, NEW j \in Complete(c)
               PROVE  future'[<<"parse", c, j>>] = "consumed"
    OBVIOUS
  <2>1. c < call \/ (c = call /\ pc \in {"close", "collect", "idle"})
    OBVIOUS
  <2>2. future[<<"parse", c, j>>] = "consumed"
    BY <2>1 DEF ParsesAwaited
  <2> QED
    BY <1>3, <2>2
<1>5. CASE OpenQueues \/ StartDecoderThread
  <2>1. pc' = "start" \/ (pc' = "dispatch" /\ step' = 1)
    BY <1>5 DEF OpenQueues, StartDecoderThread, Goto
  <2>2. \A j \in Complete(call) : ~(j < 1)
    BY <1>1, BlockTask DEF Complete
  <2> QED
    BY <1>1, <1>2, <1>4, <2>1, <2>2 DEF ParsesAwaited
<1>6. CASE DispatchDatablock
  <2>1. pc = "dispatch" /\ parsingResults \in Seq(ParseTask) /\ step \in Nat
    BY <1>6 DEF DispatchDatablock, PoolsInv, PoolsTyped, TasksInv
  <2>2. \A j \in Complete(call) : j < step => <<"parse", call, j>> \in SeqSet(parsingResults)
    BY <2>1 DEF ParsesAwaited
  <2>3. \A j \in Complete(call) : j \in Nat /\ j <= Len(stream[call]) /\ Len(stream[call]) \in Nat
    BY <1>1, BlockTask DEF Complete
  <2>4. CASE /\ step <= Len(stream[call]) /\ parsingResults' = Append(parsingResults, <<"parse", call, step>>)
             /\ step' = step + 1 /\ pc' = pc
    <3>1. <<"parse", call, step>> \in ParseTask
      BY <2>1, <2>4, ParseTaskType
    <3>2. SeqSet(parsingResults') = SeqSet(parsingResults) \cup {<<"parse", call, step>>}
      BY <2>1, <2>4, <3>1, SeqSetAppend
    <3>3. \A j \in Complete(call) : j < step + 1 => j < step \/ j = step
      BY <2>1, <2>3
    <3>4. \A j \in Complete(call) : j < step' => <<"parse", call, j>> \in SeqSet(parsingResults')
      BY <2>2, <2>4, <3>2, <3>3
    <3>5. SeqSet(parsingResults)' = SeqSet(parsingResults')
      BY DEF SeqSet
    <3> QED
      BY <1>1, <1>2, <1>4, <2>1, <2>4, <3>4, <3>5 DEF ParsesAwaited
  <2>5. CASE /\ ~stream[call][step].complete /\ parsingResults' = parsingResults
             /\ step' = step + 1 /\ pc' = pc
    <3>1. \A j \in Complete(call) : j < step + 1 => j < step
      BY <2>1, <2>3, <2>5 DEF Complete
    <3> QED
      BY <1>1, <1>2, <1>4, <2>1, <2>2, <2>5, <3>1 DEF ParsesAwaited, SeqSet
  <2>6. CASE step > Len(stream[call]) /\ parsingResults' = parsingResults /\ pc' = "join" /\ step' = 1
    <3>1. \A j \in Complete(call) : j < step
      BY <2>1, <2>3, <2>6
    <3>2. \A i \in 1 .. Len(parsingResults) : ~(i < 1)
      OBVIOUS
    <3> QED
      BY <1>1, <1>2, <1>4, <2>2, <2>6, <3>1, <3>2 DEF ParsesAwaited, SeqSet
  <2> QED
    BY <1>6, <2>4, <2>5, <2>6 DEF DispatchDatablock, Goto
<1>7. CASE JoinParser
  <2>1. /\ pc = "join" /\ pc' = pc /\ step \in Nat /\ step <= Len(parsingResults)
        /\ TP!GetResult(parsingResults[step]) /\ step' = step + 1
        /\ parsingResults' = parsingResults
    BY <1>7 DEF JoinParser, RaiseFrom, TasksInv
  <2>2. parsingResults \in Seq(ParseTask)
    BY DEF PoolsInv, PoolsTyped
  <2>3. ASSUME NEW i \in 1 .. Len(parsingResults), i < step'
        PROVE  future'[parsingResults[i]] = "consumed"
    <3>1. parsingResults[i] \in Task /\ parsingResults[i] \in ParseTask
      BY <2>2 DEF Task
    <3>2. CASE i = step
      BY <2>1, <3>1, <3>2 DEF TP!GetResult, PoolsInv, TasksOnce
    <3>3. CASE i # step
      <4>1. future[parsingResults[i]] = "consumed"
        BY <2>1, <2>3, <3>3 DEF ParsesAwaited
      <4>2. [Next]_vars
        BY DEF Next
      <4> QED
        BY <3>1, <4>1, <4>2, ConsumedStays
    <3> QED
      BY <3>2, <3>3
  <2>4. \A j \in Complete(call) : <<"parse", call, j>> \in SeqSet(parsingResults)
    BY <2>1 DEF ParsesAwaited
  <2> QED
    BY <1>1, <1>2, <1>4, <2>1, <2>3, <2>4 DEF ParsesAwaited, SeqSet
<1>8. CASE AllParsed
  <2>1. pc = "join" /\ step > Len(parsingResults) /\ pc' = "close" /\ future' = future
        /\ step \in Nat
    BY <1>8 DEF AllParsed, Goto, TasksInv, poolVars
  <2>2. parsingResults \in Seq(ParseTask)
    BY DEF PoolsInv, PoolsTyped
  <2>3. ASSUME NEW j \in Complete(call) PROVE future'[<<"parse", call, j>>] = "consumed"
    <3>1. <<"parse", call, j>> \in SeqSet(parsingResults)
      BY <2>1 DEF ParsesAwaited
    <3>2. PICK i \in 1 .. Len(parsingResults) : parsingResults[i] = <<"parse", call, j>>
      BY <3>1 DEF SeqSet
    <3>3. i < step
      BY <2>1, <2>2
    <3> QED
      BY <2>1, <3>2, <3>3 DEF ParsesAwaited
  <2> QED
    BY <1>1, <1>2, <1>4, <2>1, <2>3 DEF ParsesAwaited
<1>9. CASE CloseQueue \/ CollectDecoder \/ ReturnToClient
  <2>1. pc \in {"close", "collect"} /\ pc' \in {"close", "collect", "idle"}
    BY <1>9 DEF CloseQueue, CollectDecoder, ReturnToClient, RaiseFrom, Goto
  <2>2. \A j \in Complete(call) : future'[<<"parse", call, j>>] = "consumed"
    BY <1>1, <1>3, <2>1 DEF ParsesAwaited
  <2> QED
    BY <1>1, <1>2, <1>4, <2>1, <2>2 DEF ParsesAwaited
<1> QED
  BY <1>5, <1>6, <1>7, <1>8, <1>9 DEF MainStep

LEMMA DecodesMain ==
  ASSUME TasksInv, PoolsInv, DecodesAwaited, MainStep, raised' = {}, raised = {}
  PROVE  DecodesAwaited'
<1>1. call' = call /\ pc # "idle" /\ call \in Calls /\ NumDecoders \in Nat
  <2>1. call' = call /\ pc # "idle"
    BY DEF MainStep, OpenQueues, StartDecoderThread, DispatchDatablock, JoinParser, AllParsed,
       CloseQueue, CollectDecoder, ReturnToClient, callVars
  <2> QED
    BY <2>1, PipelineAssumption, FS_CardinalityType DEF TasksInv, Calls, NumDecoders
<1>2. [Next]_vars
  BY DEF Next
<1>3. \A c \in Calls : c < call =>
        \A i \in 1 .. NumDecoders : future'[<<"decode", c, i>>] = "consumed"
  <2> SUFFICES ASSUME NEW c \in Calls, c < call, NEW i \in 1 .. NumDecoders
               PROVE  future'[<<"decode", c, i>>] = "consumed"
    OBVIOUS
  <2>1. c < call \/ (c = call /\ pc = "idle")
    OBVIOUS
  <2>2. future[<<"decode", c, i>>] = "consumed"
    BY <2>1 DEF DecodesAwaited
  <2> QED
    BY <1>2, <2>2, DecoderTask, ConsumedStays
<1>4. decodingResults \in Seq(DecodeTask) /\ step \in Nat
  BY DEF PoolsInv, PoolsTyped, TasksInv
<1>5. CASE OpenQueues
  <2>1. pc' = "start" /\ step' = 1
    BY <1>5 DEF OpenQueues, Goto
  <2>2. \A i \in 1 .. NumDecoders : ~(i < 1)
    OBVIOUS
  <2> QED
    BY <1>1, <1>3, <2>1, <2>2 DEF DecodesAwaited
<1>6. CASE StartDecoderThread
  <2>1. pc = "start"
    BY <1>6 DEF StartDecoderThread
  <2>2. \A i \in 1 .. NumDecoders : i < step => <<"decode", call, i>> \in SeqSet(decodingResults)
    BY <2>1 DEF DecodesAwaited
  <2>3. CASE /\ step <= NumDecoders /\ pc' = pc /\ step' = step + 1
             /\ decodingResults' = Append(decodingResults, <<"decode", call, step>>)
    <3>1. <<"decode", call, step>> \in DecodeTask
      BY <2>1, <2>3, DecodeTaskType
    <3>2. SeqSet(decodingResults') = SeqSet(decodingResults) \cup {<<"decode", call, step>>}
      BY <1>4, <2>3, <3>1, SeqSetAppend
    <3>3. \A i \in 1 .. NumDecoders : i < step + 1 => i < step \/ i = step
      BY <1>4
    <3>4. \A i \in 1 .. NumDecoders : i < step' => <<"decode", call, i>> \in SeqSet(decodingResults')
      BY <2>2, <2>3, <3>2, <3>3
    <3>5. SeqSet(decodingResults)' = SeqSet(decodingResults')
      BY DEF SeqSet
    <3> QED
      BY <1>1, <1>3, <2>1, <2>3, <3>4, <3>5 DEF DecodesAwaited
  <2>4. CASE step > NumDecoders /\ pc' = "dispatch" /\ decodingResults' = decodingResults
    <3>1. \A i \in 1 .. NumDecoders : i < step
      BY <1>1, <1>4, <2>4
    <3> QED
      BY <1>1, <1>3, <2>2, <2>4, <3>1 DEF DecodesAwaited, SeqSet
  <2> QED
    BY <1>6, <2>3, <2>4 DEF StartDecoderThread, Goto
<1>7. CASE DispatchDatablock \/ JoinParser \/ AllParsed \/ CloseQueue
  <2>1. /\ pc \in {"dispatch", "join", "close"} /\ decodingResults' = decodingResults
        /\ pc' \in {"dispatch", "join", "close"} \/ (pc' = "collect" /\ step' = 1)
    BY <1>7 DEF DispatchDatablock, JoinParser, AllParsed, CloseQueue, RaiseFrom, Goto
  <2>2. \A i \in 1 .. NumDecoders : <<"decode", call, i>> \in SeqSet(decodingResults)
    BY <2>1 DEF DecodesAwaited
  <2>3. \A i \in 1 .. Len(decodingResults) : ~(i < 1)
    OBVIOUS
  <2> QED
    BY <1>1, <1>3, <2>1, <2>2, <2>3 DEF DecodesAwaited, SeqSet
<1>8. CASE CollectDecoder
  <2>1. /\ pc = "collect" /\ pc' = pc /\ step <= Len(decodingResults)
        /\ TP!GetResult(decodingResults[step]) /\ step' = step + 1
        /\ decodingResults' = decodingResults
    BY <1>8 DEF CollectDecoder, RaiseFrom
  <2>2. ASSUME NEW i \in 1 .. Len(decodingResults), i < step'
        PROVE  future'[decodingResults[i]] = "consumed"
    <3>1. decodingResults[i] \in Task
      BY <1>4 DEF Task
    <3>2. CASE i = step
      BY <2>1, <3>1, <3>2 DEF TP!GetResult, PoolsInv, TasksOnce
    <3>3. CASE i # step
      <4>1. future[decodingResults[i]] = "consumed"
        BY <1>4, <2>1, <2>2, <3>3 DEF DecodesAwaited
      <4> QED
        BY <1>2, <3>1, <4>1, ConsumedStays
    <3> QED
      BY <3>2, <3>3
  <2>3. \A i \in 1 .. NumDecoders : <<"decode", call, i>> \in SeqSet(decodingResults)
    BY <2>1 DEF DecodesAwaited
  <2> QED
    BY <1>1, <1>3, <2>1, <2>2, <2>3 DEF DecodesAwaited, SeqSet
<1>9. CASE ReturnToClient
  <2>1. pc = "collect" /\ step > Len(decodingResults) /\ pc' = "idle" /\ future' = future
    BY <1>9 DEF ReturnToClient, poolVars
  <2>2. ASSUME NEW i \in 1 .. NumDecoders PROVE future'[<<"decode", call, i>>] = "consumed"
    <3>1. <<"decode", call, i>> \in SeqSet(decodingResults)
      BY <2>1 DEF DecodesAwaited
    <3>2. PICK n \in 1 .. Len(decodingResults) : decodingResults[n] = <<"decode", call, i>>
      BY <3>1 DEF SeqSet
    <3>3. n < step
      BY <1>4, <2>1
    <3> QED
      BY <2>1, <3>2, <3>3 DEF DecodesAwaited
  <2> QED
    BY <1>1, <1>3, <2>1, <2>2 DEF DecodesAwaited
<1> QED
  BY <1>5, <1>6, <1>7, <1>8, <1>9 DEF MainStep

LEMMA CutOffsMain ==
  ASSUME TasksInv, CutOffsReported, MainStep, raised' = {}, raised = {}
  PROVE  CutOffsReported'
<1>1. call' = call /\ stream' = stream /\ pc # "idle" /\ call \in Calls /\ step \in Nat
  BY DEF MainStep, OpenQueues, StartDecoderThread, DispatchDatablock, JoinParser, AllParsed,
     CloseQueue, CollectDecoder, ReturnToClient, callVars, TasksInv, Calls
<1>2. reported \subseteq reported'
  <2>1. [Next]_vars
    BY DEF Next
  <2> QED
    BY <2>1, ReportedStays
<1>3. ASSUME NEW c \in Calls, c < call, NEW j \in 1 .. Len(stream[c]), ~stream[c][j].complete
      PROVE  <<c, j>> \in reported'
  <2>1. /\ c < call \/ (c = call /\ pc \in {"dispatch", "join", "close", "collect", "idle"})
        /\ c < call \/ pc # "dispatch" \/ j < step
    BY <1>3
  <2>2. <<c, j>> \in reported
    BY <1>3, <2>1 DEF CutOffsReported
  <2> QED
    BY <1>2, <2>2
<1>4. \A j \in 1 .. Len(stream[call]) : j \in Nat /\ Len(stream[call]) \in Nat
  BY <1>1, BlockTask
<1>5. ASSUME NEW j \in 1 .. Len(stream[call]), ~stream[call][j].complete,
             pc' \in {"dispatch", "join", "close", "collect", "idle"},
             pc' # "dispatch" \/ j < step'
      PROVE  <<call, j>> \in reported'
  <2>1. CASE OpenQueues \/ StartDecoderThread
    <3>1. pc' = "start" \/ (pc' = "dispatch" /\ step' = 1)
      BY <2>1 DEF OpenQueues, StartDecoderThread, Goto
    <3> QED
      BY <1>4, <1>5, <3>1
  <2>2. CASE DispatchDatablock
    <3>1. pc = "dispatch"
      BY <2>2 DEF DispatchDatablock
    <3>2. CASE j < step
      BY <1>1, <1>2, <1>5, <3>1, <3>2 DEF CutOffsReported
    <3>3. CASE ~(j < step)
      <4>1. ~(step > Len(stream[call]))
        BY <1>1, <1>4, <3>3
      <4>2. step' = step + 1 /\ pc' = pc
        BY <2>2, <4>1 DEF DispatchDatablock
      <4>3. j = step
        BY <1>1, <1>4, <1>5, <3>1, <3>3, <4>2
      <4>4. reported' = reported \cup {<<call, step>>}
        BY <1>5, <2>2, <4>1, <4>3 DEF DispatchDatablock
      <4> QED
        BY <4>3, <4>4
    <3> QED
      BY <3>2, <3>3
  <2>3. CASE JoinParser \/ AllParsed \/ CloseQueue \/ CollectDecoder \/ ReturnToClient
    <3>1. pc \in {"join", "close", "collect"}
      BY <2>3 DEF JoinParser, AllParsed, CloseQueue, CollectDecoder, ReturnToClient
    <3> QED
      BY <1>1, <1>2, <1>5, <3>1 DEF CutOffsReported
  <2> QED
    BY <2>1, <2>2, <2>3 DEF MainStep
<1> QED
  BY <1>1, <1>3, <1>5 DEF CutOffsReported

LEMMA AwaitKept ==
  ASSUME TasksInv, PoolsInv, AwaitInv, [Next]_vars
  PROVE  AwaitInv'
<1>1. CASE raised' # {}
  BY <1>1 DEF AwaitInv, ParsesAwaited, DecodesAwaited, CutOffsReported
<1>2. CASE raised' = {} /\ MainStep
  BY <1>2, RaisedStays, ParsesMain, DecodesMain, CutOffsMain DEF AwaitInv
<1>3. ASSUME raised' = {}, NEW s \in Streams, CallDecoder(s) PROVE AwaitInv'
  <2>1. /\ raised = {} /\ pc = "idle" /\ pc' = "open" /\ call' = call + 1 /\ call \in Nat
        /\ UNCHANGED <<future, reported>>
    BY <1>3, RaisedStays DEF CallDecoder, Goto, TasksInv, poolVars
  <2>2. \A c \in Calls : c < call' => c < call \/ c = call
    BY <2>1 DEF Calls
  <2>3. \A c \in Calls : c < call' => stream'[c] = stream[c]
    BY <2>1, <2>2, StreamStays DEF Calls
  <2>4. \A c \in Calls : c < call' => Complete(c)' = Complete(c)
    BY <2>3 DEF Complete
  <2>5. \A c \in Calls : c = call' => ~(pc' \in {"dispatch", "join", "close", "collect", "idle"})
    BY <2>1
  <2>6. ParsesAwaited'
    <3>1. \A c \in Calls : c < call' => \A j \in Complete(c) : future[<<"parse", c, j>>] = "consumed"
      BY <2>1, <2>2 DEF AwaitInv, ParsesAwaited
    <3> QED
      BY <2>1, <2>4, <3>1 DEF ParsesAwaited
  <2>7. DecodesAwaited'
    <3>1. \A c \in Calls : c < call' =>
            \A i \in 1 .. NumDecoders : future[<<"decode", c, i>>] = "consumed"
      BY <2>1, <2>2 DEF AwaitInv, DecodesAwaited
    <3> QED
      BY <2>1, <3>1 DEF DecodesAwaited
  <2>8. CutOffsReported'
    <3>1. \A c \in Calls : c < call' => \A j \in 1 .. Len(stream[c]) :
            ~stream[c][j].complete => <<c, j>> \in reported
      BY <2>1, <2>2 DEF AwaitInv, CutOffsReported
    <3> QED
      BY <2>1, <2>3, <3>1 DEF CutOffsReported
  <2> QED
    BY <2>6, <2>7, <2>8 DEF AwaitInv
<1>4. ASSUME \/ UNCHANGED vars
             \/ \E t \in Producer : ParserStep(t)
             \/ \E t \in Consumer : DecoderStep(t)
             \/ \E t \in Thread : WakeSpuriously(t)
      PROVE  AwaitInv'
  <2>1. UNCHANGED <<call, stream, pc, step, parsingResults, decodingResults>>
    BY <1>4 DEF ParserStep, DecoderStep, StartParsing, NextRecord, ParseItems,
       PublishRecord, SkipRecord, RejectDatablock, ThrowWhileParsing, FinishParsing, GetFromQueue,
       StartDecoding, NextParsedRecord, DecodeRecord, ThrowWhileDecoding, FinishDecoding,
       WakeSpuriously, callVars, mainVars, vars
  <2> QED
    BY <2>1, AwaitStays
<1> QED
  BY <1>1, <1>2, <1>3, <1>4 DEF Next

LEMMA AlwaysAwaits == Spec => []AwaitInv
<1>1. Init => AwaitInv
  <2> SUFFICES ASSUME Init PROVE AwaitInv
    OBVIOUS
  <2>1. call = 0 /\ pc = "idle" /\ \A c \in Calls : ~(c < call) /\ c # call
    BY DEF Init, Calls
  <2> QED
    BY <2>1 DEF AwaitInv, ParsesAwaited, DecodesAwaited, CutOffsReported
<1> QED
  BY <1>1, AwaitKept, TasksInvariant, PoolsInvariant, PTL DEF Spec

(* Nothing else is reported.                                               *)
ReportsInv ==
  \A x \in reported :
    /\ x[1] \in Calls /\ x[1] <= call /\ x[2] \in 1 .. Len(stream[x[1]])
    /\ \/ ~stream[x[1]][x[2]].complete
       \/ \E n \in 1 .. Len(stream[x[1]][x[2]].records) :
            stream[x[1]][x[2]].records[n] = "rejected"

LEMMA ReportsKept ==
  ASSUME TasksInv, ReportsInv, [Next]_vars
  PROVE  ReportsInv'
<1>1. ASSUME NEW x \in reported, stream'[x[1]] = stream[x[1]], call <= call', call' \in Nat
      PROVE  /\ x[1] \in Calls /\ x[1] <= call' /\ x[2] \in 1 .. Len(stream'[x[1]])
             /\ \/ ~stream'[x[1]][x[2]].complete
                \/ \E n \in 1 .. Len(stream'[x[1]][x[2]].records) :
                     stream'[x[1]][x[2]].records[n] = "rejected"
  BY <1>1 DEF ReportsInv, TasksInv, Calls
<1>2. /\ call \in Nat /\ call' \in Nat /\ call <= call'
      /\ \A x \in reported : stream'[x[1]] = stream[x[1]]
  BY StreamStays DEF ReportsInv
<1>3. CASE reported' = reported
  BY <1>1, <1>2, <1>3 DEF ReportsInv
<1>4. ASSUME NEW t \in Producer, RejectDatablock(t) PROVE ReportsInv'
  <2>1. PICK x : x = <<running[t][2], running[t][3]>>
    OBVIOUS
  <2>2. /\ reported' = reported \cup {x} /\ call' = call /\ stream' = stream
        /\ Parsing(t) /\ ~LoopDone(t) /\ OutcomeOf(t) = "rejected"
    BY <1>4, <2>1 DEF RejectDatablock, InLoopBody, callVars
  <2>3. /\ running[t] \in Given /\ cursor[t] \in Nat /\ cursor[t] >= 1
        /\ Len(BlockOf(running[t]).records) \in Nat
    BY <2>2, BlockLength DEF TasksInv, Parsing
  <2>4. x[1] \in Calls /\ x[1] <= call /\ x[2] \in 1 .. Len(stream[x[1]])
    BY <2>1, <2>3 DEF Given, ParseTask
  <2>5. /\ cursor[t] \in 1 .. Len(stream[x[1]][x[2]].records)
        /\ stream[x[1]][x[2]].records[cursor[t]] = "rejected"
    BY <2>1, <2>2, <2>3 DEF LoopDone, BlockOf, OutcomeOf
  <2> QED
    BY <1>1, <1>2, <2>2, <2>4, <2>5 DEF ReportsInv
<1>5. CASE DispatchDatablock /\ reported' # reported
  <2>1. PICK x : x = <<call, step>>
    OBVIOUS
  <2>2. /\ reported' = reported \cup {x} /\ call' = call /\ stream' = stream
        /\ step <= Len(stream[call]) /\ ~stream[call][step].complete
        /\ step \in Nat /\ step >= 1 /\ call \in Calls
    BY <1>5, <2>1 DEF DispatchDatablock, callVars, TasksInv, Calls
  <2>3. Len(stream[call]) \in Nat
    <3>1. stream[call] \in Streams \cup {<<>>}
      BY <2>2 DEF TasksInv
    <3> QED
      BY <3>1, PipelineAssumption
  <2>4. x[1] = call /\ x[2] = step /\ step \in 1 .. Len(stream[call])
    BY <2>1, <2>2, <2>3
  <2>5. call \in Nat /\ call <= call
    BY <1>2
  <2> QED
    BY <1>1, <1>2, <2>2, <2>4, <2>5 DEF ReportsInv
<1>6. reported' = reported \/ DispatchDatablock \/ \E t \in Producer : RejectDatablock(t)
  BY DEF Next, MainStep, ParserStep, DecoderStep, StartParsing, NextRecord, ParseItems,
     PublishRecord, SkipRecord, ThrowWhileParsing, FinishParsing, GetFromQueue,
     StartDecoding, NextParsedRecord, DecodeRecord, ThrowWhileDecoding, FinishDecoding,
     OpenQueues, StartDecoderThread, JoinParser, AllParsed, CloseQueue,
     CollectDecoder, ReturnToClient, CallDecoder, WakeSpuriously, vars
<1> QED
  BY <1>3, <1>4, <1>5, <1>6

LEMMA AlwaysReports == Spec => []ReportsInv
<1>1. Init => ReportsInv
  BY DEF Init, ReportsInv
<1> QED
  BY <1>1, ReportsKept, TasksInvariant, PTL DEF Spec

(* After a call without exceptions every task has been waited for.         *)
LEMMA AllAwaited ==
  ASSUME TasksInv, PoolsInv, AskedFor, AwaitInv, pc = "idle", raised = {}
  PROVE  \A k \in Task : future[k] \in {"none", "consumed"}
<1>1. ASSUME NEW k \in ParseTask, future[k] # "none" PROVE future[k] = "consumed"
  <2>1. k[2] \in Calls /\ k[2] <= call /\ k[3] \in Complete(k[2]) /\ k = <<"parse", k[2], k[3]>>
    BY <1>1 DEF AskedFor, Given, BlockOf, Complete, ParseTask
  <2>2. k[2] < call \/ k[2] = call
    BY <2>1 DEF TasksInv, Calls
  <2>3. future[<<"parse", k[2], k[3]>>] = "consumed"
    BY <2>1, <2>2 DEF AwaitInv, ParsesAwaited
  <2> QED
    BY <2>1, <2>3
<1>2. ASSUME NEW k \in DecodeTask, future[k] # "none" PROVE future[k] = "consumed"
  <2>1. k[2] \in Calls /\ k[2] <= call /\ k[3] \in 1 .. NumDecoders /\ k = <<"decode", k[2], k[3]>>
    BY <1>2 DEF AskedFor, DecodeTask
  <2>2. k[2] < call \/ k[2] = call
    BY <2>1 DEF TasksInv, Calls
  <2>3. future[<<"decode", k[2], k[3]>>] = "consumed"
    BY <2>1, <2>2 DEF AwaitInv, DecodesAwaited
  <2> QED
    BY <2>1, <2>3
<1> QED
  BY <1>1, <1>2 DEF Task

(* The records then are in the queues or with their clients.               *)
LEMMA Accounted ==
  TasksInv /\ PoolsInv /\ RecordsOwned /\ HoldsInv /\ PlacesInv /\ AskedFor /\ Emptied
    /\ HandledInv /\ AwaitInv /\ ReportsInv => EverythingAccounted
<1> SUFFICES ASSUME TasksInv, PoolsInv, RecordsOwned, HoldsInv, PlacesInv, AskedFor, Emptied,
                    HandledInv, AwaitInv, ReportsInv, pc = "idle", raised = {},
                    NEW c \in 1 .. call, NEW j \in 1 .. Len(stream[c])
             PROVE  /\ Accepted(c, j) \subseteq AllDelivered \cup AllContents
                    /\ <<c, j>> \in reported <=>
                         \/ ~stream[c][j].complete
                         \/ \E n \in 1 .. Len(stream[c][j].records) :
                              stream[c][j].records[n] = "rejected"
  BY DEF EverythingAccounted
<1>1. \A k \in Task : future[k] \in {"none", "consumed"}
  BY AllAwaited
<1>2. NoException
  BY <1>1 DEF NoException
<1>3. \A t \in Thread : running[t] = None
  BY <1>1 DEF PoolsInv, TasksOnce, TasksInv
<1>4. c \in Calls /\ (c < call \/ c = call) /\ call \in Nat /\ call <= MaxCalls
  BY PipelineAssumption DEF TasksInv, Calls
<1>5. stream[c] \in Streams /\ <<"parse", c, j>> \in Task
  <2>1. stream[c] # <<>>
    OBVIOUS
  <2> QED
    BY <1>4, <2>1, BlockTask DEF TasksInv
<1>6. ASSUME stream[c][j].complete, NEW n \in 1 .. Len(stream[c][j].records)
      PROVE  /\ <<c, j, n>> \in RecordId /\ Passed(<<c, j, n>>)
             /\ n <= Len(RecordsOf(<<c, j, n>>))
  <2>1. future[<<"parse", c, j>>] = "consumed"
    BY <1>4, <1>6 DEF AwaitInv, ParsesAwaited, Complete
  <2>2. \A i \in 1 .. Len(tasks["parser"]) : tasks["parser"][i] # <<"parse", c, j>>
    BY <2>1 DEF PoolsInv, TasksOnce, Pool
  <2>3. \A t \in Producer : running[t] # <<"parse", c, j>>
    BY <1>3, <1>5, PipelineAssumption DEF Thread
  <2>4. Passed(<<c, j, n>>)
    BY <2>1, <2>2, <2>3 DEF Passed, ParseTaskOf
  <2>5. j \in 1 .. MaxBlocks /\ Len(stream[c][j].records) <= MaxRecords
    BY <1>5, PipelineAssumption
  <2>6. Len(stream[c][j].records) \in Nat /\ n \in Nat /\ n <= Len(stream[c][j].records)
    <3>1. stream[c] \in Seq(Datablock)
      BY <1>5, PipelineAssumption
    <3>2. stream[c][j] \in Datablock
      BY <3>1
    <3> QED
      BY <3>2 DEF Datablock
  <2>7. <<c, j, n>> \in RecordId
    BY <1>4, <2>5, <2>6, PipelineAssumption DEF RecordId
  <2> QED
    BY <2>4, <2>6, <2>7 DEF RecordsOf
<1>7. ASSUME NEW id, NEW p \in Place, id \in Ids(p) PROVE id \in AllDelivered \cup AllContents
  <2>1. ASSUME NEW r \in BQM!Record, p = <<"record", r>> PROVE id \in AllContents
    <3>1. Published(r) /\ id \in SeqSet(elements[r])
      BY <1>7, <2>1 DEF Ids
    <3>2. \A t \in Consumer : held[t] # r
      BY <1>3, QueuesAssumption DEF HoldsInv, DecoderHolds, Decoding, Thread, BQM!ManagerAssumption
    <3>3. PICK q \in {"parsed"} \X BQM!Index : r \in SeqSet(items[q])
      BY <3>1, <3>2 DEF Published
    <3>4. PICK n \in 1 .. Len(items[q]) : items[q][n] = r
      BY <3>3 DEF SeqSet
    <3>5. id \in Contents(q)
      BY <3>1, <3>4 DEF Contents
    <3> QED
      BY <3>5 DEF AllContents
  <2>2. ASSUME NEW k \in DecodeTask, p = <<"task", k>> PROVE FALSE
    <3>1. collected[k] = <<>>
      BY <1>1 DEF Emptied, Task
    <3> QED
      BY <1>7, <2>2, <3>1, SeqSetEmpty DEF Ids
  <2>3. ASSUME NEW d \in Calls, p = <<"call", d>> PROVE id \in AllDelivered
    <3>1. id \in SeqSet(decodedRecords[d])
      BY <1>7, <2>3 DEF Ids
    <3>2. ~(d > call)
      BY <3>1, SeqSetEmpty DEF PlacesInv
    <3>3. d \in Returned
      BY <1>4, <3>2 DEF Returned, Calls
    <3> QED
      BY <3>1, <3>3 DEF AllDelivered
  <2> QED
    BY <2>1, <2>2, <2>3, PlaceKinds
<1>8. ASSUME NEW id \in Accepted(c, j) PROVE id \in AllDelivered \cup AllContents
  <2>1. PICK n \in 1 .. Len(stream[c][j].records) : id = <<c, j, n>> /\ stream[c][j].complete
    BY DEF Accepted
  <2>2. id \in RecordId /\ Passed(id) /\ id[3] <= Len(RecordsOf(id))
    BY <1>6, <2>1
  <2>3. Handled(id)
    BY <1>2, <2>2 DEF HandledInv
  <2>4. \E p \in Place : id \in Ids(p)
    BY <2>1, <2>3 DEF Handled
  <2> QED
    BY <1>7, <2>4
<1>9. ASSUME ~stream[c][j].complete PROVE <<c, j>> \in reported
  BY <1>4, <1>9 DEF AwaitInv, CutOffsReported
<1>10. ASSUME stream[c][j].complete, NEW n \in 1 .. Len(stream[c][j].records),
              stream[c][j].records[n] = "rejected"
       PROVE  <<c, j>> \in reported
  <2>1. PICK id : id = <<c, j, n>>
    OBVIOUS
  <2>2. id \in RecordId /\ Passed(id) /\ id[3] <= Len(RecordsOf(id))
    BY <1>6, <1>10, <2>1
  <2>3. Handled(id)
    BY <1>2, <2>2 DEF HandledInv
  <2> QED
    BY <1>10, <2>1, <2>3 DEF Handled, RecordsOf
<1>11. ASSUME <<c, j>> \in reported
       PROVE  \/ ~stream[c][j].complete
              \/ \E n \in 1 .. Len(stream[c][j].records) : stream[c][j].records[n] = "rejected"
  BY <1>11 DEF ReportsInv
<1> QED
  BY <1>8, <1>9, <1>10, <1>11

(* EverythingAccounted: after calls none of which raised an exception,     *)
(* every accepted record was delivered or waits in a consumer queue, and   *)
(* the FailureReport names the datablocks that were cut short, and no      *)
(* other.  For every number of threads, queues, calls, datablocks and      *)
(* records.                                                                *)
THEOREM RecordsAreAccountedFor == Spec => []EverythingAccounted
BY Accounted, TasksInvariant, PoolsInvariant, ManagerInPipeline, HoldsInvariant, PlacesInvariant,
   AlwaysAskedFor, AlwaysEmptied, AlwaysHandled, AlwaysAwaits, AlwaysReports, PTL

-----------------------------------------------------------------------------
(***************************************************************************)
(* The records of a datablock stay in order when every decoder has a queue *)
(* of its own: they go through one queue and one decoder, whose tasks are  *)
(* gathered in the order it ran them in.                                   *)
(***************************************************************************)
OwnQueue ==
  /\ \A t \in Thread : inGet[t] # None => matchMap[t] # None /\ inGet[t][2] = matchMap[t]
  /\ \A t \in Thread : held[t] \in BQM!Record => held[t][1] = matchMap[t]

OneConsumer ==
  \A t, u \in Consumer : matchMap[t] = matchMap[u] /\ matchMap[t] # None => t = u

LEMMA UsesManager == Spec => Proved!Spec
<1>1. BQM!Init => Proved!Init
  BY SameSets DEF BQM!Init, Proved!Init
<1>2. [BQM!Next]_(BQM!managerVars) => [Proved!Next]_(Proved!managerVars)
  BY SameSteps DEF BQM!managerVars, Proved!managerVars
<1> QED
  BY <1>1, <1>2, PipelineUsesManager, PTL DEF ImplementsManager, BQM!Spec, Proved!Spec

LEMMA OwnQueues == Spec => []OwnQueue
<1>1. Proved!RecordsOfOwnQueue => OwnQueue
  BY SameSets DEF Proved!RecordsOfOwnQueue, OwnQueue, Proved!MembershipQueue, Thread, BQM!Thread
<1>2. Proved!Spec => []Proved!RecordsOfOwnQueue
  BY ProvedAssumption, Proved!OwnQueueServed
<1> QED
  BY <1>1, <1>2, UsesManager, PTL

LEMMA ConsumersApart ==
  ASSUME NumDecoders <= NumQueues
  PROVE  Spec => []OneConsumer
<1>1. Proved!ConsumersHaveOwnQueue => OneConsumer
  BY DEF Proved!ConsumersHaveOwnQueue, OneConsumer
<1>2. Proved!Cardinality(Consumer) <= NumQueues
  BY DEF NumDecoders, Cardinality, Proved!Cardinality
<1>3. Proved!Spec => []Proved!ConsumersHaveOwnQueue
  BY <1>2, ProvedAssumption, Proved!OneQueuePerConsumer
<1> QED
  BY <1>1, <1>3, UsesManager, PTL

(* The order the decode tasks were enqueued in.                            *)
TaskBefore(k, l) == k[2] < l[2] \/ (k[2] = l[2] /\ k[3] < l[3])

Sorted(s) == \A i, j \in 1 .. Len(s) : i < j => TaskBefore(s[i], s[j])

LEMMA SortedAppend ==
  ASSUME NEW s \in Seq(DecodeTask), NEW k \in DecodeTask, Sorted(s),
         \A l \in SeqSet(s) : TaskBefore(l, k)
  PROVE  Sorted(Append(s, k))
<1>1. \A i \in 1 .. Len(s) : TaskBefore(s[i], k)
  BY DEF SeqSet
<1>2. \A i \in 1 .. Len(Append(s, k)) :
        \/ i \in 1 .. Len(s) /\ Append(s, k)[i] = s[i]
        \/ i = Len(s) + 1 /\ Append(s, k)[i] = k
  OBVIOUS
<1>3. Len(s) \in Nat
  OBVIOUS
<1> SUFFICES ASSUME NEW i \in 1 .. Len(Append(s, k)), NEW j \in 1 .. Len(Append(s, k)), i < j
             PROVE  TaskBefore(Append(s, k)[i], Append(s, k)[j])
  BY DEF Sorted
<1>4. i \in 1 .. Len(s) /\ Append(s, k)[i] = s[i]
  BY <1>2, <1>3
<1> QED
  BY <1>1, <1>2, <1>4 DEF Sorted

LEMMA SortedTail ==
  ASSUME NEW s \in Seq(DecodeTask), s # <<>>, Sorted(s)
  PROVE  /\ Tail(s) \in Seq(DecodeTask) /\ Sorted(Tail(s)) /\ s[1] \in SeqSet(s)
         /\ \A l \in SeqSet(Tail(s)) : l \in SeqSet(s) /\ TaskBefore(s[1], l)
         /\ SeqSet(s) = SeqSet(Tail(s)) \cup {s[1]}
<1>1. /\ 1 \in 1 .. Len(s) /\ Tail(s) \in Seq(DecodeTask)
      /\ \A i \in 1 .. Len(Tail(s)) : i + 1 \in 1 .. Len(s) /\ Tail(s)[i] = s[i + 1]
  OBVIOUS
<1>2. Sorted(Tail(s))
  BY <1>1 DEF Sorted
<1>3. \A i \in 1 .. Len(Tail(s)) : TaskBefore(s[1], s[i + 1])
  BY <1>1 DEF Sorted
<1> QED
  BY <1>1, <1>2, <1>3, SeqSetTail DEF SeqSet

(* Decode tasks are enqueued, started and waited for in one order.         *)
Started(k) == future[k] # "none" /\ k \notin SeqSet(tasks["consumer"])

TaskOrder ==
  /\ Sorted(decodingResults) /\ Sorted(tasks["consumer"])
  /\ \A k \in SeqSet(decodingResults) : future[k] # "none"
  /\ \A k \in DecodeTask : future[k] # "none" =>
       /\ k[2] <= call
       /\ k[2] = call => pc # "open" /\ (pc = "start" => k[3] < step)
  /\ \A k \in DecodeTask : Started(k) =>
       \A l \in SeqSet(tasks["consumer"]) : TaskBefore(k, l)
  /\ \A k \in SeqSet(tasks["consumer"]) : collected[k] = <<>>

LEMMA EnqueueKeepsOrder ==
  ASSUME TasksInv, PoolsInv, PlacesInv, Emptied, TaskOrder, StartDecoderThread
  PROVE  TaskOrder'
<1>1. CASE step > NumDecoders
  <2>1. /\ UNCHANGED <<tasks, future, decodingResults, call, collected>>
        /\ pc = "start" /\ pc' = "dispatch"
    BY <1>1, PipelineAssumption, FS_CardinalityType
    DEF StartDecoderThread, poolVars, callVars, Goto, TasksInv, NumDecoders
  <2> QED
    BY <2>1 DEF TaskOrder, SeqSet, Started, Sorted
<1>2. CASE step <= NumDecoders
  <2>1. PICK k : k = <<"decode", call, step>>
    OBVIOUS
  <2>2. k \in DecodeTask /\ k \in Task /\ k[2] = call /\ k[3] = step /\ step \in Nat /\ call \in Nat
    BY <1>2, <2>1, DecodeTaskType DEF StartDecoderThread, Task, TasksInv
  <2>3. /\ pc = "start" /\ pc' = "start" /\ call' = call /\ step' = step + 1
        /\ future[k] = "none" /\ future' = [future EXCEPT ![k] = "pending"]
        /\ tasks' = [tasks EXCEPT !["consumer"] = Append(@, k)]
        /\ decodingResults' = Append(decodingResults, k) /\ collected' = collected
    BY <1>2, <2>1, <2>2, PipelineAssumption, FS_CardinalityType
    DEF StartDecoderThread, TP!Enqueue, callVars, NumDecoders
  <2>4. \A l \in DecodeTask : l[2] \in Nat /\ l[3] \in Nat
    BY DEF DecodeTask, Calls
  <2>5. \A l \in DecodeTask : future[l] # "none" => TaskBefore(l, k)
    BY <2>2, <2>3, <2>4 DEF TaskOrder, TaskBefore
  <2>6. /\ decodingResults \in Seq(DecodeTask) /\ tasks["consumer"] \in Seq(DecodeTask)
        /\ \A l \in SeqSet(decodingResults) : l \in DecodeTask /\ future[l] # "none"
        /\ \A l \in SeqSet(tasks["consumer"]) : l \in DecodeTask /\ future[l] # "none"
    BY DEF PoolsInv, PoolsTyped, TasksOnce, TaskOrder, SeqSet, Pool
  <2>7. /\ tasks'["consumer"] = Append(tasks["consumer"], k)
        /\ future'[k] = "pending" /\ \A l \in DecodeTask : l # k => future'[l] = future[l]
    BY <2>2, <2>3 DEF TasksInv, Pool, PoolsInv, TasksOnce, Task
  <2>8. Sorted(decodingResults') /\ Sorted(tasks'["consumer"])
    BY <2>2, <2>3, <2>5, <2>6, <2>7, SortedAppend DEF TaskOrder
  <2>9. /\ SeqSet(decodingResults') = SeqSet(decodingResults) \cup {k}
        /\ SeqSet(tasks'["consumer"]) = SeqSet(tasks["consumer"]) \cup {k}
    BY <2>2, <2>3, <2>6, <2>7, SeqSetAppend
  <2>10. \A l \in SeqSet(decodingResults') : future'[l] # "none"
    BY <2>6, <2>7, <2>9
  <2>11. \A l \in DecodeTask : future'[l] # "none" =>
           /\ l[2] <= call'
           /\ l[2] = call' => pc' # "open" /\ (pc' = "start" => l[3] < step')
    BY <2>2, <2>3, <2>4, <2>7 DEF TaskOrder
  <2>12. \A l \in DecodeTask : future'[l] # "none" /\ l \notin SeqSet(tasks'["consumer"]) =>
           \A m \in SeqSet(tasks'["consumer"]) : TaskBefore(l, m)
    BY <2>5, <2>7, <2>9 DEF TaskOrder, Started
  <2>13. \A l \in SeqSet(tasks'["consumer"]) : collected'[l] = <<>>
    BY <2>2, <2>3, <2>9 DEF TaskOrder, Emptied
  <2>14. SeqSet(decodingResults)' = SeqSet(decodingResults')
         /\ SeqSet(tasks["consumer"])' = SeqSet(tasks'["consumer"])
    BY DEF SeqSet
  <2>15. Sorted(decodingResults)' /\ Sorted(tasks["consumer"])'
    BY <2>8 DEF Sorted
  <2> QED
    BY <2>10, <2>11, <2>12, <2>13, <2>14, <2>15 DEF TaskOrder, Started
<1> QED
  BY <1>1, <1>2, PipelineAssumption, FS_CardinalityType DEF TasksInv, NumDecoders

(* A decoder starts the task that has waited longest.                      *)
LEMMA TakeKeepsOrder ==
  ASSUME TasksInv, PoolsInv, TaskOrder, NEW t \in Consumer, StartDecoding(t)
  PROVE  TaskOrder' /\ \A k \in DecodeTask : Started(k) => TaskBefore(k, running'[t])
<1>1. PICK s : s = tasks["consumer"]
  OBVIOUS
<1>2. s \in Seq(DecodeTask) /\ s # <<>> /\ Sorted(s)
      /\ running' = [running EXCEPT ![t] = Head(s)] /\ t \in Thread /\ t \notin Producer
      /\ tasks' = [tasks EXCEPT !["consumer"] = Tail(s)] /\ future' = future
      /\ UNCHANGED <<decodingResults, call, collected, pc, step>>
  BY <1>1, PipelineAssumption
  DEF StartDecoding, TP!Take, PoolOf, Thread, PoolsInv, PoolsTyped, TaskOrder, mainVars, callVars
<1>3. /\ Tail(s) \in Seq(DecodeTask) /\ Sorted(Tail(s)) /\ s[1] \in SeqSet(s)
      /\ \A l \in SeqSet(Tail(s)) : l \in SeqSet(s) /\ TaskBefore(s[1], l)
      /\ SeqSet(s) = SeqSet(Tail(s)) \cup {s[1]}
  BY <1>2, SortedTail
<1>4. Head(s) = s[1] /\ running'[t] = s[1] /\ tasks'["consumer"] = Tail(s)
  BY <1>2 DEF TasksInv, Pool
<1>7. \A k \in DecodeTask : future'[k] # "none" /\ k \notin SeqSet(Tail(s)) =>
        \A l \in SeqSet(Tail(s)) : TaskBefore(k, l)
  BY <1>1, <1>2, <1>3 DEF TaskOrder, Started
<1>8. SeqSet(tasks["consumer"])' = SeqSet(Tail(s)) /\ Sorted(tasks["consumer"])'
      /\ SeqSet(decodingResults)' = SeqSet(decodingResults) /\ Sorted(decodingResults)'
  <2>1. SeqSet(tasks["consumer"])' = SeqSet(tasks'["consumer"])
        /\ (Sorted(tasks["consumer"])' <=> Sorted(tasks'["consumer"]))
    BY DEF SeqSet, Sorted
  <2>2. SeqSet(decodingResults)' = SeqSet(decodingResults) /\ Sorted(decodingResults)'
    BY <1>2 DEF SeqSet, Sorted, TaskOrder
  <2> QED
    BY <1>3, <1>4, <2>1, <2>2
<1>9. \A k \in DecodeTask : Started(k) => TaskBefore(k, running'[t])
  BY <1>1, <1>3, <1>4 DEF TaskOrder
<1>11. TaskOrder'
  BY <1>1, <1>2, <1>3, <1>7, <1>8 DEF TaskOrder, Started
<1> QED
  BY <1>9, <1>11

(* No other step moves decode tasks.                                       *)
LEMMA OrderStays ==
  ASSUME TasksInv, PoolsInv, PlacesInv, TaskOrder,
         tasks'["consumer"] = tasks["consumer"],
         decodingResults' = decodingResults \/ decodingResults' = <<>>,
         \A k \in DecodeTask : future'[k] = "none" <=> future[k] = "none",
         \A k \in SeqSet(tasks["consumer"]) : collected'[k] = <<>>,
         \/ call' = call /\ pc' \notin {"open", "start"}
         \/ call' = call /\ pc' = pc /\ step' = step
         \/ call' = call /\ pc = "open"
         \/ call' = call + 1
  PROVE  TaskOrder'
<1>1. SeqSet(tasks["consumer"])' = SeqSet(tasks["consumer"]) /\ Sorted(tasks["consumer"])'
  BY DEF SeqSet, Sorted, TaskOrder
<1>2. \A k \in SeqSet(decodingResults)' : k \in SeqSet(decodingResults)
  BY DEF SeqSet
<1>3. Sorted(decodingResults)'
  <2>1. CASE decodingResults' = decodingResults
    BY <2>1 DEF Sorted, TaskOrder
  <2>2. CASE decodingResults' = <<>>
    BY <2>2 DEF Sorted
  <2> QED
    BY <2>1, <2>2
<1>4. \A k \in SeqSet(decodingResults) : k \in DecodeTask
  BY DEF PoolsInv, PoolsTyped, SeqSet
<1>5. \A k \in DecodeTask : k[2] \in Nat
  BY DEF DecodeTask, Calls
<1>6. \A k \in DecodeTask : future'[k] # "none" =>
        /\ k[2] <= call'
        /\ k[2] = call' => pc' # "open" /\ (pc' = "start" => k[3] < step')
  BY <1>5 DEF TaskOrder, TasksInv
<1> QED
  BY <1>1, <1>2, <1>3, <1>4, <1>6 DEF TaskOrder, Started

LEMMA TaskOrderKept ==
  ASSUME TasksInv, PoolsInv, PlacesInv, Emptied, TaskOrder, [Next]_vars
  PROVE  TaskOrder'
<1>1. \A k \in SeqSet(tasks["consumer"]) : k \in DecodeTask
  BY DEF PoolsInv, PoolsTyped, SeqSet
<1>2. CASE StartDecoderThread
  BY <1>2, EnqueueKeepsOrder
<1>3. ASSUME NEW t \in Consumer, StartDecoding(t) PROVE TaskOrder'
  BY <1>3, TakeKeepsOrder
<1> SUFFICES ASSUME ~StartDecoderThread, \A t \in Consumer : ~StartDecoding(t)
             PROVE  TaskOrder'
  BY <1>2, <1>3
<1>4. \A k \in DecodeTask : future'[k] = "none" <=> future[k] = "none"
  <2> SUFFICES ASSUME NEW k \in DecodeTask, future'[k] # future[k]
               PROVE  future'[k] # "none" /\ future[k] # "none"
    OBVIOUS
  <2>1. k \in Task /\ \A c, j : k # <<"parse", c, j>>
    BY DEF Task, DecodeTask
  <2> QED
    BY <2>1, FutureSteps DEF Asked, Ended, Taken
<1>5. tasks'["consumer"] = tasks["consumer"]
  <2>1. ASSUME NEW t \in Producer, StartParsing(t) PROVE tasks'["consumer"] = tasks["consumer"]
    BY <2>1 DEF StartParsing, TP!Take, PoolOf, Thread, TasksInv, Pool
  <2>2. CASE DispatchDatablock
    BY <2>2 DEF DispatchDatablock, TP!Enqueue, TasksInv, Pool, poolVars
  <2>3. CASE ~DispatchDatablock /\ \A t \in Producer : ~StartParsing(t)
    BY <2>3
    DEF Next, MainStep, ParserStep, DecoderStep, NextRecord, ParseItems, PublishRecord, SkipRecord,
        RejectDatablock, ThrowWhileParsing, FinishParsing, GetFromQueue, NextParsedRecord,
        DecodeRecord, ThrowWhileDecoding, FinishDecoding, OpenQueues, JoinParser, AllParsed,
        CloseQueue, CollectDecoder, ReturnToClient, RaiseFrom, CallDecoder, WakeSpuriously,
        TP!Complete, TP!GetResult, poolVars, vars
  <2> QED
    BY <2>1, <2>2, <2>3
<1>6. /\ decodingResults' = decodingResults \/ decodingResults' = <<>>
      /\ \/ call' = call /\ pc' \notin {"open", "start"}
         \/ call' = call /\ pc' = pc /\ step' = step
         \/ call' = call /\ pc = "open"
         \/ call' = call + 1
  <2>1. CASE MainStep
    BY <2>1 DEF MainStep, OpenQueues, DispatchDatablock, JoinParser, AllParsed, CloseQueue,
                CollectDecoder, ReturnToClient, RaiseFrom, callVars, Goto
  <2>2. CASE ~MainStep
    BY <2>2
    DEF Next, ParserStep, DecoderStep, StartParsing, NextRecord, ParseItems, PublishRecord,
        SkipRecord, RejectDatablock, ThrowWhileParsing, FinishParsing, GetFromQueue,
        StartDecoding, NextParsedRecord, DecodeRecord, ThrowWhileDecoding, FinishDecoding,
        CallDecoder, WakeSpuriously, mainVars, callVars, vars
  <2> QED
    BY <2>1, <2>2
<1>7. ASSUME NEW k \in SeqSet(tasks["consumer"]) PROVE collected'[k] = <<>>
  <2>1. collected[k] = <<>> /\ k \in DecodeTask /\ collected \in [DecodeTask -> Seq(RecordId)]
    BY <1>1, <1>7 DEF TaskOrder, PlacesInv
  <2>2. \A t \in Consumer : running[t] # None => running[t] # k
    BY <1>7 DEF PoolsInv, TasksOnce, SeqSet, Pool, Thread
  <2>3. ASSUME NEW t \in Consumer, DecodeRecord(t) \/ ThrowWhileDecoding(t)
        PROVE  collected'[k] = <<>>
    BY <2>1, <2>2, <2>3 DEF DecodeRecord, ThrowWhileDecoding, Decoding
  <2>4. CASE CollectDecoder
    BY <2>1, <2>4 DEF CollectDecoder, RaiseFrom
  <2>5. CASE ~CollectDecoder /\ \A t \in Consumer : ~DecodeRecord(t) /\ ~ThrowWhileDecoding(t)
    BY <2>1, <2>5
    DEF Next, MainStep, ParserStep, DecoderStep, StartParsing, NextRecord, ParseItems,
        PublishRecord, SkipRecord, RejectDatablock, ThrowWhileParsing, FinishParsing, GetFromQueue,
        StartDecoding, NextParsedRecord, FinishDecoding, OpenQueues, DispatchDatablock, JoinParser,
        AllParsed, CloseQueue, ReturnToClient, CallDecoder, WakeSpuriously, vars
  <2> QED
    BY <2>3, <2>4, <2>5
<1> QED
  BY <1>4, <1>5, <1>6, <1>7, OrderStays

LEMMA AlwaysTaskOrder == Spec => []TaskOrder
<1>1. Init => TaskOrder
  <2>1. Init => /\ decodingResults = <<>> /\ tasks["consumer"] = <<>>
                /\ \A k \in DecodeTask : future[k] = "none"
    BY DEF Init, TP!Init, Pool, Task
  <2> QED
    BY <2>1, SeqSetEmpty DEF TaskOrder, Sorted, Started
<1> QED
  BY <1>1, TaskOrderKept, TasksInvariant, PoolsInvariant, PlacesInvariant, AlwaysEmptied, PTL DEF Spec

(* What a call has not gathered yet is still in its list.                  *)
ResultsInv ==
  /\ \A k \in DecodeTask : future[k] \in {"pending", "value"} => k \in SeqSet(decodingResults)
  /\ pc = "collect" => \A i \in 1 .. Len(decodingResults) :
       i < step => future[decodingResults[i]] = "consumed"

LEMMA ResultsKept ==
  ASSUME TasksInv, PoolsInv, ResultsInv, [Next]_vars
  PROVE  ResultsInv'
<1>1. decodingResults \in Seq(DecodeTask) /\ step \in Nat
  BY DEF PoolsInv, PoolsTyped, TasksInv
<1>2. CASE ReturnToClient
  <2>1. /\ pc = "collect" /\ pc' = "idle" /\ step > Len(decodingResults) /\ future' = future
    BY <1>2 DEF ReturnToClient, poolVars
  <2>2. \A i \in 1 .. Len(decodingResults) : i < step
    BY <1>1, <2>1
  <2>3. \A k \in SeqSet(decodingResults) : future[k] = "consumed"
    BY <2>1, <2>2 DEF ResultsInv, SeqSet
  <2> QED
    BY <2>1, <2>3 DEF ResultsInv
<1>3. CASE StartDecoderThread /\ step <= NumDecoders
  <2>1. PICK k : k = <<"decode", call, step>>
    OBVIOUS
  <2>2. k \in DecodeTask /\ k \in Task
    BY <1>3, <2>1, DecodeTaskType DEF StartDecoderThread, Task
  <2>3. /\ pc' # "collect" /\ decodingResults' = Append(decodingResults, k)
        /\ \A l \in DecodeTask : l # k => future'[l] = future[l]
    <3>1. step > NumDecoders => FALSE
      BY <1>3, PipelineAssumption, FS_CardinalityType DEF TasksInv, NumDecoders
    <3> QED
      BY <1>3, <2>1, <2>2, <3>1
      DEF StartDecoderThread, TP!Enqueue, PoolsInv, TasksOnce, Task
  <2>4. SeqSet(decodingResults') = SeqSet(decodingResults) \cup {k}
    BY <1>1, <2>2, <2>3, SeqSetAppend
  <2>5. \A l \in DecodeTask : future'[l] \in {"pending", "value"} => l \in SeqSet(decodingResults')
    BY <2>3, <2>4 DEF ResultsInv
  <2>6. \A l : l \in SeqSet(decodingResults)' <=> l \in SeqSet(decodingResults')
    BY DEF SeqSet
  <2> QED
    BY <2>3, <2>5, <2>6 DEF ResultsInv
<1>4. CASE ~ReturnToClient /\ ~(StartDecoderThread /\ step <= NumDecoders)
  <2>1. decodingResults' = decodingResults
    <3>1. CASE MainStep
      BY <1>4, <3>1 DEF MainStep, OpenQueues, StartDecoderThread, DispatchDatablock, JoinParser,
                        AllParsed, CloseQueue, CollectDecoder, RaiseFrom
    <3>2. CASE ~MainStep
      BY <3>2
      DEF Next, ParserStep, DecoderStep, StartParsing, NextRecord, ParseItems, PublishRecord,
          SkipRecord, RejectDatablock, ThrowWhileParsing, FinishParsing, GetFromQueue,
          StartDecoding, NextParsedRecord, DecodeRecord, ThrowWhileDecoding, FinishDecoding,
          CallDecoder, WakeSpuriously, mainVars, vars
    <3> QED
      BY <3>1, <3>2
  <2>2. ASSUME NEW k \in DecodeTask, future'[k] \in {"pending", "value"}
        PROVE  future[k] \in {"pending", "value"}
    <3>1. k \in Task /\ \A c, j : k # <<"parse", c, j>>
      BY DEF Task, DecodeTask
    <3>2. ~Asked(k)
      BY <1>4, <3>1 DEF Asked
    <3> QED
      BY <2>2, <3>1, <3>2, FutureSteps DEF Ended, Taken
  <2>3. ASSUME pc' = "collect", NEW i \in 1 .. Len(decodingResults), i < step'
        PROVE  future'[decodingResults[i]] = "consumed"
    <3>1. decodingResults[i] \in DecodeTask /\ decodingResults[i] \in Task
      BY <1>1 DEF Task
    <3>2. \/ pc = "collect" /\ step' = step
          \/ step' = 1
          \/ CollectDecoder /\ pc' = pc /\ pc = "collect" /\ step' = step + 1
      <4>1. CASE MainStep
        BY <1>4, <2>3, <4>1
        DEF MainStep, OpenQueues, StartDecoderThread, DispatchDatablock, JoinParser,
            AllParsed, CloseQueue, CollectDecoder, RaiseFrom, Goto
      <4>2. CASE ~MainStep
        BY <2>3, <4>2
        DEF Next, ParserStep, DecoderStep, StartParsing, NextRecord, ParseItems, PublishRecord,
            SkipRecord, RejectDatablock, ThrowWhileParsing, FinishParsing, GetFromQueue,
            StartDecoding, NextParsedRecord, DecodeRecord, ThrowWhileDecoding, FinishDecoding,
            CallDecoder, WakeSpuriously, mainVars, vars, Goto
      <4> QED
        BY <4>1, <4>2
    <3>3. i \in Nat /\ i >= 1
      OBVIOUS
    <3>4. CASE pc = "collect" /\ i < step
      <4>1. future[decodingResults[i]] = "consumed"
        BY <3>4 DEF ResultsInv
      <4> QED
        BY <3>1, <4>1, ConsumedStays
    <3>5. CASE CollectDecoder /\ pc' = pc /\ i = step
      <4>1. TP!GetResult(decodingResults[i])
        BY <2>3, <3>5 DEF CollectDecoder, RaiseFrom
      <4> QED
        BY <3>1, <4>1 DEF TP!GetResult, PoolsInv, TasksOnce
    <3> QED
      BY <1>1, <2>3, <3>2, <3>3, <3>4, <3>5
  <2>4. \A k : k \in SeqSet(decodingResults)' <=> k \in SeqSet(decodingResults)
    BY <2>1 DEF SeqSet
  <2> QED
    BY <2>1, <2>2, <2>3, <2>4 DEF ResultsInv
<1> QED
  BY <1>2, <1>3, <1>4

LEMMA AlwaysResults == Spec => []ResultsInv
<1>1. Init => ResultsInv
  BY DEF Init, TP!Init, ResultsInv, Task
<1> QED
  BY <1>1, ResultsKept, TasksInvariant, PoolsInvariant, PTL DEF Spec

(* What a step does to a queue of parsed records: nothing, or its front is *)
(* taken, or a parser appends the record it publishes.                     *)
LEMMA QueueSteps ==
  ASSUME RecordsOwned, HoldsInv, [Next]_vars, NEW q \in {"parsed"} \X BQM!Index
  PROVE  \/ items'[q] = items[q]
         \/ items[q] # <<>> /\ items'[q] = Tail(items[q])
         \/ \E t \in Producer :
              /\ PublishRecord(t) /\ held[t] \in BQM!Record /\ q = <<"parsed", held[t][1]>>
              /\ items'[q] = Append(items[q], held[t])
<1>1. q \in BQM!Queue /\ items \in [BQM!Queue -> Seq(BQM!Record)] /\ q[1] = "parsed"
  BY DEF RecordsOwned, BQM!TypeOK, BQM!Queue
<1>2. ASSUME NEW t \in Producer, PublishRecord(t)
      PROVE  \/ items'[q] = items[q]
             \/ /\ held[t] \in BQM!Record /\ q = <<"parsed", held[t][1]>>
                /\ items'[q] = Append(items[q], held[t])
  BY <1>1, <1>2 DEF PublishRecord, BQM!SetObjectPoolForConsumer, BQM!MembershipQueue
<1>3. ASSUME NEW t \in Thread, GetFromQueue(t)
      PROVE  items'[q] = items[q] \/ (items[q] # <<>> /\ items'[q] = Tail(items[q]))
  <2>1. \/ items[inGet[t]] # <<>> /\ items' = [items EXCEPT ![inGet[t]] = Tail(@)]
        \/ items' = items
    BY <1>3, GetGives DEF GetFromQueue
  <2> QED
    BY <1>1, <2>1
<1>4. ASSUME NEW t \in Thread, BQM!ReleaseObjectPoolForProducer(t) PROVE items'[q] = items[q]
  BY <1>4, ReleaseLeavesParsed
<1>5. ASSUME items' = items PROVE items'[q] = items[q]
  BY <1>5
<1>6. CASE \/ MainStep \/ UNCHANGED vars
           \/ \E s \in Streams : CallDecoder(s)
           \/ \E t \in Thread : WakeSpuriously(t)
  <2>1. items' = items
    BY <1>6
    DEF MainStep, OpenQueues, StartDecoderThread, DispatchDatablock, JoinParser, AllParsed,
        CloseQueue, CollectDecoder, ReturnToClient, CallDecoder, WakeSpuriously, vars, managerVars,
        BQM!OpenAllBlockingQueues, BQM!CloseBlockingQueue, BQM!SpuriousWakeup
  <2> QED
    BY <1>5, <2>1
<1>7. ASSUME NEW t \in Producer, ParserStep(t), ~PublishRecord(t)
      PROVE  items'[q] = items[q] \/ (items[q] # <<>> /\ items'[q] = Tail(items[q]))
  <2>1. t \in Thread
    BY DEF Thread
  <2>2. CASE GetFromQueue(t)
    BY <1>3, <2>1, <2>2
  <2>3. CASE SkipRecord(t) \/ RejectDatablock(t) \/ ThrowWhileParsing(t)
    BY <1>4, <2>1, <2>3 DEF SkipRecord, RejectDatablock, ThrowWhileParsing
  <2>4. CASE StartParsing(t) \/ NextRecord(t) \/ ParseItems(t) \/ FinishParsing(t)
    BY <2>4 DEF StartParsing, NextRecord, ParseItems, FinishParsing, managerVars,
                BQM!GetObjectPoolForProducer, BQM!SetParsedElement
  <2> QED
    BY <1>7, <2>2, <2>3, <2>4 DEF ParserStep
<1>8. ASSUME NEW t \in Consumer, DecoderStep(t)
      PROVE  items'[q] = items[q] \/ (items[q] # <<>> /\ items'[q] = Tail(items[q]))
  <2>1. t \in Thread
    BY DEF Thread
  <2>2. CASE GetFromQueue(t)
    BY <1>3, <2>1, <2>2
  <2>3. CASE DecodeRecord(t)
    BY <1>4, <2>1, <2>3 DEF DecodeRecord
  <2>4. CASE StartDecoding(t) \/ NextParsedRecord(t) \/ ThrowWhileDecoding(t) \/ FinishDecoding(t)
    BY <2>4 DEF StartDecoding, NextParsedRecord, ThrowWhileDecoding, FinishDecoding, managerVars,
                BQM!GetObjectPoolForConsumer, BQM!AbandonRecord, BQM!ForgetNull
  <2> QED
    BY <1>8, <2>2, <2>3, <2>4 DEF DecoderStep
<1> QED
  BY <1>2, <1>6, <1>7, <1>8 DEF Next

(* A record is published by the parser that fills it, and what it holds    *)
(* does not change while it is.                                            *)
LEMMA PublishedSteps ==
  ASSUME RecordsOwned, HoldsInv, [Next]_vars, NEW r \in BQM!Record, Published(r)'
  PROVE  Published(r) \/ \E t \in Producer : PublishRecord(t) /\ r = held[t]
<1>1. None \notin BQM!Record /\ NullPtr \notin BQM!Record
  BY QueuesAssumption DEF BQM!ManagerAssumption
<1>2. ASSUME NEW q \in {"parsed"} \X BQM!Index, r \in SeqSet(items[q])'
      PROVE  Published(r) \/ \E t \in Producer : PublishRecord(t) /\ r = held[t]
  <2>1. r \in SeqSet(items'[q]) /\ items[q] \in Seq(BQM!Record)
    BY <1>2 DEF SeqSet, RecordsOwned, BQM!TypeOK, BQM!Queue
  <2>2. CASE items'[q] = items[q]
    BY <2>1, <2>2 DEF Published
  <2>3. CASE items[q] # <<>> /\ items'[q] = Tail(items[q])
    BY <2>1, <2>3, SeqSetTail DEF Published
  <2>4. ASSUME NEW t \in Producer, PublishRecord(t), held[t] \in BQM!Record,
               items'[q] = Append(items[q], held[t])
        PROVE  Published(r) \/ r = held[t]
    BY <2>1, <2>4, SeqSetAppend DEF Published
  <2> QED
    BY <2>2, <2>3, <2>4, QueueSteps
<1>3. ASSUME NEW u \in Consumer, held'[u] = r PROVE Published(r)
  <2>1. u \in Thread /\ u \notin Producer
    BY PipelineAssumption DEF Thread
  <2>2. CASE held'[u] = held[u]
    BY <1>3, <2>2 DEF Published
  <2>3. CASE GetFromQueue(u)
    <3>1. SamePlaces
      BY <2>3, TakingParsed
    <3>2. inGet[u] # None /\ inGet[u] \in BQM!Queue /\ BQM!GetObjectPoolFromQueue(u)
      BY <2>1, <2>3, GetGives DEF GetFromQueue, BQM!GetObjectPoolFromQueue
    <3>3. \/ items[inGet[u]] # <<>> /\ held'[u] = items[inGet[u]][1]
          \/ held'[u] \in {held[u], NullPtr}
      BY <2>1, <3>2, GetGives
    <3>4. inGet[u] \in {"parsed"} \X BQM!Index
      BY <3>2 DEF HoldsInv, DecoderHolds, BQM!Queue
    <3>5. items[inGet[u]] # <<>> => 1 \in 1 .. Len(items[inGet[u]])
      BY <3>2 DEF RecordsOwned, BQM!TypeOK
    <3> QED
      BY <1>1, <1>3, <2>2, <3>3, <3>4, <3>5 DEF Published, SeqSet
  <2>4. CASE held'[u] # held[u] /\ ~GetFromQueue(u)
    <3>1. ASSUME NEW t \in Thread, t # u, BQM!GetObjectPoolFromQueue(t) PROVE FALSE
      BY <2>1, <2>4, <3>1, GetGives
    <3>2. ASSUME NEW t \in Thread, t # u,
                 \/ BQM!SetObjectPoolForConsumer(t) \/ BQM!ReleaseObjectPoolForProducer(t)
                 \/ BQM!AbandonRecord(t) \/ BQM!ForgetNull(t)
          PROVE  FALSE
      BY <2>1, <2>4, <3>2, OtherManagerSteps
    <3>3. ASSUME NEW t \in Thread,
                 \/ BQM!GetObjectPoolForProducer(t) \/ BQM!GetObjectPoolForConsumer(t)
                 \/ BQM!SpuriousWakeup(t) \/ BQM!SetParsedElement(t, RecordOf(t))
          PROVE  FALSE
      BY <2>4, <3>3 DEF BQM!GetObjectPoolForProducer, BQM!GetObjectPoolForConsumer,
                        BQM!SpuriousWakeup, BQM!SetParsedElement
    <3>4. ASSUME BQM!ReleaseObjectPoolForProducer(u) \/ BQM!AbandonRecord(u) \/ BQM!ForgetNull(u)
          PROVE  FALSE
      BY <1>1, <1>3, <2>1, <3>4, OtherManagerSteps
    <3>5. ASSUME held' = held PROVE FALSE
      BY <2>4, <3>5
    <3>6. ASSUME NEW t \in Producer, ParserStep(t) PROVE FALSE
      <4>1. t \in Thread /\ t # u
        BY <2>1 DEF Thread
      <4> QED
        BY <3>1, <3>2, <3>3, <3>5, <3>6, <4>1
        DEF ParserStep, StartParsing, NextRecord, ParseItems, PublishRecord, SkipRecord,
            RejectDatablock, ThrowWhileParsing, FinishParsing, GetFromQueue, managerVars
    <3>7. ASSUME NEW t \in Consumer, DecoderStep(t) PROVE FALSE
      <4>1. t \in Thread
        BY DEF Thread
      <4>2. CASE t = u
        BY <2>4, <3>3, <3>4, <3>5, <3>7, <4>1, <4>2
        DEF DecoderStep, StartDecoding, NextParsedRecord, DecodeRecord, ThrowWhileDecoding,
            FinishDecoding, managerVars
      <4>3. CASE t # u
        BY <3>1, <3>2, <3>3, <3>5, <3>7, <4>1, <4>3
        DEF DecoderStep, StartDecoding, NextParsedRecord, DecodeRecord, ThrowWhileDecoding,
            FinishDecoding, GetFromQueue, managerVars
      <4> QED
        BY <4>2, <4>3
    <3>8. CASE \/ MainStep \/ UNCHANGED vars
               \/ \E s \in Streams : CallDecoder(s)
               \/ \E t \in Thread : WakeSpuriously(t)
      <4>1. held' = held
        BY <3>8
        DEF MainStep, OpenQueues, StartDecoderThread, DispatchDatablock, JoinParser, AllParsed,
            CloseQueue, CollectDecoder, ReturnToClient, CallDecoder, WakeSpuriously, vars,
            managerVars, BQM!OpenAllBlockingQueues, BQM!CloseBlockingQueue, BQM!SpuriousWakeup
      <4> QED
        BY <3>5, <4>1
    <3> QED
      BY <3>6, <3>7, <3>8 DEF Next
  <2> QED
    BY <2>2, <2>3, <2>4
<1> QED
  BY <1>2, <1>3 DEF Published

LEMMA ElementsStay ==
  ASSUME RecordsOwned, [Next]_vars, NEW r \in BQM!Record, Published(r), Published(r)'
  PROVE  elements'[r] = elements[r]
<1>1. ASSUME NEW t \in Producer, held[t] \in BQM!Record PROVE held[t] # r
  BY <1>1, HeldAlone DEF Thread
<1>2. ASSUME NEW t \in Producer, BQM!ReleaseObjectPoolForProducer(t)
      PROVE  elements'[r] = elements[r]
  BY <1>1, <1>2, OtherManagerSteps DEF Thread, BQM!ReleaseObjectPoolForProducer
<1>3. ASSUME NEW t \in Producer, ParseItems(t) PROVE elements'[r] = elements[r]
  BY <1>1, <1>3, OtherManagerSteps DEF Thread, ParseItems, InLoopBody
<1>4. ASSUME NEW t \in Consumer, DecodeRecord(t) PROVE elements'[r] = elements[r]
  <2>1. BQM!ReleaseObjectPoolForProducer(t) /\ held[t] \in BQM!Record /\ t \in Thread
    BY <1>4 DEF DecodeRecord, Thread
  <2>2. r # held[t]
    BY <2>1, EndOfPublication
  <2> QED
    BY <2>1, <2>2, OtherManagerSteps
<1>5. ASSUME elements' = elements PROVE elements'[r] = elements[r]
  BY <1>5
<1>6. CASE \/ MainStep \/ UNCHANGED vars
           \/ \E s \in Streams : CallDecoder(s)
           \/ \E t \in Thread : WakeSpuriously(t)
  <2>1. elements' = elements
    BY <1>6
    DEF MainStep, OpenQueues, StartDecoderThread, DispatchDatablock, JoinParser, AllParsed,
        CloseQueue, CollectDecoder, ReturnToClient, CallDecoder, WakeSpuriously, vars, managerVars,
        BQM!OpenAllBlockingQueues, BQM!CloseBlockingQueue, BQM!SpuriousWakeup
  <2> QED
    BY <1>5, <2>1
<1>7. ASSUME NEW t \in Producer, ParserStep(t) PROVE elements'[r] = elements[r]
  <2>1. CASE SkipRecord(t) \/ RejectDatablock(t) \/ ThrowWhileParsing(t)
    BY <1>2, <2>1 DEF SkipRecord, RejectDatablock, ThrowWhileParsing
  <2>2. CASE \/ StartParsing(t) \/ NextRecord(t) \/ PublishRecord(t) \/ FinishParsing(t)
             \/ GetFromQueue(t)
    BY <1>5, <2>2
    DEF StartParsing, NextRecord, PublishRecord, FinishParsing, GetFromQueue, managerVars,
        BQM!GetObjectPoolForProducer, BQM!SetObjectPoolForConsumer, BQM!GetObjectPoolFromQueue
  <2> QED
    BY <1>3, <1>7, <2>1, <2>2 DEF ParserStep
<1>8. ASSUME NEW t \in Consumer, DecoderStep(t) PROVE elements'[r] = elements[r]
  <2>1. CASE \/ StartDecoding(t) \/ NextParsedRecord(t) \/ ThrowWhileDecoding(t)
             \/ FinishDecoding(t) \/ GetFromQueue(t)
    BY <1>5, <2>1
    DEF StartDecoding, NextParsedRecord, ThrowWhileDecoding, FinishDecoding, GetFromQueue,
        managerVars, BQM!GetObjectPoolForConsumer, BQM!AbandonRecord, BQM!ForgetNull,
        BQM!GetObjectPoolFromQueue
  <2> QED
    BY <1>4, <1>8, <2>1 DEF DecoderStep
<1> QED
  BY <1>6, <1>7, <1>8 DEF Next

(* A published ParsedRecord holds one record.                              *)
OneEach == \A r \in BQM!Record : Published(r) => \E id \in RecordId : elements[r] = <<id>>

LEMMA AlwaysOneEach == Spec => []OneEach
<1>1. Init => OneEach
  <2> SUFFICES ASSUME Init PROVE \A r \in BQM!Record : ~Published(r)
    BY DEF OneEach
  <2>1. \A q \in {"parsed"} \X BQM!Index : items[q] = <<>>
    BY DEF Init, BQM!Init, BQM!Queue
  <2>2. \A t \in Consumer : held[t] \notin BQM!Record
    BY QueuesAssumption DEF Init, BQM!Init, BQM!Thread, BQM!ManagerAssumption
  <2> QED
    BY <2>1, <2>2, SeqSetEmpty DEF Published
<1>2. TasksInv /\ PoolsInv /\ RecordsOwned /\ HoldsInv /\ OneEach /\ [Next]_vars => OneEach'
  <2> SUFFICES ASSUME TasksInv, PoolsInv, RecordsOwned, HoldsInv, OneEach, [Next]_vars,
                      NEW r \in BQM!Record, Published(r)'
               PROVE  \E id \in RecordId : elements'[r] = <<id>>
    BY DEF OneEach
  <2>1. CASE Published(r)
    BY <2>1, ElementsStay DEF OneEach
  <2>2. ASSUME NEW t \in Producer, PublishRecord(t), r = held[t]
        PROVE  \E id \in RecordId : elements'[r] = <<id>>
    <3>1. \E id \in RecordId : elements[r] = <<id>>
      BY <2>2, PublishAdds
    <3>2. elements' = elements
      BY <2>2 DEF PublishRecord, BQM!SetObjectPoolForConsumer
    <3> QED
      BY <3>1, <3>2
  <2> QED
    BY <2>1, <2>2, PublishedSteps
<1> QED
  BY <1>1, <1>2, TasksInvariant, PoolsInvariant, ManagerInPipeline, HoldsInvariant, PTL DEF Spec

-----------------------------------------------------------------------------
(* Of two records of a datablock the later one is never further on its way *)
(* than the earlier one.  It may be behind it in the queue, in a queue     *)
(* whose decoder is still busy with the task that took the earlier one or  *)
(* will take up later ones only, in the result of a later task, or with    *)
(* the client already while the earlier one was left behind by an          *)
(* exception: no call gathers records of that one any more.                *)
SameBlock(a, b) == a[1] = b[1] /\ a[2] = b[2]

AheadInQueue(r, s) ==
  LET queue == items[<<"parsed", r[1]>>] IN
    \A i \in 1 .. Len(queue) : queue[i] = r => \E j \in 1 .. Len(queue) : i < j /\ queue[j] = s

DecodedBefore(k, i) ==
  \E u \in Consumer :
    /\ matchMap[u] = i
    /\ running[u] # None => k = running[u] \/ TaskBefore(k, running[u])

NotBehind(p, q) ==
  \/ p[1] = "call"
  \/ p[1] = "record" /\ q[1] = "record" /\ p[2][1] = q[2][1] /\ AheadInQueue(p[2], q[2])
  \/ p[1] = "task" /\ q[1] = "record" /\ DecodedBefore(p[2], q[2][1])
  \/ p[1] = "task" /\ q[1] = "task" /\ (p[2] = q[2] \/ TaskBefore(p[2], q[2]))
  \/ q[1] = "call" /\ ~(pc = "collect" /\ q[2] = call)

BlockOrder ==
  \A p, q \in Place : \A a \in Ids(p), b \in Ids(q) :
    SameBlock(a, b) /\ a[3] < b[3] => NotBehind(p, q)

(* The records of the datablock a parser works on went its way.            *)
BlockLane ==
  \A t \in Producer : \A p \in Place : \A id \in Ids(p) : running[t] = ParseTaskOf(id) =>
    \/ p[1] = "call"
    \/ p[1] = "record" /\ p[2][1] = matchMap[t]
    \/ p[1] = "task" /\ matchMap[t] # None /\ DecodedBefore(p[2], matchMap[t])

InOrder(s) ==
  \A m, n \in 1 .. Len(s) : m < n /\ SameBlock(s[m], s[n]) => s[m][3] < s[n][3]

SequencesInOrder ==
  /\ \A k \in DecodeTask : InOrder(collected[k])
  /\ \A c \in Calls : InOrder(decodedRecords[c])

(* All the invariants these rest on.                                       *)
OrderBase ==
  /\ TasksInv /\ PoolsInv /\ RecordsOwned /\ HoldsInv /\ PlacesInv
  /\ Emptied /\ OwnQueue /\ OneConsumer /\ TaskOrder /\ ResultsInv /\ OneEach

LEMMA CollectedStarted ==
  ASSUME Emptied, TaskOrder, NEW k \in DecodeTask, collected[k] # <<>>
  PROVE  Started(k) /\ (PoolsInv => future[k] \in {"pending", "value"})
<1>1. k \in Task
  BY DEF Task
<1>2. Started(k)
  BY DEF Emptied, TaskOrder, Started
<1>3. PoolsInv => future[k] \in {"pending", "value"}
  BY <1>1 DEF Emptied, PoolsInv, TasksOnce
<1> QED
  BY <1>2, <1>3

(* The queue of a thread stays the same.                                   *)
LEMMA MatchStays ==
  ASSUME RecordsOwned, [Next]_vars, NEW u \in Thread, matchMap[u] # None
  PROVE  matchMap'[u] = matchMap[u]
<1>1. matchMap \in [Thread -> BQM!Index \cup {None}]
  BY DEF RecordsOwned, BQM!TypeOK, BQM!Thread, Thread
<1>2. ASSUME NEW t \in Thread, BQM!GetObjectPoolForProducer(t) \/ BQM!GetObjectPoolForConsumer(t)
      PROVE  matchMap'[u] = matchMap[u]
  BY <1>1, <1>2 DEF BQM!GetObjectPoolForProducer, BQM!GetObjectPoolForConsumer,
                    BQM!ProducerIndex, BQM!ConsumerIndex
<1>3. CASE matchMap' = matchMap
  BY <1>3
<1>4. \/ matchMap' = matchMap
      \/ \E t \in Producer : NextRecord(t)
      \/ \E t \in Consumer : NextParsedRecord(t)
  BY DEF Next, MainStep, ParserStep, DecoderStep, StartParsing, ParseItems, PublishRecord,
     SkipRecord, RejectDatablock, ThrowWhileParsing, FinishParsing, GetFromQueue,
     StartDecoding, DecodeRecord, ThrowWhileDecoding, FinishDecoding, OpenQueues,
     StartDecoderThread, DispatchDatablock, JoinParser, AllParsed, CloseQueue, CollectDecoder,
     ReturnToClient, CallDecoder, WakeSpuriously, managerVars, vars,
     BQM!SetParsedElement, BQM!SetObjectPoolForConsumer, BQM!ReleaseObjectPoolForProducer,
     BQM!GetObjectPoolFromQueue, BQM!AbandonRecord, BQM!ForgetNull, BQM!SpuriousWakeup,
     BQM!OpenAllBlockingQueues, BQM!CloseBlockingQueue
<1> QED
  BY <1>2, <1>3, <1>4 DEF NextRecord, NextParsedRecord, Thread

(* A thread goes on with its task, ends it, or takes one up.               *)
LEMMA RunningSteps ==
  ASSUME TasksInv, [Next]_vars, NEW u \in Thread
  PROVE  \/ running'[u] \in {running[u], None}
         \/ u \in Producer /\ StartParsing(u)
         \/ u \in Consumer /\ StartDecoding(u)
<1>1. running \in [Thread -> Task \cup {None}]
  BY DEF TasksInv
<1>2. ASSUME NEW t \in Thread, t # u, TP!Take(t) PROVE running'[u] = running[u]
  BY <1>1, <1>2 DEF TP!Take
<1>3. ASSUME NEW t \in Thread, NEW o, TP!Complete(t, o) PROVE running'[u] \in {running[u], None}
  BY <1>1, <1>3 DEF TP!Complete
<1>4. ASSUME NEW t \in Producer, ParserStep(t)
      PROVE  running'[u] \in {running[u], None} \/ (u = t /\ StartParsing(t))
  <2>1. t \in Thread
    BY DEF Thread
  <2> QED
    BY <1>2, <1>3, <1>4, <2>1
    DEF ParserStep, StartParsing, NextRecord, ParseItems, PublishRecord, SkipRecord,
        RejectDatablock, ThrowWhileParsing, FinishParsing, GetFromQueue, poolVars
<1>5. ASSUME NEW t \in Consumer, DecoderStep(t)
      PROVE  running'[u] \in {running[u], None} \/ (u = t /\ StartDecoding(t))
  <2>1. t \in Thread
    BY DEF Thread
  <2> QED
    BY <1>2, <1>3, <1>5, <2>1
    DEF DecoderStep, StartDecoding, NextParsedRecord, DecodeRecord, ThrowWhileDecoding,
        FinishDecoding, GetFromQueue, poolVars
<1>6. CASE \/ MainStep \/ UNCHANGED vars
           \/ \E s \in Streams : CallDecoder(s)
           \/ \E t \in Thread : WakeSpuriously(t)
  BY <1>6
  DEF MainStep, OpenQueues, StartDecoderThread, DispatchDatablock, JoinParser, AllParsed,
      CloseQueue, CollectDecoder, ReturnToClient, RaiseFrom, CallDecoder, WakeSpuriously, vars,
      poolVars, TP!Enqueue, TP!GetResult
<1> QED
  BY <1>4, <1>5, <1>6 DEF Next

(* The order of a queue outlives what happens to the queue.                *)
LEMMA AheadStays ==
  ASSUME RecordsOwned, HoldsInv, [Next]_vars,
         NEW r \in BQM!Record, NEW s \in BQM!Record, Published(r), AheadInQueue(r, s)
  PROVE  AheadInQueue(r, s)'
<1>1. PICK q : q = <<"parsed", r[1]>>
  OBVIOUS
<1>2. q \in {"parsed"} \X BQM!Index /\ q \in BQM!Queue
  BY <1>1 DEF BQM!Record, BQM!Queue
<1>3. PICK queue : queue = items[q]
  OBVIOUS
<1>4. /\ queue \in Seq(BQM!Record) /\ Len(queue) \in Nat
      /\ \A i \in 1 .. Len(queue) : queue[i] = r => \E j \in 1 .. Len(queue) : i < j /\ queue[j] = s
  <2>1. queue \in Seq(BQM!Record)
    BY <1>2, <1>3 DEF RecordsOwned, BQM!TypeOK
  <2>2. \A i \in 1 .. Len(queue) : queue[i] = r => \E j \in 1 .. Len(queue) : i < j /\ queue[j] = s
    BY <1>1, <1>3 DEF AheadInQueue
  <2> QED
    BY <2>1, <2>2
<1> SUFFICES \A i \in 1 .. Len(items'[q]) : items'[q][i] = r =>
               \E j \in 1 .. Len(items'[q]) : i < j /\ items'[q][j] = s
  BY <1>1 DEF AheadInQueue
<1>5. CASE items'[q] = queue
  BY <1>4, <1>5
<1>6. CASE queue # <<>> /\ items'[q] = Tail(queue)
  <2>1. /\ Len(Tail(queue)) + 1 = Len(queue) /\ Len(Tail(queue)) \in Nat
        /\ \A i \in 1 .. Len(Tail(queue)) : Tail(queue)[i] = queue[i + 1]
    BY <1>4, <1>6
  <2> SUFFICES ASSUME NEW i \in 1 .. Len(Tail(queue)), Tail(queue)[i] = r
               PROVE  \E j \in 1 .. Len(Tail(queue)) : i < j /\ Tail(queue)[j] = s
    BY <1>6
  <2>2. i + 1 \in 1 .. Len(queue) /\ queue[i + 1] = r
    BY <2>1
  <2>3. PICK j \in 1 .. Len(queue) : i + 1 < j /\ queue[j] = s
    BY <1>4, <2>2
  <2>4. j - 1 \in 1 .. Len(Tail(queue)) /\ i < j - 1 /\ (j - 1) + 1 = j
    BY <1>4, <2>1, <2>3
  <2>5. Tail(queue)[j - 1] = s
    BY <2>1, <2>3, <2>4
  <2> QED
    BY <2>4, <2>5
<1>7. ASSUME NEW t \in Producer, held[t] \in BQM!Record, items'[q] = Append(queue, held[t])
      PROVE  \A i \in 1 .. Len(items'[q]) : items'[q][i] = r =>
               \E j \in 1 .. Len(items'[q]) : i < j /\ items'[q][j] = s
  <2>1. held[t] # r
    BY <1>7, HeldAlone DEF Thread
  <2>2. /\ Len(items'[q]) = Len(queue) + 1 /\ items'[q][Len(queue) + 1] = held[t]
        /\ \A i \in 1 .. Len(queue) : items'[q][i] = queue[i]
    BY <1>4, <1>7
  <2> SUFFICES ASSUME NEW i \in 1 .. Len(queue) + 1, items'[q][i] = r
               PROVE  \E j \in 1 .. Len(queue) + 1 : i < j /\ items'[q][j] = s
    BY <2>2
  <2>3. i \in 1 .. Len(queue) /\ queue[i] = r
    BY <1>4, <2>1, <2>2
  <2>4. PICK j \in 1 .. Len(queue) : i < j /\ queue[j] = s
    BY <1>4, <2>3
  <2> QED
    BY <1>4, <2>2, <2>4
<1> QED
  BY <1>2, <1>3, <1>5, <1>6, <1>7, QueueSteps

(* A decoder that is past a task stays past it: it takes up later ones.    *)
LEMMA DecodedStays ==
  ASSUME TasksInv, PoolsInv, RecordsOwned, TaskOrder, [Next]_vars,
         NEW k \in DecodeTask, Started(k), NEW i \in BQM!Index, DecodedBefore(k, i)
  PROVE  DecodedBefore(k, i)'
<1>1. PICK u \in Consumer : matchMap[u] = i /\ (running[u] # None => k = running[u] \/ TaskBefore(k, running[u]))
  BY DEF DecodedBefore
<1>2. u \in Thread /\ i # None /\ u \notin Producer
  BY QueuesAssumption, PipelineAssumption DEF BQM!ManagerAssumption, Thread
<1>3. matchMap'[u] = i
  BY <1>1, <1>2, MatchStays
<1>4. running'[u] # None => k = running'[u] \/ TaskBefore(k, running'[u])
  <2>1. CASE running'[u] \in {running[u], None}
    BY <1>1, <2>1
  <2>2. CASE StartDecoding(u)
    BY <2>2, TakeKeepsOrder
  <2> QED
    BY <1>2, <2>1, <2>2, RunningSteps
<1>5. DecodedBefore(k, i)' <=>
        \E v \in Consumer : matchMap'[v] = i /\ (running'[v] # None => k = running'[v] \/ TaskBefore(k, running'[v]))
  BY DEF DecodedBefore, TaskBefore
<1> QED
  BY <1>3, <1>4, <1>5

(* A call begins to gather with nothing gathered.                          *)
LEMMA GatheringStarts ==
  ASSUME PlacesInv, [Next]_vars, pc' = "collect"
  PROVE  /\ call' = call
         /\ pc = "collect" \/ decodedRecords[call] = <<>>
<1>1. CASE MainStep
  <2>1. pc \in {"collect", "close"} /\ call' = call
    BY <1>1 DEF MainStep, OpenQueues, StartDecoderThread, DispatchDatablock, JoinParser, AllParsed,
                CloseQueue, CollectDecoder, ReturnToClient, RaiseFrom, callVars, Goto
  <2> QED
    BY <2>1 DEF PlacesInv
<1>2. CASE ~MainStep
  <2>1. pc = "collect" /\ call' = call
    BY <1>2
    DEF Next, ParserStep, DecoderStep, StartParsing, NextRecord, ParseItems, PublishRecord,
        SkipRecord, RejectDatablock, ThrowWhileParsing, FinishParsing, GetFromQueue,
        StartDecoding, NextParsedRecord, DecodeRecord, ThrowWhileDecoding, FinishDecoding,
        CallDecoder, WakeSpuriously, mainVars, callVars, vars, Goto
  <2> QED
    BY <2>1
<1> QED
  BY <1>1, <1>2

(* A place that is not behind another does not fall behind while both have *)
(* their records.                                                          *)
LEMMA NotBehindStays ==
  ASSUME OrderBase, [Next]_vars, NEW p \in Place, NEW q \in Place,
         Ids(p) # {}, Ids(q) # {}, NotBehind(p, q)
  PROVE  NotBehind(p, q)'
<1>1. CASE p[1] = "call"
  BY <1>1 DEF NotBehind
<1>2. CASE p[1] = "record" /\ q[1] = "record" /\ p[2][1] = q[2][1] /\ AheadInQueue(p[2], q[2])
  <2>1. PICK r, s : r = p[2] /\ s = q[2]
    OBVIOUS
  <2>2. r \in BQM!Record /\ s \in BQM!Record /\ Published(r)
    BY <1>2, <2>1 DEF Place, Ids
  <2>3. AheadInQueue(r, s)'
    BY <1>2, <2>1, <2>2, AheadStays DEF OrderBase
  <2> QED
    BY <1>2, <2>1, <2>3 DEF NotBehind
<1>3. CASE p[1] = "task" /\ q[1] = "record" /\ DecodedBefore(p[2], q[2][1])
  <2>1. PICK k, i : k = p[2] /\ i = q[2][1]
    OBVIOUS
  <2>2. k \in DecodeTask /\ i \in BQM!Index
    BY <1>3, <2>1 DEF Place, BQM!Record
  <2>3. Started(k)
    BY <1>3, <2>1, <2>2, SeqSetEmpty, CollectedStarted DEF Ids, OrderBase
  <2>4. DecodedBefore(k, i)'
    BY <1>3, <2>1, <2>2, <2>3, DecodedStays DEF OrderBase
  <2> QED
    BY <1>3, <2>1, <2>4 DEF NotBehind
<1>4. CASE p[1] = "task" /\ q[1] = "task" /\ (p[2] = q[2] \/ TaskBefore(p[2], q[2]))
  BY <1>4 DEF NotBehind, TaskBefore
<1>5. CASE q[1] = "call" /\ ~(pc = "collect" /\ q[2] = call)
  <2>1. decodedRecords[q[2]] # <<>>
    BY <1>5, SeqSetEmpty DEF Ids
  <2>2. ~(pc' = "collect" /\ q[2] = call')
    BY <1>5, <2>1, GatheringStarts DEF OrderBase
  <2> QED
    BY <1>5, <2>2 DEF NotBehind
<1> QED
  BY <1>1, <1>2, <1>3, <1>4, <1>5 DEF NotBehind

OrderInv == BlockOrder /\ BlockLane /\ SequencesInOrder

(* Pairs of records that stay where they are, and pairs that come about.   *)
LEMMA KnownPair ==
  ASSUME OrderBase, [Next]_vars, BlockOrder, NEW p \in Place, NEW q \in Place,
         NEW a \in Ids(p), NEW b \in Ids(q), SameBlock(a, b), a[3] < b[3]
  PROVE  NotBehind(p, q) /\ NotBehind(p, q)'
<1>1. NotBehind(p, q)
  BY DEF BlockOrder
<1> QED
  BY <1>1, NotBehindStays

LEMMA NewPairs ==
  ASSUME \A p, q \in Place : \A a \in Ids(p)', b \in Ids(q)' :
           SameBlock(a, b) /\ a[3] < b[3] => NotBehind(p, q)'
  PROVE  BlockOrder'
BY DEF BlockOrder, SameBlock

LEMMA DropsKeepOrder ==
  ASSUME OrderBase, [Next]_vars, BlockOrder, Drops
  PROVE  BlockOrder'
<1>1. ASSUME NEW p \in Place, NEW q \in Place, NEW a \in Ids(p)', NEW b \in Ids(q)',
             SameBlock(a, b), a[3] < b[3]
      PROVE  NotBehind(p, q)'
  <2>1. a \in Ids(p) /\ b \in Ids(q)
    BY DEF Drops
  <2> QED
    BY <1>1, <2>1, KnownPair
<1> QED
  BY <1>1, NewPairs

(* The record being published is the latest of its datablock and the last  *)
(* of its queue.                                                           *)
LEMMA PublishKeepsOrder ==
  ASSUME OrderBase, [Next]_vars, BlockOrder, BlockLane, NEW t \in Producer, PublishRecord(t)
  PROVE  BlockOrder'
<1>1. PICK r \in BQM!Record, id \in RecordId :
        r = held[t] /\ id = RecordOf(t) /\ elements[r] = <<id>> /\ Adds(<<"record", r>>, id)
  BY PublishAdds DEF OrderBase
<1>2. PICK x : x = <<"record", r>>
  OBVIOUS
<1>3. x \in Place /\ Ids(x)' = {id} /\ \A p \in Place : p # x => Ids(p)' = Ids(p)
  BY <1>1, <1>2 DEF Adds
<1>4. running[t] = ParseTaskOf(id) /\ id[3] = cursor[t] /\ id[3] \in Nat
  <2>1. running[t] \in ParseTask /\ running[t][1] = "parse"
    BY DEF PublishRecord, InLoopBody, Parsing, OrderBase, TasksInv, Given, ParseTask
  <2> QED
    BY <1>1, <2>1 DEF RecordOf, ParseTaskOf, ParseTask, RecordId
<1>5. r[1] = matchMap[t] /\ t \in Thread
  BY <1>1 DEF OrderBase, OwnQueue, Thread
<1>6. ASSUME NEW p \in Place, p # x, NEW a \in Ids(p), SameBlock(a, id), a[3] < id[3]
      PROVE  NotBehind(p, x)'
  <2>1. running[t] = ParseTaskOf(a)
    BY <1>4, <1>6 DEF ParseTaskOf, SameBlock
  <2>2. CASE p[1] = "call"
    BY <2>2 DEF NotBehind
  <2>3. CASE p[1] = "record" /\ p[2][1] = matchMap[t]
    <3>1. PICK s \in BQM!Record : p = <<"record", s>>
      BY <2>3, PlaceKinds
    <3>2. s # r /\ s[1] = r[1]
      BY <1>2, <1>5, <1>6, <2>3, <3>1
    <3>3. PICK q : q = <<"parsed", r[1]>>
      OBVIOUS
    <3>4. q \in {"parsed"} \X BQM!Index /\ q \in BQM!Queue /\ items[q] \in Seq(BQM!Record)
          /\ items \in [BQM!Queue -> Seq(BQM!Record)]
      BY <3>3 DEF OrderBase, RecordsOwned, BQM!TypeOK, BQM!Queue, BQM!Record
    <3>5. items'[q] = Append(items[q], r)
      BY <1>1, <3>3, <3>4 DEF PublishRecord, BQM!SetObjectPoolForConsumer, BQM!MembershipQueue
    <3>6. \A i \in 1 .. Len(items'[q]) : items'[q][i] = s =>
            \E j \in 1 .. Len(items'[q]) : i < j /\ items'[q][j] = r
      <4>1. /\ Len(items'[q]) = Len(items[q]) + 1 /\ Len(items[q]) \in Nat
            /\ items'[q][Len(items[q]) + 1] = r
        BY <3>4, <3>5
      <4> QED
        BY <3>2, <4>1
    <3>7. AheadInQueue(s, r)'
      BY <3>2, <3>3, <3>6 DEF AheadInQueue
    <3> QED
      BY <1>2, <2>3, <3>1, <3>2, <3>7 DEF NotBehind
  <2>4. CASE p[1] = "task" /\ matchMap[t] # None /\ DecodedBefore(p[2], matchMap[t])
    <3>1. NotBehind(p, x) /\ Ids(p) # {}
      BY <1>2, <1>5, <1>6, <2>4 DEF NotBehind
    <3>2. PICK k, i : k = p[2] /\ i = r[1]
      OBVIOUS
    <3>3. k \in DecodeTask /\ i \in BQM!Index
      BY <2>4, <3>2 DEF Place, BQM!Record
    <3>4. Started(k)
      BY <2>4, <3>1, <3>2, <3>3, SeqSetEmpty, CollectedStarted DEF Ids, OrderBase
    <3>5. DecodedBefore(k, i)'
      BY <1>5, <2>4, <3>2, <3>3, <3>4, DecodedStays DEF OrderBase
    <3> QED
      BY <1>2, <2>4, <3>2, <3>5 DEF NotBehind
  <2> QED
    BY <1>6, <2>1, <2>2, <2>3, <2>4 DEF BlockLane
<1>7. ASSUME NEW q \in Place, NEW b \in Ids(q), SameBlock(id, b), id[3] < b[3]
      PROVE  FALSE
  <2>1. b \in RecordId /\ Passed(b) /\ ParseTaskOf(b) = ParseTaskOf(id)
    BY <1>7 DEF OrderBase, PlacesInv, ParseTaskOf, SameBlock
  <2>2. b[3] < cursor[t] /\ b[3] \in Nat
    BY <1>4, <2>1 DEF Passed, RecordId
  <2> QED
    BY <1>4, <1>7, <2>2
<1>8. ASSUME NEW p \in Place, NEW q \in Place, NEW a \in Ids(p)', NEW b \in Ids(q)',
             SameBlock(a, b), a[3] < b[3]
      PROVE  NotBehind(p, q)'
  <2>1. CASE p # x /\ q # x
    BY <1>3, <1>8, <2>1, KnownPair
  <2>2. CASE p # x /\ q = x
    BY <1>3, <1>6, <1>8, <2>2
  <2>3. CASE p = x
    BY <1>3, <1>4, <1>7, <1>8, <2>3
  <2> QED
    BY <2>1, <2>2, <2>3
<1> QED
  BY <1>8, NewPairs

(* The record a decoder is done with was the first of those it may still   *)
(* get, and its task is the latest that took up records of this queue.     *)
LEMMA DecodeKeepsOrder ==
  ASSUME OrderBase, [Next]_vars, BlockOrder, NEW t \in Consumer, DecodeRecord(t)
  PROVE  BlockOrder'
<1>1. PICK r \in BQM!Record, k \in DecodeTask :
        r = held[t] /\ k = running[t] /\ Moves(<<"record", r>>, <<"task", k>>)
  BY DecodeMoves DEF OrderBase
<1>2. PICK x, y : x = <<"record", r>> /\ y = <<"task", k>>
  OBVIOUS
<1>3. /\ x \in Place /\ y \in Place /\ x # y /\ Ids(x)' = {} /\ Ids(y)' = Ids(y) \cup Ids(x)
      /\ \A p \in Place : p # x /\ p # y => Ids(p)' = Ids(p)
  BY <1>1, <1>2 DEF Moves
<1>4. /\ t \in Thread /\ k # None /\ r[1] = matchMap[t] /\ r[1] \in BQM!Index /\ r[1] # None
      /\ r[1] = matchMap'[t] /\ running'[t] = k
  <2>1. t \in Thread /\ k # None /\ r[1] = matchMap[t] /\ r[1] \in BQM!Index /\ r[1] # None
    BY <1>1, QueuesAssumption
    DEF DecodeRecord, Decoding, OrderBase, OwnQueue, Thread, BQM!Record, BQM!ManagerAssumption
  <2>2. running' = running
    BY DEF DecodeRecord, poolVars
  <2> QED
    BY <1>1, <2>1, <2>2, MatchStays DEF OrderBase
<1>5. PICK b0 \in RecordId : elements[r] = <<b0>>
  BY <1>1 DEF OrderBase, OneEach, Published
<1>6. Ids(x) = {b0}
  <2>1. Published(r) /\ SeqSet(<<b0>>) = {b0}
    BY <1>1 DEF Published, SeqSet
  <2> QED
    BY <1>2, <1>5, <2>1 DEF Ids
<1>7. ASSUME NEW p \in Place, p # x, NEW a \in Ids(p), SameBlock(a, b0), a[3] < b0[3]
      PROVE  NotBehind(p, y)'
  <2>1. NotBehind(p, x)
    BY <1>3, <1>6, <1>7 DEF BlockOrder
  <2>2. CASE p[1] = "call"
    BY <2>2 DEF NotBehind
  <2>3. CASE p[1] = "record" /\ p[2][1] = r[1] /\ AheadInQueue(p[2], r)
    <3>1. PICK s \in BQM!Record : p = <<"record", s>>
      BY <2>3, PlaceKinds
    <3>2. Published(s) /\ s # r /\ s[1] = r[1]
      BY <1>2, <1>7, <2>3, <3>1 DEF Ids
    <3>3. \A q \in BQM!Queue : r \notin SeqSet(items[q])
      BY <1>1, <1>4, HeldAlone DEF OrderBase
    <3>4. \A i \in 1 .. Len(items[<<"parsed", r[1]>>]) : items[<<"parsed", r[1]>>][i] # s
      <4>1. <<"parsed", r[1]>> \in BQM!Queue
        BY <1>4 DEF BQM!Queue
      <4> QED
        BY <2>3, <3>1, <3>2, <3>3, <4>1 DEF AheadInQueue, SeqSet
    <3>5. ASSUME NEW q \in {"parsed"} \X BQM!Index, s \in SeqSet(items[q]) PROVE FALSE
      <4>1. q \in BQM!Queue /\ q = <<"parsed", q[2]>>
        BY DEF BQM!Queue
      <4>2. q[2] = s[1]
        BY <3>5, <4>1
        DEF OrderBase, RecordsOwned, BQM!Ownership, BQM!HomeQueue, BQM!MembershipQueue, SeqSet
      <4> QED
        BY <3>2, <3>4, <3>5, <4>1, <4>2 DEF SeqSet
    <3>6. PICK u \in Consumer : held[u] = s
      BY <3>2, <3>5 DEF Published
    <3>7. s[1] = matchMap[u]
      BY <3>6 DEF OrderBase, OwnQueue, Thread
    <3> QED
      BY <1>1, <1>4, <3>2, <3>6, <3>7 DEF OrderBase, OneConsumer
  <2>4. CASE p[1] = "task" /\ DecodedBefore(p[2], r[1])
    <3>1. p[2] = k \/ TaskBefore(p[2], k)
      BY <1>1, <1>4, <2>4 DEF DecodedBefore, OrderBase, OneConsumer
    <3> QED
      BY <1>2, <2>4, <3>1 DEF NotBehind, TaskBefore
  <2> QED
    BY <1>2, <2>1, <2>2, <2>3, <2>4 DEF NotBehind
<1>8. ASSUME NEW q \in Place, q # x, NEW b \in Ids(q), SameBlock(b0, b), b0[3] < b[3]
      PROVE  NotBehind(y, q)'
  <2>1. NotBehind(x, q) /\ NotBehind(x, q)'
    BY <1>3, <1>6, <1>8, KnownPair
  <2>2. CASE q[1] = "record" /\ r[1] = q[2][1]
    <3>1. \E u \in Consumer : matchMap'[u] = r[1] /\ (running'[u] # None => k = running'[u] \/ TaskBefore(k, running'[u]))
      BY <1>4
    <3>2. DecodedBefore(k, r[1])'
      BY <3>1 DEF DecodedBefore, TaskBefore
    <3> QED
      BY <1>2, <2>2, <3>2 DEF NotBehind
  <2>3. CASE q[1] = "call" /\ ~(pc' = "collect" /\ q[2] = call')
    BY <2>3 DEF NotBehind
  <2> QED
    BY <1>2, <2>1, <2>2, <2>3 DEF NotBehind
<1>9. ASSUME NEW p \in Place, NEW q \in Place, NEW a \in Ids(p)', NEW b \in Ids(q)',
             SameBlock(a, b), a[3] < b[3]
      PROVE  NotBehind(p, q)'
  <2>1. p # x /\ q # x
    BY <1>3, <1>9
  <2>2. CASE a \in Ids(p) /\ b \in Ids(q)
    BY <1>9, <2>2, KnownPair
  <2>3. CASE a \in Ids(p) /\ b \notin Ids(q)
    <3>1. q = y /\ b = b0
      BY <1>3, <1>6, <2>1, <2>3
    <3> QED
      BY <1>7, <1>9, <2>1, <2>3, <3>1
  <2>4. CASE a \notin Ids(p)
    <3>1. p = y /\ a = b0
      BY <1>3, <1>6, <2>1, <2>4
    <3>2. b \in Ids(q)
      <4>1. b0[3] \in Nat
        BY DEF RecordId
      <4>2. b # b0
        BY <1>9, <3>1, <4>1
      <4> QED
        BY <1>3, <1>6, <2>1, <4>2
    <3> QED
      BY <1>8, <1>9, <2>1, <3>1, <3>2
  <2> QED
    BY <2>2, <2>3, <2>4
<1> QED
  BY <1>9, NewPairs

(* The calling thread gathers the results in the order the tasks ran.      *)
LEMMA CollectKeepsOrder ==
  ASSUME OrderBase, [Next]_vars, BlockOrder, CollectDecoder, pc' = pc
  PROVE  BlockOrder'
<1>1. PICK k \in DecodeTask, c \in Calls :
        k = decodingResults[step] /\ c = call /\ Moves(<<"task", k>>, <<"call", c>>)
  BY CollectMoves DEF OrderBase
<1>2. PICK x, y : x = <<"task", k>> /\ y = <<"call", c>>
  OBVIOUS
<1>3. /\ x \in Place /\ y \in Place /\ x # y /\ Ids(x)' = {} /\ Ids(y)' = Ids(y) \cup Ids(x)
      /\ \A p \in Place : p # x /\ p # y => Ids(p)' = Ids(p)
  BY <1>1, <1>2 DEF Moves
<1>4. /\ pc = "collect" /\ step \in 1 .. Len(decodingResults)
      /\ decodingResults \in Seq(DecodeTask)
  BY DEF CollectDecoder, OrderBase, TasksInv, PoolsInv, PoolsTyped
<1>5. ASSUME NEW l \in DecodeTask, l # k, collected[l] # <<>> PROVE ~TaskBefore(l, k)
  <2>1. future[l] \in {"pending", "value"}
    BY <1>5, CollectedStarted DEF OrderBase
  <2>2. PICK i \in 1 .. Len(decodingResults) : decodingResults[i] = l
    BY <2>1 DEF OrderBase, ResultsInv, SeqSet
  <2>3. ~(i < step)
    BY <1>4, <2>1, <2>2 DEF OrderBase, ResultsInv
  <2>4. step < i
    BY <1>1, <1>4, <1>5, <2>2, <2>3
  <2>5. TaskBefore(k, l)
    BY <1>1, <1>4, <2>2, <2>4 DEF OrderBase, TaskOrder, Sorted
  <2>6. k[2] \in Nat /\ k[3] \in Nat /\ l[2] \in Nat /\ l[3] \in Nat
    BY DEF DecodeTask, Calls
  <2> QED
    BY <2>5, <2>6 DEF TaskBefore
<1>6. ASSUME NEW p \in Place, p # x, NEW a \in Ids(p), NEW b \in Ids(x),
             SameBlock(a, b), a[3] < b[3]
      PROVE  p[1] = "call"
  <2>1. NotBehind(p, x)
    BY <1>3, <1>6 DEF BlockOrder
  <2>2. CASE p[1] = "task"
    <3>1. PICK l \in DecodeTask : p = <<"task", l>>
      BY <2>2, PlaceKinds
    <3>2. l # k /\ collected[l] # <<>>
      BY <1>2, <1>6, <3>1, SeqSetEmpty DEF Ids
    <3> QED
      BY <1>2, <1>5, <2>1, <3>1, <3>2 DEF NotBehind
  <2> QED
    BY <1>2, <2>1, <2>2, PlaceKinds DEF NotBehind
<1>7. ASSUME NEW p \in Place, NEW q \in Place, NEW a \in Ids(p)', NEW b \in Ids(q)',
             SameBlock(a, b), a[3] < b[3]
      PROVE  NotBehind(p, q)'
  <2>1. p # x /\ q # x
    BY <1>3, <1>7
  <2>2. CASE p = y
    BY <1>2, <2>2 DEF NotBehind
  <2>3. CASE p # y /\ b \in Ids(q)
    BY <1>3, <1>7, <2>1, <2>3, KnownPair
  <2>4. CASE p # y /\ b \notin Ids(q)
    <3>1. q = y /\ b \in Ids(x) /\ a \in Ids(p)
      BY <1>3, <2>1, <2>4
    <3>2. p[1] = "call"
      BY <1>6, <1>7, <2>1, <3>1
    <3> QED
      BY <3>2 DEF NotBehind
  <2> QED
    BY <2>2, <2>3, <2>4
<1> QED
  BY <1>7, NewPairs

(* What a step does to the sequences records are gathered in.              *)
SequencesStay ==
  /\ \A k \in DecodeTask : collected'[k] \in {collected[k], <<>>}
  /\ \A c \in Calls : decodedRecords'[c] \in {decodedRecords[c], <<>>}

LEMMA OrderSteps ==
  ASSUME OrderBase, [Next]_vars
  PROVE  \/ Drops /\ SequencesStay
         \/ SequencesStay /\ \E t \in Producer : PublishRecord(t)
         \/ \E t \in Consumer : DecodeRecord(t)
         \/ CollectDecoder /\ pc' = pc
<1>1. ASSUME UNCHANGED <<collected, decodedRecords>> PROVE SequencesStay
  BY <1>1 DEF SequencesStay
<1>2. ASSUME NEW t \in Producer, ParserStep(t)
      PROVE  SequencesStay /\ (Drops \/ PublishRecord(t))
  <2>1. UNCHANGED <<collected, decodedRecords>>
    BY <1>2 DEF ParserStep, StartParsing, NextRecord, ParseItems, PublishRecord, SkipRecord,
                RejectDatablock, ThrowWhileParsing, FinishParsing, GetFromQueue, callVars
  <2> QED
    BY <1>1, <1>2, <2>1, ParserPlaces, SameDrops DEF OrderBase
<1>3. ASSUME NEW t \in Consumer, DecoderStep(t)
      PROVE  (SequencesStay /\ Drops) \/ DecodeRecord(t)
  <2>1. CASE ThrowWhileDecoding(t)
    <3>1. SequencesStay
      BY <2>1 DEF ThrowWhileDecoding, callVars, SequencesStay, OrderBase, PlacesInv
    <3>2. SamePlaces \/ Drops \/ DecodeRecord(t)
      BY <1>3, DecoderPlaces DEF OrderBase
    <3> QED
      BY <3>1, <3>2, SameDrops
  <2>2. CASE ~ThrowWhileDecoding(t) /\ ~DecodeRecord(t)
    <3>1. UNCHANGED <<collected, decodedRecords>>
      BY <1>3, <2>2 DEF DecoderStep, StartDecoding, NextParsedRecord, FinishDecoding, GetFromQueue,
                        callVars
    <3> QED
      BY <1>1, <1>3, <2>2, <3>1, DecoderPlaces, SameDrops DEF OrderBase
  <2> QED
    BY <2>1, <2>2
<1>4. CASE MainStep
  <2>1. SequencesStay \/ (CollectDecoder /\ pc' = pc)
    <3>1. CASE CollectDecoder
      BY <3>1 DEF CollectDecoder, RaiseFrom, SequencesStay, OrderBase, PlacesInv
    <3>2. CASE JoinParser
      BY <3>2 DEF JoinParser, RaiseFrom, SequencesStay, OrderBase, PlacesInv
    <3>3. CASE ~CollectDecoder /\ ~JoinParser
      BY <1>1, <1>4, <3>3 DEF MainStep, OpenQueues, StartDecoderThread, DispatchDatablock,
                              AllParsed, CloseQueue, ReturnToClient, callVars
    <3> QED
      BY <3>1, <3>2, <3>3
  <2>2. Drops \/ (CollectDecoder /\ pc' = pc)
    BY <1>4, MainPlaces DEF OrderBase
  <2> QED
    BY <2>1, <2>2
<1>5. CASE \/ UNCHANGED vars
           \/ \E s \in Streams : CallDecoder(s)
           \/ \E t \in Thread : WakeSpuriously(t)
  <2>1. UNCHANGED <<items, held, elements, collected, decodedRecords>>
    BY <1>5 DEF CallDecoder, WakeSpuriously, BQM!SpuriousWakeup, callVars, managerVars, vars
  <2> QED
    BY <1>1, <2>1, PublishedSame, PlacesSame, SameDrops
<1> QED
  BY <1>2, <1>3, <1>4, <1>5 DEF Next

(* A parser that takes up a datablock finds none of its records anywhere.  *)
LEMMA LaneContinues ==
  ASSUME OrderBase, [Next]_vars, NEW t \in Producer, NEW p \in Place, NEW id \in Ids(p),
         running'[t] = ParseTaskOf(id)
  PROVE  running[t] = ParseTaskOf(id)
<1>1. t \in Thread /\ id \in RecordId /\ Passed(id) /\ t \notin Consumer
  BY PipelineAssumption DEF OrderBase, PlacesInv, Thread
<1>2. ParseTaskOf(id) # None
  <2>1. ParseTaskOf(id) \in Task
    BY <1>1 DEF RecordId, ParseTaskOf, ParseTask, Task
  <2> QED
    BY <2>1, PipelineAssumption
<1>3. ASSUME StartParsing(t) PROVE FALSE
  <2>1. tasks["parser"] # <<>> /\ running' = [running EXCEPT ![t] = Head(tasks["parser"])]
    BY <1>1, <1>3 DEF StartParsing, TP!Take, PoolOf
  <2>2. /\ tasks["parser"] \in Seq(Task) /\ running \in [Thread -> Task \cup {None}]
    BY DEF OrderBase, TasksInv, Pool
  <2>3. 1 \in 1 .. Len(tasks["parser"]) /\ running'[t] = tasks["parser"][1]
    BY <1>1, <2>1, <2>2
  <2> QED
    BY <1>1, <2>3 DEF Passed
<1> QED
  BY <1>1, <1>2, <1>3, RunningSteps DEF OrderBase

LEMMA LaneStays ==
  ASSUME OrderBase, [Next]_vars, BlockLane,
         NEW t \in Producer, NEW p \in Place, NEW id \in Ids(p), running'[t] = ParseTaskOf(id)
  PROVE  \/ p[1] = "call"
         \/ p[1] = "record" /\ p[2][1] = matchMap[t] /\ p[2][1] = matchMap'[t]
         \/ p[1] = "task" /\ matchMap'[t] # None /\ DecodedBefore(p[2], matchMap[t])'
<1>1. t \in Thread /\ running[t] = ParseTaskOf(id)
  BY LaneContinues DEF Thread
<1>2. CASE p[1] = "record" /\ p[2][1] = matchMap[t]
  <2>1. p[2][1] \in BQM!Index /\ p[2][1] # None
    BY <1>2, QueuesAssumption DEF Place, BQM!Record, BQM!ManagerAssumption
  <2> QED
    BY <1>1, <1>2, <2>1, MatchStays DEF OrderBase
<1>3. CASE p[1] = "task" /\ matchMap[t] # None /\ DecodedBefore(p[2], matchMap[t])
  <2>1. PICK k, i : k = p[2] /\ i = matchMap[t]
    OBVIOUS
  <2>2. k \in DecodeTask /\ i \in BQM!Index
    <3>1. matchMap[t] \in BQM!Index \cup {None}
      BY <1>1 DEF OrderBase, RecordsOwned, BQM!TypeOK, BQM!Thread, Thread
    <3> QED
      BY <1>3, <2>1, <3>1 DEF Place
  <2>3. Started(k)
    BY <1>3, <2>1, <2>2, SeqSetEmpty, CollectedStarted DEF Ids, OrderBase
  <2>4. matchMap'[t] = i /\ DecodedBefore(k, i)'
    BY <1>1, <1>3, <2>1, <2>2, <2>3, MatchStays, DecodedStays DEF OrderBase
  <2> QED
    BY <1>3, <2>1, <2>4
<1> QED
  BY <1>1, <1>2, <1>3 DEF BlockLane

LEMMA LaneKept ==
  ASSUME OrderBase, [Next]_vars, BlockLane
  PROVE  BlockLane'
<1> SUFFICES ASSUME NEW t \in Producer, NEW p \in Place, NEW id \in Ids(p)',
                    running'[t] = ParseTaskOf(id)
             PROVE  \/ p[1] = "call"
                    \/ p[1] = "record" /\ p[2][1] = matchMap'[t]
                    \/ p[1] = "task" /\ matchMap'[t] # None /\ DecodedBefore(p[2], matchMap[t])'
  BY DEF BlockLane, ParseTaskOf, DecodedBefore
<1>1. CASE id \in Ids(p)
  BY <1>1, LaneStays
<1>2. CASE Drops
  BY <1>1, <1>2 DEF Drops
<1>3. ASSUME NEW u \in Producer, PublishRecord(u), id \notin Ids(p)
      PROVE  p[1] = "record" /\ p[2][1] = matchMap'[t]
  <2>1. PICK r \in BQM!Record, new \in RecordId :
          r = held[u] /\ new = RecordOf(u) /\ elements[r] = <<new>> /\ Adds(<<"record", r>>, new)
    BY <1>3, PublishAdds DEF OrderBase
  <2>2. p = <<"record", r>> /\ id = new
    BY <1>3, <2>1 DEF Adds
  <2>3. running[u] = ParseTaskOf(id) /\ running' = running /\ running[u] # None
    <3>1. running[u] \in ParseTask /\ running[u][1] = "parse" /\ running[u] # None
      BY <1>3 DEF PublishRecord, InLoopBody, Parsing, OrderBase, TasksInv, Given, ParseTask
    <3> QED
      BY <1>3, <2>1, <2>2, <3>1 DEF RecordOf, ParseTaskOf, ParseTask, RecordId, PublishRecord, poolVars
  <2>4. u = t /\ t \in Thread
    BY <2>3 DEF OrderBase, PoolsInv, TasksOnce, Thread
  <2>5. r[1] = matchMap[t] /\ r[1] \in BQM!Index /\ r[1] # None
    BY <2>1, <2>4, QueuesAssumption DEF OrderBase, OwnQueue, BQM!Record, BQM!ManagerAssumption
  <2> QED
    BY <2>2, <2>4, <2>5, MatchStays DEF OrderBase
<1>4. ASSUME NEW u \in Consumer, DecodeRecord(u), id \notin Ids(p)
      PROVE  p[1] = "task" /\ matchMap'[t] # None /\ DecodedBefore(p[2], matchMap[t])'
  <2>1. PICK r \in BQM!Record, k \in DecodeTask :
          r = held[u] /\ k = running[u] /\ Moves(<<"record", r>>, <<"task", k>>)
    BY <1>4, DecodeMoves DEF OrderBase
  <2>2. p = <<"task", k>> /\ id \in Ids(<<"record", r>>) /\ <<"record", r>> \in Place
    BY <1>4, <2>1 DEF Moves
  <2>3. r[1] = matchMap'[t]
    BY <2>2, LaneStays
  <2>4. /\ u \in Thread /\ r[1] = matchMap[u] /\ r[1] \in BQM!Index /\ r[1] # None
        /\ running' = running
    BY <1>4, <2>1, QueuesAssumption
    DEF OrderBase, OwnQueue, Thread, BQM!Record, BQM!ManagerAssumption, DecodeRecord, poolVars
  <2>5. matchMap'[u] = r[1]
    BY <2>4, MatchStays DEF OrderBase
  <2>6. \E v \in Consumer : /\ matchMap'[v] = matchMap'[t]
                            /\ running'[v] # None => k = running'[v] \/ TaskBefore(k, running'[v])
    BY <2>1, <2>3, <2>4, <2>5
  <2>7. DecodedBefore(k, matchMap[t])'
    BY <2>6 DEF DecodedBefore, TaskBefore
  <2> QED
    BY <2>2, <2>3, <2>4, <2>7
<1>5. CASE CollectDecoder /\ pc' = pc /\ id \notin Ids(p)
  <2>1. PICK k \in DecodeTask, c \in Calls :
          k = decodingResults[step] /\ c = call /\ Moves(<<"task", k>>, <<"call", c>>)
    BY <1>5, CollectMoves DEF OrderBase
  <2> QED
    BY <1>5, <2>1 DEF Moves
<1> QED
  BY <1>1, <1>2, <1>3, <1>4, <1>5, OrderSteps

(* Joining two sequences in order, the second with no earlier records of a *)
(* datablock that the first has records of.                                *)
LEMMA InOrderConcat ==
  ASSUME NEW s \in Seq(RecordId), NEW u \in Seq(RecordId), InOrder(s), InOrder(u),
         \A x \in SeqSet(s), y \in SeqSet(u) : SameBlock(x, y) => x[3] < y[3]
  PROVE  InOrder(s \o u)
<1>1. /\ Len(s) \in Nat /\ Len(u) \in Nat /\ Len(s \o u) = Len(s) + Len(u)
      /\ \A i \in 1 .. Len(s) : (s \o u)[i] = s[i]
      /\ \A i \in 1 .. Len(s \o u) : i > Len(s) => i - Len(s) \in 1 .. Len(u)
                                                   /\ (s \o u)[i] = u[i - Len(s)]
  OBVIOUS
<1> DEFINE joined == s \o u
<1> HIDE DEF joined
<1> SUFFICES ASSUME NEW m \in 1 .. Len(joined), NEW n \in 1 .. Len(joined), m < n,
                    SameBlock(joined[m], joined[n])
             PROVE  joined[m][3] < joined[n][3]
  BY DEF InOrder, joined
<1>2. CASE n <= Len(s)
  <2>1. m \in 1 .. Len(s) /\ n \in 1 .. Len(s) /\ joined[m] = s[m] /\ joined[n] = s[n]
    BY <1>1, <1>2 DEF joined
  <2> QED
    BY <2>1 DEF InOrder
<1>3. CASE m > Len(s)
  <2>1. /\ m - Len(s) \in 1 .. Len(u) /\ n - Len(s) \in 1 .. Len(u) /\ m - Len(s) < n - Len(s)
        /\ joined[m] = u[m - Len(s)] /\ joined[n] = u[n - Len(s)]
    BY <1>1, <1>3 DEF joined
  <2> QED
    BY <2>1 DEF InOrder
<1>4. CASE m <= Len(s) /\ n > Len(s)
  <2>1. m \in 1 .. Len(s) /\ n - Len(s) \in 1 .. Len(u) /\ joined[m] = s[m] /\ joined[n] = u[n - Len(s)]
    BY <1>1, <1>4 DEF joined
  <2> QED
    BY <2>1 DEF SeqSet
<1> QED
  BY <1>1, <1>2, <1>3, <1>4 DEF joined

(* Records of a datablock in two places: if the place of the one cannot be *)
(* behind that of the other, the one is the later.                         *)
LEMMA EarlierThan ==
  ASSUME OrderBase, BlockOrder, NEW p \in Place, NEW q \in Place, p # q, ~NotBehind(p, q),
         NEW a \in Ids(p), NEW b \in Ids(q), SameBlock(a, b)
  PROVE  b[3] < a[3]
<1>1. a \in RecordId /\ b \in RecordId /\ a # b
  BY DEF OrderBase, PlacesInv, OnePlace
<1>2. a[3] \in Nat /\ b[3] \in Nat /\ a[3] # b[3]
  BY <1>1 DEF RecordId, SameBlock
<1> QED
  BY <1>2 DEF BlockOrder

LEMMA SequencesKept ==
  ASSUME OrderBase, [Next]_vars, BlockOrder, SequencesInOrder
  PROVE  SequencesInOrder'
<1>1. InOrder(<<>>)
  BY DEF InOrder
<1>2. /\ \A k \in DecodeTask : InOrder(collected[k]) /\ collected[k] \in Seq(RecordId)
      /\ \A c \in Calls : InOrder(decodedRecords[c]) /\ decodedRecords[c] \in Seq(RecordId)
  BY DEF SequencesInOrder, OrderBase, PlacesInv
<1>3. ASSUME \A k \in DecodeTask : InOrder(collected'[k]),
             \A c \in Calls : InOrder(decodedRecords'[c])
      PROVE  SequencesInOrder'
  BY <1>3 DEF SequencesInOrder, InOrder, SameBlock
<1>4. CASE SequencesStay
  BY <1>1, <1>2, <1>3, <1>4 DEF SequencesStay
<1>5. ASSUME NEW t \in Consumer, DecodeRecord(t) PROVE SequencesInOrder'
  <2>1. PICK r \in BQM!Record, k \in DecodeTask :
          r = held[t] /\ k = running[t] /\ Moves(<<"record", r>>, <<"task", k>>)
    BY <1>5, DecodeMoves DEF OrderBase
  <2>2. PICK x, y : x = <<"record", r>> /\ y = <<"task", k>>
    OBVIOUS
  <2>3. x \in Place /\ y \in Place /\ x # y /\ ~NotBehind(x, y)
    BY <2>1, <2>2 DEF Moves, NotBehind
  <2>4. PICK b0 \in RecordId : elements[r] = <<b0>>
    BY <2>1 DEF OrderBase, OneEach, Published
  <2>5. SeqSet(<<b0>>) = {b0} /\ Ids(x) = {b0} /\ Ids(y) = SeqSet(collected[k]) /\ InOrder(<<b0>>)
    <3>1. Published(r) /\ SeqSet(<<b0>>) = {b0}
      BY <2>1 DEF Published, SeqSet
    <3> QED
      BY <2>2, <2>4, <3>1 DEF Ids, InOrder
  <2>6. \A z \in SeqSet(collected[k]) : SameBlock(z, b0) => z[3] < b0[3]
    BY <2>3, <2>5, EarlierThan DEF SameBlock
  <2>7. InOrder(collected[k] \o <<b0>>)
    <3>1. <<b0>> \in Seq(RecordId) /\ \A z \in SeqSet(<<b0>>) : z = b0
      BY <2>5
    <3> QED
      BY <1>2, <2>5, <2>6, <3>1, InOrderConcat
  <2>8. /\ collected' = [collected EXCEPT ![k] = @ \o <<b0>>] /\ decodedRecords' = decodedRecords
    BY <1>5, <2>1, <2>4 DEF DecodeRecord, ContentOf, callVars
  <2>9. \A m \in DecodeTask : collected'[m] = IF m = k THEN collected[k] \o <<b0>> ELSE collected[m]
    BY <2>8 DEF OrderBase, PlacesInv
  <2> QED
    BY <1>2, <1>3, <2>7, <2>8, <2>9
<1>6. CASE CollectDecoder /\ pc' = pc
  <2>1. PICK k \in DecodeTask, c \in Calls :
          k = decodingResults[step] /\ c = call /\ Moves(<<"task", k>>, <<"call", c>>)
    BY <1>6, CollectMoves DEF OrderBase
  <2>2. PICK x, y : x = <<"task", k>> /\ y = <<"call", c>>
    OBVIOUS
  <2>3. x \in Place /\ y \in Place /\ x # y /\ ~NotBehind(x, y)
    BY <1>6, <2>1, <2>2 DEF Moves, NotBehind, CollectDecoder
  <2>4. Ids(x) = SeqSet(collected[k]) /\ Ids(y) = SeqSet(decodedRecords[c])
    BY <2>2 DEF Ids
  <2>5. \A v \in SeqSet(decodedRecords[c]), z \in SeqSet(collected[k]) :
          SameBlock(v, z) => v[3] < z[3]
    BY <2>3, <2>4, EarlierThan DEF SameBlock
  <2>6. InOrder(decodedRecords[c] \o collected[k])
    BY <1>2, <2>5, InOrderConcat
  <2>7. /\ pc = "collect"
        /\ decodedRecords' = [decodedRecords EXCEPT ![c] = @ \o collected[k]]
        /\ collected' = [collected EXCEPT ![k] = <<>>]
    BY <1>6, <2>1 DEF CollectDecoder, RaiseFrom, AddRecordsInCollection
  <2>8. /\ \A m \in DecodeTask : collected'[m] = IF m = k THEN <<>> ELSE collected[m]
        /\ \A d \in Calls : decodedRecords'[d] =
             IF d = c THEN decodedRecords[c] \o collected[k] ELSE decodedRecords[d]
    BY <2>7 DEF OrderBase, PlacesInv
  <2> QED
    BY <1>1, <1>2, <1>3, <2>6, <2>8
<1> QED
  BY <1>4, <1>5, <1>6, OrderSteps

(* DatablockOrder: when no two decoder threads share a queue, the records  *)
(* of a datablock keep their order, whatever else happens: other           *)
(* datablocks, exceptions, earlier and later calls.                        *)
THEOREM BlocksStayInOrder ==
  ASSUME NumDecoders <= NumQueues
  PROVE  Spec => []DatablockOrder
<1>1. Init => OrderInv
  <2> SUFFICES ASSUME Init PROVE OrderInv
    OBVIOUS
  <2>1. \A q \in {"parsed"} \X BQM!Index : items[q] = <<>>
    BY DEF Init, BQM!Init, BQM!Queue
  <2>2. \A t \in Consumer : held[t] \notin BQM!Record
    BY QueuesAssumption DEF Init, BQM!Init, BQM!Thread, BQM!ManagerAssumption
  <2>3. \A r \in BQM!Record : ~Published(r)
    BY <2>1, <2>2, SeqSetEmpty DEF Published
  <2>4. /\ \A k \in DecodeTask : collected[k] = <<>>
        /\ \A c \in Calls : decodedRecords[c] = <<>>
    BY DEF Init
  <2>5. \A p \in Place : Ids(p) = {}
    BY <2>3, <2>4, SeqSetEmpty DEF Place, Ids
  <2> QED
    BY <2>4, <2>5 DEF OrderInv, BlockOrder, BlockLane, SequencesInOrder, InOrder
<1>2. OrderBase /\ OrderInv /\ [Next]_vars => OrderInv'
  <2> SUFFICES ASSUME OrderBase, OrderInv, [Next]_vars PROVE OrderInv'
    OBVIOUS
  <2>1. BlockOrder'
    BY OrderSteps, DropsKeepOrder, PublishKeepsOrder, DecodeKeepsOrder, CollectKeepsOrder DEF OrderInv
  <2> QED
    BY <2>1, LaneKept, SequencesKept DEF OrderInv
<1>3. Spec => []OrderBase
  BY TasksInvariant, PoolsInvariant, ManagerInPipeline, HoldsInvariant, PlacesInvariant,
     AlwaysEmptied, OwnQueues, ConsumersApart, AlwaysTaskOrder, AlwaysResults, AlwaysOneEach, PTL
  DEF OrderBase
<1>4. OrderInv => DatablockOrder
  BY DEF OrderInv, SequencesInOrder, InOrder, SameBlock, DatablockOrder
<1> QED
  BY <1>1, <1>2, <1>3, <1>4, PTL DEF Spec
===============================================================================

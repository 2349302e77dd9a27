# AsterixCodec in TLA+

AsterixCodec decodes byte streams of ASTERIX datablocks into records and encodes records back
into bytes.  Decoding is a pipeline of two thread pools around a set of blocking queues; the rest
is sequential code over category descriptions, which are read from JSON files.  This directory
holds TLA+ modules translated from the C++ sources, the TLC configurations that check them on
small instances, and TLAPS proofs of what holds for every instance.  Paths below are relative to
`src/src/asterix_codec_lib/` unless they start with `client_app/`.

## The system

| Component | State | Operations | Modules |
|---|---|---|---|
| Record hand-off: `BlockingQueueManager`, `ParserBlockingQueue`, `DecoderBlockingQueue`, `ParsedRecord` | per producer a queue of free and one of parsed records, each with mutex, condition variable and open flag; two maps from thread to queue index; the elements of each record | get a free / a parsed record, publish, release, open all, close all | `BlockingQueueManager` |
| `ThreadPool` | task queue, stop flag, workers, futures | `enqueue`, worker loop, destructor | `ThreadPool`; abstract: `TaskPool` |
| Decoding call: `startDecodingDatablocks`, record loop of `parseAllRecords`, task loop of `decodeParsedRecords` | two vectors of futures, the collections of the decode tasks, the caller's collection | dispatch, parse, decode, join, close, collect | `DecodingPipeline`; abstract: `RecordDelivery` |
| File decoding: `setSourceDatastream`, `decodeFromFile`, the client's loop | file, index, batch | scan a batch, dispatch it | `FileDecoding` |
| `FailureReport` | five parallel vectors | add, clear, read | `FailureReport` |
| Items: `ItemEncodingUtils`, the item functions of `ParsingUtils`, `BitUtils` | bits left over between elements, presence bits, position in the datablock | encode and parse fixed, extended, repetitive, compound items, RE and SP fields | `ItemCoding` |
| Elements: `DecodingUtils`, `decoderForParsedRecord`, `ElementEncodingUtils`, the value classes | the value that lives across the loop, the LSB index | one conversion per function and representation, range check, text | `DecodedValue`, `ElementCoding` |
| Encoder: `EncoderInterface`, `encoderForDecodedRecord` | futures, output buffer, datablock collection, AST file | encode a collection, encode a single record | `Fspec`, `RecordEncoding` |
| Record parsing: `ParsingUtils` | position in the stream and in the datablock | datablock header, FSPEC, mandatory items, items, raw copy | `Fspec`, `RecordParsing`; with the encoder: `RecordCoding` |
| Set-up: `CodecInterface`, `FacadeCommonVariables`, `CommonVariables` | thread counts and limits, pools, queue manager | setters, set-up, release | `Codec` |
| Value pools: `DecodedValueObjectPoolManager`, `ObjectPool` | a free list and a position per value type | take, grow, reset | `Codec` |
| Category descriptions: loader, validator, `Item`, `CategoryDescription` | the map from keys to descriptions | load, validate, repeat, look up, delete | `Descriptions` |
| Description files: `from_json` of the configuration classes over `nlohmann::json` | lexer position, stack of the parser, result | read a text, parse it, convert it | `JsonLexer`, `JsonParser`, `DescriptionFile` |
| Client application: `client_app/src/main.cpp` | options, collection at hand, output files | its sequence of library calls | `ClientApplication` over `Codec` |

How they meet: the client calls `startDecodingDatablocks` on a thread of its own.  That thread
opens the queues, enqueues one decode task per consumer thread on the consumer pool and one parse
task per datablock on the parser pool, waits for the futures of the parse tasks, closes the
queues, waits for the futures of the decode tasks and joins their collections.  A parser takes a
free record, fills it and publishes it in the queue of parsed records with the record's home
index; a decoder takes it, decodes it into values from its pool, and releases it to the free queue
with the same index.  Worker threads, queues, value pools and futures outlive a call, so what one
call leaves behind meets the next.  Every thread may add to the `FailureReport`.  The encoder uses
the consumer pool as well, one task per record.

What is hard here:

* records cross four critical sections under different locks; a condition variable is notified
  once per push while other threads overtake the sleeper; queues are closed and reopened around
  threads that sleep in them;
* a worker may run no decode task, or two; an exception leaves a task while it holds a record, and
  leaves a call between two loops over its futures;
* datablocks may be cut short at several places, and each place must give its record back and
  leave a report;
* repeated set-ups, calls and releases act on pools and queues made for the first of them;
* elements begin anywhere in a byte; FSPEC, presence bytes and extents end at FX bits; encoder and
  decoder choose description, LSB, range and type by different means and must agree;
* descriptions are renumbered, reordered, repeated and entered under several keys after loading.

There is no persistence but output files and no message loss, so there is nothing to check about
crashes, and nothing in the code times out or retries.

## The modules and the code

**BlockingQueueManager** has one action per critical section.  `items`, `isOpen` and `waiting` are
the `std::queue`, the flag and the sleepers of a queue's condition variable.  A thread inside
`getObjectPoolFromQueue` has `inGet[t]` set; it pops, goes to sleep or returns `nullptr`
(`PopFront`, `WaitOnQueue`, `ReturnNull`), which is also what a woken thread does, since `wait`
evaluates its predicate again.  `NotifyOne` wakes any one sleeper; `SpuriousWakeup` is what the
standard allows.  `matchMap` joins the two thread-to-index maps; registration is one step.  Its
threads may open, close, publish and release in any order, which is more than the pipeline does.

**ThreadPool** splits `enqueue` at the unlock (`Emplace`, then `Notify`), lets workers sleep, wake
by themselves, take, complete and exit, and has the three parts of the destructor.  **TaskPool** is
what the codec relies on: queued tasks start in order on an idle worker of their pool, end with a
value or an exception, and give their result once.

**DecodingPipeline** instantiates `BlockingQueueManager` (a parser's datum is the identity of a
record: call, datablock, position) and `TaskPool` (for both pools), and adds the calling thread.  A
datablock is the sequence of outcomes its record loop meets: *decoded*, *poison* (decoding
throws), *skipped*, *rejected* (released and reported, the rest dropped), *throws*.  The outcome is
fixed by the data, so it is an input here; `RecordParsing` and `ElementCoding` produce it.  Each
exit of `parseAllRecords` is an action with the queue calls the code makes in it.
**RecordDelivery** is the promise to the client: records become in flight, then are delivered once
by some call or discarded.  *Poison* needs a description of the user's own: decoding throws at
lines 67-74 of `src/utils/decoderForParsedRecord.cpp` when an LSB cannot be looked up, which a
description the validator accepts can cause.  *Throws* is the `at()` at
`src/utils/ParsingUtils.cpp:166`: mandatory FRNs count from 1, the vector from 0, so the last item
being mandatory and missing raises `out_of_range`.

**FileDecoding** has a file as its size and the LEN value at each offset, the scan of
`setupDecodingFromFile`, the dispatch loop, parse tasks that end or reject their datablock in any
order, and the client that decodes until `nullptr`, clears the report or sets another file.
**FailureReport** keeps `rawDatablocks` apart from the four vectors that `clearFailures` empties.

**ItemCoding** encodes an item and parses the result.  One step is one element: it is shifted
behind the bits left over (`PutBits`), or counted as missing.  The three loops of the encoder
differ in when they end (`InModule`) and in what they make of missing elements (`RejectSubitem`,
`LeaveOutSubitem`, `NextRepetition`, `KeepSubitem`); the four kinds of items differ in what goes in
front of the subitems (`Marked`, `Header`).  `ReadElement` is the loop of the three parsers.  A
byte is a sequence of eight bits; the value of an element is its raw integer.

**DecodedValue** has the value classes: the texts they print and the numbers a client-made
`Record` reads back from such texts.  **ElementCoding** takes a record's elements from the external
description (`Load`: type by length and largest LSB, range) through decoding (one turn of the loop
of `decodeAllElementsOfRecord` per step, with `current` living across turns) to encoding, as
decoded or rebuilt by a client from texts.  Widths and radices are parameters.

**Fspec** builds the FSPEC bit by bit over uninitialised heap bytes where the code leaves them, and
reads it back.  **RecordEncoding** has `encodeRecords` with its tasks finishing in any order and
`encodeSingleRecord`, the choice of the description, CAT and LEN, the output buffer or AST file.
**RecordParsing** is `parseAllRecords` over a byte stream, one step per datablock header, record
and item, with every exit.  **RecordCoding** feeds the one with what the other produced, or with
foreign streams.

**Descriptions** loads a configuration: one step per file, category and data source, the locals
that outlive a turn of the loader's loop included (`ext`), objects made by `new` in a `heap`.
UAP, mandatory lists, RE and SP, copies of repeated elements, compound indices, and the two key
formats are there; a file is its contents or the reason it gives none.  The mandatory FRNs of a
description are a set: in which order, and how often, the code's vector lists them decides only
which of several missing items the parser meets first.  In RecordParsing, where that matters (the
item found first is named by a report, or its number ends the parser by an exception), they are a
list.

**JsonLexer** has the token scanner (strings with escapes, surrogates and UTF-8, numbers with their
grammar and conversion), as operators on bytes; **JsonParser** the recursive descent, with a stack
for its calls; **DescriptionFile** the `from_json` functions of the description classes.  A
document carries what its author meant, lexeme by lexeme, which is the reference of the properties.

**Codec** has the set-up with its early returns and setters in any order, what it leaves (queue
manager made once, pools made anew, threads registered), decoding calls as one step, and the value
pools with their partial reset.  The decode tasks of a call fall to any of the workers, one of whom may
run several; with JSON output a call that decoded anything throws (`PrintThrows`).  **ClientApplication** is `main` over it, next to a program that
calls the library as it likes.

## Runs

| Run | Instance (distinct states) | What it shows |
|---|---|---|
| `MCBlockingQueueManager` | 2 producers, 3 consumers, 2 queue pairs, 1 record each (0.3 M) | `Ownership`, `FreeRecordsAreEmpty`, `NoLostWakeup`, `ProducersHaveOwnQueue`, under every interleaving of its callers |
| `MCThreadPool` | 2 workers, 3 tasks (13 k) | `TasksFinish`, `DestructorReturns`, refinement of `TaskPool` |
| `MCDecoding` | 2 calls, 4 streams with parallel datablocks and every way a datablock ends, 2 + 2 threads, 2 records per free queue (0.5 M) | `EverythingAccounted`, `DatablockOrder`, refinement of `RecordDelivery` |
| `MCDecodingLive` | 2 calls, 1 record per free queue, a skipped record, a throwing parser (0.2 M) | `CallReturns`, refinement of `BlockingQueueManager` |
| `MCPoisonedRecord` | 1 + 1 threads, a record whose decoding throws | `CallReturns` is violated: the decoder is gone with the record, the parser waits for ever |
| `MCFileDecoding` | 2 files of up to 7 bytes, LEN from 0 to 3, batches of 2 (0.2 M) | `NoGapNoOverlap`, `TwoScansAgree`, `ReachesEndOfFile` |
| `MCItemCoding` | 30 items of all kinds, every subset of their elements, values at the ends of their range (27 k) | `ExtendedElementsAreThere`, `RoundTrip` |
| `MCElementCoding` | every function with every representation, bit lengths around the byte ends, 1 to 3 elements, LSBs of their own or selected by an element before of any integer function, in an extended item also with an FX or Spare element between (87 k) | `ValueFitsType`, `WrongValueIsReported`, `SameLsb`, `RoundTrip`, `RangeVerdictsAgree` |
| `MCDescriptions` | configurations of one and two categories, every file present, missing, malformed or flawed, keys at the ends of their digits, two loads (23 k) | `WellFormedIsLoaded`, `OnlyOwnDescription`, `MandatoryAgrees`, `ElementFound`, `SourcesResolve` |
| `MCRecordCoding` | three described categories and eight sizes around the byte ends of FSPEC and buffer, up to the largest that fits; clients' calls with one to three records; foreign streams (59 k) | `WritesInsideBuffer`, `ParsedAsEncoded`, `SameDescription`, `RejectedWasReported`, `RecordsTile` |
| `MCCodec` | any program with up to 2 set-ups and 2 calls, whose tasks fall to any of the workers; the application under all command lines that differ in calls, threads or files (1.0 M) | `NoValueIsHandedOutTwice`, `ReleasedValuesReturn`, `ThreadsFit`, `QueuesAreSharedOut`, `ApplicationInOrder` |
| `MCDescriptionFile` | every text of up to four structural lexemes, longer ones with a lexeme removed or replaced, strings, number-like texts, description files in several layouts | `ParsesExactlyJson`, `ValueIsAsWritten`, `DescriptionIsAsMeant` |

Why the bounds are enough.  Two producers suffice for every pairwise race on the map and on a
record's home; a third consumer makes the index wrap around (`% NumQueues`), so two consumers share
a queue and one may overtake another.  One record per free queue makes parsers wait; two are needed
for two records of one datablock to be queued together, where order could be lost.  Two calls
suffice for leftovers of one call to meet the next.  LEN values 0, inside, exactly at and past the
end of a file are distinct cases of both loops, and batches of two give files of several batches.
The items of `MCItemCoding` begin at every kind of place in a byte and have one and two bytes in
front of the first FX, two repetitions, seven and eight subitems behind FX bits.  The sizes in
`MCRecordCoding` are those where a field or its buffer gains a byte.  `MCCodec` needs two set-ups
for the queues of the first to meet the threads of the second, numbers from 0 (refused) to 2, and
totals that are odd, even and too small.

Scaled widths.  `MCElementCoding` and `MCDescriptions` use bytes of 4 bits, `MCElementCoding` ints
of 4 and longs of 5 bytes, 3 and 2 for the radices 10 and 8, and reals in halves.  `MCDescriptions`
keeps the bits of an item in 32 values (`SizeLimit`), so that one of its files passes with 36 bits for 4.
`MCDescriptionFile` uses 199, 99 and 15 for the largest unsigned and signed 64-bit integers and the
largest unsigned short.  The definitions use the parameters wherever the code uses the widths, so
ends of ranges, truncation and wrap-around happen at the smaller width.  `MaxElements`, `MaxBlocks`,
`MaxRecords`, `MaxCalls`, `MaxFiles`, `MaxReported`, `MaxLoads`, `MaxSetUps`, `MaxValues` and
`MaxDecoders` bound the models and are no limits of the code.  Threads of a pool are
interchangeable, so the two safety runs over queues use symmetry; runs with liveness do not.

`CHECK_DEADLOCK FALSE` is set where the system may stop: the pipeline after its last call or behind
an exception, the thread pool after its destructor, and the modules that compute something and are
done (`ItemCoding`, `ElementCoding`, `RecordCoding`, `Descriptions`, `DescriptionFile`, `Codec` after
its bounded calls).  In the pipeline, waiting for ever while work is left is what `CallReturns` excludes.

Fairness is weak fairness of each thread's steps taken together: the operating system schedules
every thread that can run, and no lock is held while a thread waits for another.  In `FileDecoding`
it is that of the decoding thread.  Spurious wakeups, the client's calls, clearing the report and
setting another file are never forced.

Some properties have conditions, which are the code's:

* `EverythingAccounted` speaks of calls not left by an exception; it lets a record stay in a queue
  after the call that parsed it (below).
* `TwoScansAgree` and `ReachesEndOfFile` exclude a LEN of 0, on which the scan makes no progress.
* `NoValueIsHandedOutTwice` and `ReleasedValuesReturn` hold as long as no collection is released
  while another is in use; the release resets the pools of all of them.
* `QueuesAreSharedOut` says that every queue is read by a call whose tasks all the workers take: when
  one worker runs two of them, another queue is left unread, and nothing in the code prevents it.  That
  no producer is left without a queue it says of a first set-up.
* `ApplicationInOrder` shows that the application stays within both conditions.  It exempts the
  exception of the JSON output, which ends `main` half-way.
* `MandatoryAgrees` is about lists that name no item twice, and not about RE and SP, which get no
  flag.  `OnlyOwnDescription` lets the indices of an items file that lead to no subitem be anything
  (the validator refuses them), `ElementFound` lets a name that two items have lead to either, and
  `SourcesResolve` speaks of a first load of configurations without text behind a SIC.
* `SameLsb` of an element that another selects asks that the selector's text reads back, if the client
  built the record from texts, and that in an extended item no FX or Spare element lies between the two
  (`behindFiller`), as the encoder forgets the index there.  `Exact` asks the same for `RoundTrip`.
* `RoundTrip` of `ElementCoding` is about conversions that are exact (`Exact`): the exceptions are
  listed below.  `SameDescription` needs SAC and SIC of three digits for a single record, and a
  record that begins with its source identifier, as the parser assumes.

## Proofs

Every assumption is an `ASSUME` of the module proved about and is evaluated by a run: finitely many
threads and as many queues as producers (`ManagerAssumption`), finitely many and at least one worker
(`ThreadPoolAssumption`), streams of datablocks within the bounds of which only the last may be cut
off (`PipelineAssumption`) and the manager's assumption for the pipeline's queues
(`QueuesAssumption`), files whose LEN values are naturals (`FileAssumption`), numbers that are
naturals (`NumbersAssumption`), command lines with the options there are
(`CommandLinesAssumption`), configurations whose files hold strings, numbers and sequences, with
category numbers whose keys `stoi` accepts (`ConfigurationsAssumption`), bytes of two bits or more
and a positive limit for an item's size (`DescriptionAssumption`), items and calls that are
sequences (`DescriptionsAssumption`, `ClientsAssumption`), items of a known kind with a length (`ItemsAssumption`), records that are a
category and elements of bytes (`RecordsAssumption`), bytes that are bytes (`EncodingAssumption`),
streams of bytes, and no FX in the byte read behind a stream (`ParsingAssumption`): reading there is
undefined, and with FX in every byte of the memory behind it the search for the end of a field would
not come back.  For elements: bytes of an even number of bits, four of them an int, and a long longer
than that (`ElementAssumption`); elements with bits, a number in them and an LSB
(`RecordsAssumption` of `ElementCoding`), target identifications of whole characters and an alphabet
of all that the bits of one can number (`AlphabetAssumption`; in the code 48 bits and 64 characters).
Seven theorems have a hypothesis beyond these, named in the
table.

| Module | Theorem | Property | Argument |
|---|---|---|---|
| `BlockingQueueManagerProofs` | `TypeCorrect` | `TypeOK` | One step per action.  The index of a new thread exists: for a producer because at most the others are in the map, for a consumer because of the modulus. |
| | `OwnershipHolds` | `Ownership` | Inductive with `TypeOK`: records are queued once, either held or queued, held by one thread, in a queue of their home.  Three lemmas (pop, push, drop) cover all actions that move a record. |
| | `FreeRecordsStayEmpty` | `FreeRecordsAreEmpty` | Not inductive alone: a thread that fills a record could hold one that is free.  `Ownership` excludes it. |
| | `OneQueuePerProducer` | `ProducersHaveOwnQueue` | Strengthened by `IndicesBelowSize`: indices handed out are below the size of the map, so the next one, which is that size, is new. |
| | `OneQueuePerConsumer` | | The same for consumers, when there are no more of them than queues. |
| | `OwnQueueServed` | | A thread asks at the queue of its index and holds records of that queue. |
| | `NoWakeupIsLost` | `NoLostWakeup` | Strengthened by `WaitersInside`.  A push adds a record and wakes a sleeper if there is one; a thread that takes a record leaves get and takes both off the count. |
| `ThreadPoolProofs` | `NoWakeupIsLost` | `NoLostWakeup` | The tasks queued are no more than the workers awake and the notifications still to come.  `notify_one` is called outside the mutex, so the notification is counted from the moment the task is queued. |
| | `DestroyedPoolIsEmpty` | | A worker leaves its loop only when stopped with an empty queue, and nothing is queued once stopped (`WorkersApart`, `PendingIsInPool`). |
| | `ThreadPoolIsTaskPool` | `ImplementsTaskPool` | Emplace, take, complete and get are the steps of `TaskPool`, all others stutter. |
| `DecodingPipelineProofs` | `PipelineUsesManager` | `ImplementsManager` | Each step of the pipeline makes one call of the manager or leaves it alone.  `TasksInv` (a worker runs tasks of its kind, on datablocks of a stream given) shows that the datum filled in is one of the manager's. |
| | `ManagerInPipeline` | | `OwnershipHolds` and `NoWakeupIsLost`, taken from an instance of the manager's proofs. |
| | `PipelineImplementsDelivery` | `ImplementsDelivery` | By places, below. |
| | `RecordsAreAccountedFor` | `EverythingAccounted` | By the way of every datablock, below. |
| | `BlocksStayInOrder` | `DatablockOrder` | By lanes, below.  Hypothesis: no more decoder threads than queues. |
| `FileDecodingProofs` | `DatablocksTile` | `NoGapNoOverlap` | Scan and dispatch read the same LEN fields: `WalkInv` says that the lengths lead from the start of the batch to where the scan is (`Reaches`, without recursion: every set closed under the step that holds the one holds the other). |
| | `ScansAgree` | `TwoScansAgree` | The same with the datablocks counted (`ReachesIn`): what the scan counted is what was dispatched and what lies ahead (`CountedDispatch`); at the end nothing can, because lengths other than 0 never lead back. |
| | `TypeCorrect` | `TypeOK` | A part of `WalkInv`. |
| | `PointersOfReport`, `DecodingUsesReport` | | The last entries of `rawDatablocks` belong to the failures in the report, so reading one back stays inside the vector; and decoding a file does nothing to the report but add and clear. |
| `CodecProofs` | `SplitIsExact` | | Arithmetic of the division by two with the odd thread given away. |
| | `SetUpsFitTheThreads` | `ThreadsFit` | From `TypeOK`'s set-up part, which says the numbers in force are naturals with limits. |
| | `TypeCorrect` | `TypeOK` | One step per action. |
| | `ValuesAreHandedOutOnce`, `ReleasedValuesAreBack` | `NoValueIsHandedOutTwice`, `ReleasedValuesReturn` | `PoolsAgree`: unless a collection was released early, the values in use are disjoint, and those of a released kind are numbered from 1 to what its pool has given out.  That the number is their cardinality is a bijection. |
| | `WorkersShareTheQueues` | `QueuesAreSharedOut` | `WorkersRegister`, for any number of set-ups: the decoders of the last pool have consecutive numbers, no more of them than workers; consecutive numbers have all remainders or different ones (`RemaindersOfConsecutive`, `RemaindersDiffer`).  `OneSetUp`: under one set-up the indices of the producers are below the number of queues. |
| | `ApplicationKeepsOrder` | `ApplicationInOrder` | `InStep`: for every line of `main`, what the library, the report and the files are like when it is reached; the exception of the JSON output is one of the ways to its end. |
| | `ValuesUnderEveryProgram` | | Each step of a program, the application or another, is one of `Codec` or leaves it alone, so `PoolsAgree` holds in it. |
| `DescriptionsProofs` | `SourcesFindTheirDescription` | `SourcesResolve` | `KeysInv`: a key leads to the description of the category that claimed it, and what the turns so far claimed is entered; that keys of different sources differ is arithmetic of the digits (`KeysDiffer`). |
| | `MandatoryItemsAgree` | `MandatoryAgrees` | By stages, below. |
| | `DescriptionsAreOwn` | `OnlyOwnDescription` | By stages, below. |
| | `ElementsAreFound` | `ElementFound` | By stages, below: completing makes the map of the names that the description then has. |
| | `WellFormedConfigurationsAreLoaded` | `WellFormedIsLoaded` | By the first load, below. |
| `RecordCodingProofs` | `BufferIsLargeEnough` | `WritesInsideBuffer` | By items, below.  Hypothesis: descriptions of at most 70 items, or of whole bytes of seven up to 112. |
| | `RejectionsAreReported` | `RejectedWasReported` | By items, below.  Hypothesis: the list of mandatory items names items with the flag, which is `MandatoryAgrees` of `Descriptions` where the list has no RE, SP or doubles. |
| | `RecordsLieEndToEnd` | `RecordsTile` | By the place of the next record, below. |
| | `ReadAsWritten` | `ParsedAsEncoded` | By the place of every datablock, below.  Hypotheses: field specifications that fit (as for `BufferIsLargeEnough`), and records that can be read back (`AllEncodable`). |
| | `SameDescriptionIsFound` | `SameDescription` | The same, with `SourceItems`: an item that begins with SAC and SIC has a fixed length, and each of the two is one byte. |
| `ElementCodingProofs` | `ValuesFitTheirType` | `ValueFitsType` | By powers of two, below.  Hypothesis: an element read as a number fits in eight bytes with its largest LSB (`ValuesFitLong`), as the loader knows no longer integer. |
| | `WrongValuesAreReported` | `WrongValueIsReported` | By what was read, below.  The same hypothesis. |
| | `LsbsAreTheSame` | `SameLsb` | By the way of a digit, below. |
| | `VerdictsAgree` | `RangeVerdictsAgree` | By the way of a value, below. |
| | `EncodedAsItWas` | `RoundTrip` | By the way of a value, below. |

**The manager in the pipeline.**  `PipelineUsesManager` shows that the pipeline satisfies the
manager's specification with the constants substituted; `ManagerInPipeline` takes ownership and
wakeups from there.  The manager's proofs are instantiated, so their theorems are those of the
pipeline once `QueuesAssumption` is known.

**Places.**  A record that was begun is in at most one place: a queue (in the ParsedRecord that
carries it), the hand of a parser or a decoder, a task's collection, or the result of a call
(`Place`, `Ids`, `PlacesInv`).  Each action moves one record or a whole collection from one place to
another; what is in flight for the client is the union of the places before the result, so the steps
are those of `RecordDelivery`: publishing adds a record seen nowhere, delivery moves out what was
in flight, an exception discards.  That places are disjoint rests on `Ownership` and on tasks being
queued, run and waited for once (`TasksOnce`).

**Accounts.**  That none is lost needs the converse: a record its parser has gone past is in some
place or its datablock is reported (`HandledInv`); a call that is at its end has no task left
(`AwaitInv`: the calling thread awaits the parses, then the decodes, in the order given); nothing
else is reported (`ReportsInv`).

**Lanes.**  All records of a datablock are made by one parser, whose free records go to one
consumer queue; when each decoder has a queue of its own, one decoder takes them in order, and the
tasks that decoder runs are gathered in the order they were started in.  `BlockOrder` says, for every
two places, that an earlier record of a datablock is not behind a later one; `BlockLane` that
the records of the datablock being parsed went the way of its parser; `SequencesInOrder` that what
is collected is in order.  With two decoders on one queue TLC shows `DatablockOrder` violated, so
the hypothesis is needed: it holds in the codec when producers and consumers are equally many, and
`CodecProofs` shows that consumers are never fewer.

**Stages.**  A category is read, marshalled, ordered, validated, completed, entered.  `LocalsInv` says
what the loader's collections hold at each of these stages: the contents of this category's files, and
nothing of the one before, because the end of a turn and every error clear them.  `Described` says what
the description itself satisfies; each stage has a lemma.  Marshalling appends the subitems of RE and SP
once per compound item, and the new indices point at the copy that belongs to it (`RenumberedField`,
`CopiesOfSubitems`, `CompoundsAreCounted`).  Items are marked mandatory by counting occurrences of a name
(`Marked`); ordering takes the first item of a name to the first place of the name, where the parser
looks for it (`OrderedItems`, `FirstOccurrence`, `OccurrencesInInjective`).  Repetitions keep type, name
and first element name of an item, so what led to a subitem still does (`RepetitionsKeepItems`).  Both
`LocalsInv` and `DescriptionsInv` were first checked as invariants of `MCDescriptions`.

**The first load.**  `LoadingInv` follows the first load of correct files: no verdict is an error, and
what is made at each stage is accepted by the next one.  `Draft` says what the marshalled files of a
correct category are: every item valid, every subitem and field valid with its new indices, and the
names of elements different (`MarshallingDrafts`).  The files are checked by file and the description
by collection, so each collection of the description is traced to the lists of the files it is made
of, and lists that have names in common have a file in common (`RenumberedIsValid`,
`NamesStayDifferent`).  Ordering finds an item for every place, as the n-th place of a name takes its
n-th item (`OccurrencesGrow`, `OrderingKeepsValid`).  A key that is in the map is of an earlier
category or of an earlier source of this one, and correct configurations have each of them once
(`KeysOfTurnAreFree`).  `LoadingInv`, too, was first checked as an invariant of `MCDescriptions`.

**Items.**  The loop over the items is a recursive function.  Induction over data cannot be cited
from the library (below), but that a set of numbers has a least element can, from `WFMin`: the
function exists because there is no least length for which it would not (`LoopExists`), and what
holds after item n holds because there is no least item after which it would not (`Walked`): the
byte built is that of the item, it is in the buffer, and every item visited is present, is not
mandatory or was reported.  The bounds are exact (`ItemOutsideBuffer`).

**The place of the next record.**  `RecordsTile` speaks of the records delivered, so `ParserInv` says
what they determine: the next record begins where the last one of this datablock ends (`NextRecord`),
and of the record in hand the bytes read are its field specification and the items parsed so far
(`RecordInv`); records delivered before belong to datablocks that begin at or before this one, and
none of this one is delivered before its first record is read (`DeliveredInv`).  Each step that reads
an item appends its bytes to both sides.  That lengths are numbers is not plain: the end of a field
specification and of an extended item is found by a function that calls itself upwards, which exists
because there is a last byte with FX (`UpExists`, `UpIsFirst`, by least element).  That the bytes
read back from the encoder are bytes is `OutputInv`, through the loop over the items.  `ParserInv` was
first checked as an invariant of `MCRecordCoding`.

**The place of every datablock.**  `ParsedAsEncoded` relates the end of reading to what any number of
calls and threads wrote, so it needs three invariants.  `EntriesInv`: every entry of `sent` was made of
a record of the client (`ClientRecords`), with the description its key leads to, and is CAT, LEN, a
field specification that announces exactly the items present, and these items (`WellEncoded`); the
tasks' results not yet joined are such entries too.  `LinkInv`: the buffer or the AST file holds the
datablocks of `sent`, in their order (the file, if it has as many of them), and the parser is given these.  `ReadInv`, of the parser: it stands where a datablock of `sent` begins
(`Offset`), or behind the last; within one it has parsed as many items as it has, each as written,
and read as many bytes as they have (`AtDatablock`); what it has handed on are the records of the
datablocks before (`Handed`), and each record handed on has the key of the entry whose datablock
begins where it does (`KeysInv`).  Under these lies a lemma per conversion: the encoder's
field specification read back lists the items present (`FieldAnnounces`), LEN in two bytes is the
length (`DatablockIsRead`), an item is as long as the parser finds it to be
(`ItemIsRead`), the bytes of a concatenation are those of its pieces at their offsets
(`PieceAt`).  For the description, the first item begins the content of the datablock, SAC and SIC begin
that item, and with three digits each the number written out is the key computed (`ThreeDigits`).

The hypotheses are those of the code.  `AllEncodable`: elements are bytes; the content of a fixed item
is as long as its description says, that of a repetitive one makes whole repetitions, fewer than 256,
an explicit one fits its length byte, an extended one has a first part and clear FX bits; a datablock is
shorter than 65536.  `ItemCoding` says what the code does otherwise, and LEN keeps 16 bits.
All three hypotheses hold of the 937 records and the descriptions of `MCRecordCoding`, and `SourceItems`
of the files shipped in the repository, where items 010 are fixed with two bytes.

**Powers of two.**  The loader compares 2^bits times the largest LSB with 2^(8 * bytes); the decoder
takes remainders and complements.  The provers know of a power only that it is an integer.  The one
law needed, 2^(n+1) = 2 * 2^n, is that of the number of subsets of 1 .. n, which the library counts;
sums of exponents, monotony and the place of the sign bit follow by least element (`PowerNext`,
`PowerSum`, `HighestBit`).  A number below 2^bits times an LSB no larger than the largest is below the
bound of the chosen type, and a complement has the sign half of it (`MeaningBounds`, `TypeHolds`).
Only `CA2toHexadecimal` is left out of `ValueFitsType`: the loader chooses its type without a sign.

**What was read.**  `WrongValueIsReported` is about every element decoded so far, so `DecoderInv` keeps
with each of them the LSB that was used, which is one of its own, and what was stored or reported for
it (`ReadElement`); failures only grow.  That the shared variable of the loop does no harm is the case
of an unknown function: it keeps the value of another element and reports.  That the conversion to
the type does not change the value is `TypeHolds`, and the flipped bits are those of the element
because it is narrower than an int (`MeaningIsRead`).

**The way of a digit.**  The decoder takes the index of an LSB from the bytes of the element before, read
as text; the encoder from the number that element left in a local variable.  For a digit below ten
both are the element's number: in the bytes by `DigitIsRead`, in the value by `DecodedDigit`, in a
record built from texts by `RebuiltDigit`.  `EncoderInv` says so at every turn of the encoder's loop,
where the case to exclude is a given-up item: the loop goes on behind it, and never between two of
its elements (`NextItemIs`), so no element finds the index reset that its selector should have set but
behind an FX or Spare element of an extended item (`ResetByFiller`), which the property leaves out.
`EncoderInv` was first checked as an invariant of `MCElementCoding`.

**The way of a value.**  `RoundTrip` and `RangeVerdictsAgree` look back from the end to what every
conversion did, so `ConversionInv`, inductive with `DecoderInv` and `EncoderInv`, keeps all three for
every element: what was decoded is an outcome of its decoding function, with the decoder's verdict in
the report; what was given to the encoder is that value or one a client could make of its text; what
was encoded, if anything, is an outcome of the encoding function, with the encoder's verdict.  The rest
is about the functions.  A number (`NumberComesBack`): the decoder's value holds the product of number
and LSB (`ExactDecoded`), its decimal digits read back as the same number (`TextOfInteger`, by least
element on the recursive functions that write and read digits), rounding the product divided by the
LSB gives the number (`MultipleRounded`), and its lowest bits are those of the element
(`MeaningOfBits`).  Both verdicts are on the same product, which is why they agree.  A text
(`TextEncoded`): a value of another type would have been given no bits, so what is encoded is the text
that was decoded.  Its characters are the digits of the element at their places, and reading the
places as a number gives the element (`NumberOfPlaces`); the characters of `toASCII` are followed by
copies of the later ones, as a C string is appended for each, and the encoder reads only the first
(`FlattenStarts`).  The conditions that `Exact` names are what the proof uses: a zero byte ends a C
string, a character that the alphabet holds twice has the index of the first, a number of more bits
than a long is cut off.  `ConversionInv` was first checked as an invariant of `MCElementCoding`.

Liveness, ENABLED and what depends on fairness stay with TLC (`TasksFinish`, `DestructorReturns`,
`CallReturns`, `ReachesEndOfFile`).  So do the bits of items (`ExtendedElementsAreThere` and
`RoundTrip` of `ItemCoding`): their recursive functions would each need their own proof by least
element.  What the JSON parser computes stays with TLC, as its definitions are
`RECURSIVE` operators, which the prover does not take; and no theorem of the library with an
operator as a parameter can be cited, general induction among them.

## What the models say about the code

What was met while translating, and the models reproduce unless it says otherwise.

*Decoding.*  A worker may run both decode tasks of a call when another is late; the queue of the
late one is then read by the next call, which delivers its records.  An exception keeps the futures
already taken, and further calls fail on them: the decoder object is of no use any more.  A decoder
that throws keeps its record (`MCPoisonedRecord`).  With JSON output enabled, which `main.cpp:64` and
`DecoderInterface.h:36` offer, `printAllDecodedRecordsOnJson` calls `emplace_back` on a
`json::object()` (lines 262-272), which the library refuses with `type_error.311`
(`json.hpp:10959-10963`): the first element of any record ends the call, no JSON file is written, the
collection is lost, and the application, which catches nothing, ends without log and release.

*Files.*  A cut-off datablock alone in its batch leaves no failure (`DecoderInterface.cpp:217`).
`decodeFromFile` never returns `nullptr`, so the client's loop (`client_app/src/main.cpp:311-313`)
does not end and what follows it is not reached for files.  With a LEN of 0 the dispatch loop does
not advance.  `clearFailures` keeps `rawDatablocks`; entries are found by counting from the end.

*Elements.*  The encoder takes integers through a 32-bit `int`, so 2^31 and more are not encoded
again; 56- and 64-bit hexadecimal elements lose upper bytes; `toASCII` of several bytes adds texts,
and with `IntegerValue` it always fails; a single-value range stays empty; an element with several
LSBs whose selector lies in another item is encoded with another LSB than it was decoded with, and so
is one of an extended item with an FX or Spare element between it and its selector: the encoder sets the
index to 0 at every element with one LSB, these included (`ItemEncodingUtils.cpp:392-395`), while the
decoder, to whom they are not handed, looks at the element before; an
element of exactly 32 bits shifts an `int` by its width (`DecodingUtils.cpp:350`).  `toOctal`
prints decimal digits which a `Record` reads in base 8; the text of a two's complement hexadecimal
is read in base 10; the text made of an octal or hexadecimal number may be gone when it is used, and with
it the LSB that the element selects; unsigned 64-bit texts throw in the constructor; a value made by the client has
no text; `resetElementValue` clears the number and keeps the text.

*Descriptions.*  RE and SP files with more than one compound item are not loadable, as the indices
are renumbered once.  Exceptions of the JSON library other than `parse_error` leave the loader.
RE and SP get no mandatory flag.  The bits of an item are added up in an `unsigned short`
(`Item.cpp:177`), so an item that is too long by a multiple of 65536 bits passes the validation;
`WellFormed` asks for fewer.  A data source with text behind it gets a key of its own, and the
key of a single record differs for SAC or SIC below 100.  A category with a default and data
sources is deleted once per key by `releaseMemory`; one with neither is not deleted at all.

*Records.*  LEN keeps 16 bits of the length.  The FSPEC buffer has a byte for every eight items and
one to spare and is filled with seven per byte: the 71st of 71 items, or the 119th of 119 when FX is
only in every eighth place of the UAP, is written behind it (`encoderForDecodedRecord.hpp:99`; the
comment at line 100 takes one byte for eight items to be enough, which is short for 15 items, and
for whole bytes of seven from 63 on; the byte to spare makes up for it until there).  Shipped categories have fewer than 60.  Elements that belong to no item are dropped, and the loop ends when none is left, so
a mandatory item behind the last element is not missed.  The raw bytes of a record are copied
without the datablock's offset.  A single record that cannot be encoded leaves the AST file open
(`EncoderInterface.cpp:177`); the next open fails and its datablocks are counted and not written
(so the properties about what is parsed again ask that all of them are in the file).

*Set-up and pools.*  The pools of unsigned and 64-bit values are never reset by a release, so
`DecoderInterface.h:67-69` holds for some kinds only.  Releasing one collection resets the values of
all.  The message asks for more than two threads, the code for two.  The encoder always uses as many
threads as there are consumers.  A second set-up keeps the queues of the first, and a new producer
may be given an index outside them.

*Client.*  `--encode` returns before the numbers are passed; `--file` wins over `--encode`; errors
and `--serialize` return without `releaseMemory`; with JSON and text output both on, the text
directory is not emptied, so files of two runs mix.

*JSON.*  Of equal keys the first one stays; text behind the value is ignored; a number outside
`unsigned short` is converted silently, and a Boolean is accepted as one; an unknown item type
becomes `InvalidValue`.

## Not modelled

* The unlocked search of the thread map at `BlockingQueueManager.cpp:88` (a data race on the tree)
  and `getFailuresNumber`/`get` called while a decoding call runs: what they may return is not
  bounded by the code.
* The bytes allocated, as against used, for the presence bits of a compound item; compound subitems
  of RE and SP fields; the growth of a shared `Item` description by a longer repetition while other
  threads read it; elements cut out of more octets than their length needs.
* Rounding of `float` and `double`, categories from 2148 on (whose keys `stoi` refuses), the wording
  of messages, the name of the item in a missing-item report.
* Reading the LEN bytes of a header within two bytes of the end of a file, past the buffer.
* The serialized archives and filter lists (the latter are never read), printing of records,
  look-ups by the client, reading of option texts.
* `nlohmann::json` beyond reading a text: writing, binary formats, pointers, patches, iterators.  The
  codec never calls most of it.
* The tests (read as documentation) and the old decoder (`DecoderInterface_old.cpp`, not built).

## Plan

Done, in this order: the hand-off, the thread pool, the decoding call over them and the abstract
specifications; files and the report; items; elements; descriptions; records in both directions;
set-up, value pools and the application; the description files; proofs of the hand-off, the pool,
its refinement, the walk over a file, the report and the set-up; then of the decoding call as a
whole (use of the manager, delivery, accounts, order), of the value pools, the application, the
encoder's loop over the items, the map of descriptions, the parser of a datablock, the decoding of
elements, their LSB, the way of a value through decoder, client and encoder, and that records are read
as they were written, with the description they were written with.

Left, most valuable first: proofs about
the bits of items; a reader of the report during a call; compound
subitems of RE and SP; the archives.

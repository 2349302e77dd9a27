-------------------------- MODULE FileDecodingProofs --------------------------
(***************************************************************************)
(* The datablocks of a file that decodeFromFile gives to the parsers, for  *)
(* every file, every batch size and every number of files.                 *)
(*                                                                         *)
(* The two loops of a call, setupDecodingFromFile and                      *)
(* startDecodingDatablocks, walk the same bytes.  The proof says so with   *)
(* Reaches: the dispatching loop is always at a place from which the       *)
(* lengths lead to where the scanning loop has stopped.                    *)
(*                                                                         *)
(* The failures reported on the way: decoding uses the report as           *)
(* FailureReport allows, so what is proved of the report holds of it here. *)
(***************************************************************************)
EXTENDS FileDecoding, SequenceTheorems, TLAPS

(* The lengths of f lead from offset a to offset b: b is in every set that *)
(* contains a and, with an offset of the file, the end of its datablock.   *)
Typed(f) == f.size \in Nat /\ f.len \in [0 .. (f.size - 1) -> Nat]
Closed(f, S) == \A p \in S : p < f.size => p + f.len[p] \in S
Reaches(f, a, b) == \A S \in SUBSET Nat : a \in S /\ Closed(f, S) => b \in S

LastEnd == End(Len(parsed))

ScanInv ==
  pc = "scan" =>
    /\ start <= index
    /\ count = 0 => index = start \/ index = file.size
    /\ count > 0 => index <= file.size
    /\ Reaches(file, start, index) \/ index = file.size
    /\ parsed # <<>> => LastEnd = start \/ start = file.size

DispatchInv ==
  pc = "dispatch" =>
    /\ count = 0 => toParse = 0
    /\ count > 0 => toParse = index - start /\ start <= index /\ index <= file.size
    /\ bufferIndex < toParse =>
         Reaches(file, start + bufferIndex, index) \/ index = file.size
    /\ bufferIndex < toParse /\ parsed # <<>> => LastEnd = start + bufferIndex
    /\ bufferIndex >= toParse /\ parsed # <<>> => LastEnd = index \/ index = file.size

WalkInv == TypeOK /\ NoGapNoOverlap /\ ScanInv /\ DispatchInv

-----------------------------------------------------------------------------
(* An offset leads to itself.                                              *)
LEMMA ReachesSelf == ASSUME NEW f, NEW a \in Nat PROVE Reaches(f, a, a)
BY DEF Reaches

(* A way is extended by the datablock at its end.                          *)
LEMMA ReachesFurther ==
  ASSUME NEW f, NEW a \in Nat, NEW b \in Nat, Reaches(f, a, b), b < f.size
  PROVE  Reaches(f, a, b + f.len[b])
BY DEF Reaches, Closed

(* A way that goes on passes the end of the datablock it begins with.      *)
LEMMA ReachesPast ==
  ASSUME NEW f, Typed(f), NEW a \in Nat, NEW b \in Nat, Reaches(f, a, b), a # b, a < f.size
  PROVE  /\ a + f.len[a] <= b
         /\ Reaches(f, a + f.len[a], b)
<1> DEFINE c == a + f.len[a]
<1>1. \A p \in Nat : p < f.size => f.len[p] \in Nat
  BY DEF Typed
<1>2. c \in Nat /\ a <= c
  BY <1>1
<1>3. c <= b
  <2> DEFINE S == {a} \cup {n \in Nat : n >= c}
  <2>1. S \in SUBSET Nat /\ a \in S
    OBVIOUS
  <2>2. Closed(f, S)
    <3> SUFFICES ASSUME NEW p \in S, p < f.size PROVE p + f.len[p] \in S
      BY DEF Closed
    <3>1. CASE p = a
      BY <3>1, <1>2
    <3>2. CASE p # a
      <4>1. p \in Nat /\ p >= c /\ f.len[p] \in Nat
        BY <3>2, <1>1
      <4> QED
        BY <4>1, <1>2
    <3> QED
      BY <3>1, <3>2
  <2>3. b \in S
    BY <2>1, <2>2 DEF Reaches
  <2> QED
    BY <2>3, <1>2
<1>4. ASSUME NEW S \in SUBSET Nat, c \in S, Closed(f, S) PROVE b \in S
  <2> DEFINE T == S \cup {a}
  <2>1. T \in SUBSET Nat /\ a \in T /\ Closed(f, T)
    BY <1>4 DEF Closed
  <2>2. b \in T
    BY <2>1 DEF Reaches
  <2> QED
    BY <2>2
<1> QED
  BY <1>3, <1>4 DEF Reaches

(* The places the model reads hold lengths.                                *)
LEMMA LengthsAreNaturals ==
  ASSUME TypeOK, NEW p \in Nat, p < file.size PROVE file.len[p] \in Nat
BY DEF TypeOK

-----------------------------------------------------------------------------
(* Before the first file there is nothing to walk.                         *)
LEMMA InitWalk == Init => WalkInv
<1> SUFFICES ASSUME Init PROVE WalkInv
  OBVIOUS
<1>1. file.size \in Nat /\ file.len \in [0 .. (file.size - 1) -> Nat]
  <2>1. file.size = 0 /\ file.len = <<>> /\ 0 .. (0 - 1) = {}
    BY DEF Init
  <2>2. <<>> \in [{} -> Nat]
    OBVIOUS
  <2> QED
    BY <2>1, <2>2
<1>2. FR!TypeOK
  <2>1. <<>> \in Seq(FR!Failure) /\ <<>> \in Seq(Raw)
    OBVIOUS
  <2> QED
    BY <2>1 DEF Init, FR!Init, FR!TypeOK
<1>3. parsed \in Seq(Nat) /\ parsed = <<>>
  BY DEF Init
<1>4. TypeOK
  BY <1>1, <1>2, <1>3, FileAssumption DEF Init, TypeOK
<1> QED
  BY <1>3, <1>4 DEF Init, WalkInv, NoGapNoOverlap, ScanInv, DispatchInv

(* A failure added, whatever its datablock, keeps the type of the report.  *)
LEMMA AddedFailureTyped ==
  ASSUME FR!TypeOK, NEW r \in Raw, FR!AddFailure([raw |-> r])
  PROVE  FR!TypeOK'
<1>1. [raw |-> r] \in FR!Failure
  BY DEF FR!Failure
<1> QED
  BY <1>1 DEF FR!AddFailure, FR!TypeOK

(* The dispatching loop reads lengths inside the part of the file scanned  *)
(* before.                                                                 *)
LEMMA OffsetInFile ==
  ASSUME WalkInv, pc = "dispatch", bufferIndex < toParse
  PROVE  /\ count > 0 /\ toParse = index - start /\ index <= file.size
         /\ start + bufferIndex \in Nat /\ start + bufferIndex < file.size
         /\ Length \in Nat
<1>1. count > 0 /\ toParse = index - start /\ index <= file.size
  <2>1. count \in Nat /\ bufferIndex \in Nat
    BY DEF WalkInv, TypeOK
  <2> QED
    BY <2>1 DEF WalkInv, DispatchInv
<1>2. start + bufferIndex \in Nat /\ start + bufferIndex < file.size
  BY <1>1 DEF WalkInv, TypeOK
<1> QED
  BY <1>1, <1>2, LengthsAreNaturals DEF Length, WalkInv

(* Every variable keeps its type.                                          *)
LEMMA TypeStep == WalkInv /\ [Next]_vars => TypeOK'
<1> SUFFICES ASSUME WalkInv, TypeOK, [Next]_vars PROVE TypeOK'
  BY DEF WalkInv
<1> USE DEF TypeOK
<1>a. UNCHANGED reportVars => FR!TypeOK'
  BY DEF reportVars, FR!TypeOK
<1>b. MaxDatablock \in Nat \ {0}
  BY FileAssumption
<1>1. ASSUME NEW f \in Files, SetSourceDatastream(f) PROVE TypeOK'
  <2>1. f.size \in Nat /\ f.len \in [0 .. (f.size - 1) -> Nat]
    BY FileAssumption
  <2>2. parsed' \in Seq(Nat)
    BY <1>1 DEF SetSourceDatastream
  <2> QED
    BY <1>1, <1>a, <2>1, <2>2 DEF SetSourceDatastream, scanVars
<1>2. CASE ClearFailures
  <2>1. FR!TypeOK'
    <3>1. <<>> \in Seq(FR!Failure)
      OBVIOUS
    <3> QED
      BY <1>2, <3>1 DEF ClearFailures, FR!ClearFailures, FR!TypeOK
  <2> QED
    BY <1>2, <2>1 DEF ClearFailures, clientVars, scanVars, dispatchVars
<1>3. CASE DecodeFromFile
  BY <1>3, <1>a, <1>b DEF DecodeFromFile, clientVars, dispatchVars
<1>4. CASE ScanDatablock
  <2>1. file.len[index] \in Nat
    BY <1>4, LengthsAreNaturals DEF ScanDatablock, Scanning
  <2> QED
    BY <1>4, <1>a, <1>b, <2>1 DEF ScanDatablock, Scanning, clientVars, dispatchVars
<1>5. CASE DropIncomplete
  BY <1>5, <1>a DEF DropIncomplete, clientVars, dispatchVars
<1>6. CASE FinishScan
  <2>1. count \in Nat /\ (count # 0 => index - start \in Nat)
    BY <1>6 DEF FinishScan, WalkInv, ScanInv
  <2> QED
    BY <1>6, <1>a, <2>1 DEF FinishScan, clientVars, scanVars
<1>7. CASE DispatchDatablock
  <2>1. start + bufferIndex \in Nat /\ Length \in Nat
    BY <1>7, OffsetInFile DEF DispatchDatablock
  <2>2. /\ parsed' \in Seq(Nat) /\ parsing' \subseteq Nat
        /\ bufferIndex' \in Nat
    BY <1>7, <2>1 DEF DispatchDatablock
  <2>3. UNCHANGED <<clientVars, scanVars, toParse, cutOff, reportVars, pc, decodedRecords>>
    BY <1>7 DEF DispatchDatablock
  <2> QED
    BY <1>a, <2>2, <2>3 DEF clientVars, scanVars
<1>8. CASE ReportIncomplete
  <2>1. start + bufferIndex \in Nat /\ Length \in Nat
    BY <1>8, OffsetInFile DEF ReportIncomplete
  <2>2. FR!TypeOK'
    BY <1>8, AddedFailureTyped DEF ReportIncomplete, Raw
  <2> QED
    BY <1>8, <2>1, <2>2 DEF ReportIncomplete, clientVars, scanVars
<1>9. CASE ReturnRecords
  BY <1>9, <1>a DEF ReturnRecords, clientVars, scanVars, dispatchVars
<1>10. ASSUME NEW o \in parsing, EndParsing(o) PROVE TypeOK'
  BY <1>10, <1>a DEF EndParsing, clientVars, scanVars
<1>11. ASSUME NEW o \in parsing, RejectDatablock(o) PROVE TypeOK'
  <2>1. <<files, o>> \in Raw
    BY <1>11, FileAssumption DEF Raw, RejectDatablock
  <2>2. FR!TypeOK'
    BY <1>11, <2>1, AddedFailureTyped DEF RejectDatablock
  <2> QED
    BY <1>11, <2>2 DEF RejectDatablock, clientVars, scanVars
<1>12. CASE UNCHANGED vars
  BY <1>12, <1>a DEF vars, clientVars, scanVars, dispatchVars
<1> QED
  BY <1>1, <1>2, <1>3, <1>4, <1>5, <1>6, <1>7, <1>8, <1>9, <1>10, <1>11, <1>12 DEF Next, Decoding


walkVars == <<file, index, pc, start, count, toParse, bufferIndex, parsed>>

(* What the walk relates is left alone by a step that only ends parse      *)
(* tasks or touches the report.                                            *)
LEMMA WalkUnchanged ==
  ASSUME WalkInv, UNCHANGED walkVars
  PROVE  NoGapNoOverlap' /\ ScanInv' /\ DispatchInv'
BY DEF WalkInv, walkVars, NoGapNoOverlap, ScanInv, DispatchInv, LastEnd, End

(* The scanning loop: the lengths lead from start to index.                *)
LEMMA ScanStep ==
  ASSUME WalkInv, TypeOK',
         DecodeFromFile \/ ScanDatablock \/ DropIncomplete \/ FinishScan
  PROVE  NoGapNoOverlap' /\ ScanInv' /\ DispatchInv'
<1> USE DEF WalkInv, TypeOK
<1>1. CASE DecodeFromFile
  <2>1. Reaches(file', start', index')
    BY <1>1, ReachesSelf DEF DecodeFromFile, clientVars
  <2> QED
    BY <1>1, <2>1
    DEF DecodeFromFile, clientVars, dispatchVars, NoGapNoOverlap, ScanInv, DispatchInv, LastEnd, End
<1>2. CASE ScanDatablock
  <2>1. pc = "scan" /\ index < file.size /\ file.len[index] \in Nat
    BY <1>2, LengthsAreNaturals DEF ScanDatablock, Scanning
  <2>2. Reaches(file, start, index + file.len[index])
    <3>1. Reaches(file, start, index)
      BY <2>1 DEF ScanInv
    <3>2. start \in Nat /\ index \in Nat
      OBVIOUS
    <3> QED
      BY <2>1, <3>1, <3>2, ReachesFurther
  <2>3. /\ index' = index + file.len[index] /\ index' <= file.size
        /\ count' = count + 1 /\ start' = start
        /\ UNCHANGED <<file, pc, parsed, toParse, bufferIndex>>
    BY <1>2 DEF ScanDatablock, clientVars, dispatchVars
  <2> QED
    BY <2>1, <2>2, <2>3 DEF NoGapNoOverlap, ScanInv, DispatchInv, LastEnd, End
<1>3. CASE DropIncomplete
  <2>1. /\ pc = "scan" /\ index < file.size
        /\ index' = file.size
        /\ UNCHANGED <<file, pc, start, count, parsed, toParse, bufferIndex>>
    BY <1>3 DEF DropIncomplete, Scanning, clientVars, dispatchVars
  <2> QED
    BY <2>1 DEF NoGapNoOverlap, ScanInv, DispatchInv, LastEnd, End
<1>4. CASE FinishScan
  <2>1. /\ pc = "scan" /\ pc' = "dispatch" /\ bufferIndex' = 0
        /\ toParse' = IF count = 0 THEN 0 ELSE index - start
        /\ UNCHANGED <<file, index, start, count, parsed>>
    BY <1>4 DEF FinishScan, clientVars, scanVars
  <2>2. LastEnd' = LastEnd /\ NoGapNoOverlap'
    BY <2>1 DEF LastEnd, End, NoGapNoOverlap
  <2>3. DispatchInv'
    <3>1. CASE count = 0
      BY <2>1, <2>2, <3>1 DEF ScanInv, DispatchInv
    <3>2. CASE count > 0
      <4>1. start <= index /\ index <= file.size /\ toParse' = index - start /\ start + 0 = start
        BY <2>1, <3>2 DEF ScanInv
      <4> QED
        BY <2>1, <2>2, <3>2, <4>1 DEF ScanInv, DispatchInv
    <3> QED
      BY <3>1, <3>2
  <2> QED
    BY <2>1, <2>2, <2>3 DEF ScanInv
<1> QED
  BY <1>1, <1>2, <1>3, <1>4

(* The dispatching loop: it stands where the lengths still lead to index,  *)
(* so the next datablock begins where the last one ends, and the loop ends *)
(* where the scan has ended.                                               *)
LEMMA DispatchStep ==
  ASSUME WalkInv, TypeOK', DispatchDatablock \/ ReportIncomplete \/ ReturnRecords
  PROVE  NoGapNoOverlap' /\ ScanInv' /\ DispatchInv'
<1> USE DEF WalkInv, TypeOK
<1>a. ASSUME pc = "dispatch", bufferIndex < toParse, index # file.size
      PROVE  /\ bufferIndex + Length <= toParse
             /\ Reaches(file, start + bufferIndex + Length, index)
  <2>1. /\ count > 0 /\ toParse = index - start
        /\ start + bufferIndex \in Nat /\ start + bufferIndex < file.size /\ Length \in Nat
    BY <1>a, OffsetInFile
  <2>2. Reaches(file, start + bufferIndex, index) /\ start + bufferIndex # index
    BY <1>a, <2>1 DEF DispatchInv
  <2>3. /\ start + bufferIndex + Length <= index
        /\ Reaches(file, start + bufferIndex + Length, index)
    BY <2>1, <2>2, ReachesPast DEF Typed, Length
  <2> QED
    BY <2>1, <2>3
<1>1. CASE DispatchDatablock
  <2>1. /\ count > 0 /\ toParse = index - start /\ index <= file.size
        /\ start + bufferIndex \in Nat /\ start + bufferIndex < file.size /\ Length \in Nat
    BY <1>1, OffsetInFile DEF DispatchDatablock
  <2>2. /\ pc = "dispatch" /\ pc' = pc /\ bufferIndex < toParse
        /\ bufferIndex + Length <= toParse
        /\ parsed' = Append(parsed, start + bufferIndex)
        /\ bufferIndex' = bufferIndex + Length
        /\ UNCHANGED <<file, index, start, count, toParse>>
    BY <1>1 DEF DispatchDatablock, clientVars, scanVars
  <2>3. /\ Len(parsed') = Len(parsed) + 1 /\ parsed'[Len(parsed')] = start + bufferIndex
        /\ \A n \in 1 .. Len(parsed) : parsed'[n] = parsed[n]
    BY <2>1, <2>2, AppendProperties
  <2>4. LastEnd' = start + bufferIndex'
    BY <2>1, <2>2, <2>3 DEF LastEnd, End, Length
  <2>5. ASSUME NEW n \in 1 .. (Len(parsed') - 1) PROVE parsed'[n + 1] = End(n)'
    <3>1. End(n)' = End(n)
      BY <2>2, <2>3 DEF End
    <3>2. CASE n = Len(parsed)
      <4>1. parsed # <<>>
        BY <3>2, <2>3
      <4>2. LastEnd = start + bufferIndex
        BY <2>2, <4>1 DEF DispatchInv
      <4> QED
        BY <2>3, <3>1, <3>2, <4>2 DEF LastEnd
    <3>3. CASE n # Len(parsed)
      <4>1. n \in 1 .. (Len(parsed) - 1) /\ n + 1 \in 1 .. Len(parsed)
        BY <2>3, <3>3
      <4> QED
        BY <2>3, <3>1, <4>1 DEF NoGapNoOverlap
    <3> QED
      BY <3>2, <3>3
  <2>6. bufferIndex' < toParse' =>
          Reaches(file', start' + bufferIndex', index') \/ index' = file'.size
    <3>1. start + bufferIndex + Length = start' + bufferIndex'
      BY <2>1, <2>2
    <3> HIDE DEF Length
    <3> QED
      BY <1>a, <2>2, <3>1
  <2>7. bufferIndex' >= toParse' => LastEnd' = index'
    BY <2>1, <2>2, <2>4
  <2> HIDE DEF LastEnd, Length, Reaches
  <2> QED
    BY <2>1, <2>2, <2>4, <2>5, <2>6, <2>7 DEF NoGapNoOverlap, ScanInv, DispatchInv
<1>2. CASE ReportIncomplete
  <2>1. /\ pc = "dispatch" /\ pc' = pc /\ bufferIndex < toParse
        /\ bufferIndex + Length > toParse
        /\ bufferIndex' = bufferIndex + Length
        /\ UNCHANGED <<file, index, start, count, toParse, parsed>>
    BY <1>2 DEF ReportIncomplete, clientVars, scanVars
  <2>2. Length \in Nat
    BY <2>1, OffsetInFile
  <2>3. index = file.size
    BY <1>a, <2>1, <2>2
  <2>4. bufferIndex' >= toParse'
    BY <2>1, <2>2
  <2> HIDE DEF Length
  <2> QED
    BY <2>1, <2>3, <2>4 DEF NoGapNoOverlap, ScanInv, DispatchInv, LastEnd, End
<1>3. CASE ReturnRecords
  BY <1>3
  DEF ReturnRecords, clientVars, scanVars, dispatchVars, NoGapNoOverlap, ScanInv, DispatchInv,
      LastEnd, End
<1> QED
  BY <1>1, <1>2, <1>3

(* The invariant of every reachable state.                                 *)
LEMMA WalkInvariant == Spec => []WalkInv
<1>1. WalkInv /\ [Next]_vars => WalkInv'
  <2> SUFFICES ASSUME WalkInv, [Next]_vars PROVE NoGapNoOverlap' /\ ScanInv' /\ DispatchInv'
    BY TypeStep DEF WalkInv
  <2>1. TypeOK'
    BY TypeStep
  <2>2. ASSUME NEW f \in Files, SetSourceDatastream(f)
        PROVE  NoGapNoOverlap' /\ ScanInv' /\ DispatchInv'
    BY <2>2 DEF SetSourceDatastream, NoGapNoOverlap, ScanInv, DispatchInv
  <2>3. CASE UNCHANGED walkVars
    BY <2>3, WalkUnchanged
  <2>4. /\ ClearFailures => UNCHANGED walkVars
        /\ UNCHANGED vars => UNCHANGED walkVars
        /\ \A o \in parsing : EndParsing(o) \/ RejectDatablock(o) => UNCHANGED walkVars
    BY DEF ClearFailures, EndParsing, RejectDatablock, vars, clientVars, scanVars,
           dispatchVars, walkVars
  <2> QED
    BY <2>1, <2>2, <2>3, <2>4, ScanStep, DispatchStep DEF Next, Decoding
<1> QED
  BY <1>1, InitWalk, PTL DEF Spec

(* The offsets, counters and the report keep their types.                  *)
THEOREM TypeCorrect == Spec => []TypeOK
<1>1. WalkInv => TypeOK
  BY DEF WalkInv
<1> QED
  BY <1>1, WalkInvariant, PTL

(* decodeFromFile gives the datablocks of any file to the parsers without  *)
(* gap or overlap, across batches too, and its dispatching loop ends where *)
(* the scan ended: bytes are only lost behind the last complete datablock. *)
THEOREM DatablocksTile == Spec => []NoGapNoOverlap
<1>1. WalkInv => NoGapNoOverlap
  BY DEF WalkInv
<1> QED
  BY <1>1, WalkInvariant, PTL

-----------------------------------------------------------------------------
(* The same walk with its datablocks counted: k of them lead from a to b.  *)
ClosedPairs(f, S) == \A s \in S : s[1] < f.size => <<s[1] + f.len[s[1]], s[2] + 1>> \in S
ReachesIn(f, a, b, k) ==
  \A S \in SUBSET (Nat \X Nat) : <<a, 0>> \in S /\ ClosedPairs(f, S) => <<b, k>> \in S

(* Where the scanning loop stopped counting: at index, or at a datablock   *)
(* that is cut off, behind which it put the index.                         *)
StoppedAt(e) ==
  \/ e = index
  \/ index = file.size /\ e < file.size /\ e + file.len[e] > file.size

(* This call has dispatched d datablocks, the first one at start.          *)
Dispatched(d) ==
  /\ d <= Len(parsed)
  /\ d = 0 => bufferIndex = 0
  /\ d > 0 => parsed[Len(parsed) - d + 1] = start

Ahead(d) == \E e \in Nat : ReachesIn(file, start + bufferIndex, e, count - d) /\ StoppedAt(e)

CountedScan == pc = "scan" => \E e \in Nat : ReachesIn(file, start, e, count) /\ StoppedAt(e)

CountedDispatch ==
  (pc = "dispatch" /\ count > 0 /\ NoZeroLength) =>
    \E d \in 0 .. count : Dispatched(d) /\ (Ahead(d) \/ (d = count /\ bufferIndex >= toParse))

CountInv == CountedScan /\ CountedDispatch /\ TwoScansAgree

(* No datablock leads from an offset to itself.                            *)
LEMMA NoSteps == ASSUME NEW f, NEW a \in Nat PROVE ReachesIn(f, a, a, 0)
BY DEF ReachesIn

(* One datablock more leads to its end.                                    *)
LEMMA OneStepMore ==
  ASSUME NEW f, NEW a \in Nat, NEW b \in Nat, NEW k \in Nat, ReachesIn(f, a, b, k), b < f.size
  PROVE  ReachesIn(f, a, b + f.len[b], k + 1)
<1> SUFFICES ASSUME NEW S \in SUBSET (Nat \X Nat), <<a, 0>> \in S, ClosedPairs(f, S)
             PROVE  <<b + f.len[b], k + 1>> \in S
  BY DEF ReachesIn
<1>1. <<b, k>> \in S
  BY DEF ReachesIn
<1> QED
  BY <1>1 DEF ClosedPairs

(* A way that goes on begins with a datablock of the file, and has one     *)
(* datablock less from the end of it.                                      *)
LEMMA OneStepLess ==
  ASSUME NEW f, Typed(f), NEW a \in Nat, NEW b \in Nat, NEW k \in Nat, ReachesIn(f, a, b, k), a # b
  PROVE  /\ a < f.size /\ a + f.len[a] <= b /\ k > 0
         /\ ReachesIn(f, a + f.len[a], b, k - 1)
<1> DEFINE c == a + f.len[a]
<1>1. \A p \in Nat : p < f.size => f.len[p] \in Nat
  BY DEF Typed
<1>2. a < f.size /\ c <= b /\ k > 0
  <2> DEFINE S == {<<a, 0>>} \cup {s \in Nat \X Nat : a < f.size /\ s[2] > 0 /\ s[1] >= c}
  <2>1. S \in SUBSET (Nat \X Nat) /\ <<a, 0>> \in S
    OBVIOUS
  <2>2. ClosedPairs(f, S)
    <3> SUFFICES ASSUME NEW s \in S, s[1] < f.size PROVE <<s[1] + f.len[s[1]], s[2] + 1>> \in S
      BY DEF ClosedPairs
    <3>1. s[1] \in Nat /\ s[2] \in Nat /\ f.len[s[1]] \in Nat
      BY <1>1, <2>1
    <3>2. CASE s = <<a, 0>>
      BY <3>1, <3>2
    <3>3. CASE s # <<a, 0>>
      <4>1. a < f.size /\ s[1] >= c /\ c \in Nat
        BY <3>3, <1>1
      <4> QED
        BY <3>1, <4>1
    <3> QED
      BY <3>2, <3>3
  <2>3. <<b, k>> \in S
    BY <2>1, <2>2 DEF ReachesIn
  <2> QED
    BY <2>3
<1>3. ASSUME NEW T \in SUBSET (Nat \X Nat), <<c, 0>> \in T, ClosedPairs(f, T)
      PROVE  <<b, k - 1>> \in T
  <2> DEFINE S == {<<a, 0>>} \cup {s \in Nat \X Nat : s[2] > 0 /\ <<s[1], s[2] - 1>> \in T}
  <2>1. S \in SUBSET (Nat \X Nat) /\ <<a, 0>> \in S
    OBVIOUS
  <2>2. ClosedPairs(f, S)
    <3> SUFFICES ASSUME NEW s \in S, s[1] < f.size PROVE <<s[1] + f.len[s[1]], s[2] + 1>> \in S
      BY DEF ClosedPairs
    <3>1. s[1] \in Nat /\ s[2] \in Nat /\ f.len[s[1]] \in Nat
      BY <1>1, <2>1
    <3>2. CASE s = <<a, 0>>
      BY <1>3, <3>1, <3>2
    <3>3. CASE s # <<a, 0>>
      <4>1. <<s[1], s[2] - 1>> \in T /\ s[2] > 0
        BY <3>3
      <4>2. <<s[1] + f.len[s[1]], (s[2] - 1) + 1>> \in T
        BY <1>3, <4>1 DEF ClosedPairs
      <4> QED
        BY <3>1, <4>1, <4>2
    <3> QED
      BY <3>2, <3>3
  <2>3. <<b, k>> \in S
    BY <2>1, <2>2 DEF ReachesIn
  <2> QED
    BY <2>3
<1> QED
  BY <1>2, <1>3 DEF ReachesIn

(* Datablocks of some length never lead back: from an offset to itself     *)
(* there are none.                                                         *)
LEMMA NoLoop ==
  ASSUME NEW f, Typed(f), \A p \in 0 .. (f.size - 1) : f.len[p] > 0,
         NEW a \in Nat, NEW k \in Nat, ReachesIn(f, a, a, k)
  PROVE  k = 0
<1> DEFINE S == {<<a, 0>>} \cup {s \in Nat \X Nat : s[1] > a}
<1>1. S \in SUBSET (Nat \X Nat) /\ <<a, 0>> \in S
  OBVIOUS
<1>2. ClosedPairs(f, S)
  <2> SUFFICES ASSUME NEW s \in S, s[1] < f.size PROVE <<s[1] + f.len[s[1]], s[2] + 1>> \in S
    BY DEF ClosedPairs
  <2>1. s[1] \in Nat /\ s[2] \in Nat /\ s[1] >= a
    BY <1>1
  <2>2. f.len[s[1]] \in Nat /\ f.len[s[1]] > 0
    BY <2>1 DEF Typed
  <2> QED
    BY <2>1, <2>2
<1>3. <<a, k>> \in S
  BY <1>1, <1>2 DEF ReachesIn
<1> QED
  BY <1>3

-----------------------------------------------------------------------------
(* The scanning loop counts the datablocks it walks over.                  *)
LEMMA CountingStep ==
  ASSUME WalkInv, CountInv, DecodeFromFile \/ ScanDatablock \/ DropIncomplete \/ FinishScan
  PROVE  CountInv'
<1>t. /\ index \in Nat /\ start \in Nat /\ count \in Nat /\ parsed \in Seq(Nat) /\ file.size \in Nat
      /\ Len(parsed) \in Nat
  BY DEF WalkInv, TypeOK
<1>1. CASE DecodeFromFile
  <2>1. pc' = "scan" /\ start' = index /\ index' = index /\ count' = 0 /\ file' = file
    BY <1>1 DEF DecodeFromFile, clientVars
  <2>2. ReachesIn(file', start', index', count') /\ StoppedAt(index)'
    BY <2>1, <1>t, NoSteps DEF StoppedAt
  <2>3. CountedScan'
    BY <2>1, <2>2, <1>t DEF CountedScan
  <2> QED
    BY <2>1, <2>3 DEF CountInv, CountedDispatch, TwoScansAgree
<1>2. CASE ScanDatablock
  <2>1. /\ pc = "scan" /\ pc' = "scan" /\ index < file.size /\ start' = start /\ file' = file
        /\ index' = index + file.len[index] /\ count' = count + 1
    BY <1>2 DEF ScanDatablock, Scanning, clientVars
  <2>2. ReachesIn(file, start, index, count)
    BY <2>1, <1>t DEF CountInv, CountedScan, StoppedAt
  <2>3. ReachesIn(file', start', index', count')
    BY <2>1, <2>2, <1>t, OneStepMore
  <2>4. index' \in Nat /\ StoppedAt(index)'
    <3>1. file.len[index] \in Nat
      BY <2>1, <1>t, LengthsAreNaturals DEF WalkInv
    <3> QED
      BY <2>1, <3>1, <1>t DEF StoppedAt
  <2>5. CountedScan'
    BY <2>3, <2>4 DEF CountedScan
  <2> QED
    BY <2>1, <2>5 DEF CountInv, CountedDispatch, TwoScansAgree
<1>3. CASE DropIncomplete
  <2>1. /\ pc = "scan" /\ pc' = "scan" /\ index < file.size /\ index + file.len[index] > file.size
        /\ index' = file.size /\ UNCHANGED <<file, start, count>>
    BY <1>3 DEF DropIncomplete, Scanning, clientVars
  <2>2. ReachesIn(file, start, index, count)
    BY <2>1, <1>t DEF CountInv, CountedScan, StoppedAt
  <2>3. PICK e \in Nat : e = index
    BY <1>t
  <2>4. ReachesIn(file', start', e, count') /\ StoppedAt(e)'
    BY <2>1, <2>2, <2>3 DEF StoppedAt
  <2>5. CountedScan'
    BY <2>4 DEF CountedScan
  <2> QED
    BY <2>1, <2>5 DEF CountInv, CountedDispatch, TwoScansAgree
<1>4. CASE FinishScan
  <2>1. /\ pc = "scan" /\ pc' = "dispatch" /\ bufferIndex' = 0
        /\ UNCHANGED <<file, index, start, count, parsed>>
    BY <1>4 DEF FinishScan, clientVars, scanVars
  <2>2. PICK e \in Nat : ReachesIn(file, start, e, count) /\ StoppedAt(e)
    BY <2>1 DEF CountInv, CountedScan
  <2>3. Ahead(0)'
    <3>1. start' + bufferIndex' = start /\ count' - 0 = count
      BY <2>1, <1>t
    <3>2. StoppedAt(e)'
      BY <2>1, <2>2 DEF StoppedAt
    <3> QED
      BY <2>1, <2>2, <3>1, <3>2 DEF Ahead
  <2>4. Dispatched(0)'
    BY <2>1, <1>t DEF Dispatched
  <2> HIDE DEF Ahead, Dispatched
  <2>5. CountedDispatch'
    BY <2>1, <2>3, <2>4, <1>t DEF CountedDispatch
  <2> QED
    BY <2>1, <2>5 DEF CountInv, CountedScan, TwoScansAgree
<1> QED
  BY <1>1, <1>2, <1>3, <1>4

(* The dispatching loop walks over as many.                                *)
LEMMA DispatchingStep ==
  ASSUME WalkInv, CountInv, DispatchDatablock \/ ReportIncomplete \/ ReturnRecords
  PROVE  CountInv'
<1> SUFFICES ASSUME NoZeroLength PROVE CountInv'
  <2>1. file' = file /\ pc = "dispatch" /\ pc' \in {"dispatch", "idle"}
    BY DEF DispatchDatablock, ReportIncomplete, ReturnRecords, clientVars
  <2> QED
    BY <2>1 DEF CountInv, CountedScan, CountedDispatch, TwoScansAgree, NoZeroLength
<1> DEFINE p == start + bufferIndex
<1>t. /\ index \in Nat /\ start \in Nat /\ count \in Nat /\ parsed \in Seq(Nat) /\ file.size \in Nat
      /\ bufferIndex \in Nat /\ toParse \in Nat /\ Len(parsed) \in Nat /\ p \in Nat /\ Typed(file)
  BY DEF WalkInv, TypeOK, Typed
<1>l. \A o \in 0 .. (file.size - 1) : file.len[o] > 0
  <2>1. DOMAIN file.len = 0 .. (file.size - 1)
    BY DEF WalkInv, TypeOK
  <2> QED
    BY <2>1 DEF NoZeroLength
<1>u. file' = file /\ pc = "dispatch" /\ UNCHANGED <<start, index, count, toParse>>
  BY DEF DispatchDatablock, ReportIncomplete, ReturnRecords, clientVars, scanVars, dispatchVars
<1>c. CASE count = 0
  BY <1>c, <1>u DEF CountInv, CountedScan, CountedDispatch, TwoScansAgree,
     DispatchDatablock, ReportIncomplete, ReturnRecords
<1>d. CASE count > 0
  <2>1. PICK d \in 0 .. count : Dispatched(d) /\ (Ahead(d) \/ (d = count /\ bufferIndex >= toParse))
    BY <1>u, <1>d DEF CountInv, CountedDispatch
  <2>2. toParse = index - start /\ start <= index /\ index <= file.size
    BY <1>u, <1>d DEF WalkInv, DispatchInv
  <2>3. CASE DispatchDatablock
    <3>1. /\ bufferIndex < toParse /\ bufferIndex + Length <= toParse /\ pc' = "dispatch"
          /\ parsed' = Append(parsed, p) /\ bufferIndex' = bufferIndex + Length
      BY <2>3 DEF DispatchDatablock
    <3>2. PICK e \in Nat : ReachesIn(file, p, e, count - d) /\ StoppedAt(e)
      BY <2>1, <3>1, <1>t DEF Ahead
    <3>3. p # e /\ p < file.size /\ Length \in Nat
      <4>1. p < file.size /\ Length \in Nat
        BY <3>1, <1>u, OffsetInFile
      <4>2. p < index
        BY <2>2, <3>1, <1>t
      <4>3. CASE index = file.size /\ e + file.len[e] > file.size
        <5>1. p + Length <= index
          <6> HIDE DEF Length
          <6> QED
            BY <2>2, <3>1, <4>1, <1>t
        <5>2. Length = file.len[p]
          BY DEF Length
        <5>3. p = e => e + file.len[e] <= index
          BY <5>1, <5>2
        <5> QED
          BY <4>1, <4>3, <5>3, <1>t, LengthsAreNaturals DEF WalkInv
      <4>4. CASE e = index
        BY <4>1, <4>2, <4>4
      <4>5. e = index \/ (index = file.size /\ e + file.len[e] > file.size)
        BY <3>2 DEF StoppedAt
      <4> QED
        BY <4>3, <4>4, <4>5
    <3>4. count - d > 0 /\ ReachesIn(file, p + Length, e, count - d - 1)
      <4> DEFINE k == count - d
      <4>1. k \in Nat
        BY <2>1, <1>t
      <4>2. p < file.size /\ p + file.len[p] <= e /\ k > 0 /\ ReachesIn(file, p + file.len[p], e, k - 1)
        <5> HIDE DEF k, p
        <5> QED
          BY <3>2, <3>3, <4>1, <1>t, OneStepLess DEF k
      <4> QED
        BY <4>2 DEF Length
    <3>5. d + 1 \in 0 .. count /\ Ahead(d + 1)'
      <4>1. start' + bufferIndex' = p + Length /\ count' - (d + 1) = count - d - 1
        BY <3>1, <3>3, <1>t, <1>u
      <4>2. StoppedAt(e)'
        BY <3>2, <1>u DEF StoppedAt
      <4> QED
        BY <3>4, <4>1, <4>2, <1>t, <1>u DEF Ahead
    <3>6. Dispatched(d + 1)'
      <4>1. /\ Len(parsed') = Len(parsed) + 1 /\ parsed'[Len(parsed) + 1] = p
            /\ \A n \in 1 .. Len(parsed) : parsed'[n] = parsed[n]
        BY <3>1, <1>t, AppendProperties
      <4>2. CASE d = 0
        BY <2>1, <4>1, <4>2, <1>t, <1>u DEF Dispatched
      <4>3. CASE d > 0
        <5>1. d <= Len(parsed) /\ parsed[Len(parsed) - d + 1] = start
          BY <2>1, <4>3 DEF Dispatched
        <5>2. Len(parsed') - (d + 1) + 1 = Len(parsed) - d + 1 /\ Len(parsed) - d + 1 \in 1 .. Len(parsed)
          BY <4>1, <4>3, <5>1, <1>t
        <5> QED
          BY <4>1, <4>3, <5>1, <5>2, <1>t, <1>u DEF Dispatched
      <4> QED
        BY <4>2, <4>3
    <3> HIDE DEF Ahead, Dispatched
    <3>7. CountedDispatch'
      BY <3>5, <3>6, <1>u DEF CountedDispatch
    <3> QED
      BY <3>1, <3>7 DEF CountInv, CountedScan, TwoScansAgree
  <2>4. CASE ReportIncomplete
    <3>1. /\ bufferIndex < toParse /\ bufferIndex + Length > toParse /\ pc' = "dispatch"
          /\ parsed' = parsed /\ bufferIndex' = bufferIndex + Length
      BY <2>4 DEF ReportIncomplete
    <3>2. PICK e \in Nat : ReachesIn(file, p, e, count - d) /\ StoppedAt(e)
      BY <2>1, <3>1, <1>t DEF Ahead
    <3>3. p < file.size /\ Length \in Nat /\ e <= index
      BY <2>2, <3>1, <3>2, <1>t, LengthsAreNaturals DEF StoppedAt, Length, WalkInv
    <3>4. p = e
      <4> SUFFICES ASSUME p # e PROVE FALSE
        OBVIOUS
      <4> DEFINE k == count - d
      <4>1. p + Length <= e
        <5>1. k \in Nat
          BY <2>1, <1>t
        <5>2. p + file.len[p] <= e
          <6> HIDE DEF k, p
          <6> QED
            BY <3>2, <5>1, <1>t, OneStepLess DEF k
        <5> QED
          BY <5>2 DEF Length
      <4> HIDE DEF Length
      <4> QED
        BY <2>2, <3>1, <3>3, <4>1, <1>t
    <3>5. d = count
      <4> DEFINE k == count - d
      <4>1. k \in Nat
        BY <2>1, <1>t
      <4>2. k = 0
        <5> HIDE DEF k, p
        <5> QED
          BY <3>2, <3>4, <4>1, <1>t, <1>l, NoLoop DEF k
      <4> QED
        BY <4>2, <2>1, <1>t
    <3>6. bufferIndex' >= toParse' /\ Dispatched(d)'
      BY <2>1, <3>1, <3>3, <3>5, <1>d, <1>t, <1>u DEF Dispatched
    <3> HIDE DEF Ahead, Dispatched
    <3>7. CountedDispatch'
      BY <3>5, <3>6, <1>u DEF CountedDispatch
    <3> QED
      BY <3>1, <3>7 DEF CountInv, CountedScan, TwoScansAgree
  <2>5. CASE ReturnRecords
    <3>1. bufferIndex >= toParse /\ pc' = "idle" /\ UNCHANGED <<parsed, bufferIndex>>
      BY <2>5 DEF ReturnRecords, dispatchVars
    <3>2. d = count
      <4>1. CASE Ahead(d)
        <5>1. PICK e \in Nat : ReachesIn(file, p, e, count - d) /\ StoppedAt(e)
          BY <4>1 DEF Ahead
        <5>2. e <= p
          BY <2>2, <3>1, <5>1, <1>t DEF StoppedAt
        <5> DEFINE k == count - d
        <5>3. k \in Nat
          BY <2>1, <1>t
        <5>4. p = e
          <6> SUFFICES ASSUME p # e PROVE FALSE
            OBVIOUS
          <6>1. p < file.size /\ p + file.len[p] <= e
            <7> HIDE DEF k, p
            <7> QED
              BY <5>1, <5>3, <1>t, OneStepLess DEF k
          <6>2. file.len[p] \in Nat /\ file.len[p] > 0
            BY <6>1, <1>t, <1>l DEF Typed
          <6> QED
            BY <5>2, <6>1, <6>2, <1>t
        <5>5. k = 0
          <6> HIDE DEF k, p
          <6> QED
            BY <5>1, <5>3, <5>4, <1>t, <1>l, NoLoop DEF k
        <5> QED
          BY <5>5, <2>1, <1>t
      <4> QED
        BY <2>1, <4>1
    <3>3. count <= Len(parsed) /\ parsed[Len(parsed) - count + 1] = start
      BY <2>1, <3>2, <1>d DEF Dispatched
    <3> QED
      BY <3>1, <3>3, <1>u DEF CountInv, CountedScan, CountedDispatch, TwoScansAgree
  <2> QED
    BY <2>3, <2>4, <2>5
<1> QED
  BY <1>c, <1>d, <1>t

(* setupDecodingFromFile and startDecodingDatablocks agree on the          *)
(* datablocks of every batch of every file: what the one counts, the other *)
(* gives to the parsers, from the first byte of the batch on.              *)
THEOREM ScansAgree == Spec => []TwoScansAgree
<1>1. Init => CountInv
  BY DEF Init, CountInv, CountedScan, CountedDispatch, TwoScansAgree
<1>2. WalkInv /\ CountInv /\ [Next]_vars => CountInv'
  <2> SUFFICES ASSUME WalkInv, CountInv, [Next]_vars PROVE CountInv'
    OBVIOUS
  <2>1. ASSUME NEW f \in Files, SetSourceDatastream(f) PROVE CountInv'
    BY <2>1 DEF SetSourceDatastream, CountInv, CountedScan, CountedDispatch, TwoScansAgree
  <2>2. ASSUME UNCHANGED walkVars, UNCHANGED decodedRecords PROVE CountInv'
    BY <2>2 DEF walkVars, CountInv, CountedScan, CountedDispatch, TwoScansAgree, StoppedAt,
       Dispatched, Ahead, NoZeroLength
  <2>3. /\ ClearFailures \/ UNCHANGED vars => UNCHANGED walkVars /\ UNCHANGED decodedRecords
        /\ \A o \in parsing : EndParsing(o) \/ RejectDatablock(o) =>
             UNCHANGED walkVars /\ UNCHANGED decodedRecords
    BY DEF ClearFailures, EndParsing, RejectDatablock, vars, clientVars, scanVars,
           dispatchVars, walkVars
  <2> QED
    BY <2>1, <2>2, <2>3, CountingStep, DispatchingStep DEF Next, Decoding
<1>3. CountInv => TwoScansAgree
  BY DEF CountInv
<1> QED
  BY <1>1, <1>2, <1>3, WalkInvariant, PTL DEF Spec

-----------------------------------------------------------------------------
(* The report.  clearFailures empties all of its parallel vectors but      *)
(* rawDatablocks: what is left is still enough to read a failure back.     *)
ReportInv == FR!TypeOK /\ FR!LastPointersMatch

(* Appending one failure keeps the pointers of the report at the end.      *)
LEMMA AddedPointerMatches ==
  ASSUME ReportInv, NEW f \in FR!Failure, FR!AddFailure(f)
  PROVE  FR!LastPointersMatch'
<1>1. /\ Len(failures) \in Nat /\ Len(rawDatablocks) \in Nat
      /\ Len(failures') = Len(failures) + 1
      /\ Len(rawDatablocks') = Len(rawDatablocks) + 1
      /\ failures'[Len(failures) + 1] = f
      /\ rawDatablocks'[Len(rawDatablocks) + 1] = f.raw
      /\ \A i \in 1 .. Len(failures) : failures'[i] = failures[i]
      /\ \A i \in 1 .. Len(rawDatablocks) : rawDatablocks'[i] = rawDatablocks[i]
  <2>1. f.raw \in Raw
    BY DEF FR!Failure
  <2> QED
    BY <2>1, AppendProperties DEF ReportInv, FR!TypeOK, FR!AddFailure
<1>2. Len(failures') <= Len(rawDatablocks')
  BY <1>1 DEF ReportInv, FR!LastPointersMatch
<1>3. ASSUME NEW i \in 1 .. Len(failures')
      PROVE  rawDatablocks'[Len(rawDatablocks') - Len(failures') + i] = failures'[i].raw
  <2> DEFINE n == Len(rawDatablocks) - Len(failures) + i
  <2>1. Len(rawDatablocks') - Len(failures') + i = n
    BY <1>1
  <2>2. CASE i = Len(failures) + 1
    BY <1>1, <2>1, <2>2
  <2>3. CASE i \in 1 .. Len(failures)
    <3>1. n \in 1 .. Len(rawDatablocks) /\ rawDatablocks[n] = failures[i].raw
      BY <1>1, <2>3 DEF ReportInv, FR!LastPointersMatch
    <3> QED
      BY <1>1, <2>1, <2>3, <3>1
  <2> QED
    BY <1>1, <2>2, <2>3
<1> QED
  BY <1>2, <1>3 DEF FR!LastPointersMatch

(* Whoever adds to the report and clears it, a reader (getRawDatablock,    *)
(* printOnFile) stays inside rawDatablocks, and the failures in the report *)
(* own its last entries; clearFailures leaves the others behind for good.  *)
THEOREM PointersOfReport == FR!Spec => []FR!LastPointersMatch
<1>1. FR!Init => ReportInv
  <2> SUFFICES ASSUME FR!Init PROVE ReportInv
    OBVIOUS
  <2>1. failures \in Seq(FR!Failure) /\ rawDatablocks \in Seq(Raw)
    BY DEF FR!Init
  <2> QED
    BY <2>1 DEF FR!Init, ReportInv, FR!TypeOK, FR!LastPointersMatch
<1>2. ReportInv /\ [FR!Next]_FR!reportVars => ReportInv'
  <2> SUFFICES ASSUME ReportInv, [FR!Next]_FR!reportVars PROVE ReportInv'
    OBVIOUS
  <2>1. ASSUME NEW f \in FR!Failure, FR!AddFailure(f) PROVE ReportInv'
    <3>1. f.raw \in Raw
      BY DEF FR!Failure
    <3>2. FR!TypeOK'
      BY <2>1, <3>1 DEF ReportInv, FR!TypeOK, FR!AddFailure
    <3> QED
      BY <2>1, <3>2, AddedPointerMatches DEF ReportInv
  <2>2. CASE FR!ClearFailures
    <3>1. failures' \in Seq(FR!Failure) /\ Len(failures') = 0 /\ rawDatablocks' = rawDatablocks
      BY <2>2 DEF FR!ClearFailures
    <3> QED
      BY <3>1 DEF ReportInv, FR!TypeOK, FR!LastPointersMatch
  <2>3. CASE UNCHANGED FR!reportVars
    BY <2>3 DEF FR!reportVars, ReportInv, FR!TypeOK, FR!LastPointersMatch
  <2> QED
    BY <2>1, <2>2, <2>3 DEF FR!Next
<1>3. ReportInv => FR!LastPointersMatch
  BY DEF ReportInv
<1> QED
  BY <1>1, <1>2, <1>3, PTL DEF FR!Spec

(* Decoding files and clearing the report between the calls does nothing   *)
(* to it but add failures of its kind and clear them.                      *)
THEOREM DecodingUsesReport == Spec => FR!Spec
<1>1. Init => FR!Init
  BY DEF Init
<1>2. WalkInv /\ [Next]_vars => [FR!Next]_FR!reportVars
  <2> SUFFICES ASSUME WalkInv, [Next]_vars PROVE [FR!Next]_FR!reportVars
    OBVIOUS
  <2>1. CASE ClearFailures
    BY <2>1 DEF ClearFailures, FR!Next
  <2>2. CASE ReportIncomplete
    <3>1. [raw |-> "nullptr"] \in FR!Failure
      BY DEF FR!Failure, Raw
    <3> QED
      BY <2>2, <3>1 DEF ReportIncomplete, FR!Next
  <2>3. ASSUME NEW o \in parsing, RejectDatablock(o) PROVE [FR!Next]_FR!reportVars
    <3>1. [raw |-> <<files, o>>] \in FR!Failure
      BY DEF FR!Failure, Raw, WalkInv, TypeOK
    <3> QED
      BY <2>3, <3>1 DEF RejectDatablock, FR!Next
  <2>4. \/ \E f \in Files : SetSourceDatastream(f)
        \/ DecodeFromFile \/ ScanDatablock \/ DropIncomplete \/ FinishScan
        \/ DispatchDatablock \/ ReturnRecords \/ \E o \in parsing : EndParsing(o)
        \/ UNCHANGED vars
        => UNCHANGED FR!reportVars
    BY DEF SetSourceDatastream, DecodeFromFile, ScanDatablock, DropIncomplete, FinishScan,
           DispatchDatablock, ReturnRecords, EndParsing, vars, reportVars, FR!reportVars
  <2> QED
    BY <2>1, <2>2, <2>3, <2>4 DEF Next, Decoding
<1> QED
  BY <1>1, <1>2, WalkInvariant, PTL DEF Spec, FR!Spec
=============================================================================

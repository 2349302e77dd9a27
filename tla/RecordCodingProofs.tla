--------------------------- MODULE RecordCodingProofs ---------------------------
(***************************************************************************)
(* What is proved of the encoder for every description, whatever the       *)
(* clients encode, and of the parser for every stream of bytes, the        *)
(* encoder's or one received from others.                                  *)
(*                                                                         *)
(* The encoder's loop over the items and the search for the end of a field *)
(* are recursive functions; that they exist, and what holds after every    *)
(* step, is proved by way of the least number for which it would not.      *)
(***************************************************************************)
EXTENDS RecordCoding, SequenceTheorems, WellFoundedInduction, TLAPS

(* A set of natural numbers that is not empty has a least element.         *)
LEMMA LeastElement ==
  ASSUME NEW S, S \subseteq Nat, S # {}
  PROVE  \E m \in S : \A k \in S : m <= k
<1>1. PICK m \in S : \A y \in S : ~ (<<y, m>> \in OpToRel(<, Nat))
  BY NatLessThanWellFounded, WFMin
<1>2. \A y \in S : ~ (<<y, m>> \in {ss \in Nat \X Nat : ss[1] < ss[2]})
  BY <1>1 DEF OpToRel
<1>3. \A y \in S : ~ (y < m)
  BY <1>2
<1> QED
  BY <1>3

-----------------------------------------------------------------------------
(* The states of the loop, before the first item and after each.           *)
IsLoop(f, m, record, items, garbage) ==
  f = [n \in 0 .. m |->
         IF n = 0 THEN NothingEncoded(record, items, garbage)
                  ELSE AfterItem(f[n - 1], n, items[n], record)]

(* The recursive function of the loop exists.                              *)
LEMMA LoopExists ==
  ASSUME NEW record, NEW items, NEW garbage, NEW N \in Nat
  PROVE  \E f : IsLoop(f, N, record, items, garbage)
<1> DEFINE No == {m \in Nat : ~ \E f : IsLoop(f, m, record, items, garbage)}
<1>1. SUFFICES ASSUME No # {} PROVE FALSE
  OBVIOUS
<1>2. PICK m \in No : \A k \in No : m <= k
  <2>1. No \subseteq Nat
    OBVIOUS
  <2> HIDE DEF No
  <2> QED
    BY <1>1, <2>1, LeastElement
<1>3. m # 0
  <2> DEFINE f == [n \in 0 .. 0 |-> NothingEncoded(record, items, garbage)]
  <2>1. \A n \in 0 .. 0 : n = 0
    OBVIOUS
  <2>2. f = [n \in 0 .. 0 |-> IF n = 0 THEN NothingEncoded(record, items, garbage)
                                       ELSE AfterItem(f[n - 1], n, items[n], record)]
    BY <2>1
  <2>3. IsLoop(f, 0, record, items, garbage)
    BY <2>2 DEF IsLoop
  <2> QED
    BY <2>3
<1>4. m - 1 \in Nat /\ m - 1 \notin No
  <2>1. m \in Nat /\ m - 1 \in Nat /\ ~ (m <= m - 1)
    BY <1>3
  <2> QED
    BY <2>1, <1>2
<1>5. PICK f : IsLoop(f, m - 1, record, items, garbage)
  BY <1>4
<1> DEFINE g == [n \in 0 .. m |-> IF n = m THEN AfterItem(f[m - 1], m, items[m], record) ELSE f[n]]
<1>6. \A n \in 0 .. m - 1 : g[n] = f[n]
  <2>1. \A n \in 0 .. m - 1 : n \in 0 .. m /\ n # m
    BY <1>4
  <2> QED
    BY <2>1
<1>7. IsLoop(g, m, record, items, garbage)
  <2>1. ASSUME NEW n \in 0 .. m
        PROVE  g[n] = IF n = 0 THEN NothingEncoded(record, items, garbage)
                               ELSE AfterItem(g[n - 1], n, items[n], record)
    <3>1. CASE n = m
      <4>1. n # 0 /\ m - 1 \in 0 .. m - 1
        BY <3>1, <1>3, <1>4
      <4>2. g[n - 1] = f[m - 1]
        BY <4>1, <3>1, <1>6
      <4>3. g[n] = AfterItem(f[m - 1], m, items[m], record)
        BY <3>1
      <4> HIDE DEF g
      <4> QED
        BY <4>1, <4>2, <4>3, <3>1
    <3>2. CASE n # m
      <4>1. n \in 0 .. m - 1
        BY <3>2, <1>4
      <4>2. g[n] = f[n]
        BY <4>1, <1>6
      <4>3. f[n] = IF n = 0 THEN NothingEncoded(record, items, garbage)
                            ELSE AfterItem(f[n - 1], n, items[n], record)
        <5> HIDE DEF g
        <5> QED
          BY <4>1, <1>5 DEF IsLoop
      <4>4. n # 0 => g[n - 1] = f[n - 1]
        <5>1. n # 0 => n - 1 \in 0 .. m - 1
          BY <4>1
        <5> QED
          BY <5>1, <1>6
      <4> HIDE DEF g
      <4> QED
        BY <4>2, <4>3, <4>4
    <3> QED
      BY <3>1, <3>2
  <2>2. g = [n \in 0 .. m |-> g[n]]
    OBVIOUS
  <2> HIDE DEF g
  <2> QED
    BY <2>1, <2>2 DEF IsLoop
<1> QED
  BY <1>7

LEMMA LoopOfItems ==
  ASSUME NEW record, NEW items, NEW garbage, Len(items) \in Nat
  PROVE  \E f : /\ IsLoop(f, Len(items), record, items, garbage)
                /\ ItemLoop(record, items, garbage) = f[Len(items)]
<1> DEFINE after == CHOOSE f : IsLoop(f, Len(items), record, items, garbage)
<1>1. IsLoop(after, Len(items), record, items, garbage)
  BY LoopExists
<1>2. ItemLoop(record, items, garbage) = after[Len(items)]
  BY DEF ItemLoop, IsLoop
<1> QED
  BY <1>1, <1>2

-----------------------------------------------------------------------------
(* A field under construction in the buffer for N items: the byte built is *)
(* that of the item visited last, and no write fell outside the buffer.    *)
FieldRecord ==
  [FSPEC : Seq(0 .. 255), FSPEC_index : Nat, bits : Nat, lastFRNset : Nat, outside : BOOLEAN]

(* How many items the buffer holds: 70, or 112 when the description has    *)
(* whole bytes of seven items, as one has whose file puts FX nowhere but   *)
(* in every eighth place.                                                  *)
Fits(N) == N <= 70 \/ (N % 7 = 0 /\ N <= 112)

FieldInv(f, N) ==
  /\ f \in FieldRecord
  /\ Len(f.FSPEC) = Cleared(N) + 1
  /\ f.FSPEC_index = f.bits \div 7
  /\ f.lastFRNset <= f.bits
  /\ Fits(N) => ~ f.outside

LEMMA NewFieldInv ==
  ASSUME NEW N \in Nat, NEW garbage \in 0 .. 255
  PROVE  FieldInv(NewField(N, garbage), N) /\ NewField(N, garbage).bits = 0
<1> DEFINE zeros == [b \in 1 .. Cleared(N) |-> 0]
<1>1. Cleared(N) \in Nat
  BY DEF Cleared
<1>2. zeros \in Seq(0 .. 255) /\ Len(zeros) = Cleared(N)
  BY <1>1
<1>3. <<garbage>> \in Seq(0 .. 255) /\ Len(<<garbage>>) = 1
  OBVIOUS
<1>4. zeros \o <<garbage>> \in Seq(0 .. 255) /\ Len(zeros \o <<garbage>>) = Cleared(N) + 1
  <2> HIDE DEF zeros
  <2> QED
    BY <1>2, <1>3, ConcatProperties
<1>5. 0 \div 7 = 0
  OBVIOUS
<1>6. NewField(N, garbage) = [FSPEC |-> zeros \o <<garbage>>, FSPEC_index |-> 0, bits |-> 0,
                               lastFRNset |-> 0, outside |-> FALSE]
  BY DEF NewField
<1> HIDE DEF zeros
<1> QED
  BY <1>4, <1>5, <1>6 DEF FieldInv, FieldRecord

LEMMA ShiftInInv ==
  ASSUME NEW f \in FieldRecord, NEW bit \in {0, 1}
  PROVE  /\ ShiftIn(f, bit) \in FieldRecord
         /\ Len(ShiftIn(f, bit).FSPEC) = Len(f.FSPEC)
         /\ ShiftIn(f, bit).FSPEC_index = f.FSPEC_index
         /\ ShiftIn(f, bit).bits = f.bits
         /\ ShiftIn(f, bit).lastFRNset = f.lastFRNset
         /\ f.FSPEC_index < Len(f.FSPEC) => ShiftIn(f, bit).outside = f.outside
<1>1. CASE f.FSPEC_index < Len(f.FSPEC)
  <2> DEFINE i == f.FSPEC_index + 1
             value == (2 * f.FSPEC[i] + bit) % 256
             field == [f.FSPEC EXCEPT ![i] = value]
  <2>1. f.FSPEC \in Seq(0 .. 255) /\ i \in 1 .. Len(f.FSPEC)
    BY <1>1 DEF FieldRecord
  <2>2. f.FSPEC[i] \in 0 .. 255
    <3> HIDE DEF i
    <3> QED
      BY <2>1, ElementOfSeq
  <2>3. value \in 0 .. 255
    <3> DEFINE byte == f.FSPEC[i]
    <3>1. byte \in 0 .. 255
      BY <2>2
    <3> HIDE DEF byte
    <3>2. 2 * byte + bit \in Nat
      BY <3>1
    <3>3. (2 * byte + bit) % 256 \in 0 .. 255
      BY <3>2
    <3> QED
      BY <3>3 DEF byte
  <2> HIDE DEF value
  <2>4. field \in Seq(0 .. 255) /\ Len(field) = Len(f.FSPEC)
    BY <2>1, <2>3
  <2>5. ShiftIn(f, bit) = [f EXCEPT !.FSPEC = field]
    BY <1>1 DEF ShiftIn, FieldRecord, value
  <2> HIDE DEF field
  <2> QED
    BY <2>4, <2>5 DEF FieldRecord
<1>2. CASE ~ (f.FSPEC_index < Len(f.FSPEC))
  <2>1. ShiftIn(f, bit) = [f EXCEPT !.outside = TRUE]
    BY <1>2 DEF ShiftIn
  <2> QED
    BY <2>1, <1>2 DEF FieldRecord
<1> QED
  BY <1>1, <1>2

LEMMA ItemInBuffer ==
  ASSUME NEW N \in Nat, NEW n \in Nat, n < N, Fits(N)
  PROVE  n \div 7 < N \div 8 + 2
<1>1. CASE N <= 70
  BY <1>1
<1>2. CASE N % 7 = 0 /\ N <= 112
  BY <1>2
<1> QED
  BY <1>1, <1>2 DEF Fits

LEMMA BytesOfItems ==
  ASSUME NEW n \in Nat
  PROVE  (n + 1) \div 7 = IF (n + 1) % 7 = 0 THEN n \div 7 + 1 ELSE n \div 7
OBVIOUS

(* They end there: the byte of the last item of 71, or of 119, is the first *)
(* behind the buffer.                                                      *)
LEMMA ItemOutsideBuffer == 70 \div 7 = Cleared(71) + 1 /\ 118 \div 7 = Cleared(119) + 1
BY DEF Cleared

(* One item more is written inside the buffer of a size that fits: it and  *)
(* its FX bit are in the byte of the items visited before it.              *)
LEMMA VisitedInv ==
  ASSUME NEW N \in Nat, NEW f, FieldInv(f, N), f.bits < N, NEW present \in BOOLEAN
  PROVE  /\ FieldInv(Visited(f, present), N)
         /\ Visited(f, present).bits = f.bits + 1
         /\ Visited(f, present).lastFRNset = IF present THEN f.bits + 1 ELSE f.lastFRNset
<1> DEFINE last == IF present THEN f.bits + 1 ELSE f.lastFRNset
           next == [f EXCEPT !.bits = @ + 1, !.lastFRNset = last]
           bit == IF present THEN 1 ELSE 0
           withItem == ShiftIn(next, bit)
           withFX == ShiftIn(withItem, 1)
<1>1. /\ f \in FieldRecord /\ f.bits \in Nat /\ f.lastFRNset \in Nat /\ f.FSPEC_index \in Nat
      /\ Len(f.FSPEC) = Cleared(N) + 1 /\ f.FSPEC_index = f.bits \div 7 /\ f.lastFRNset <= f.bits
  BY DEF FieldInv, FieldRecord
<1>2. last \in Nat /\ last <= f.bits + 1
  BY <1>1
<1> HIDE DEF last
<1>3. /\ next \in FieldRecord /\ next.bits = f.bits + 1 /\ next.lastFRNset = last
      /\ next.FSPEC_index = f.FSPEC_index /\ next.FSPEC = f.FSPEC /\ next.outside = f.outside
  <2> DEFINE n == f.bits + 1
             withBit == [f EXCEPT !.bits = n]
  <2>1. n \in Nat
    BY <1>1
  <2> HIDE DEF n
  <2>2. /\ withBit \in FieldRecord /\ withBit.bits = n /\ withBit.FSPEC = f.FSPEC
        /\ withBit.FSPEC_index = f.FSPEC_index /\ withBit.outside = f.outside
    BY <1>1, <2>1 DEF FieldRecord
  <2>3. next = [withBit EXCEPT !.lastFRNset = last]
    BY DEF n
  <2> HIDE DEF withBit, next
  <2>4. /\ next \in FieldRecord /\ next.bits = withBit.bits /\ next.lastFRNset = last
        /\ next.FSPEC_index = withBit.FSPEC_index /\ next.FSPEC = withBit.FSPEC
        /\ next.outside = withBit.outside
    BY <2>2, <2>3, <1>2 DEF FieldRecord
  <2> QED
    BY <2>2, <2>4 DEF n
<1>4. Fits(N) => f.FSPEC_index < Len(f.FSPEC)
  <2>1. Fits(N) => f.bits \div 7 < N \div 8 + 2
    BY <1>1, ItemInBuffer
  <2>2. N \div 8 \in Nat
    OBVIOUS
  <2> QED
    BY <1>1, <2>1, <2>2 DEF Cleared
<1>5. bit \in {0, 1}
  OBVIOUS
<1>6. Visited(f, present) = IF withItem.bits % 7 = 0
                            THEN [withFX EXCEPT !.FSPEC_index = @ + 1] ELSE withItem
  BY Zenon DEF Visited, last
<1> HIDE DEF next, bit
<1>7. /\ withItem \in FieldRecord /\ Len(withItem.FSPEC) = Cleared(N) + 1
      /\ withItem.FSPEC_index = f.FSPEC_index /\ withItem.bits = f.bits + 1
      /\ withItem.lastFRNset = last
      /\ Fits(N) => withItem.outside = f.outside
  BY <1>1, <1>3, <1>4, <1>5, ShiftInInv
<1> HIDE DEF withItem
<1>8. /\ withFX \in FieldRecord /\ Len(withFX.FSPEC) = Cleared(N) + 1
      /\ withFX.FSPEC_index = f.FSPEC_index /\ withFX.bits = f.bits + 1
      /\ withFX.lastFRNset = last
      /\ Fits(N) => withFX.outside = f.outside
  BY <1>1, <1>4, <1>7, ShiftInInv
<1> HIDE DEF withFX
<1>9. Fits(N) => ~ f.outside
  BY DEF FieldInv
<1>10. CASE withItem.bits % 7 = 0
  <2>1. Visited(f, present) = [withFX EXCEPT !.FSPEC_index = @ + 1]
    BY <1>6, <1>10
  <2>2. f.bits \div 7 + 1 = (f.bits + 1) \div 7
    BY <1>1, <1>7, <1>10, BytesOfItems
  <2>3. [withFX EXCEPT !.FSPEC_index = @ + 1] \in FieldRecord
    <3>1. withFX.FSPEC_index + 1 \in Nat
      BY <1>1, <1>8
    <3> QED
      BY <3>1, <1>8 DEF FieldRecord
  <2>4. /\ Visited(f, present).FSPEC = withFX.FSPEC /\ Visited(f, present).bits = withFX.bits
        /\ Visited(f, present).lastFRNset = last /\ Visited(f, present).outside = withFX.outside
        /\ Visited(f, present).FSPEC_index = f.FSPEC_index + 1
    BY <2>1, <1>8 DEF FieldRecord
  <2>5. FieldInv(Visited(f, present), N)
    BY <2>1, <2>2, <2>3, <2>4, <1>1, <1>2, <1>8, <1>9 DEF FieldInv
  <2> QED
    BY <2>4, <2>5, <1>8 DEF last
<1>11. CASE withItem.bits % 7 # 0
  <2>1. f.bits \div 7 = (f.bits + 1) \div 7
    BY <1>1, <1>7, <1>11, BytesOfItems
  <2>2. Visited(f, present) = withItem
    BY <1>6, <1>11
  <2>3. FieldInv(Visited(f, present), N)
    BY <2>1, <2>2, <1>1, <1>2, <1>7, <1>9 DEF FieldInv
  <2> QED
    BY <2>2, <2>3, <1>7 DEF last
<1> QED
  BY <1>10, <1>11

-----------------------------------------------------------------------------
(* After item n: the field has a bit for every item visited, and these are *)
(* all up to n unless no element is left; an item visited that is          *)
(* mandatory is present, or one was reported missing.                      *)
LoopState(s) ==
  s = [field |-> s.field, left |-> s.left, bytes |-> s.bytes,
       present |-> s.present, missing |-> s.missing]

Names(items) == {items[k].name : k \in DOMAIN items}

Walked(s, n, items) ==
  /\ LoopState(s)
  /\ FieldInv(s.field, Len(items))
  /\ s.field.bits <= n
  /\ s.left # {} => s.field.bits = n
  /\ s.present \in Seq(1 .. s.field.bits)
  /\ s.present = <<>> => s.field.lastFRNset = 0 /\ s.bytes = <<>>
  /\ s.missing \in Seq(Names(items))
  /\ s.missing = <<>> =>
       \A k \in 1 .. s.field.bits : items[k].mandatory => k \in ToSet(s.present)

LEMMA AppendedElements ==
  ASSUME NEW S, NEW T, S \subseteq T, NEW s \in Seq(S), NEW e \in T,
         NEW t, t = Append(s, e)
  PROVE  /\ t \in Seq(T) /\ t # <<>> /\ DOMAIN s = 1 .. Len(s) /\ DOMAIN t = 1 .. Len(s) + 1
         /\ \A i \in 1 .. Len(s) : t[i] = s[i]
         /\ t[Len(s) + 1] = e
<1>1. s \in Seq(T) /\ Len(s) \in Nat /\ DOMAIN s = 1 .. Len(s)
  BY LenProperties
<1>2. /\ t \in Seq(T) /\ Len(t) = Len(s) + 1
      /\ \A i \in 1 .. Len(s) : t[i] = s[i]
      /\ t[Len(s) + 1] = e
  BY <1>1, AppendProperties
<1>3. DOMAIN t = 1 .. Len(s) + 1
  BY <1>1, <1>2, LenProperties
<1>4. t # <<>>
  BY <1>1, <1>2
<1> QED
  BY <1>1, <1>2, <1>3, <1>4

LEMMA NothingEncodedWalked ==
  ASSUME NEW record, NEW items, items \in Seq(ToSet(items)), NEW garbage \in 0 .. 255
  PROVE  Walked(NothingEncoded(record, items, garbage), 0, items)
<1> DEFINE s == NothingEncoded(record, items, garbage)
<1>1. Len(items) \in Nat
  BY LenProperties
<1>2. FieldInv(NewField(Len(items), garbage), Len(items)) /\ NewField(Len(items), garbage).bits = 0
  BY <1>1, NewFieldInv
<1>3. NewField(Len(items), garbage).lastFRNset = 0
  BY DEF NewField
<1>4. /\ LoopState(s) /\ s.field = NewField(Len(items), garbage)
      /\ s.present = <<>> /\ s.missing = <<>> /\ s.bytes = <<>>
  BY DEF NothingEncoded, LoopState
<1>5. <<>> \in Seq(1 .. 0) /\ <<>> \in Seq(Names(items)) /\ 1 .. 0 = {}
  OBVIOUS
<1>6. SUFFICES Walked(s, 0, items)
  OBVIOUS
<1> HIDE DEF s
<1> QED
  BY <1>2, <1>3, <1>4, <1>5 DEF Walked

LEMMA AfterItemWalked ==
  ASSUME NEW record, NEW items, items \in Seq(ToSet(items)), NEW n \in 1 .. Len(items), NEW s,
         Walked(s, n - 1, items)
  PROVE  Walked(AfterItem(s, n, items[n], record), n, items)
<1> DEFINE item == items[n]
           t == AfterItem(s, n, item, record)
           N == Len(items)
<1>1. N \in Nat /\ DOMAIN items = 1 .. N /\ n \in Nat /\ n - 1 \in Nat /\ n \in DOMAIN items
  BY LenProperties
<1>2. /\ s.field.bits \in Nat /\ s.field.bits <= n - 1 /\ s.present \in Seq(1 .. s.field.bits)
      /\ s.missing \in Seq(Names(items)) /\ LoopState(s) /\ FieldInv(s.field, N)
      /\ s.missing = <<>> =>
           \A k \in 1 .. s.field.bits : items[k].mandatory => k \in ToSet(s.present)
  BY DEF Walked, FieldInv, FieldRecord
<1> SUFFICES Walked(t, n, items)
  OBVIOUS
<1>3. CASE s.left = {}
  <2>1. t = s
    BY <1>3 DEF AfterItem
  <2>2. s.field.bits <= n
    BY <1>1, <1>2
  <2> HIDE DEF t
  <2> QED
    BY <1>3, <2>1, <2>2 DEF Walked
<1>4. CASE s.left # {}
  <2>1. s.field.bits = n - 1 /\ s.field.bits < N
    BY <1>1, <1>4 DEF Walked
  <2>2. 1 .. n = (1 .. s.field.bits) \cup {n}
    BY <1>1, <2>1
  <2>3. CASE Given(item, s.left)
    <3> DEFINE field == Visited(s.field, TRUE)
    <3>1. FieldInv(field, N) /\ field.bits = n
      <4>1. FieldInv(field, N) /\ field.bits = s.field.bits + 1
        BY <1>1, <1>2, <2>1, VisitedInv, Zenon
      <4> HIDE DEF field
      <4> QED
        BY <1>1, <2>1, <4>1
    <3>2. /\ LoopState(t) /\ t.field = field /\ t.present = Append(s.present, n)
          /\ t.missing = s.missing
      <4> HIDE DEF field
      <4>1. t = [s EXCEPT !.field = Visited(s.field, TRUE),
                          !.left = @ \ ToSet(item.elements),
                          !.bytes = @ \o ItemBytes(item, record),
                          !.present = Append(@, n)]
        BY <1>4, <2>3 DEF AfterItem
      <4> QED
        BY <1>2, <4>1 DEF LoopState, field
    <3>3. /\ t.present \in Seq(1 .. n) /\ t.present # <<>>
          /\ ToSet(t.present) = ToSet(s.present) \cup {n}
      <4>1. 1 .. s.field.bits \subseteq 1 .. n /\ n \in 1 .. n
        BY <1>1, <2>2
      <4> DEFINE S == 1 .. s.field.bits
                 T == 1 .. n
                 p == s.present
                 q == t.present
                 e == n
      <4>2. S \subseteq T /\ p \in Seq(S) /\ e \in T
        BY <1>2, <4>1
      <4>3. q = Append(p, e)
        BY <3>2
      <4> HIDE DEF S, T, p, q, e
      <4>4. q \in Seq(T) /\ q # <<>> /\ ToSet(q) = ToSet(p) \cup {e}
        <5>1. q \in Seq(T) /\ q # <<>>
          BY <4>2, <4>3, AppendedElements
        <5>2. /\ DOMAIN p = 1 .. Len(p) /\ DOMAIN q = 1 .. Len(p) + 1
              /\ \A i \in 1 .. Len(p) : q[i] = p[i]
              /\ q[Len(p) + 1] = e
          BY <4>2, <4>3, AppendedElements
        <5>3. Len(p) \in Nat
          BY <4>2, LenProperties
        <5>4. 1 .. Len(p) + 1 = (1 .. Len(p)) \cup {Len(p) + 1}
          BY <5>3
        <5>5. ToSet(q) = ToSet(p) \cup {e}
          <6> DEFINE places == 1 .. Len(p)
                     last == Len(p) + 1
          <6>1. /\ DOMAIN p = places /\ DOMAIN q = places \cup {last}
                /\ \A i \in places : q[i] = p[i]
                /\ q[last] = e
            BY <5>2, <5>4
          <6> HIDE DEF places, last
          <6>2. ASSUME NEW x
                PROVE  (\E i \in DOMAIN q : x = q[i]) <=> (\E i \in DOMAIN p : x = p[i]) \/ x = e
            BY <6>1
          <6>3. /\ ToSet(p) = {p[i] : i \in DOMAIN p}
                /\ ToSet(q) = {q[i] : i \in DOMAIN q}
            BY DEF ToSet
          <6> QED
            BY <6>2, <6>3
        <5> QED
          BY <5>1, <5>5
      <4> QED
        BY <4>4 DEF T, p, q, e
    <3>4. t.missing = <<>> => \A k \in 1 .. n : items[k].mandatory => k \in ToSet(t.present)
      <4> HIDE DEF t
      <4> QED
        BY <1>2, <2>2, <3>2, <3>3
    <3> HIDE DEF t, field
    <3>5. t.field.bits = n /\ t.field.bits <= n
      BY <1>1, <3>1, <3>2
    <3>6. t.missing \in Seq(Names(items)) /\ FieldInv(t.field, Len(items)) /\ LoopState(t)
      BY <1>2, <3>1, <3>2
    <3>7. t.present \in Seq(1 .. t.field.bits)
      BY <3>3, <3>5
    <3> QED
      BY <3>3, <3>4, <3>5, <3>6, <3>7 DEF Walked
  <2>4. CASE ~ Given(item, s.left)
    <3> DEFINE field == Visited(s.field, FALSE)
    <3>1. FieldInv(field, N) /\ field.bits = n /\ field.lastFRNset = s.field.lastFRNset
      <4>1. /\ FieldInv(field, N) /\ field.bits = s.field.bits + 1
            /\ field.lastFRNset = IF FALSE THEN s.field.bits + 1 ELSE s.field.lastFRNset
        BY <1>1, <1>2, <2>1, VisitedInv, Zenon
      <4> HIDE DEF field
      <4> QED
        BY <1>1, <2>1, <4>1
    <3>2. /\ LoopState(t) /\ t.field = field /\ t.present = s.present /\ t.bytes = s.bytes
          /\ t.missing = IF item.mandatory THEN Append(s.missing, item.name) ELSE s.missing
      <4> HIDE DEF field
      <4>1. t = [s EXCEPT !.field = Visited(s.field, FALSE),
                          !.missing = IF Reported(item) THEN Append(@, item.name) ELSE @]
        BY <1>4, <2>4 DEF AfterItem
      <4> QED
        BY <1>2, <4>1 DEF LoopState, field, Reported
    <3>3. t.present \in Seq(1 .. n)
      <4>1. 1 .. s.field.bits \subseteq 1 .. n
        BY <2>2
      <4> HIDE DEF t
      <4> QED
        BY <1>2, <3>2, <4>1
    <3>4. t.missing \in Seq(Names(items)) /\ (item.mandatory => t.missing # <<>>)
      <4>1. item.name \in Names(items)
        BY <1>1 DEF Names
      <4>2. CASE item.mandatory
        <5> DEFINE S == Names(items)
                   m == s.missing
                   q == t.missing
                   e == item.name
        <5>1. S \subseteq S /\ m \in Seq(S) /\ e \in S
          BY <1>2, <4>1
        <5>2. q = Append(m, e)
          BY <3>2, <4>2
        <5> HIDE DEF S, m, q, e
        <5>3. q \in Seq(S) /\ q # <<>>
          BY <5>1, <5>2, AppendedElements
        <5> QED
          BY <5>3 DEF S, q
      <4>3. CASE ~ item.mandatory
        <5> HIDE DEF t, item
        <5> QED
          BY <1>2, <3>2, <4>3
      <4> QED
        BY <4>2, <4>3
    <3>5. t.missing = <<>> => \A k \in 1 .. n : items[k].mandatory => k \in ToSet(t.present)
      <4>1. ASSUME t.missing = <<>>
            PROVE  \A k \in 1 .. n : items[k].mandatory => k \in ToSet(t.present)
        <5>1. ~ item.mandatory /\ s.missing = <<>>
          <6> HIDE DEF t, item
          <6> QED
            BY <3>2, <3>4, <4>1
        <5> HIDE DEF t
        <5> QED
          BY <1>2, <2>2, <3>2, <5>1
      <4> QED
        BY <4>1
    <3>6. t.present = <<>> => t.field.lastFRNset = 0 /\ t.bytes = <<>>
      <4> HIDE DEF t, field
      <4> QED
        BY <3>1, <3>2 DEF Walked
    <3> HIDE DEF t, field
    <3> QED
      BY <1>1, <1>2, <3>1, <3>2, <3>3, <3>4, <3>5, <3>6 DEF Walked
  <2> QED
    BY <2>3, <2>4
<1> QED
  BY <1>3, <1>4

(* What holds after the last item, by the least item after which it would  *)
(* not.                                                                    *)
LEMMA ItemLoopWalked ==
  ASSUME NEW record, NEW items, items \in Seq(ToSet(items)), NEW garbage \in 0 .. 255
  PROVE  Walked(ItemLoop(record, items, garbage), Len(items), items)
<1> DEFINE N == Len(items)
<1>1. N \in Nat /\ DOMAIN items = 1 .. N
  BY LenProperties
<1>2. PICK f : /\ IsLoop(f, N, record, items, garbage)
               /\ ItemLoop(record, items, garbage) = f[N]
  BY <1>1, LoopOfItems
<1>3. /\ f[0] = NothingEncoded(record, items, garbage)
      /\ \A n \in 1 .. N : f[n] = AfterItem(f[n - 1], n, items[n], record)
  <2>1. \A n \in 0 .. N : f[n] = IF n = 0 THEN NothingEncoded(record, items, garbage)
                                          ELSE AfterItem(f[n - 1], n, items[n], record)
    BY <1>2 DEF IsLoop
  <2>2. 0 \in 0 .. N /\ \A n \in 1 .. N : n \in 0 .. N /\ n # 0
    BY <1>1
  <2> QED
    BY <2>1, <2>2
<1> DEFINE No == {n \in 0 .. N : ~ Walked(f[n], n, items)}
<1>4. ASSUME No # {} PROVE FALSE
  <2>1. No \subseteq Nat
    OBVIOUS
  <2>2. PICK n \in No : \A k \in No : n <= k
    <3> HIDE DEF No
    <3> QED
      BY <1>4, <2>1, LeastElement
  <2>3. n # 0
    BY <1>3, NothingEncodedWalked
  <2>4. n \in 1 .. N /\ n - 1 \in 0 .. N /\ ~ (n <= n - 1)
    BY <1>1, <2>3
  <2>5. Walked(f[n - 1], n - 1, items)
    BY <2>2, <2>4
  <2>6. Walked(f[n], n, items)
    BY <1>3, <2>4, <2>5, AfterItemWalked
  <2> QED
    BY <2>6
<1>5. N \in 0 .. N
  BY <1>1
<1> QED
  BY <1>2, <1>4, <1>5

-----------------------------------------------------------------------------
(* What a task returns.                                                    *)
Items(k) == Descriptions[k].items
AllFit == \A k \in DOMAIN Descriptions : Fits(Len(Items(k)))

(* No byte was written outside the buffer if every description fits; a     *)
(* datablock has at least one item, and up to some item v, the last one    *)
(* visited, the mandatory ones are there or one was reported missing.      *)
Reliable(r) ==
  /\ r.key \in DOMAIN Descriptions
  /\ r.present # <<>>
  /\ \E v \in Nat :
       /\ r.present \in Seq(1 .. v)
       /\ \/ r.code = "MISSING_MANDATORY_ITEM"
          \/ \A n \in 1 .. v : Items(r.key)[n].mandatory => n \in ToSet(r.present)

Result(r) ==
  /\ AllFit => ~ r.outside
  /\ r.datablock # Nullptr => Reliable(r)

LEMMA FailedIsResult ==
  ASSUME NEW code, NEW k
  PROVE  Result(Failed(code, k))
BY DEF Failed, Result

LEMMA NoFieldWithoutItems ==
  ASSUME NEW field, field.lastFRNset = 0
  PROVE  FieldBytes(field) = <<>>
<1>1. LengthInByte(field.lastFRNset) = 0
  BY DEF LengthInByte
<1>2. 1 .. 0 = {}
  OBVIOUS
<1> QED
  BY <1>1, <1>2 DEF FieldBytes

LEMMA DatablockIsResult ==
  ASSUME NEW record, NEW k \in DOMAIN Descriptions, NEW s, Walked(s, Len(Items(k)), Items(k))
  PROVE  Result(Datablock(record, k, s))
<1> DEFINE r == Datablock(record, k, s)
           body == FieldBytes(s.field) \o s.bytes
<1>1. /\ r.datablock = IF body = <<>> THEN Nullptr
                       ELSE CatAndLength(record.category, Len(body) + 3) \o body
      /\ r.code = IF s.missing # <<>> THEN "MISSING_MANDATORY_ITEM" ELSE "none"
      /\ r.key = k /\ r.present = s.present /\ r.outside = s.field.outside
  BY DEF Datablock
<1> SUFFICES Result(r)
  OBVIOUS
<1> HIDE DEF r
<1>2. AllFit => ~ r.outside
  BY <1>1 DEF AllFit, Walked, FieldInv
<1>3. ASSUME r.datablock # Nullptr
      PROVE  Reliable(r)
  <2>1. r.present # <<>>
    <3>1. ASSUME s.present = <<>> PROVE FALSE
      <4>1. FieldBytes(s.field) = <<>> /\ s.bytes = <<>>
        BY <3>1, NoFieldWithoutItems DEF Walked
      <4>2. body = <<>>
        BY <4>1
      <4> QED
        BY <4>2, <1>1, <1>3
    <3> QED
      BY <3>1, <1>1
  <2>2. s.field.bits \in Nat /\ s.present \in Seq(1 .. s.field.bits)
    BY DEF Walked, FieldInv, FieldRecord
  <2>3. \/ r.code = "MISSING_MANDATORY_ITEM"
        \/ \A n \in 1 .. s.field.bits : Items(r.key)[n].mandatory => n \in ToSet(r.present)
    BY <1>1 DEF Walked
  <2> QED
    BY <1>1, <2>1, <2>2, <2>3 DEF Reliable
<1> QED
  BY <1>2, <1>3 DEF Result

LEMMA DescribedItems ==
  ASSUME NEW k \in DOMAIN Descriptions
  PROVE  Items(k) \in Seq(ToSet(Items(k)))
BY DescriptionsAssumption DEF Items

LEMMA LookedUp ==
  ASSUME NEW k, NEW category, Lookup(k, category) # NoDescription
  PROVE  Lookup(k, category) \in DOMAIN Descriptions
BY DEF Lookup

LEMMA EncodedIsResult ==
  ASSUME NEW record, NEW garbage \in Garbage
  PROVE  /\ Result(EncodeForDecodedRecord(record, garbage))
         /\ Result(EncodeForSingleRecord(record, garbage))
<1>1. garbage \in 0 .. 255
  BY EncodingAssumption
<1>2. ASSUME NEW k \in DOMAIN Descriptions
      PROVE  Result(Datablock(record, k, ItemLoop(record, Descriptions[k].items, garbage)))
  <2>1. Walked(ItemLoop(record, Items(k), garbage), Len(Items(k)), Items(k))
    BY <1>1, DescribedItems, ItemLoopWalked
  <2>2. Result(Datablock(record, k, ItemLoop(record, Items(k), garbage)))
    BY <2>1, DatablockIsResult
  <2> QED
    BY <2>2 DEF Items
<1>3. Result(EncodeForDecodedRecord(record, garbage))
  BY <1>2, FailedIsResult, LookedUp DEF EncodeForDecodedRecord
<1>4. Result(EncodeForSingleRecord(record, garbage))
  BY <1>2, FailedIsResult, LookedUp DEF EncodeForSingleRecord, EncodeAllItemsFromSingleRecord
<1> QED
  BY <1>3, <1>4

-----------------------------------------------------------------------------
(* The inductive invariant: every task that has finished returned such a   *)
(* result, and what is remembered of a datablock is that of its task.      *)
ResultsInv == \E S : results \in Seq(S) /\ \A r \in S : r # NoResult => Result(r)
SentInv == \E S : sent \in Seq(S) /\ \A s \in S : Reliable(s)

EncodingInv ==
  /\ client \in Clients /\ calls \in Nat /\ joined \in Nat
  /\ ResultsInv
  /\ SentInv

LEMMA EncodingInit == Init => EncodingInv
<1> SUFFICES ASSUME Init PROVE EncodingInv
  OBVIOUS
<1>1. client \in Clients /\ calls = 0 /\ joined = 0 /\ results = <<>> /\ sent = <<>>
  BY DEF Init, EncoderInit
<1>2. results \in Seq({}) /\ sent \in Seq({})
  BY <1>1
<1>3. (\A r \in {} : r # NoResult => Result(r)) /\ (\A s \in {} : Reliable(s))
  OBVIOUS
<1>4. ResultsInv
  BY <1>2, <1>3 DEF ResultsInv
<1>5. SentInv
  BY <1>2, <1>3 DEF SentInv
<1> QED
  BY <1>1, <1>4, <1>5 DEF EncodingInv

(* A call begins.                                                          *)
LEMMA StartStep ==
  ASSUME EncodingInv, NEW kind, NEW todo, NEW S, todo \in Seq(S), StartCall(kind, todo)
  PROVE  client' \in Clients /\ calls' \in Nat /\ calls' # calls /\ joined' \in Nat /\ ResultsInv'
<1>1. /\ calls' = calls + 1 /\ joined' = 0 /\ client' = client
      /\ results' = [n \in DOMAIN todo |-> NoResult]
  BY DEF StartCall
<1>2. Len(todo) \in Nat /\ DOMAIN todo = 1 .. Len(todo)
  BY LenProperties
<1>3. results' \in Seq({NoResult})
  BY <1>1, <1>2
<1>4. ResultsInv'
  BY <1>3 DEF ResultsInv
<1> QED
  BY <1>1, <1>4 DEF EncodingInv

(* A task finishes.                                                        *)
LEMMA RunStep ==
  ASSUME EncodingInv, RunTask
  PROVE  /\ client' = client /\ calls' = calls /\ joined' = joined
         /\ ResultsInv'
<1>1. PICK n \in DOMAIN results, garbage \in Garbage :
        /\ results' = [results EXCEPT ![n] =
                         IF call = "single" THEN EncodeForSingleRecord(records[n], garbage)
                                            ELSE EncodeForDecodedRecord(records[n], garbage)]
        /\ UNCHANGED <<client, calls, joined>>
  BY DEF RunTask
<1> DEFINE r == IF call = "single" THEN EncodeForSingleRecord(records[n], garbage)
                                   ELSE EncodeForDecodedRecord(records[n], garbage)
<1>2. Result(r)
  BY EncodedIsResult
<1>3. results' = [results EXCEPT ![n] = r]
  BY <1>1
<1> HIDE DEF r
<1>4. PICK S : results \in Seq(S) /\ \A q \in S : q # NoResult => Result(q)
  BY DEF EncodingInv, ResultsInv
<1>5. results' \in Seq(S \cup {r})
  <2>1. results \in Seq(S \cup {r}) /\ n \in 1 .. Len(results)
    BY <1>4
  <2> QED
    BY <2>1, <1>3, ExceptSeq
<1>6. \A q \in S \cup {r} : q # NoResult => Result(q)
  BY <1>2, <1>4
<1>7. ResultsInv'
  BY <1>5, <1>6 DEF ResultsInv
<1> QED
  BY <1>1, <1>7

(* A result is taken.                                                      *)
LEMMA JoinStep ==
  ASSUME EncodingInv, JoinTask
  PROVE  /\ client' = client /\ calls' = calls /\ joined' = joined + 1 /\ results' = results
         /\ joined' \in DOMAIN results /\ results[joined'] # NoResult
<1>1. /\ joined < Len(results) /\ results[joined + 1] # NoResult /\ joined' = joined + 1
      /\ UNCHANGED <<client, calls, results>>
  BY DEF JoinTask
<1>2. PICK S : results \in Seq(S)
  BY DEF EncodingInv, ResultsInv
<1>3. joined + 1 \in 1 .. Len(results)
  BY <1>1, <1>2, LenProperties DEF EncodingInv
<1>4. joined + 1 \in DOMAIN results
  BY <1>2, <1>3, LenProperties
<1> QED
  BY <1>1, <1>4

(* What is remembered of a result is reliable.                             *)
LEMMA TakenIsReliable ==
  ASSUME EncodingInv, NEW n \in DOMAIN results, results[n] # NoResult,
         results[n].datablock # Nullptr
  PROVE  Reliable(Taken(n))
<1>1. PICK S : results \in Seq(S) /\ \A r \in S : r # NoResult => Result(r)
  BY DEF EncodingInv, ResultsInv
<1>2. results[n] \in S
  BY <1>1
<1>3. Reliable(results[n])
  BY <1>1, <1>2 DEF Result
<1>4. /\ Taken(n).present = results[n].present /\ Taken(n).code = results[n].code
      /\ Taken(n).key = results[n].key
  BY DEF Taken
<1> HIDE DEF Taken
<1> QED
  BY <1>3, <1>4 DEF Reliable

LEMMA SentStep ==
  ASSUME EncodingInv, SentInv,
         \/ sent' = <<>>
         \/ sent' = sent
         \/ \E n \in DOMAIN results : /\ results[n] # NoResult /\ results[n].datablock # Nullptr
                                      /\ sent' = Append(sent, Taken(n))
  PROVE  SentInv'
<1>1. PICK S : sent \in Seq(S) /\ \A s \in S : Reliable(s)
  BY DEF SentInv
<1>2. CASE sent' = <<>>
  <2>1. sent' \in Seq(S)
    BY <1>2
  <2> QED
    BY <1>1, <2>1 DEF SentInv
<1>3. CASE sent' = sent
  BY <1>1, <1>3 DEF SentInv
<1>4. CASE \E n \in DOMAIN results : /\ results[n] # NoResult /\ results[n].datablock # Nullptr
                                     /\ sent' = Append(sent, Taken(n))
  <2>1. PICK n \in DOMAIN results : /\ results[n] # NoResult /\ results[n].datablock # Nullptr
                                    /\ sent' = Append(sent, Taken(n))
    BY <1>4
  <2> DEFINE t == Taken(n)
  <2>2. Reliable(t)
    BY <2>1, TakenIsReliable
  <2>3. sent' = Append(sent, t)
    BY <2>1
  <2> HIDE DEF t
  <2>4. sent' \in Seq(S \cup {t})
    BY <1>1, <2>3, AppendProperties
  <2>5. \A s \in S \cup {t} : Reliable(s)
    BY <1>1, <2>2
  <2> QED
    BY <2>4, <2>5 DEF SentInv
<1> QED
  BY <1>2, <1>3, <1>4

LEMMA EncodingStep ==
  ASSUME EncodingInv, EncoderStep
  PROVE  EncodingInv'
<1> DEFINE Kept ==
      \/ sent' = <<>>
      \/ sent' = sent
      \/ \E n \in DOMAIN results : /\ results[n] # NoResult /\ results[n].datablock # Nullptr
                                   /\ sent' = Append(sent, Taken(n))
<1>1. joined \in Nat /\ calls \in Nat /\ client \in Clients /\ SentInv /\ ResultsInv
  BY DEF EncodingInv
<1>2. sent' = CASE calls' # calls /\ ~astOutput -> <<>>
                [] calls' = calls /\ joined' = joined + 1 /\ results[joined'].datablock # Nullptr
                     -> Append(sent, Taken(joined'))
                [] OTHER -> sent
  BY DEF EncoderStep
<1>3. ASSUME joined' # joined + 1 \/ calls' # calls
      PROVE  Kept
  BY <1>2, <1>3
<1>4. ASSUME NEW kind, NEW todo, NEW S, todo \in Seq(S), StartCall(kind, todo)
      PROVE  EncodingInv'
  <2>1. client' \in Clients /\ calls' \in Nat /\ calls' # calls /\ joined' \in Nat /\ ResultsInv'
    BY <1>4, StartStep
  <2>2. SentInv'
    BY <1>1, <1>3, <2>1, SentStep
  <2> QED
    BY <2>1, <2>2 DEF EncodingInv
<1>5. CASE EncodeRecords
  <2>1. calls < Len(client) /\ StartCall("records", client[calls + 1].records)
    BY <1>5 DEF EncodeRecords, StartCall, Argument
  <2>2. client \in Seq(ToSet(client))
    BY <1>1, ClientsAssumption
  <2>3. calls + 1 \in DOMAIN client
    BY <1>1, <2>1, <2>2, LenProperties
  <2>4. client[calls + 1].records \in Seq(ToSet(client[calls + 1].records))
    BY <1>1, <2>3, ClientsAssumption
  <2> QED
    BY <1>4, <2>1, <2>4
<1>6. CASE EncodeSingleRecord
  <2>1. StartCall("single", <<Constructed(Argument[1])>>)
    BY <1>6 DEF EncodeSingleRecord
  <2> DEFINE r == Constructed(Argument[1])
  <2>2. <<r>> \in Seq({r})
    OBVIOUS
  <2> HIDE DEF r
  <2> QED
    BY <1>4, <2>1, <2>2 DEF r
<1>7. CASE RunTask
  <2>1. client' = client /\ calls' = calls /\ joined' = joined /\ ResultsInv'
    BY <1>7, RunStep
  <2>2. joined' # joined + 1
    BY <1>1, <2>1
  <2>3. SentInv'
    BY <1>1, <1>3, <2>2, SentStep
  <2> QED
    BY <1>1, <2>1, <2>3 DEF EncodingInv
<1>8. CASE JoinTask
  <2>1. /\ client' = client /\ calls' = calls /\ joined' = joined + 1 /\ results' = results
        /\ joined' \in DOMAIN results /\ results[joined'] # NoResult
    BY <1>8, JoinStep
  <2>2. ResultsInv'
    BY <1>1, <2>1 DEF ResultsInv
  <2>3. Kept
    BY <1>2, <2>1
  <2>4. SentInv'
    BY <1>1, <2>3, SentStep
  <2> QED
    BY <1>1, <2>1, <2>2, <2>4 DEF EncodingInv
<1>9. CASE ReturnDatablocks
  <2>1. UNCHANGED <<client, calls, joined, results>>
    BY <1>9 DEF ReturnDatablocks
  <2>2. joined' # joined + 1
    BY <1>1, <2>1
  <2>3. SentInv'
    BY <1>1, <1>3, <2>2, SentStep
  <2>4. ResultsInv'
    BY <1>1, <2>1 DEF ResultsInv
  <2> QED
    BY <1>1, <2>1, <2>3, <2>4 DEF EncodingInv
<1> QED
  BY <1>5, <1>6, <1>7, <1>8, <1>9 DEF EncoderStep, EncoderNext

LEMMA ParsingStep ==
  ASSUME EncodingInv, ParserStep \/ UNCHANGED vars
  PROVE  EncodingInv'
<1>1. UNCHANGED encoderVars
  BY DEF ParserStep, ParserNext, vars, Start, GiveUp, ParseEncoded, ParseReceived, NextDatablock,
         NoMoreDatablocks, BeginRecord, ParseItem, EndRecord, EndDatablock
<1>2. UNCHANGED sent
  BY DEF ParserStep, vars
<1>3. UNCHANGED <<client, calls, joined, results>>
  BY <1>1 DEF encoderVars, callVars
<1> QED
  BY <1>2, <1>3 DEF EncodingInv, ResultsInv, SentInv

LEMMA EncodingInvariant == Spec => []EncodingInv
<1>1. ASSUME EncodingInv, [Next]_vars
      PROVE  EncodingInv'
  BY <1>1, EncodingStep, ParsingStep DEF Next
<1> QED
  BY <1>1, EncodingInit, PTL DEF Spec

-----------------------------------------------------------------------------
(* The encoder builds every field specification inside its buffer, though  *)
(* the buffer has one byte for eight items and seven go into a byte, as    *)
(* long as the descriptions have at most 70 items, or at most 112 in whole *)
(* bytes of seven (encodeAllItemsFromRecordCollection).                    *)
THEOREM BufferIsLargeEnough ==
  ASSUME AllFit
  PROVE  Spec => []WritesInsideBuffer
<1>1. EncodingInv => WritesInsideBuffer
  <2> SUFFICES ASSUME EncodingInv, NEW n \in DOMAIN results, results[n] # NoResult
               PROVE  ~ results[n].outside
    BY DEF WritesInsideBuffer
  <2>1. PICK S : results \in Seq(S) /\ \A r \in S : r # NoResult => Result(r)
    BY DEF EncodingInv, ResultsInv
  <2>2. results[n] \in S
    BY <2>1
  <2> QED
    BY <2>1, <2>2 DEF Result
<1> QED
  BY <1>1, EncodingInvariant, PTL

(* The mandatory FRNs the parser asks for are items the encoder reports.   *)
MandatoryMarked ==
  \A k \in DOMAIN Descriptions :
    ToSet(Descriptions[k].mandatoryItemFRNs) \subseteq {n \in DOMAIN Items(k) : Items(k)[n].mandatory}

(* A datablock the parser will refuse for a missing mandatory item was     *)
(* reported by the encoder, unless all that is missing comes after the     *)
(* last item given, for every record of every client and however the       *)
(* threads take turns; the parser's list of mandatory items has to name    *)
(* only items with the flag (encodeAllItemsFromRecordCollection).          *)
THEOREM RejectionsAreReported ==
  ASSUME MandatoryMarked
  PROVE  Spec => []RejectedWasReported
<1>1. EncodingInv => RejectedWasReported
  <2> SUFFICES ASSUME EncodingInv, NEW s \in ToSet(sent), s.code # "MISSING_MANDATORY_ITEM",
                      NEW frn \in Lacking(s)
               PROVE  frn > s.present[Len(s.present)]
    BY DEF RejectedWasReported
  <2>1. PICK S : sent \in Seq(S) /\ \A t \in S : Reliable(t)
    BY DEF EncodingInv, SentInv
  <2>2. Reliable(s)
    <3>1. PICK n \in DOMAIN sent : s = sent[n]
      BY DEF ToSet
    <3>2. sent[n] \in S
      BY <2>1, <3>1
    <3> QED
      BY <2>1, <3>1, <3>2
  <2>3. PICK v \in Nat :
          /\ s.present \in Seq(1 .. v)
          /\ \A n \in 1 .. v : Items(s.key)[n].mandatory => n \in ToSet(s.present)
    BY <2>2 DEF Reliable
  <2>4. s.present # <<>> /\ s.key \in DOMAIN Descriptions
    BY <2>2 DEF Reliable
  <2> DEFINE last == s.present[Len(s.present)]
  <2>5. last \in 1 .. v
    <3>1. Len(s.present) \in 1 .. Len(s.present)
      BY <2>3, <2>4, EmptySeq, LenProperties
    <3> QED
      BY <2>3, <3>1, ElementOfSeq
  <2>6. frn \in Nat \ {0} /\ Items(s.key)[frn].mandatory /\ frn \notin ToSet(s.present)
    <3>1. frn \in DOMAIN Items(s.key) /\ Items(s.key)[frn].mandatory /\ frn \notin ToSet(s.present)
      BY <2>4 DEF Lacking, MandatoryMarked
    <3>2. DOMAIN Items(s.key) = 1 .. Len(Items(s.key)) /\ Len(Items(s.key)) \in Nat
      BY <2>4, DescribedItems, LenProperties
    <3> QED
      BY <3>1, <3>2
  <2>7. frn \notin 1 .. v
    BY <2>3, <2>6
  <2> HIDE DEF last
  <2>8. frn > last
    BY <2>5, <2>6, <2>7
  <2> QED
    BY <2>8 DEF last
<1> QED
  BY <1>1, EncodingInvariant, PTL

-----------------------------------------------------------------------------
(* A sequence of sequences put together: the recursive function exists, by *)
(* way of the least length for which it would not.                         *)
IsFlat(f, m, s) == f = [p \in 1 .. m |-> IF p = 1 THEN s[p] ELSE f[p - 1] \o s[p]]

LEMMA FlatExists ==
  ASSUME NEW s, NEW N \in Nat
  PROVE  \E f : IsFlat(f, N, s)
<1> DEFINE No == {m \in Nat : ~ \E f : IsFlat(f, m, s)}
<1>1. SUFFICES ASSUME No # {} PROVE FALSE
  OBVIOUS
<1>2. PICK m \in No : \A k \in No : m <= k
  <2>1. No \subseteq Nat
    OBVIOUS
  <2> HIDE DEF No
  <2> QED
    BY <1>1, <2>1, LeastElement
<1>3. m # 0
  <2> DEFINE f == [p \in 1 .. 0 |-> s[p]]
  <2>1. 1 .. 0 = {}
    OBVIOUS
  <2>2. f = [p \in 1 .. 0 |-> IF p = 1 THEN s[p] ELSE f[p - 1] \o s[p]]
    BY <2>1
  <2>3. IsFlat(f, 0, s)
    BY <2>2 DEF IsFlat
  <2> QED
    BY <2>3
<1>4. m \in Nat /\ m - 1 \in Nat /\ m - 1 \notin No
  <2>1. m \in Nat /\ m - 1 \in Nat /\ ~ (m <= m - 1)
    BY <1>3
  <2> QED
    BY <2>1, <1>2
<1>5. PICK f : IsFlat(f, m - 1, s)
  BY <1>4
<1> DEFINE last == IF m = 1 THEN s[m] ELSE f[m - 1] \o s[m]
           g == [p \in 1 .. m |-> IF p = m THEN last ELSE f[p]]
<1>6. \A p \in 1 .. m - 1 : g[p] = f[p]
  <2>1. \A p \in 1 .. m - 1 : p \in 1 .. m /\ p # m
    BY <1>4
  <2> HIDE DEF last
  <2> QED
    BY <2>1
<1>7. ASSUME NEW p \in 1 .. m
      PROVE  g[p] = IF p = 1 THEN s[p] ELSE g[p - 1] \o s[p]
  <2>1. CASE p = m
    <3>1. p # 1 => p - 1 \in 1 .. m - 1
      BY <2>1, <1>4
    <3>2. p # 1 => g[p - 1] = f[m - 1]
      BY <3>1, <2>1, <1>6
    <3>3. g[p] = last
      <4> HIDE DEF last
      <4> QED
        BY <2>1
    <3> HIDE DEF g
    <3> QED
      BY <2>1, <3>2, <3>3
  <2>2. CASE p # m
    <3>1. p \in 1 .. m - 1
      BY <2>2, <1>4
    <3>2. g[p] = f[p]
      BY <3>1, <1>6
    <3>3. p # 1 => g[p - 1] = f[p - 1]
      <4>1. p # 1 => p - 1 \in 1 .. m - 1
        BY <3>1
      <4> QED
        BY <4>1, <1>6
    <3> HIDE DEF g
    <3>4. f[p] = IF p = 1 THEN s[p] ELSE f[p - 1] \o s[p]
      BY <3>1, <1>5 DEF IsFlat
    <3> QED
      BY <3>2, <3>3, <3>4
  <2> QED
    BY <2>1, <2>2
<1>8. g = [p \in 1 .. m |-> g[p]]
  <2> HIDE DEF last
  <2> QED
    OBVIOUS
<1> HIDE DEF g
<1>9. IsFlat(g, m, s)
  BY <1>7, <1>8 DEF IsFlat
<1> QED
  BY <1>9

LEMMA Flattened ==
  ASSUME NEW S, NEW s \in Seq(S), s # <<>>
  PROVE  \E f : /\ FlattenSeq(s) = f[Len(s)] /\ Len(s) \in Nat \ {0}
                /\ f[1] = s[1] /\ \A p \in 2 .. Len(s) : f[p] = f[p - 1] \o s[p]
<1> DEFINE flatten == CHOOSE f : IsFlat(f, Len(s), s)
<1>1. Len(s) \in Nat \ {0}
  BY EmptySeq
<1>2. IsFlat(flatten, Len(s), s)
  BY <1>1, FlatExists
<1>3. FlattenSeq(s) = flatten[Len(s)]
  BY <1>1 DEF FlattenSeq, IsFlat
<1> HIDE DEF flatten
<1>4. \A p \in 1 .. Len(s) : flatten[p] = IF p = 1 THEN s[p] ELSE flatten[p - 1] \o s[p]
  BY <1>2 DEF IsFlat
<1>5. 1 \in 1 .. Len(s) /\ \A p \in 2 .. Len(s) : p \in 1 .. Len(s) /\ p # 1
  BY <1>1
<1>6. flatten[1] = s[1] /\ \A p \in 2 .. Len(s) : flatten[p] = flatten[p - 1] \o s[p]
  BY <1>4, <1>5
<1> QED
  BY <1>1, <1>3, <1>6

LEMMA FlattenEmpty == FlattenSeq(<<>>) = <<>>
BY DEF FlattenSeq

LEMMA FlattenIn ==
  ASSUME NEW S, NEW s \in Seq(Seq(S))
  PROVE  FlattenSeq(s) \in Seq(S)
<1>1. CASE s = <<>>
  <2>1. FlattenSeq(s) = <<>>
    BY <1>1, FlattenEmpty
  <2> QED
    BY <2>1, EmptySeq
<1>2. CASE s # <<>>
  <2>1. PICK f : /\ FlattenSeq(s) = f[Len(s)] /\ Len(s) \in Nat \ {0}
                 /\ f[1] = s[1] /\ \A p \in 2 .. Len(s) : f[p] = f[p - 1] \o s[p]
    BY <1>2, Flattened
  <2> DEFINE No == {p \in 1 .. Len(s) : f[p] \notin Seq(S)}
  <2>2. ASSUME No # {} PROVE FALSE
    <3>1. No \subseteq Nat
      OBVIOUS
    <3>2. PICK p \in No : \A k \in No : p <= k
      <4> HIDE DEF No
      <4> QED
        BY <2>2, <3>1, LeastElement
    <3>3. \A q \in 1 .. Len(s) : s[q] \in Seq(S)
      BY <2>1
    <3>4. p # 1
      BY <2>1, <3>3
    <3>5. p \in 2 .. Len(s) /\ p - 1 \in 1 .. Len(s) /\ ~ (p <= p - 1)
      BY <2>1, <3>4
    <3>6. f[p - 1] \in Seq(S) /\ s[p] \in Seq(S)
      BY <3>2, <3>3, <3>5
    <3>7. f[p - 1] \o s[p] \in Seq(S)
      BY <3>6, ConcatProperties
    <3> QED
      BY <2>1, <3>5, <3>7
  <2>3. Len(s) \in 1 .. Len(s)
    BY <2>1
  <2> QED
    BY <2>1, <2>2, <2>3
<1> QED
  BY <1>1, <1>2

LEMMA FlattenAppend ==
  ASSUME NEW S, NEW s \in Seq(Seq(S)), NEW t \in Seq(S)
  PROVE  FlattenSeq(Append(s, t)) = FlattenSeq(s) \o t
<1> DEFINE u == Append(s, t)
           n == Len(s)
<1>1. /\ u \in Seq(Seq(S)) /\ Len(u) = n + 1 /\ n \in Nat /\ u # <<>>
      /\ u[n + 1] = t /\ \A p \in 1 .. n : u[p] = s[p]
  BY AppendProperties, EmptySeq
<1> HIDE DEF u
<1>2. PICK g : /\ FlattenSeq(u) = g[n + 1]
               /\ g[1] = u[1] /\ \A p \in 2 .. n + 1 : g[p] = g[p - 1] \o u[p]
  <2> HIDE DEF n
  <2>1. \E g : /\ FlattenSeq(u) = g[Len(u)] /\ Len(u) \in Nat \ {0}
               /\ g[1] = u[1] /\ \A p \in 2 .. Len(u) : g[p] = g[p - 1] \o u[p]
    BY <1>1, Flattened
  <2> QED
    BY <1>1, <2>1
<1>3. CASE s = <<>>
  <2>1. n = 0 /\ g[1] = t
    BY <1>1, <1>2, <1>3
  <2>2. FlattenSeq(u) = t /\ FlattenSeq(s) = <<>>
    BY <1>2, <1>3, <2>1, FlattenEmpty
  <2>3. <<>> \o t = t
    BY ConcatEmptySeq
  <2> QED
    BY <2>2, <2>3 DEF u
<1>4. CASE s # <<>>
  <2>1. PICK f : /\ FlattenSeq(s) = f[n] /\ n \in Nat \ {0}
                 /\ f[1] = s[1] /\ \A p \in 2 .. n : f[p] = f[p - 1] \o s[p]
    BY <1>4, Flattened
  <2> DEFINE No == {p \in 1 .. n : f[p] # g[p]}
  <2>2. ASSUME No # {} PROVE FALSE
    <3>1. No \subseteq Nat
      OBVIOUS
    <3>2. PICK p \in No : \A k \in No : p <= k
      <4> HIDE DEF No
      <4> QED
        BY <2>2, <3>1, LeastElement
    <3>3. p # 1
      BY <2>1, <1>1, <1>2
    <3>4. p \in 2 .. n /\ p \in 2 .. n + 1 /\ p - 1 \in 1 .. n /\ ~ (p <= p - 1)
      BY <2>1, <3>3
    <3>5. f[p - 1] = g[p - 1] /\ s[p] = u[p]
      BY <3>2, <3>4, <1>1
    <3> QED
      BY <1>2, <2>1, <3>4, <3>5
  <2>3. n \in 1 .. n /\ n + 1 \in 2 .. n + 1 /\ (n + 1) - 1 = n
    BY <2>1
  <2>4. f[n] = g[n]
    BY <2>2, <2>3
  <2>5. g[n + 1] = g[n] \o t
    BY <1>1, <1>2, <2>3
  <2> QED
    BY <1>2, <2>1, <2>4, <2>5 DEF u
<1> QED
  BY <1>3, <1>4

(* The items of a record and their bytes.                                  *)
ItemSeq(items) == \E S : items \in Seq(S) /\ \A i \in S : i[2] \in Seq(Nat)

LEMMA ContentEmpty == Content(<<>>) = <<>>
<1>1. [n \in DOMAIN <<>> |-> <<>>[n][2]] = <<>>
  OBVIOUS
<1> QED
  BY <1>1, FlattenEmpty DEF Content

LEMMA ContentAppend ==
  ASSUME NEW items, ItemSeq(items), NEW name, NEW bytes \in Seq(Nat)
  PROVE  /\ ItemSeq(Append(items, <<name, bytes>>))
         /\ Content(items) \in Seq(Nat)
         /\ Content(Append(items, <<name, bytes>>)) = Content(items) \o bytes
<1>1. PICK S : items \in Seq(S) /\ \A i \in S : i[2] \in Seq(Nat)
  BY DEF ItemSeq
<1> DEFINE e == <<name, bytes>>
           u == Append(items, e)
           m == Len(items)
           c == [n \in DOMAIN items |-> items[n][2]]
           d == [n \in DOMAIN u |-> u[n][2]]
<1>2. e[2] = bytes
  OBVIOUS
<1> HIDE DEF e
<1>3. /\ m \in Nat /\ DOMAIN items = 1 .. m
      /\ items \in Seq(S \cup {e}) /\ u \in Seq(S \cup {e}) /\ Len(u) = m + 1
      /\ u[m + 1] = e /\ \A p \in 1 .. m : u[p] = items[p]
  BY <1>1, AppendProperties
<1>4. DOMAIN u = 1 .. m + 1
  BY <1>3, LenProperties
<1> HIDE DEF u
<1>5. \A i \in S \cup {e} : i[2] \in Seq(Nat)
  BY <1>1, <1>2
<1>6. ItemSeq(u)
  BY <1>3, <1>5 DEF ItemSeq
<1>7. c \in Seq(Seq(Nat)) /\ Len(c) = m
  <2>1. c = [n \in 1 .. m |-> items[n][2]]
    BY <1>3
  <2>2. \A n \in 1 .. m : items[n][2] \in Seq(Nat)
    BY <1>1, <1>3
  <2> QED
    BY <1>3, <2>1, <2>2
<1>8. d = Append(c, bytes)
  <2>1. Append(c, bytes) = [n \in 1 .. m + 1 |-> IF n = m + 1 THEN bytes ELSE c[n]]
    BY <1>7, <1>3
  <2>2. d = [n \in 1 .. m + 1 |-> u[n][2]]
    BY <1>4
  <2>3. \A n \in 1 .. m + 1 : u[n][2] = IF n = m + 1 THEN bytes ELSE c[n]
    BY <1>2, <1>3
  <2> HIDE DEF c, d
  <2> QED
    BY <2>1, <2>2, <2>3
<1>9. Content(items) = FlattenSeq(c) /\ Content(u) = FlattenSeq(d)
  BY DEF Content
<1> HIDE DEF c, d
<1>10. FlattenSeq(d) = FlattenSeq(c) \o bytes /\ FlattenSeq(c) \in Seq(Nat)
  BY <1>7, <1>8, FlattenAppend, FlattenIn
<1> QED
  BY <1>6, <1>9, <1>10 DEF u, e

-----------------------------------------------------------------------------
(* The loops that read bytes until one has no FX: a function that looks    *)
(* upwards exists if the numbers it passes over end, and is the first      *)
(* number not passed over.                                                 *)
IsUp(f, odd, c) == f = [n \in Nat |-> IF n \in odd THEN f[n + 1] ELSE n + c]
Even(odd, n) == {k \in Nat : k >= n /\ k \notin odd}

Bounded(odd) == \E K \in Nat : \A k \in Nat : k >= K => k \notin odd

LEMMA FirstEven ==
  ASSUME NEW odd, Bounded(odd), NEW n \in Nat
  PROVE  \E m \in Even(odd, n) : \A k \in Even(odd, n) : m <= k
<1>1. Even(odd, n) \subseteq Nat
  BY DEF Even
<1> PICK K \in Nat : \A k \in Nat : k >= K => k \notin odd
  BY DEF Bounded
<1>2. (IF n <= K THEN K ELSE n) \in Even(odd, n)
  BY DEF Even
<1>3. Even(odd, n) # {}
  BY <1>2
<1> QED
  BY <1>1, <1>3, LeastElement

LEMMA UpExists ==
  ASSUME NEW odd, Bounded(odd), NEW c \in Nat
  PROVE  \E f : IsUp(f, odd, c)
<1> DEFINE Least(n) == CHOOSE m \in Even(odd, n) : \A k \in Even(odd, n) : m <= k
           f == [n \in Nat |-> Least(n) + c]
<1>1. ASSUME NEW n \in Nat
      PROVE  f[n] = IF n \in odd THEN f[n + 1] ELSE n + c
  <2>1. CASE n \in odd
    <3>1. \A k \in Nat : k >= n /\ k \notin odd <=> k >= n + 1 /\ k \notin odd
      BY <2>1
    <3>2. Even(odd, n) = Even(odd, n + 1)
      BY <3>1 DEF Even
    <3>3. Least(n) = Least(n + 1) /\ n + 1 \in Nat
      BY <3>2
    <3> HIDE DEF Least
    <3> QED
      BY <2>1, <3>3
  <2>2. CASE n \notin odd
    <3>1. Least(n) \in Even(odd, n) /\ \A k \in Even(odd, n) : Least(n) <= k
      BY FirstEven
    <3>2. n \in Even(odd, n)
      BY <2>2 DEF Even
    <3> HIDE DEF Least
    <3>3. Least(n) = n
      BY <3>1, <3>2 DEF Even
    <3> QED
      BY <2>2, <3>3
  <2> QED
    BY <2>1, <2>2
<1>2. f = [n \in Nat |-> f[n]]
  OBVIOUS
<1> HIDE DEF f
<1>3. IsUp(f, odd, c)
  BY <1>1, <1>2 DEF IsUp
<1> QED
  BY <1>3

LEMMA UpReaches ==
  ASSUME NEW odd, NEW c \in Nat, NEW f, IsUp(f, odd, c),
         NEW n \in Nat, NEW m \in Nat, m >= n, m \notin odd,
         \A k \in Nat : k >= n /\ k < m => k \in odd
  PROVE  f[n] = m + c
<1>1. \A k \in Nat : f[k] = IF k \in odd THEN f[k + 1] ELSE k + c
  BY DEF IsUp
<1> DEFINE No == {d \in 0 .. m - n : f[m - d] # m + c}
<1>2. ASSUME No # {} PROVE FALSE
  <2>1. No \subseteq Nat
    OBVIOUS
  <2>2. PICK d \in No : \A k \in No : d <= k
    <3> HIDE DEF No
    <3> QED
      BY <1>2, <2>1, LeastElement
  <2>3. d # 0
    <3>1. f[m - 0] = m + c
      BY <1>1
    <3> QED
      BY <3>1
  <2>4. d - 1 \in 0 .. m - n /\ ~ (d <= d - 1) /\ m - d \in Nat /\ m - d >= n /\ m - d < m
    BY <2>3
  <2>5. m - d \in odd
    BY <2>4
  <2>6. f[m - (d - 1)] = m + c
    BY <2>2, <2>4
  <2>7. m - d + 1 = m - (d - 1)
    BY <2>4
  <2> QED
    BY <1>1, <2>4, <2>5, <2>6, <2>7
<1>3. m - n \in 0 .. m - n /\ m - (m - n) = n
  OBVIOUS
<1> QED
  BY <1>2, <1>3

LEMMA UpIsFirst ==
  ASSUME NEW odd, Bounded(odd), NEW c \in Nat,
         NEW f, IsUp(f, odd, c), NEW n \in Nat
  PROVE  \E m \in Nat : m >= n /\ f[n] = m + c
<1>1. PICK m \in Even(odd, n) : \A k \in Even(odd, n) : m <= k
  BY FirstEven
<1>2. m \in Nat /\ m >= n /\ m \notin odd
  BY DEF Even
<1>3. \A k \in Nat : k >= n /\ k < m => k \in odd
  BY <1>1, <1>2 DEF Even
<1>4. f[n] = m + c
  BY <1>2, <1>3, UpReaches
<1> QED
  BY <1>2, <1>4

(* From some place on no byte has FX.                                      *)
Ends(source) == \E K \in Nat : \A k \in Nat : k >= K => source[k] % 2 # 1

(* The two loops: over the bytes of a field specification, and over those  *)
(* of an extended item.                                                    *)
FieldOdd(source, index) == {n \in Nat : source[index + n] % 2 = 1}
ItemOdd(index) == {n \in Nat : Byte[index + n - 1] % 2 = 1}

LEMMA FieldLengthUp ==
  ASSUME NEW source, Ends(source), NEW index \in Nat
  PROVE  /\ Bounded(FieldOdd(source, index))
         /\ \E end : IsUp(end, FieldOdd(source, index), 1) /\ FieldLength(source, index) = end[0]
<1> DEFINE odd == FieldOdd(source, index)
           Is(f) == f = [n \in Nat |-> IF source[index + n] % 2 = 1 THEN f[n + 1] ELSE n + 1]
           end == CHOOSE f : Is(f)
<1>1. PICK K \in Nat : \A k \in Nat : k >= K => source[k] % 2 # 1
  BY DEF Ends
<1>2. Bounded(odd)
  <2>1. \A k \in Nat : k >= K => index + k \in Nat /\ index + k >= K
    OBVIOUS
  <2> QED
    BY <1>1, <2>1 DEF Bounded, FieldOdd
<1>3. \A f : IsUp(f, odd, 1) <=> Is(f)
  <2> SUFFICES ASSUME NEW f
               PROVE  [n \in Nat |-> IF n \in odd THEN f[n + 1] ELSE n + 1]
                        = [n \in Nat |-> IF source[index + n] % 2 = 1 THEN f[n + 1] ELSE n + 1]
    BY DEF IsUp
  <2> QED
    BY DEF FieldOdd
<1> HIDE DEF odd
<1>4. \E f : IsUp(f, odd, 1)
  BY <1>2, UpExists
<1>5. IsUp(end, odd, 1)
  <2> HIDE DEF Is
  <2>1. Is(end)
    BY <1>3, <1>4
  <2> QED
    BY <1>3, <2>1
<1>6. FieldLength(source, index) = end[0]
  BY DEF FieldLength
<1> HIDE DEF end
<1> QED
  BY <1>2, <1>5, <1>6 DEF odd

LEMMA FieldLengthNat ==
  ASSUME NEW source, Ends(source), NEW index \in Nat
  PROVE  FieldLength(source, index) \in Nat /\ FieldLength(source, index) > 0
<1>1. PICK end : IsUp(end, FieldOdd(source, index), 1) /\ FieldLength(source, index) = end[0]
  BY FieldLengthUp
<1>2. Bounded(FieldOdd(source, index)) /\ 0 \in Nat /\ 1 \in Nat
  BY FieldLengthUp
<1>3. \E m \in Nat : m >= 0 /\ end[0] = m + 1
  BY <1>1, <1>2, UpIsFirst
<1> QED
  BY <1>1, <1>3

LEMMA ExtendedLengthUp ==
  ASSUME NEW item, item.length \in Nat, Ends(Byte), NEW index \in Nat, index > 0
  PROVE  /\ Bounded(ItemOdd(index))
         /\ \E end : IsUp(end, ItemOdd(index), 0) /\ ExtendedLength(item, index) = end[item.length]
<1> DEFINE odd == ItemOdd(index)
           Is(f) == f = [n \in Nat |-> IF Byte[index + n - 1] % 2 = 1 THEN f[n + 1] ELSE n]
           end == CHOOSE f : Is(f)
<1>1. PICK K \in Nat : \A k \in Nat : k >= K => Byte[k] % 2 # 1
  BY DEF Ends
<1>2. Bounded(odd)
  <2>1. \A k \in Nat : k >= K => index + k - 1 \in Nat /\ index + k - 1 >= K
    OBVIOUS
  <2> QED
    BY <1>1, <2>1 DEF Bounded, ItemOdd
<1>3. \A f : IsUp(f, odd, 0) <=> Is(f)
  <2> SUFFICES ASSUME NEW f
               PROVE  [n \in Nat |-> IF n \in odd THEN f[n + 1] ELSE n + 0]
                        = [n \in Nat |-> IF Byte[index + n - 1] % 2 = 1 THEN f[n + 1] ELSE n]
    BY DEF IsUp
  <2>1. \A n \in Nat : n + 0 = n
    OBVIOUS
  <2> QED
    BY <2>1 DEF ItemOdd
<1> HIDE DEF odd
<1>4. \E f : IsUp(f, odd, 0)
  BY <1>2, UpExists
<1>5. IsUp(end, odd, 0)
  <2> HIDE DEF Is
  <2>1. Is(end)
    BY <1>3, <1>4
  <2> QED
    BY <1>3, <2>1
<1>6. ExtendedLength(item, index) = end[item.length]
  BY DEF ExtendedLength
<1> HIDE DEF end
<1> QED
  BY <1>2, <1>5, <1>6 DEF odd

LEMMA ExtendedLengthNat ==
  ASSUME NEW item, item.length \in Nat, Ends(Byte), NEW index \in Nat, index > 0
  PROVE  ExtendedLength(item, index) \in Nat
<1>1. PICK end : IsUp(end, ItemOdd(index), 0) /\ ExtendedLength(item, index) = end[item.length]
  BY ExtendedLengthUp
<1>2. \E m \in Nat : m >= item.length /\ end[item.length] = m + 0
  BY <1>1, ExtendedLengthUp, UpIsFirst
<1> QED
  BY <1>1, <1>2

-----------------------------------------------------------------------------
(* The encoder returns bytes.                                              *)
LEMMA NatSeq ==
  ASSUME NEW s \in Seq(0 .. 255)
  PROVE  s \in Seq(Nat)
<1>1. 0 .. 255 \subseteq Nat
  OBVIOUS
<1> QED
  BY <1>1, SeqMonotonic

LEMMA FilledIsBytes ==
  ASSUME NEW f \in FieldRecord
  PROVE  Filled(f) \in Seq(Nat) /\ Len(Filled(f)) = Len(f.FSPEC)
<1> DEFINE missing == 8 * LengthInByte(f.lastFRNset) - (f.bits + f.bits \div 7)
           i == f.FSPEC_index + 1
           value == (f.FSPEC[i] * 2 ^ missing) % 256
<1>1. f.FSPEC \in Seq(Nat) /\ f.FSPEC \in Seq(0 .. 255) /\ i \in Nat
  BY NatSeq DEF FieldRecord
<1>2. CASE missing <= 0 \/ f.outside
  <2>1. Filled(f) = f.FSPEC
    BY <1>2 DEF Filled
  <2> QED
    BY <1>1, <2>1
<1>3. CASE ~ (missing <= 0 \/ f.outside)
  <2>1. Filled(f) = [f.FSPEC EXCEPT ![i] = value]
    BY <1>3 DEF Filled
  <2>2. missing \in Nat
    <3>1. missing \in Int
      BY DEF LengthInByte, FieldRecord
    <3> HIDE DEF missing
    <3> QED
      BY <1>3, <3>1
  <2> HIDE DEF missing
  <2>3. CASE i \in 1 .. Len(f.FSPEC)
    <3>1. f.FSPEC[i] \in Nat
      <4> HIDE DEF i
      <4> QED
        BY <1>1, <2>3, ElementOfSeq
    <3>2. 2 ^ missing \in Int
      BY <2>2
    <3>3. f.FSPEC[i] * 2 ^ missing \in Int
      BY <3>1, <3>2
    <3>4. value \in Nat
      <4> DEFINE x == f.FSPEC[i] * 2 ^ missing
      <4> HIDE DEF x
      <4>1. x % 256 \in Nat
        BY <3>3 DEF x
      <4> QED
        BY <4>1 DEF x
    <3> HIDE DEF value, i
    <3> QED
      BY <1>1, <2>1, <2>3, <3>4, ExceptSeq
  <2>4. CASE i \notin 1 .. Len(f.FSPEC)
    <3>1. i \notin DOMAIN f.FSPEC
      BY <1>1, <2>4, LenProperties
    <3> HIDE DEF value, i
    <3>2. Filled(f) = f.FSPEC
      BY <1>1, <2>1, <3>1
    <3> QED
      BY <1>1, <3>2
  <2> QED
    BY <2>3, <2>4
<1> QED
  BY <1>2, <1>3

LEMMA FieldIsBytes ==
  ASSUME NEW f \in FieldRecord
  PROVE  FieldBytes(f) \in Seq(Nat)
<1> DEFINE n == LengthInByte(f.lastFRNset)
           byte(b) == IF b <= Len(f.FSPEC) THEN Filled(f)[b] ELSE 0
           cut(b) == IF b = n THEN byte(b) - (byte(b) % 2) ELSE byte(b)
<1>1. n \in Nat
  BY DEF LengthInByte, FieldRecord
<1>2. FieldBytes(f) = [b \in 1 .. n |-> cut(b)]
  BY DEF FieldBytes
<1>3. ASSUME NEW b \in 1 .. n
      PROVE  cut(b) \in Nat
  <2>1. Filled(f) \in Seq(Nat) /\ Len(Filled(f)) = Len(f.FSPEC) /\ Len(f.FSPEC) \in Nat
    BY FilledIsBytes DEF FieldRecord
  <2>2. byte(b) \in Nat
    <3>1. b <= Len(f.FSPEC) => b \in 1 .. Len(Filled(f))
      BY <1>1, <2>1
    <3> QED
      BY <2>1, <3>1, ElementOfSeq
  <2> HIDE DEF byte, n
  <2>3. byte(b) - (byte(b) % 2) \in Nat
    <3> DEFINE x == byte(b)
    <3>1. x \in Nat
      BY <2>2
    <3> HIDE DEF x
    <3>2. x - (x % 2) \in Nat
      BY <3>1
    <3> QED
      BY <3>2 DEF x
  <2> QED
    BY <2>2, <2>3
<1> HIDE DEF cut, n
<1> QED
  BY <1>1, <1>2, <1>3

DescribedItem(item) ==
  /\ item.kind \in Kinds
  /\ item.length \in Nat /\ (item.kind = "Repetitive" => item.length > 0)
  /\ item.elements \in Seq(ToSet(item.elements))

InputRecord(r) ==
  r.category \in Nat /\ \A e \in DOMAIN r.elements : r.elements[e] \in Seq(Nat)

LEMMA WrappedIsBytes ==
  ASSUME NEW item, DescribedItem(item), NEW content \in Seq(Nat)
  PROVE  Wrapped(item, content) \in Seq(Nat)
<1>1. Len(content) \in Nat /\ DOMAIN content = 1 .. Len(content)
  BY LenProperties
<1>2. ASSUME NEW head \in Nat
      PROVE  <<head>> \o content \in Seq(Nat)
  <2>1. <<head>> \in Seq(Nat)
    BY <1>2
  <2> QED
    BY <2>1, ConcatProperties
<1>3. CASE item.kind = "Repetitive"
  <2>1. Wrapped(item, content) = <<Len(content) \div item.length>> \o content
    BY <1>3 DEF Wrapped
  <2>2. item.length \in Nat /\ item.length > 0
    BY <1>3 DEF DescribedItem
  <2>3. Len(content) \div item.length \in Nat
    BY <1>1, <2>2
  <2> QED
    BY <1>2, <2>1, <2>3
<1>4. CASE item.kind = "Explicit"
  <2>1. Wrapped(item, content) = <<Len(content) + 1>> \o content
    BY <1>4 DEF Wrapped
  <2> QED
    BY <1>1, <1>2, <2>1
<1>5. CASE item.kind = "Extended"
  <2> DEFINE value(b) == content[b] + (IF b < Len(content) THEN 1 ELSE 0)
  <2>1. Wrapped(item, content) = [b \in 1 .. Len(content) |-> value(b)]
    BY <1>1, <1>5 DEF Wrapped
  <2>2. \A b \in 1 .. Len(content) : content[b] \in Nat
    BY ElementOfSeq
  <2>3. \A b \in 1 .. Len(content) : value(b) \in Nat
    BY <2>2
  <2> HIDE DEF value
  <2> QED
    BY <1>1, <2>1, <2>3
<1>6. CASE item.kind = "Fixed"
  <2>1. Wrapped(item, content) = content
    BY <1>6 DEF Wrapped
  <2> QED
    BY <2>1
<1> QED
  BY <1>3, <1>4, <1>5, <1>6 DEF DescribedItem, Kinds

LEMMA ItemIsBytes ==
  ASSUME NEW item, DescribedItem(item), NEW record, InputRecord(record),
         ToSet(item.elements) \subseteq DOMAIN record.elements
  PROVE  ItemBytes(item, record) \in Seq(Nat)
<1> DEFINE names == item.elements
           s == [e \in DOMAIN names |-> record.elements[names[e]]]
<1>1. names \in Seq(ToSet(names)) /\ Len(names) \in Nat /\ DOMAIN names = 1 .. Len(names)
  BY LenProperties DEF DescribedItem
<1>2. \A e \in DOMAIN names : names[e] \in DOMAIN record.elements
  BY DEF ToSet
<1>3. \A e \in DOMAIN names : record.elements[names[e]] \in Seq(Nat)
  BY <1>2 DEF InputRecord
<1>4. s \in Seq(Seq(Nat))
  BY <1>1, <1>3
<1> HIDE DEF s
<1>5. FlattenSeq(s) \in Seq(Nat)
  BY <1>4, FlattenIn
<1>6. ItemBytes(item, record) = Wrapped(item, FlattenSeq(s))
  BY DEF ItemBytes, s
<1> QED
  BY <1>5, <1>6, WrappedIsBytes

(* What the loop over the items has put into the datablock.                *)
LoopBytes(s, record) ==
  LoopState(s) /\ s.bytes \in Seq(Nat) /\ s.left \subseteq DOMAIN record.elements

LEMMA AfterItemBytes ==
  ASSUME NEW record, InputRecord(record), NEW item, DescribedItem(item), NEW n,
         NEW s, LoopBytes(s, record)
  PROVE  LoopBytes(AfterItem(s, n, item, record), record)
<1> DEFINE t == AfterItem(s, n, item, record)
<1>1. LoopState(s) /\ s.bytes \in Seq(Nat) /\ s.left \subseteq DOMAIN record.elements
  BY DEF LoopBytes
<1> SUFFICES LoopBytes(t, record)
  OBVIOUS
<1>2. CASE s.left = {}
  <2>1. t = s
    BY <1>2 DEF AfterItem
  <2> QED
    BY <2>1
<1>3. CASE s.left # {} /\ Given(item, s.left)
  <2>1. t = [s EXCEPT !.field = Visited(s.field, TRUE),
                      !.left = @ \ ToSet(item.elements),
                      !.bytes = @ \o ItemBytes(item, record),
                      !.present = Append(@, n)]
    BY <1>3 DEF AfterItem
  <2>2. /\ LoopState(t) /\ t.left = s.left \ ToSet(item.elements)
        /\ t.bytes = s.bytes \o ItemBytes(item, record)
    BY <1>1, <2>1 DEF LoopState
  <2>3. ToSet(item.elements) \subseteq DOMAIN record.elements
    BY <1>1, <1>3 DEF Given
  <2>4. ItemBytes(item, record) \in Seq(Nat)
    BY <2>3, ItemIsBytes
  <2>5. s.bytes \o ItemBytes(item, record) \in Seq(Nat)
    BY <1>1, <2>4, ConcatProperties
  <2> HIDE DEF t
  <2> QED
    BY <1>1, <2>2, <2>5 DEF LoopBytes
<1>4. CASE s.left # {} /\ ~ Given(item, s.left)
  <2>1. t = [s EXCEPT !.field = Visited(s.field, FALSE),
                      !.missing = IF Reported(item) THEN Append(@, item.name) ELSE @]
    BY <1>4 DEF AfterItem
  <2>2. LoopState(t) /\ t.left = s.left /\ t.bytes = s.bytes
    BY <1>1, <2>1 DEF LoopState
  <2> HIDE DEF t
  <2> QED
    BY <1>1, <2>2 DEF LoopBytes
<1> QED
  BY <1>2, <1>3, <1>4

LEMMA ItemLoopBytes ==
  ASSUME NEW record, InputRecord(record), NEW items, items \in Seq(ToSet(items)),
         \A item \in ToSet(items) : DescribedItem(item), NEW garbage
  PROVE  LoopBytes(ItemLoop(record, items, garbage), record)
<1> DEFINE N == Len(items)
<1>1. N \in Nat /\ DOMAIN items = 1 .. N
  BY LenProperties
<1>2. PICK f : /\ IsLoop(f, N, record, items, garbage)
               /\ ItemLoop(record, items, garbage) = f[N]
  BY <1>1, LoopOfItems
<1>3. /\ f[0] = NothingEncoded(record, items, garbage)
      /\ \A n \in 1 .. N : f[n] = AfterItem(f[n - 1], n, items[n], record)
  <2>1. \A n \in 0 .. N : f[n] = IF n = 0 THEN NothingEncoded(record, items, garbage)
                                          ELSE AfterItem(f[n - 1], n, items[n], record)
    BY <1>2 DEF IsLoop
  <2>2. 0 \in 0 .. N /\ \A n \in 1 .. N : n \in 0 .. N /\ n # 0
    BY <1>1
  <2> QED
    BY <2>1, <2>2
<1> DEFINE No == {n \in 0 .. N : ~ LoopBytes(f[n], record)}
<1>4. ASSUME No # {} PROVE FALSE
  <2>1. No \subseteq Nat
    OBVIOUS
  <2>2. PICK n \in No : \A k \in No : n <= k
    <3> HIDE DEF No
    <3> QED
      BY <1>4, <2>1, LeastElement
  <2>3. n # 0
    <3> DEFINE s == NothingEncoded(record, items, garbage)
    <3>1. LoopState(s) /\ s.bytes = <<>> /\ s.left = DOMAIN record.elements
      BY DEF NothingEncoded, LoopState
    <3> HIDE DEF s
    <3>2. <<>> \in Seq(Nat)
      OBVIOUS
    <3>3. LoopBytes(s, record)
      BY <3>1, <3>2 DEF LoopBytes
    <3> QED
      BY <1>3, <3>3 DEF s
  <2>4. n \in 1 .. N /\ n - 1 \in 0 .. N /\ ~ (n <= n - 1)
    BY <1>1, <2>3
  <2>5. LoopBytes(f[n - 1], record)
    BY <2>2, <2>4
  <2>6. items[n] \in ToSet(items)
    BY <1>1, <2>4 DEF ToSet
  <2>7. LoopBytes(f[n], record)
    BY <1>3, <2>4, <2>5, <2>6, AfterItemBytes
  <2> QED
    BY <2>7
<1>5. N \in 0 .. N
  BY <1>1
<1> QED
  BY <1>2, <1>4, <1>5

ByteResult(r) == r.datablock \in Seq(Nat)

LEMMA DatablockIsBytes ==
  ASSUME NEW record, InputRecord(record), NEW k, NEW s, s.bytes \in Seq(Nat),
         s.field \in FieldRecord
  PROVE  ByteResult(Datablock(record, k, s))
<1> DEFINE body == FieldBytes(s.field) \o s.bytes
           head == CatAndLength(record.category, Len(body) + 3)
<1>1. Datablock(record, k, s).datablock = IF body = <<>> THEN Nullptr ELSE head \o body
  BY DEF Datablock
<1>2. body \in Seq(Nat)
  BY FieldIsBytes, ConcatProperties
<1>3. head \in Seq(Nat)
  <2> DEFINE size == Len(body) + 3
             c == record.category
  <2>1. size \in Nat /\ c \in Nat
    <3> HIDE DEF body
    <3>1. Len(body) \in Nat
      BY <1>2, LenProperties
    <3> QED
      BY <3>1 DEF InputRecord
  <2> HIDE DEF size, c
  <2>2. c % 256 \in Nat /\ (size \div 256) % 256 \in Nat /\ size % 256 \in Nat
    BY <2>1
  <2>3. CatAndLength(c, size) \in Seq(Nat)
    BY <2>2 DEF CatAndLength
  <2> QED
    BY <2>3 DEF c, size
<1> HIDE DEF body, head
<1>4. head \o body \in Seq(Nat)
  BY <1>2, <1>3, ConcatProperties
<1>5. Nullptr \in Seq(Nat)
  BY DEF Nullptr
<1> QED
  BY <1>1, <1>4, <1>5 DEF ByteResult

LEMMA EncodedIsBytes ==
  ASSUME NEW record, InputRecord(record), NEW garbage \in Garbage
  PROVE  /\ ByteResult(EncodeForDecodedRecord(record, garbage))
         /\ ByteResult(EncodeForSingleRecord(record, garbage))
<1>1. garbage \in 0 .. 255
  BY EncodingAssumption
<1>2. ASSUME NEW k \in DOMAIN Descriptions
      PROVE  ByteResult(Datablock(record, k, ItemLoop(record, Descriptions[k].items, garbage)))
  <2> DEFINE items == Items(k)
             s == ItemLoop(record, items, garbage)
  <2>1. items \in Seq(ToSet(items))
    BY DescribedItems
  <2>2. \A item \in ToSet(items) : DescribedItem(item)
    BY ItemsAssumption DEF DescribedItem, Items
  <2> HIDE DEF items
  <2>3. Walked(s, Len(items), items) /\ LoopBytes(s, record)
    BY <1>1, <2>1, <2>2, ItemLoopWalked, ItemLoopBytes
  <2> HIDE DEF s
  <2>4. s.bytes \in Seq(Nat) /\ s.field \in FieldRecord
    BY <2>3 DEF Walked, FieldInv, LoopBytes
  <2>5. ByteResult(Datablock(record, k, s))
    BY <2>4, DatablockIsBytes
  <2> QED
    BY <2>5 DEF s, items, Items
<1>3. ASSUME NEW code, NEW k
      PROVE  ByteResult(Failed(code, k))
  BY DEF ByteResult, Failed, Nullptr
<1>4. ByteResult(EncodeForDecodedRecord(record, garbage))
  BY <1>2, <1>3, LookedUp DEF EncodeForDecodedRecord
<1>5. ByteResult(EncodeForSingleRecord(record, garbage))
  BY <1>2, <1>3, LookedUp DEF EncodeForSingleRecord, EncodeAllItemsFromSingleRecord
<1> QED
  BY <1>4, <1>5

(* What the client gives, the tasks return, and the call has collected.    *)
GivenInv == \E S : /\ records \in Seq(S) /\ \A r \in S : InputRecord(r)
                   /\ Len(results) = Len(records)
ByteResultsInv == \E S : results \in Seq(S) /\ \A r \in S : r # NoResult => ByteResult(r)
CollectedInv == collected \in Seq(Seq(Nat)) /\ file \in Seq(Seq(Nat)) /\ output \in Seq(Nat)
OutputInv == GivenInv /\ ByteResultsInv /\ CollectedInv

LEMMA OutputInit == Init => OutputInv
<1> SUFFICES ASSUME Init PROVE OutputInv
  OBVIOUS
<1>1. records = <<>> /\ results = <<>> /\ collected = <<>> /\ file = <<>> /\ output = <<>>
  BY DEF Init, EncoderInit
<1>2. \A S : <<>> \in Seq(S)
  BY EmptySeq
<1>3. (\A r \in {} : InputRecord(r)) /\ (\A r \in {} : r # NoResult => ByteResult(r))
  OBVIOUS
<1>4. GivenInv
  BY <1>1, <1>2, <1>3 DEF GivenInv
<1>5. ByteResultsInv
  BY <1>1, <1>2, <1>3 DEF ByteResultsInv
<1>6. CollectedInv
  BY <1>1, <1>2 DEF CollectedInv
<1> QED
  BY <1>4, <1>5, <1>6 DEF OutputInv

LEMMA StartOutput ==
  ASSUME OutputInv, NEW kind, NEW todo, NEW S, todo \in Seq(S), \A r \in S : InputRecord(r),
         StartCall(kind, todo)
  PROVE  OutputInv'
<1>1. /\ records' = todo /\ results' = [n \in DOMAIN todo |-> NoResult]
      /\ collected' = <<>> /\ output' = output /\ file' = file
  BY DEF StartCall
<1>2. Len(todo) \in Nat /\ DOMAIN todo = 1 .. Len(todo)
  BY LenProperties
<1>3. results' \in Seq({NoResult}) /\ Len(results') = Len(todo)
  BY <1>1, <1>2
<1>4. GivenInv'
  BY <1>1, <1>3 DEF GivenInv
<1>5. ByteResultsInv'
  BY <1>3 DEF ByteResultsInv
<1>6. CollectedInv'
  <2>1. <<>> \in Seq(Seq(Nat))
    BY EmptySeq
  <2> QED
    BY <1>1, <2>1 DEF CollectedInv, OutputInv
<1> QED
  BY <1>4, <1>5, <1>6 DEF OutputInv

LEMMA ConstructedRecord ==
  ASSUME NEW r, r = [category |-> r.category, elements |-> r.elements], InputRecord(r)
  PROVE  InputRecord(Constructed(r))
<1> DEFINE none == [r EXCEPT !.elements = <<>>]
<1>1. Constructed(r) \in {none, r}
  BY DEF Constructed
<1>2. none.category = r.category /\ none.elements = <<>>
  OBVIOUS
<1>3. DOMAIN <<>> = {}
  OBVIOUS
<1> HIDE DEF none
<1>4. InputRecord(none)
  BY <1>2, <1>3 DEF InputRecord
<1> QED
  BY <1>1, <1>4

(* The records of the next call.                                           *)
LEMMA ArgumentRecords ==
  ASSUME EncodingInv, calls < Len(client)
  PROVE  /\ Argument \in Seq(ToSet(Argument))
         /\ \A r \in ToSet(Argument) :
              r = [category |-> r.category, elements |-> r.elements] /\ InputRecord(r)
         /\ client[calls + 1].kind = "single" => Argument[1] \in ToSet(Argument)
<1>1. client \in Clients /\ calls \in Nat
  BY DEF EncodingInv
<1>2. client \in Seq(ToSet(client))
  BY <1>1, ClientsAssumption
<1> DEFINE n == calls + 1
<1>3. n \in DOMAIN client
  BY <1>1, <1>2, LenProperties
<1> HIDE DEF n
<1>4. /\ client[n].records \in Seq(ToSet(client[n].records))
      /\ client[n].kind = "single" => client[n].records # <<>>
      /\ \A r \in ToSet(client[n].records) :
           /\ r = [category |-> r.category, elements |-> r.elements] /\ r.category \in Nat
           /\ \A e \in DOMAIN r.elements : r.elements[e] \in Seq(0 .. 255)
  BY <1>1, <1>3, ClientsAssumption, RecordsAssumption
<1>5. Argument = client[n].records
  BY DEF Argument, n
<1>6. \A r \in ToSet(Argument) : InputRecord(r)
  <2> SUFFICES ASSUME NEW r \in ToSet(Argument)
               PROVE  InputRecord(r)
    OBVIOUS
  <2>1. r.category \in Nat /\ \A e \in DOMAIN r.elements : r.elements[e] \in Seq(0 .. 255)
    BY <1>4, <1>5
  <2>2. \A e \in DOMAIN r.elements : r.elements[e] \in Seq(Nat)
    BY <2>1, NatSeq, Zenon
  <2> QED
    BY <2>1, <2>2 DEF InputRecord
<1>7. ASSUME client[n].kind = "single"
      PROVE  Argument[1] \in ToSet(Argument)
  <2>1. Argument \in Seq(ToSet(Argument)) /\ Argument # <<>>
    BY <1>4, <1>5, <1>7
  <2>2. Len(Argument) \in Nat \ {0} /\ DOMAIN Argument = 1 .. Len(Argument)
    BY <2>1, EmptySeq, LenProperties
  <2>3. 1 \in DOMAIN Argument
    BY <2>2
  <2> QED
    BY <2>3 DEF ToSet
<1> QED
  BY <1>4, <1>5, <1>6, <1>7 DEF n

LEMMA RunOutput ==
  ASSUME OutputInv, RunTask
  PROVE  OutputInv'
<1>1. PICK n \in DOMAIN results, garbage \in Garbage :
        /\ results' = [results EXCEPT ![n] =
                         IF call = "single" THEN EncodeForSingleRecord(records[n], garbage)
                                            ELSE EncodeForDecodedRecord(records[n], garbage)]
        /\ UNCHANGED <<records, collected, file, output>>
  BY DEF RunTask, outVars
<1> DEFINE r == IF call = "single" THEN EncodeForSingleRecord(records[n], garbage)
                                   ELSE EncodeForDecodedRecord(records[n], garbage)
<1>2. PICK T : /\ records \in Seq(T) /\ \A q \in T : InputRecord(q)
               /\ Len(results) = Len(records)
  BY DEF OutputInv, GivenInv
<1>3. PICK S : results \in Seq(S) /\ \A q \in S : q # NoResult => ByteResult(q)
  BY DEF OutputInv, ByteResultsInv
<1>4. n \in 1 .. Len(results)
  BY <1>3, LenProperties
<1>5. InputRecord(records[n])
  BY <1>2, <1>4, ElementOfSeq
<1>6. ByteResult(r)
  BY <1>5, EncodedIsBytes
<1>7. results' = [results EXCEPT ![n] = r]
  BY <1>1
<1> HIDE DEF r
<1>8. results \in Seq(S \cup {r})
  BY <1>3, SeqMonotonic
<1>9. results' \in Seq(S \cup {r}) /\ Len(results') = Len(results)
  BY <1>4, <1>7, <1>8, ExceptSeq
<1>10. \A q \in S \cup {r} : q # NoResult => ByteResult(q)
  BY <1>3, <1>6
<1>11. ByteResultsInv'
  BY <1>9, <1>10 DEF ByteResultsInv
<1>12. GivenInv'
  BY <1>1, <1>2, <1>9 DEF GivenInv
<1>13. CollectedInv'
  BY <1>1 DEF CollectedInv, OutputInv
<1> QED
  BY <1>11, <1>12, <1>13 DEF OutputInv

LEMMA JoinOutput ==
  ASSUME EncodingInv, OutputInv, JoinTask
  PROVE  OutputInv'
<1>1. joined + 1 \in DOMAIN results /\ results[joined + 1] # NoResult
  <2>1. joined' = joined + 1
    BY JoinStep
  <2> QED
    BY <2>1, JoinStep
<1> DEFINE datablock == results[joined + 1].datablock
<1>2. datablock \in Seq(Nat)
  <2>1. PICK S : results \in Seq(S) /\ \A q \in S : q # NoResult => ByteResult(q)
    BY DEF OutputInv, ByteResultsInv
  <2>2. results[joined + 1] \in S
    BY <1>1, <2>1
  <2> QED
    BY <1>1, <2>1, <2>2 DEF ByteResult
<1>3. /\ UNCHANGED <<records, results, output>>
      /\ collected' \in {collected, Append(collected, datablock)}
      /\ file' \in {file, Append(file, datablock)}
  BY DEF JoinTask, Write
<1> HIDE DEF datablock
<1>4. collected \in Seq(Seq(Nat)) /\ file \in Seq(Seq(Nat)) /\ output \in Seq(Nat)
  BY DEF OutputInv, CollectedInv
<1>5. Append(collected, datablock) \in Seq(Seq(Nat)) /\ Append(file, datablock) \in Seq(Seq(Nat))
  BY <1>2, <1>4, AppendProperties
<1>6. CollectedInv'
  BY <1>3, <1>4, <1>5 DEF CollectedInv
<1>7. GivenInv' /\ ByteResultsInv'
  BY <1>3 DEF OutputInv, GivenInv, ByteResultsInv
<1> QED
  BY <1>6, <1>7 DEF OutputInv

LEMMA OutputStep ==
  ASSUME EncodingInv, OutputInv, EncoderStep
  PROVE  OutputInv'
<1>1. CASE EncodeRecords
  <2>1. calls < Len(client) /\ StartCall("records", Argument)
    BY <1>1 DEF EncodeRecords, StartCall
  <2>2. /\ Argument \in Seq(ToSet(Argument))
        /\ \A r \in ToSet(Argument) : InputRecord(r)
    BY <2>1, ArgumentRecords
  <2> QED
    BY <2>1, <2>2, StartOutput
<1>2. CASE EncodeSingleRecord
  <2> DEFINE r == Constructed(Argument[1])
  <2>1. /\ calls < Len(client) /\ client[calls + 1].kind = "single"
        /\ StartCall("single", <<r>>)
    BY <1>2 DEF EncodeSingleRecord, StartCall
  <2>2. Argument[1] \in ToSet(Argument)
    BY <2>1, ArgumentRecords
  <2>3. /\ Argument[1] = [category |-> Argument[1].category, elements |-> Argument[1].elements]
        /\ InputRecord(Argument[1])
    BY <2>1, <2>2, ArgumentRecords
  <2>4. InputRecord(r)
    BY <2>3, ConstructedRecord
  <2> HIDE DEF r
  <2>5. <<r>> \in Seq({r}) /\ \A q \in {r} : InputRecord(q)
    BY <2>4
  <2> QED
    BY <2>1, <2>5, StartOutput
<1>3. CASE RunTask
  BY <1>3, RunOutput
<1>4. CASE JoinTask
  BY <1>4, JoinOutput
<1>5. CASE ReturnDatablocks
  <2>1. UNCHANGED <<records, results, collected, file>> /\ output' = FlattenSeq(collected)
    BY <1>5 DEF ReturnDatablocks
  <2>2. collected \in Seq(Seq(Nat)) /\ file \in Seq(Seq(Nat))
    BY DEF OutputInv, CollectedInv
  <2>3. output' \in Seq(Nat)
    BY <2>1, <2>2, FlattenIn
  <2>4. CollectedInv'
    BY <2>1, <2>2, <2>3 DEF CollectedInv
  <2>5. GivenInv' /\ ByteResultsInv'
    BY <2>1 DEF OutputInv, GivenInv, ByteResultsInv
  <2> QED
    BY <2>4, <2>5 DEF OutputInv
<1> QED
  BY <1>1, <1>2, <1>3, <1>4, <1>5 DEF EncoderStep, EncoderNext

LEMMA OutputKept ==
  ASSUME OutputInv, ParserStep \/ UNCHANGED vars
  PROVE  OutputInv'
<1>1. UNCHANGED encoderVars
  BY DEF ParserStep, ParserNext, vars, Start, GiveUp, ParseEncoded, ParseReceived, NextDatablock,
         NoMoreDatablocks, BeginRecord, ParseItem, EndRecord, EndDatablock
<1>2. UNCHANGED <<records, results, collected, file, output>>
  BY <1>1 DEF encoderVars, callVars, outVars
<1> QED
  BY <1>2 DEF OutputInv, GivenInv, ByteResultsInv, CollectedInv

LEMMA OutputInvariant == Spec => []OutputInv
<1>1. ASSUME EncodingInv, OutputInv, [Next]_vars
      PROVE  OutputInv'
  BY <1>1, OutputStep, OutputKept DEF Next
<1> QED
  BY <1>1, OutputInit, EncodingInvariant, PTL DEF Spec

-----------------------------------------------------------------------------
(* What the parser reads.                                                  *)
Frns == Nat \ {0}

LEMMA AnnouncedFrns ==
  ASSUME NEW byte, NEW first \in Frns
  PROVE  Announced(byte, first) \in Seq(Frns)
<1> DEFINE frn(k) == IF (byte \div 2 ^ (8 - k)) % 2 = 1 THEN <<first + k - 1>> ELSE <<>>
           s == [k \in 1 .. 7 |-> frn(k)]
<1>1. ASSUME NEW k \in 1 .. 7
      PROVE  frn(k) \in Seq(Frns)
  <2>1. first + k - 1 \in Frns
    BY DEF Frns
  <2>2. <<first + k - 1>> \in Seq(Frns) /\ <<>> \in Seq(Frns)
    BY <2>1
  <2> QED
    BY <2>2
<1>2. Announced(byte, first) = FlattenSeq(s)
  BY DEF Announced
<1> HIDE DEF frn
<1>3. s \in Seq(Seq(Frns))
  BY <1>1
<1> HIDE DEF s
<1> QED
  BY <1>2, <1>3, FlattenIn

LEMMA ReadFrns ==
  ASSUME NEW source, Ends(source), NEW index \in Nat
  PROVE  ReadFspec(source, index) \in Seq(Frns)
<1> DEFINE n == FieldLength(source, index)
           of(b) == Announced(source[index + b - 1], 7 * (b - 1) + 1)
           s == [b \in 1 .. n |-> of(b)]
<1>1. n \in Nat
  BY FieldLengthNat
<1>2. ASSUME NEW b \in 1 .. n
      PROVE  of(b) \in Seq(Frns)
  <2>1. 7 * (b - 1) + 1 \in Frns
    BY <1>1 DEF Frns
  <2> QED
    BY <2>1, AnnouncedFrns
<1>3. ReadFspec(source, index) = FlattenSeq(s)
  BY DEF ReadFspec
<1> HIDE DEF of, n
<1>4. s \in Seq(Seq(Frns))
  BY <1>1, <1>2
<1> HIDE DEF s
<1> QED
  BY <1>3, <1>4, FlattenIn

(* The bytes of a stream, with those behind it.                            *)
SourceInv == stream \in Seq(Nat) /\ beyond \in Nat /\ beyond % 2 # 1

LEMMA ByteFacts ==
  ASSUME SourceInv
  PROVE  /\ \A n \in Nat : Byte[n] \in Nat
         /\ Ends(Byte)
<1>1. Len(stream) \in Nat /\ \A n \in 1 .. Len(stream) : stream[n] \in Nat
  BY ElementOfSeq, LenProperties DEF SourceInv
<1>2. \A n \in Nat : Byte[n] = IF n < Len(stream) THEN stream[n + 1] ELSE beyond
  BY DEF Byte
<1>3. ASSUME NEW n \in Nat
      PROVE  Byte[n] \in Nat
  <2>1. n < Len(stream) => n + 1 \in 1 .. Len(stream)
    BY <1>1
  <2>2. beyond \in Nat
    BY DEF SourceInv
  <2> QED
    BY <1>1, <1>2, <2>1, <2>2
<1>4. ASSUME NEW k \in Nat, k >= Len(stream)
      PROVE  Byte[k] % 2 # 1
  <2>1. Byte[k] = beyond
    BY <1>1, <1>2, <1>4
  <2> QED
    BY <2>1 DEF SourceInv
<1>5. Ends(Byte)
  BY <1>1, <1>4 DEF Ends
<1> QED
  BY <1>3, <1>5

LEMMA BytesFacts ==
  ASSUME SourceInv, NEW from \in Nat, NEW n \in Nat
  PROVE  Bytes(from, n) \in Seq(Nat) /\ Len(Bytes(from, n)) = n
<1>1. \A b \in 1 .. n : from + b - 1 \in Nat
  OBVIOUS
<1>2. \A b \in 1 .. n : Byte[from + b - 1] \in Nat
  BY <1>1, ByteFacts
<1> QED
  BY <1>2 DEF Bytes

LEMMA BytesNext ==
  ASSUME SourceInv, NEW from \in Nat, NEW m \in Nat, NEW n \in Nat
  PROVE  Bytes(from, m + n) = Bytes(from, m) \o Bytes(from + m, n)
<1> DEFINE s == Bytes(from, m)
           t == Bytes(from + m, n)
           u == Bytes(from, m + n)
<1>1. /\ s \in Seq(Nat) /\ Len(s) = m /\ t \in Seq(Nat) /\ Len(t) = n
      /\ u \in Seq(Nat) /\ Len(u) = m + n
  <2>1. from + m \in Nat /\ m + n \in Nat
    OBVIOUS
  <2> QED
    BY <2>1, BytesFacts
<1>2. /\ \A b \in 1 .. m : s[b] = Byte[from + b - 1]
      /\ \A b \in 1 .. n : t[b] = Byte[from + m + b - 1]
      /\ \A b \in 1 .. m + n : u[b] = Byte[from + b - 1]
  BY DEF Bytes
<1> HIDE DEF s, t, u
<1>3. /\ s \o t \in Seq(Nat) /\ Len(s \o t) = m + n
      /\ \A b \in 1 .. m + n : (s \o t)[b] = IF b <= m THEN s[b] ELSE t[b - m]
  BY <1>1, ConcatProperties
<1>4. ASSUME NEW b \in 1 .. m + n
      PROVE  u[b] = (s \o t)[b]
  <2>1. CASE b <= m
    <3>1. b \in 1 .. m
      BY <2>1
    <3> QED
      BY <1>2, <1>3, <2>1, <3>1
  <2>2. CASE ~ (b <= m)
    <3>1. b - m \in 1 .. n /\ from + m + (b - m) - 1 = from + b - 1
      BY <2>2
    <3>2. t[b - m] = Byte[from + b - 1]
      BY <1>2, <3>1
    <3> QED
      BY <1>2, <1>3, <2>2, <3>2
  <2> QED
    BY <2>1, <2>2
<1>5. u = s \o t
  BY <1>1, <1>3, <1>4, SeqEqual
<1> QED
  BY <1>5 DEF s, t, u

LEMMA ItemLengthNat ==
  ASSUME SourceInv, NEW item, DescribedItem(item), NEW index \in Nat, index > 0
  PROVE  ItemLength(item, index) \in Int
<1>1. item.length \in Nat /\ Byte[index] \in Nat /\ Ends(Byte)
  BY ByteFacts DEF DescribedItem
<1>2. CASE item.kind = "Fixed"
  <2>1. ItemLength(item, index) = item.length
    BY <1>2 DEF ItemLength
  <2> QED
    BY <1>1, <2>1
<1>3. CASE item.kind = "Extended"
  <2>1. ItemLength(item, index) = ExtendedLength(item, index)
    BY <1>3 DEF ItemLength
  <2> QED
    BY <1>1, <2>1, ExtendedLengthNat
<1>4. CASE item.kind = "Repetitive"
  <2>1. ItemLength(item, index) = Byte[index] * item.length + 1
    BY <1>4 DEF ItemLength
  <2> QED
    BY <1>1, <2>1
<1>5. CASE item.kind = "Explicit"
  <2>1. ItemLength(item, index) = IF item.name \in Fields THEN Byte[index] ELSE -1
    BY <1>5 DEF ItemLength
  <2> QED
    BY <1>1, <2>1
<1> QED
  BY <1>2, <1>3, <1>4, <1>5 DEF DescribedItem, Kinds

-----------------------------------------------------------------------------
(* The records delivered: those from before the datablock at hand, then    *)
(* its own, and where the next one of it begins.                           *)
LastRecord == delivered[Len(delivered)]
NextRecord ==
  IF delivered # <<>> /\ LastRecord.datablock = bufferIndex THEN LastRecord.from + Len(LastRecord.raw) ELSE 3

DeliveredInv ==
  /\ \E S : delivered \in Seq(S)
  /\ pc = "idle" => delivered = <<>>
  /\ \A n \in DOMAIN delivered :
       /\ delivered[n].datablock \in Nat /\ delivered[n].datablock <= bufferIndex
       /\ delivered[n].datablock = bufferIndex => pc \in {"record", "items"} /\ Length > 0

(* RecordsTile, of any records and the bytes they were read from.          *)
BytesIn(source, from, n) == [b \in 1 .. n |-> source[from + b - 1]]

Tiled(r, source) ==
  LET at == r.datablock + r.from
      header == FieldLength(source, at)
  IN /\ Len(r.raw) = header + Len(Content(r.items))
     /\ r.datablock = 0 => r.raw = BytesIn(source, at, header) \o Content(r.items)

Follows(d, n) ==
  d[n].from = IF n = 1 \/ d[n - 1].datablock # d[n].datablock THEN 3
              ELSE d[n - 1].from + Len(d[n - 1].raw)

Tiles(d, source) == \A n \in DOMAIN d : Follows(d, n) /\ Tiled(d[n], source)

LEMMA TilesOfRecords == RecordsTile <=> Tiles(delivered, Byte)
BY DEF RecordsTile, Tiles, Tiled, Follows, Bytes, BytesIn

(* A record of which some items have been parsed.                          *)
RecordInv ==
  /\ recordStart \in Nat /\ recordStart = NextRecord /\ recordStart < Length
  /\ key \in DOMAIN Descriptions
  /\ FRN_list \in Seq(Frns)
  /\ ItemSeq(parsed)
  /\ bytesRead = recordStart + FieldLength(Byte, bufferIndex + recordStart) + Len(Content(parsed))
  /\ bufferIndex = 0 =>
       BytesIn(Byte, recordStart, RecordSize)
         = BytesIn(Byte, recordStart, FieldLength(Byte, recordStart)) \o Content(parsed)

ParserInv ==
  /\ SourceInv
  /\ bufferIndex \in Nat /\ bytesRead \in Nat
  /\ pc \in {"record", "items"} => bytesRead > 0
  /\ pc = "record" => bytesRead = NextRecord
  /\ pc = "items" => RecordInv
  /\ DeliveredInv
  /\ Tiles(delivered, Byte)

LEMMA HeaderNat ==
  ASSUME ParserInv
  PROVE  Length \in Nat
<1>1. bufferIndex \in Nat /\ bufferIndex + 1 \in Nat /\ bufferIndex + 2 \in Nat
  BY DEF ParserInv
<1>2. Byte[bufferIndex + 1] \in Nat /\ Byte[bufferIndex + 2] \in Nat
  BY <1>1, ByteFacts DEF ParserInv
<1> QED
  BY <1>2 DEF Length

LEMMA SourceKept ==
  ASSUME UNCHANGED <<stream, beyond>>
  PROVE  Byte' = Byte /\ (SourceInv => SourceInv')
BY DEF Byte, SourceInv

LEMMA DeliveredKept ==
  ASSUME ParserInv, UNCHANGED <<stream, beyond, delivered>>
  PROVE  SourceInv' /\ Tiles(delivered, Byte)'
<1>1. SourceInv'
  BY SourceKept DEF ParserInv
<1>2. Tiles(delivered, Byte) /\ Byte' = Byte
  BY SourceKept DEF ParserInv
<1>3. Tiles(delivered, Byte)'
  BY <1>2
<1> QED
  BY <1>1, <1>3

LEMMA ParserInitially == Init => ParserInv
<1> SUFFICES ASSUME Init PROVE ParserInv
  OBVIOUS
<1>1. /\ pc = "idle" /\ stream = <<>> /\ bufferIndex = 0 /\ bytesRead = 0 /\ beyond = 0
      /\ delivered = <<>>
  BY DEF Init, ParserInit
<1>2. \A S : <<>> \in Seq(S)
  BY EmptySeq
<1>3. DOMAIN <<>> = {}
  OBVIOUS
<1>4. SourceInv
  BY <1>1, <1>2 DEF SourceInv
<1>5. DeliveredInv
  BY <1>1, <1>2, <1>3 DEF DeliveredInv
<1>6. Tiles(delivered, Byte)
  BY <1>1, <1>3 DEF Tiles
<1> QED
  BY <1>1, <1>4, <1>5, <1>6 DEF ParserInv

LEMMA StartParser ==
  ASSUME ParserInv, NEW bytes \in Seq(Nat), Start(bytes)
  PROVE  ParserInv'
<1>1. /\ pc = "idle" /\ pc' = "datablock" /\ stream' = bytes /\ beyond' \in Beyond
      /\ UNCHANGED <<bufferIndex, bytesRead, delivered>>
  BY DEF Start
<1>2. delivered = <<>> /\ bufferIndex \in Nat /\ bytesRead \in Nat
  BY <1>1 DEF ParserInv, DeliveredInv
<1>3. DOMAIN <<>> = {} /\ <<>> \in Seq({})
  OBVIOUS
<1>4. SourceInv'
  <2>1. beyond' \in 0 .. 255 /\ beyond' % 2 = 0
    BY <1>1, ParsingAssumption
  <2>2. \A x \in 0 .. 255 : x \in Nat /\ (x % 2 = 0 => x % 2 # 1)
    OBVIOUS
  <2>3. beyond' \in Nat /\ beyond' % 2 # 1
    BY <2>1, <2>2
  <2> QED
    BY <1>1, <2>3 DEF SourceInv
<1>5. DeliveredInv'
  BY <1>1, <1>2, <1>3 DEF DeliveredInv
<1>6. Tiles(delivered, Byte)'
  BY <1>1, <1>2, <1>3 DEF Tiles
<1> QED
  BY <1>1, <1>2, <1>4, <1>5, <1>6 DEF ParserInv

(* The parser goes to the next datablock, at the end of this one or        *)
(* because it gives it up.                                                 *)
LEMMA DatablockLeft ==
  ASSUME ParserInv, pc' = "datablock", bufferIndex' = bufferIndex + Length, bytesRead' \in Nat,
         UNCHANGED <<stream, beyond, delivered>>
  PROVE  ParserInv'
<1>1. Length \in Nat /\ bufferIndex \in Nat
  BY HeaderNat DEF ParserInv
<1>2. DeliveredInv
  BY DEF ParserInv
<1>3. DeliveredInv'
  <2>1. \E S : delivered' \in Seq(S)
    BY <1>2 DEF DeliveredInv
  <2>2. ASSUME NEW n \in DOMAIN delivered'
        PROVE  /\ delivered'[n].datablock \in Nat /\ delivered'[n].datablock <= bufferIndex'
               /\ delivered'[n].datablock # bufferIndex'
    <3> DEFINE at == delivered[n].datablock
    <3>1. at \in Nat /\ at <= bufferIndex /\ (at = bufferIndex => Length > 0)
      BY <1>2, <2>2 DEF DeliveredInv
    <3> HIDE DEF at
    <3>2. at <= bufferIndex + Length /\ at # bufferIndex + Length
      BY <1>1, <3>1
    <3> QED
      BY <3>1, <3>2 DEF at
  <2> QED
    BY <2>1, <2>2 DEF DeliveredInv
<1>4. bufferIndex' \in Nat
  BY <1>1
<1> QED
  BY <1>3, <1>4, DeliveredKept DEF ParserInv

LEMMA LastDelivered ==
  ASSUME DeliveredInv, delivered # <<>>
  PROVE  Len(delivered) \in DOMAIN delivered
<1>1. PICK S : delivered \in Seq(S)
  BY DEF DeliveredInv
<1>2. Len(delivered) \in Nat \ {0} /\ DOMAIN delivered = 1 .. Len(delivered)
  BY <1>1, EmptySeq, LenProperties
<1> QED
  BY <1>2

(* The parser stays in the datablock.                                      *)
LEMMA DatablockKept ==
  ASSUME ParserInv, UNCHANGED <<stream, beyond, bufferIndex, delivered>>, pc' # "idle",
         pc \in {"record", "items"} => pc' \in {"record", "items"}
  PROVE  DeliveredInv' /\ NextRecord' = NextRecord /\ Length' = Length
<1>1. Length' = Length
  BY SourceKept DEF Length
<1>2. NextRecord' = NextRecord
  BY DEF NextRecord, LastRecord
<1>3. DeliveredInv
  BY DEF ParserInv
<1>4. DeliveredInv'
  <2> DEFINE len == Length
  <2>1. Length' = len
    BY <1>1
  <2>2. DeliveredInv => \A n \in DOMAIN delivered :
          /\ delivered[n].datablock \in Nat /\ delivered[n].datablock <= bufferIndex
          /\ delivered[n].datablock = bufferIndex => pc \in {"record", "items"} /\ len > 0
    BY DEF DeliveredInv
  <2> HIDE DEF len
  <2> QED
    BY <1>3, <2>1, <2>2 DEF DeliveredInv
<1> QED
  BY <1>1, <1>2, <1>4

LEMMA NextDatablockStep ==
  ASSUME ParserInv, NextDatablock
  PROVE  ParserInv'
<1>1. /\ pc = "datablock" /\ UNCHANGED <<stream, beyond, bufferIndex, delivered>>
      /\ \/ pc' = "record" /\ bytesRead' = 3
         \/ pc' = "done" /\ bytesRead' = bytesRead
  BY DEF NextDatablock
<1>2. NextRecord = 3
  <2>1. delivered # <<>> => LastRecord.datablock # bufferIndex
    BY <1>1, LastDelivered DEF ParserInv, DeliveredInv, LastRecord
  <2> QED
    BY <2>1 DEF NextRecord
<1>3. DeliveredInv' /\ NextRecord' = 3
  BY <1>1, <1>2, DatablockKept
<1>4. SourceInv' /\ Tiles(delivered, Byte)'
  BY <1>1, DeliveredKept
<1>5. bufferIndex \in Nat /\ bytesRead \in Nat
  BY DEF ParserInv
<1> QED
  BY <1>1, <1>3, <1>4, <1>5 DEF ParserInv

LEMMA NoMoreDatablocksStep ==
  ASSUME ParserInv, NoMoreDatablocks
  PROVE  ParserInv'
<1>1. /\ pc = "datablock" /\ pc' = "done"
      /\ UNCHANGED <<stream, beyond, bufferIndex, bytesRead, delivered>>
  BY DEF NoMoreDatablocks
<1>2. DeliveredInv'
  BY <1>1, DatablockKept
<1>3. SourceInv' /\ Tiles(delivered, Byte)'
  BY <1>1, DeliveredKept
<1> QED
  BY <1>1, <1>2, <1>3 DEF ParserInv

LEMMA EndDatablockStep ==
  ASSUME ParserInv, EndDatablock
  PROVE  ParserInv'
<1>1. /\ pc' = "datablock" /\ bufferIndex' = bufferIndex + Length
      /\ UNCHANGED <<stream, beyond, bytesRead, delivered>>
  BY DEF EndDatablock
<1>2. bytesRead' \in Nat
  BY <1>1 DEF ParserInv
<1> QED
  BY <1>1, <1>2, DatablockLeft

LEMMA BeginRecordStep ==
  ASSUME ParserInv, BeginRecord
  PROVE  ParserInv'
<1> DEFINE size == FieldLength(Byte, Here)
           list == ReadFspec(Byte, Here)
           found == IF list = <<>> THEN NoDescription ELSE Lookup(ParserKey(Here + size), Category)
<1>1. /\ SourceInv /\ bufferIndex \in Nat /\ bytesRead \in Nat /\ bytesRead > 0
      /\ pc = "record" /\ bytesRead = NextRecord /\ bytesRead < Length
  BY DEF ParserInv, BeginRecord
<1>2. Here \in Nat /\ Here = bufferIndex + bytesRead
  BY <1>1 DEF Here
<1>3. size \in Nat /\ size > 0 /\ list \in Seq(Frns)
  BY <1>1, <1>2, ByteFacts, FieldLengthNat, ReadFrns
<1>4. /\ recordStart' = bytesRead /\ FRN_list' = list /\ key' = found /\ parsed' = <<>>
      /\ bytesRead' = (Here + size) - bufferIndex
      /\ UNCHANGED <<stream, beyond, delivered>>
      /\ \/ pc' = "datablock" /\ bufferIndex' = bufferIndex + Length
         \/ found # NoDescription /\ pc' = "items" /\ bufferIndex' = bufferIndex
  <2> DEFINE mandatory == IF found = NoDescription THEN <<>>
                          ELSE Descriptions[found].mandatoryItemFRNs
             missing == MissingAt(list, mandatory)
             unknown == <<<<"UNKNOWN_CATEGORY", "">>>>
             report == MissingReport(Descriptions[found].items, mandatory[Min(missing)])
  <2>1. /\ recordStart' = bytesRead /\ FRN_list' = list /\ key' = found /\ parsed' = <<>>
        /\ bytesRead' = (Here + size) - bufferIndex
    BY DEF BeginRecord
  <2>2. IF found = NoDescription THEN GiveUp(unknown)
        ELSE IF missing # {} THEN GiveUp(report)
        ELSE /\ pc' = "items"
             /\ UNCHANGED <<encoderVars, stream, beyond, bufferIndex, delivered, failures>>
    BY DEF BeginRecord
  <2> HIDE DEF size, list, found, mandatory, missing, unknown, report
  <2>3. \A reported : GiveUp(reported) =>
          /\ pc' = "datablock" /\ bufferIndex' = bufferIndex + Length
          /\ UNCHANGED <<stream, beyond, delivered>>
    BY DEF GiveUp
  <2> QED
    BY <2>1, <2>2, <2>3
<1>5. found # NoDescription => found \in DOMAIN Descriptions
  BY LookedUp
<1> HIDE DEF list, found
<1>6. bytesRead' = bytesRead + size /\ bytesRead' \in Nat /\ bytesRead' > 0
  <2> HIDE DEF size
  <2> QED
    BY <1>1, <1>2, <1>3, <1>4
<1>7. CASE pc' = "datablock" /\ bufferIndex' = bufferIndex + Length
  BY <1>4, <1>6, <1>7, DatablockLeft
<1>8. CASE found # NoDescription /\ pc' = "items" /\ bufferIndex' = bufferIndex
  <2>1. DeliveredInv' /\ NextRecord' = NextRecord /\ Length' = Length
    BY <1>1, <1>4, <1>8, DatablockKept
  <2>2. SourceInv' /\ Tiles(delivered, Byte)' /\ Byte' = Byte
    BY <1>4, DeliveredKept, SourceKept
  <2>3. RecordInv'
    <3>1. /\ recordStart' \in Nat /\ recordStart' = NextRecord' /\ recordStart' < Length'
          /\ key' \in DOMAIN Descriptions /\ FRN_list' \in Seq(Frns)
      BY <1>1, <1>3, <1>4, <1>5, <1>8, <2>1
    <3>2. ItemSeq(parsed') /\ Content(parsed') = <<>> /\ Len(Content(parsed')) = 0
      <4>1. ItemSeq(<<>>)
        <5> DEFINE none == {}
        <5>1. <<>> \in Seq(none) /\ \A i \in none : i[2] \in Seq(Nat)
          OBVIOUS
        <5> HIDE DEF none
        <5> QED
          BY <5>1 DEF ItemSeq
      <4> QED
        BY <1>4, <4>1, ContentEmpty
    <3>3. bufferIndex' + recordStart' = Here
      BY <1>2, <1>4, <1>8
    <3>4. bytesRead' = recordStart' + FieldLength(Byte', bufferIndex' + recordStart')
                         + Len(Content(parsed'))
      <4> HIDE DEF size
      <4>1. bytesRead' = recordStart' + size + 0
        BY <1>1, <1>3, <1>4, <1>6
      <4>2. FieldLength(Byte', bufferIndex' + recordStart') = size
        BY <2>2, <3>3 DEF size
      <4> QED
        BY <3>2, <4>1, <4>2
    <3>5. ASSUME bufferIndex' = 0
          PROVE  BytesIn(Byte', recordStart', RecordSize')
                   = BytesIn(Byte', recordStart', FieldLength(Byte', recordStart')) \o Content(parsed')
      <4>1. Here = bytesRead /\ recordStart' = bytesRead
        BY <1>1, <1>2, <1>4, <1>8, <3>5
      <4>2. RecordSize' = size
        <5> HIDE DEF size
        <5> QED
          BY <1>1, <1>3, <1>4, <1>6 DEF RecordSize
      <4> DEFINE raw == BytesIn(Byte, bytesRead, size)
      <4>3. raw \in Seq(Nat)
        BY <1>1, <1>3, BytesFacts DEF BytesIn, Bytes
      <4>4. BytesIn(Byte', recordStart', RecordSize') = raw
        BY <2>2, <4>1, <4>2
      <4>5. BytesIn(Byte', recordStart', FieldLength(Byte', recordStart')) = raw
        BY <2>2, <4>1
      <4> HIDE DEF raw
      <4> QED
        BY <3>2, <4>3, <4>4, <4>5, ConcatEmptySeq
    <3> QED
      BY <3>1, <3>2, <3>4, <3>5 DEF RecordInv
  <2> QED
    BY <1>1, <1>6, <1>8, <2>1, <2>2, <2>3 DEF ParserInv
<1> QED
  BY <1>4, <1>7, <1>8

(* The items of a record.                                                  *)
LEMMA ConcatNat ==
  ASSUME NEW s \in Seq(Nat), NEW t \in Seq(Nat), NEW u \in Seq(Nat)
  PROVE  (s \o t) \o u = s \o (t \o u)
  BY ConcatAssociative, SMTT(60)

LEMMA ItemParsed ==
  ASSUME ParserInv, pc = "items", pc' = "items", NEW name, NEW n \in Nat,
         parsed' = Append(parsed, <<name, Bytes(Here, n)>>), bytesRead' = bytesRead + n,
         UNCHANGED <<stream, beyond, bufferIndex, recordStart, FRN_list, key, delivered>>
  PROVE  ParserInv'
<1> DEFINE bytes == Bytes(Here, n)
           size == FieldLength(Byte, bufferIndex + recordStart)
<1>1. SourceInv /\ bufferIndex \in Nat /\ bytesRead \in Nat /\ bytesRead > 0 /\ RecordInv
  BY DEF ParserInv
<1>2. /\ recordStart \in Nat /\ recordStart = NextRecord /\ recordStart < Length
      /\ key \in DOMAIN Descriptions /\ FRN_list \in Seq(Frns) /\ ItemSeq(parsed)
      /\ bytesRead = recordStart + size + Len(Content(parsed))
      /\ bufferIndex = 0 =>
           BytesIn(Byte, recordStart, RecordSize)
             = BytesIn(Byte, recordStart, FieldLength(Byte, recordStart)) \o Content(parsed)
  BY <1>1 DEF RecordInv
<1>3. Here \in Nat /\ Here = bufferIndex + bytesRead
  BY <1>1 DEF Here
<1>4. bytes \in Seq(Nat) /\ Len(bytes) = n
  BY <1>1, <1>3, BytesFacts
<1>5. size \in Nat
  <2>1. bufferIndex + recordStart \in Nat
    BY <1>1, <1>2
  <2> QED
    BY <1>1, <2>1, ByteFacts, FieldLengthNat
<1>6. parsed' = Append(parsed, <<name, bytes>>)
  OBVIOUS
<1>7. /\ DeliveredInv' /\ NextRecord' = NextRecord /\ Length' = Length
      /\ SourceInv' /\ Tiles(delivered, Byte)' /\ Byte' = Byte
  BY DatablockKept, DeliveredKept, SourceKept
<1> DEFINE before == Content(parsed)
           after == Content(parsed')
<1>8. ItemSeq(parsed') /\ before \in Seq(Nat) /\ after = before \o bytes
  <2>1. ItemSeq(parsed) /\ bytes \in Seq(Nat)
    BY <1>2, <1>4
  <2> HIDE DEF bytes
  <2>2. /\ ItemSeq(Append(parsed, <<name, bytes>>))
        /\ Content(parsed) \in Seq(Nat)
        /\ Content(Append(parsed, <<name, bytes>>)) = Content(parsed) \o bytes
    BY ONLY <2>1, ContentAppend
  <2> QED
    BY ONLY <1>6, <2>2
<1>9. Len(before) \in Nat /\ Len(after) = Len(before) + n
  <2> HIDE DEF bytes, before, after
  <2> QED
    BY <1>4, <1>8, ConcatProperties, LenProperties
<1>10. bytesRead' = recordStart + size + Len(after) /\ bytesRead' \in Nat /\ bytesRead' > 0
  <2> DEFINE x == Len(before)
             y == Len(after)
  <2> HIDE DEF size
  <2>1. bytesRead = recordStart + size + x /\ x \in Nat /\ y = x + n
    BY <1>2, <1>9
  <2> HIDE DEF x, y
  <2>2. bytesRead' = recordStart + size + y /\ bytesRead' \in Nat /\ bytesRead' > 0
    BY <1>1, <1>2, <1>5, <2>1
  <2> QED
    BY <2>2 DEF y
<1>11. FieldLength(Byte', bufferIndex' + recordStart') = size
  BY <1>7
<1>12. ASSUME bufferIndex' = 0
       PROVE  BytesIn(Byte', recordStart', RecordSize')
                = BytesIn(Byte', recordStart', FieldLength(Byte', recordStart')) \o Content(parsed')
  <2> DEFINE head == BytesIn(Byte, recordStart, FieldLength(Byte, recordStart))
             read == RecordSize
  <2>1. bufferIndex = 0 /\ Here = bytesRead
    BY <1>1, <1>3, <1>12
  <2>2. read \in Nat /\ RecordSize' = read + n /\ recordStart + read = Here
    <3> HIDE DEF size, before
    <3>1. bytesRead = recordStart + size + Len(before)
      BY <1>2 DEF before
    <3>2. RecordSize = bytesRead - recordStart /\ RecordSize' = (bytesRead + n) - recordStart
      BY DEF RecordSize
    <3> HIDE DEF read
    <3> QED
      BY <1>1, <1>2, <1>5, <1>9, <2>1, <3>1, <3>2 DEF read
  <2>3. BytesIn(Byte, recordStart, read + n) = BytesIn(Byte, recordStart, read) \o bytes
    <3>1. Bytes(recordStart, read + n) = Bytes(recordStart, read) \o Bytes(recordStart + read, n)
      <4>1. SourceInv /\ recordStart \in Nat /\ read \in Nat /\ n \in Nat
        BY <1>1, <1>2, <2>2
      <4> HIDE DEF read
      <4> QED
        BY <4>1, BytesNext
    <3> QED
      BY <2>2, <3>1 DEF BytesIn, Bytes
  <2>4. BytesIn(Byte, recordStart, read) = head \o before
    BY <1>2, <2>1
  <2>5. head \in Seq(Nat)
    <3> DEFINE k == FieldLength(Byte, recordStart)
    <3>1. k \in Nat
      BY <1>1, <1>2, ByteFacts, FieldLengthNat
    <3> HIDE DEF k
    <3>2. Bytes(recordStart, k) \in Seq(Nat)
      BY <1>1, <1>2, <3>1, BytesFacts
    <3> QED
      BY <3>2 DEF BytesIn, Bytes, k
  <2> HIDE DEF head, before, after, bytes
  <2>6. (head \o before) \o bytes = head \o (before \o bytes)
    <3>1. before \in Seq(Nat) /\ bytes \in Seq(Nat)
      BY <1>4, <1>8
    <3> QED
      BY <2>5, <3>1, ConcatNat
  <2>7. BytesIn(Byte', recordStart', RecordSize') = head \o after
    BY <1>7, <1>8, <2>2, <2>3, <2>4, <2>6
  <2> QED
    BY <1>7, <2>7 DEF head, after
<1>13. RecordInv'
  <2>1. recordStart' \in Nat /\ recordStart' = NextRecord' /\ recordStart' < Length'
    BY <1>2, <1>7
  <2>2. key' \in DOMAIN Descriptions /\ FRN_list' \in Seq(Frns)
    BY <1>2
  <2>3. bytesRead' = recordStart' + FieldLength(Byte', bufferIndex' + recordStart')
                       + Len(Content(parsed'))
    <3> HIDE DEF size
    <3> QED
      BY <1>10, <1>11
  <2> QED
    BY <1>8, <1>12, <2>1, <2>2, <2>3 DEF RecordInv
<1> QED
  BY <1>1, <1>7, <1>10, <1>13 DEF ParserInv

LEMMA ParseItemStep ==
  ASSUME ParserInv, ParseItem
  PROVE  ParserInv'
<1> DEFINE frn == FRN_list[Len(parsed) + 1]
           items == Descriptions[key].items
           n == ItemLength(items[frn], Here)
<1>1. pc = "items" /\ Len(parsed) < Len(FRN_list) /\ RecordInv
  BY DEF ParserInv, ParseItem
<1>2. /\ bufferIndex \in Nat /\ bytesRead \in Nat /\ bytesRead > 0 /\ SourceInv
  BY <1>1 DEF ParserInv
<1>3. ASSUME NEW reported, GiveUp(reported), UNCHANGED <<recordVars, bytesRead>>
      PROVE  ParserInv'
  <2>1. /\ pc' = "datablock" /\ bufferIndex' = bufferIndex + Length /\ bytesRead' = bytesRead
        /\ UNCHANGED <<stream, beyond, delivered>>
    BY <1>3 DEF GiveUp
  <2> QED
    BY <1>2, <2>1, DatablockLeft
<1>4. CASE frn > Len(items)
  <2>1. GiveUp(<<<<"UNKNOWN_FRN", "">>>>) /\ UNCHANGED <<recordVars, bytesRead>>
    BY <1>4 DEF ParseItem
  <2> QED
    BY <1>3, <2>1
<1>5. CASE ~ (frn > Len(items)) /\ n < 0
  <2>1. GiveUp(<<<<"PARSING_ERROR", items[frn].name>>>>) /\ UNCHANGED <<recordVars, bytesRead>>
    BY <1>5 DEF ParseItem
  <2> QED
    BY <1>3, <2>1
<1>6. CASE ~ (frn > Len(items)) /\ ~ (n < 0)
  <2>1. /\ parsed' = Append(parsed, <<items[frn].name, Bytes(Here, n)>>)
        /\ bytesRead' = bytesRead + n
        /\ UNCHANGED <<pc, stream, beyond, bufferIndex, recordStart, FRN_list, key, delivered>>
    BY <1>6 DEF ParseItem
  <2>2. n \in Int
    <3>1. frn \in Nat \ {0}
      <4>1. FRN_list \in Seq(Frns) /\ Len(parsed) \in Nat
        BY <1>1, LenProperties DEF RecordInv, ItemSeq
      <4>2. Len(parsed) + 1 \in 1 .. Len(FRN_list)
        BY <1>1, <4>1, LenProperties
      <4> QED
        BY <4>1, <4>2, ElementOfSeq DEF Frns
    <3>2. key \in DOMAIN Descriptions
      BY <1>1 DEF RecordInv
    <3>3. items \in Seq(ToSet(items))
      BY <3>2, DescriptionsAssumption
    <3> HIDE DEF frn
    <3>4. frn \in DOMAIN items
      <4> HIDE DEF items
      <4> QED
        BY <1>6, <3>1, <3>3, LenProperties
    <3>5. items[frn] \in ToSet(items)
      BY <3>4 DEF ToSet
    <3>6. DescribedItem(items[frn])
      BY <3>2, <3>5, ItemsAssumption DEF DescribedItem
    <3>7. Here \in Nat /\ Here > 0
      BY <1>2 DEF Here
    <3> HIDE DEF items
    <3> QED
      BY <1>2, <3>6, <3>7, ItemLengthNat
  <2>3. n \in Nat
    <3> HIDE DEF n
    <3> QED
      BY <1>6, <2>2
  <2> HIDE DEF n, frn, items
  <2>4. pc = "items" /\ pc' = "items"
    BY <1>1, <2>1
  <2> QED
    BY <2>1, <2>3, <2>4, ItemParsed
<1> QED
  BY <1>4, <1>5, <1>6

LEMMA EndRecordStep ==
  ASSUME ParserInv, EndRecord
  PROVE  ParserInv'
<1> DEFINE raw == Bytes(recordStart, RecordSize)
           r == [category |-> Category, key |-> key, items |-> parsed, datablock |-> bufferIndex,
                 from |-> recordStart, raw |-> raw]
           size == FieldLength(Byte, bufferIndex + recordStart)
           m == Len(delivered)
<1>1. /\ SourceInv /\ bufferIndex \in Nat /\ bytesRead \in Nat /\ bytesRead > 0
      /\ pc = "items" /\ RecordInv /\ DeliveredInv /\ Tiles(delivered, Byte)
  BY DEF ParserInv, EndRecord
<1>2. /\ pc' = "record" /\ delivered' = Append(delivered, r)
      /\ UNCHANGED <<stream, beyond, bufferIndex, bytesRead>>
  BY DEF EndRecord
<1>3. /\ recordStart \in Nat /\ recordStart = NextRecord /\ recordStart < Length
      /\ ItemSeq(parsed) /\ bytesRead = recordStart + size + Len(Content(parsed))
      /\ bufferIndex = 0 =>
           BytesIn(Byte, recordStart, RecordSize)
             = BytesIn(Byte, recordStart, FieldLength(Byte, recordStart)) \o Content(parsed)
  BY <1>1 DEF RecordInv
<1>4. RecordSize \in Nat /\ RecordSize = size + Len(Content(parsed))
      /\ bytesRead = recordStart + RecordSize
  <2>1. size \in Nat
    <3>1. bufferIndex + recordStart \in Nat
      BY <1>1, <1>3
    <3> QED
      BY <1>1, <3>1, ByteFacts, FieldLengthNat
  <2>2. Len(Content(parsed)) \in Nat
    <3>1. <<>> \in Seq(Nat)
      OBVIOUS
    <3>2. Content(parsed) \in Seq(Nat)
      BY <1>3, <3>1, ContentAppend
    <3> QED
      BY <3>2, LenProperties
  <2> HIDE DEF size
  <2> QED
    BY <1>1, <1>3, <2>1, <2>2 DEF RecordSize
<1>5. Len(raw) = RecordSize
  BY <1>1, <1>3, <1>4, BytesFacts
<1>6. /\ r.items = parsed /\ r.datablock = bufferIndex /\ r.from = recordStart /\ r.raw = raw
  OBVIOUS
<1>7. Tiled(r, Byte)
  <2>1. bufferIndex = 0 => bufferIndex + recordStart = recordStart
    BY <1>3
  <2>2. raw = BytesIn(Byte, recordStart, RecordSize)
    BY DEF Bytes, BytesIn
  <2> HIDE DEF r, raw
  <2> QED
    BY <1>3, <1>4, <1>5, <1>6, <2>1, <2>2 DEF Tiled
<1> HIDE DEF r, raw
<1>8. PICK S : delivered \in Seq(S)
  BY <1>1 DEF DeliveredInv
<1>9. /\ delivered' \in Seq(S \cup {r}) /\ Len(delivered') = m + 1 /\ m \in Nat
      /\ delivered'[m + 1] = r /\ \A n \in 1 .. m : delivered'[n] = delivered[n]
      /\ DOMAIN delivered = 1 .. m /\ DOMAIN delivered' = 1 .. m + 1
      /\ delivered # <<>> <=> m # 0
  <2>1. /\ delivered \in Seq(S \cup {r}) /\ m \in Nat /\ DOMAIN delivered = 1 .. m
        /\ delivered # <<>> <=> m # 0
    BY <1>8, SeqMonotonic, LenProperties, EmptySeq
  <2>2. /\ delivered' \in Seq(S \cup {r}) /\ Len(delivered') = m + 1
        /\ delivered'[m + 1] = r /\ \A n \in 1 .. m : delivered'[n] = delivered[n]
    BY <1>2, <2>1, AppendProperties
  <2>3. DOMAIN delivered' = 1 .. m + 1
    BY <2>2, LenProperties
  <2> QED
    BY <2>1, <2>2, <2>3
<1>10. Byte' = Byte /\ SourceInv'
  BY <1>1, <1>2, SourceKept
<1>11. Tiles(delivered', Byte)
  <2> SUFFICES ASSUME NEW n \in 1 .. m + 1
               PROVE  Follows(delivered', n) /\ Tiled(delivered'[n], Byte)
    BY <1>9 DEF Tiles
  <2>1. CASE n \in 1 .. m
    <3>1. Follows(delivered, n) /\ Tiled(delivered[n], Byte)
      BY <1>1, <1>9, <2>1 DEF Tiles
    <3>2. n # 1 => n - 1 \in 1 .. m
      BY <1>9, <2>1
    <3>3. Follows(delivered', n)
      BY <1>9, <2>1, <3>1, <3>2 DEF Follows
    <3> QED
      BY <1>9, <2>1, <3>1, <3>3
  <2>2. CASE n = m + 1
    <3>1. delivered'[n] = r
      BY <1>9, <2>2
    <3>2. n # 1 <=> delivered # <<>>
      BY <1>9, <2>2
    <3>3. n # 1 => n - 1 \in 1 .. m /\ delivered'[n - 1] = LastRecord
      <4>1. n # 1 => n - 1 \in 1 .. m /\ n - 1 = m
        BY <1>9, <2>2
      <4> QED
        BY <1>9, <4>1 DEF LastRecord
    <3>4. Follows(delivered', n)
      BY <1>3, <1>6, <3>1, <3>2, <3>3 DEF Follows, NextRecord
    <3> QED
      BY <1>7, <3>1, <3>4
  <2> QED
    BY <1>9, <2>1, <2>2
<1>12. NextRecord' = bytesRead
  <2>1. delivered' # <<>> /\ LastRecord' = r
    <3>1. Len(<<>>) = 0
      OBVIOUS
    <3> QED
      BY <1>9, <3>1 DEF LastRecord
  <2> QED
    BY <1>2, <1>4, <1>5, <1>6, <2>1 DEF NextRecord
<1>13. DeliveredInv'
  <2>1. \E T : delivered' \in Seq(T)
    BY <1>9
  <2>2. Length' = Length /\ Length > 0
    <3>1. Length' = Length
      BY <1>2, <1>10 DEF Length
    <3> QED
      BY <1>3, <3>1, HeaderNat
  <2>3. ASSUME NEW n \in 1 .. m + 1
        PROVE  /\ delivered'[n].datablock \in Nat /\ delivered'[n].datablock <= bufferIndex
    <3>1. CASE n \in 1 .. m
      BY <1>1, <1>9, <3>1 DEF DeliveredInv
    <3>2. CASE n = m + 1
      BY <1>1, <1>6, <1>9, <3>2
    <3> QED
      BY <1>9, <3>1, <3>2
  <2> QED
    BY <1>2, <1>9, <2>1, <2>2, <2>3 DEF DeliveredInv
<1>14. Tiles(delivered, Byte)'
  BY <1>10, <1>11
<1> QED
  BY <1>1, <1>2, <1>10, <1>12, <1>13, <1>14 DEF ParserInv

-----------------------------------------------------------------------------
LEMMA ParserStepKept ==
  ASSUME ParserInv, OutputInv, ParserNext
  PROVE  ParserInv'
<1>1. CASE ParseEncoded
  <2> DEFINE bytes == IF astOutput THEN FlattenSeq(file) ELSE output
  <2>1. file \in Seq(Seq(Nat)) /\ output \in Seq(Nat)
    BY DEF OutputInv, CollectedInv
  <2>2. bytes \in Seq(Nat)
    BY <2>1, FlattenIn
  <2>3. Start(bytes)
    BY <1>1 DEF ParseEncoded
  <2> QED
    BY <2>2, <2>3, StartParser
<1>2. CASE ParseReceived
  <2>1. PICK s \in Streams : Start(s)
    BY <1>2 DEF ParseReceived
  <2>2. s \in Seq(Nat)
    BY ParsingAssumption, NatSeq
  <2> QED
    BY <2>1, <2>2, StartParser
<1> QED
  BY <1>1, <1>2, NextDatablockStep, NoMoreDatablocksStep, BeginRecordStep, ParseItemStep,
     EndRecordStep, EndDatablockStep DEF ParserNext

LEMMA ParserKept ==
  ASSUME ParserInv, UNCHANGED parserVars
  PROVE  ParserInv'
<1>1. UNCHANGED <<pc, stream, beyond, bufferIndex, bytesRead, recordStart, FRN_list, key, parsed, delivered>>
  BY DEF parserVars, recordVars
<1>2. SourceInv' /\ Tiles(delivered, Byte)' /\ Byte' = Byte
  BY <1>1, DeliveredKept, SourceKept
<1>3. Length' = Length /\ NextRecord' = NextRecord /\ RecordSize' = RecordSize
  BY <1>1, <1>2 DEF Length, NextRecord, LastRecord, RecordSize
<1>4. DeliveredInv'
  <2>1. DeliveredInv
    BY DEF ParserInv
  <2> QED
    BY <1>1, <1>3, <2>1 DEF DeliveredInv
<1>5. RecordInv => RecordInv'
  BY <1>1, <1>2, <1>3 DEF RecordInv
<1> QED
  BY <1>1, <1>2, <1>3, <1>4, <1>5 DEF ParserInv

LEMMA ParserInvariant == Spec => []ParserInv
<1>1. ASSUME ParserInv, OutputInv, [Next]_vars
      PROVE  ParserInv'
  <2>1. CASE ParserStep
    BY <1>1, <2>1, ParserStepKept DEF ParserStep
  <2>2. CASE EncoderStep \/ UNCHANGED vars
    <3>1. UNCHANGED parserVars
      BY <2>2 DEF EncoderStep, vars
    <3> QED
      BY <1>1, <3>1, ParserKept
  <2> QED
    BY <1>1, <2>1, <2>2 DEF Next
<1> QED
  BY <1>1, ParserInitially, OutputInvariant, PTL DEF Spec

(* Whatever the bytes are, the encoder's or a stream received from others, *)
(* the parser leaves no byte of a datablock between two records it hands   *)
(* to the decoders and gives none to two of them: the first begins behind  *)
(* LEN, each other where the one before it ends, and a record is as long   *)
(* as its field specification and the items parsed from it                 *)
(* (parseAllRecords).                                                      *)
THEOREM RecordsLieEndToEnd == Spec => []RecordsTile
<1>1. ParserInv => RecordsTile
  BY TilesOfRecords DEF ParserInv
<1> QED
  BY <1>1, ParserInvariant, PTL

-----------------------------------------------------------------------------
(* The bits of a byte, and what shifting does to them.                     *)
Bit(byte, j) == (byte \div 2 ^ j) % 2 = 1

Shifted(byte, bit) == (2 * byte + bit) % 256

LEMMA BitShiftedIn ==
  ASSUME NEW v \in 0 .. 255, NEW bit \in {0, 1}
  PROVE  /\ Shifted(v, bit) \in 0 .. 255
         /\ \A j \in 0 .. 6 : Bit(Shifted(v, bit), j + 1) <=> Bit(v, j)
         /\ Bit(Shifted(v, bit), 0) <=> bit = 1
         /\ Shifted(v, bit) % 2 = bit
<1> DEFINE w == Shifted(v, bit)
<1>1. w = (2 * v + bit) % 256
  BY DEF Shifted
<1> HIDE DEF w
<1>2. w \in 0 .. 255 /\ w % 2 = bit
  BY <1>1
<1>3. (w \div 2) % 2 = (v \div 1) % 2 /\ (w \div 4) % 2 = (v \div 2) % 2
  BY <1>1
<1>4. (w \div 8) % 2 = (v \div 4) % 2 /\ (w \div 16) % 2 = (v \div 8) % 2
  BY <1>1
<1>5. /\ (w \div 32) % 2 = (v \div 16) % 2 /\ (w \div 64) % 2 = (v \div 32) % 2
      /\ (w \div 128) % 2 = (v \div 64) % 2
  BY <1>1
<1>6. /\ 2 ^ 0 = 1 /\ 2 ^ 1 = 2 /\ 2 ^ 2 = 4 /\ 2 ^ 3 = 8 /\ 2 ^ 4 = 16 /\ 2 ^ 5 = 32
      /\ 2 ^ 6 = 64 /\ 2 ^ 7 = 128
  OBVIOUS
<1>7. \A j \in 0 .. 6 : Bit(w, j + 1) <=> Bit(v, j)
  <2>1. Bit(w, 0 + 1) <=> Bit(v, 0)
    BY <1>3, <1>6 DEF Bit
  <2>2. Bit(w, 1 + 1) <=> Bit(v, 1)
    BY <1>3, <1>6 DEF Bit
  <2>3. Bit(w, 2 + 1) <=> Bit(v, 2)
    BY <1>4, <1>6 DEF Bit
  <2>4. Bit(w, 3 + 1) <=> Bit(v, 3)
    BY <1>4, <1>6 DEF Bit
  <2>5. Bit(w, 4 + 1) <=> Bit(v, 4)
    BY <1>5, <1>6 DEF Bit
  <2>6. Bit(w, 5 + 1) <=> Bit(v, 5)
    BY <1>5, <1>6 DEF Bit
  <2>7. Bit(w, 6 + 1) <=> Bit(v, 6)
    BY <1>5, <1>6 DEF Bit
  <2>8. \A j \in 0 .. 6 : j \in {0, 1, 2, 3, 4, 5, 6}
    OBVIOUS
  <2> QED
    BY <2>1, <2>2, <2>3, <2>4, <2>5, <2>6, <2>7, <2>8
<1>8. Bit(w, 0) <=> bit = 1
  <2>1. w \div 1 = w
    BY <1>2
  <2> QED
    BY <1>2, <1>6, <2>1 DEF Bit
<1> QED
  BY <1>2, <1>7, <1>8 DEF w

(* A byte shifted by m places, one after the other.                        *)
Times(v, p) == (v * p) % 256

Doubled(v, p, m) ==
  /\ Times(v, p) \in 0 .. 255
  /\ \A j \in 0 .. 7 : Bit(Times(v, p), j) <=> j >= m /\ Bit(v, j - m)

LEMMA DoubledOnce ==
  ASSUME NEW v \in 0 .. 255, NEW m \in 0 .. 7, NEW p, Doubled(v, p, m),
         NEW n, n = m + 1, NEW q, Times(v, q) = Shifted(Times(v, p), 0)
  PROVE  Doubled(v, q, n)
<1> DEFINE u == Times(v, p)
           w == Times(v, q)
<1>1. u \in 0 .. 255 /\ (\A j \in 0 .. 7 : Bit(u, j) <=> j >= m /\ Bit(v, j - m))
  BY DEF Doubled
<1>2. w = Shifted(u, 0)
  OBVIOUS
<1> HIDE DEF u, w
<1>3. /\ w \in 0 .. 255
      /\ \A j \in 0 .. 6 : Bit(w, j + 1) <=> Bit(u, j)
      /\ ~ Bit(w, 0)
  <2>1. 0 \in {0, 1} /\ 0 # 1
    OBVIOUS
  <2> QED
    BY <1>1, <1>2, <2>1, BitShiftedIn
<1>4. ASSUME NEW j \in 0 .. 7
      PROVE  Bit(w, j) <=> j >= m + 1 /\ Bit(v, j - (m + 1))
  <2>1. CASE j = 0
    BY <1>3, <2>1
  <2>2. CASE j > 0
    <3>1. j - 1 \in 0 .. 6 /\ (j - 1) + 1 = j /\ j - 1 \in 0 .. 7 /\ (j - 1) - m = j - (m + 1)
          /\ (j - 1 >= m <=> j >= m + 1)
      BY <2>2
    <3>2. Bit(w, j) <=> Bit(u, j - 1)
      BY <1>3, <3>1
    <3>3. Bit(u, j - 1) <=> j - 1 >= m /\ Bit(v, (j - 1) - m)
      BY <1>1, <3>1
    <3> QED
      BY <3>1, <3>2, <3>3
  <2> QED
    BY <2>1, <2>2
<1> QED
  BY <1>3, <1>4 DEF Doubled, w

LEMMA DoubledBits ==
  ASSUME NEW v \in 0 .. 255, NEW m \in 1 .. 8
  PROVE  Doubled(v, 2 ^ m, m)
<1>1. /\ 2 ^ 1 = 2 /\ 2 ^ 2 = 4 /\ 2 ^ 3 = 8 /\ 2 ^ 4 = 16 /\ 2 ^ 5 = 32 /\ 2 ^ 6 = 64
      /\ 2 ^ 7 = 128 /\ 2 ^ 8 = 256
  OBVIOUS
<1>2. Doubled(v, 1, 0)
  <2>1. v * 1 = v /\ v % 256 = v /\ \A j \in 0 .. 7 : j - 0 = j /\ j >= 0
    OBVIOUS
  <2> QED
    BY <2>1 DEF Doubled, Times
<1>3. Doubled(v, 2, 1)
  <2>1. Times(v, 2) = Shifted(Times(v, 1), 0) /\ 1 = 0 + 1 /\ 0 \in 0 .. 7
    BY DEF Shifted, Times
  <2> QED
    BY <1>2, <2>1, DoubledOnce
<1>4. Doubled(v, 4, 2)
  <2>1. Times(v, 4) = Shifted(Times(v, 2), 0) /\ 2 = 1 + 1 /\ 1 \in 0 .. 7
    BY DEF Shifted, Times
  <2> QED
    BY <1>3, <2>1, DoubledOnce
<1>5. Doubled(v, 8, 3)
  <2>1. Times(v, 8) = Shifted(Times(v, 4), 0) /\ 3 = 2 + 1 /\ 2 \in 0 .. 7
    BY DEF Shifted, Times
  <2> QED
    BY <1>4, <2>1, DoubledOnce
<1>6. Doubled(v, 16, 4)
  <2>1. Times(v, 16) = Shifted(Times(v, 8), 0) /\ 4 = 3 + 1 /\ 3 \in 0 .. 7
    BY DEF Shifted, Times
  <2> QED
    BY <1>5, <2>1, DoubledOnce
<1>7. Doubled(v, 32, 5)
  <2>1. Times(v, 32) = Shifted(Times(v, 16), 0) /\ 5 = 4 + 1 /\ 4 \in 0 .. 7
    BY DEF Shifted, Times
  <2> QED
    BY <1>6, <2>1, DoubledOnce
<1>8. Doubled(v, 64, 6)
  <2>1. Times(v, 64) = Shifted(Times(v, 32), 0) /\ 6 = 5 + 1 /\ 5 \in 0 .. 7
    BY DEF Shifted, Times
  <2> QED
    BY <1>7, <2>1, DoubledOnce
<1>9. Doubled(v, 128, 7)
  <2>1. Times(v, 128) = Shifted(Times(v, 64), 0) /\ 7 = 6 + 1 /\ 6 \in 0 .. 7
    BY DEF Shifted, Times
  <2> QED
    BY <1>8, <2>1, DoubledOnce
<1>10. Doubled(v, 256, 8)
  <2>1. Times(v, 256) = Shifted(Times(v, 128), 0) /\ 8 = 7 + 1 /\ 7 \in 0 .. 7
    BY DEF Shifted, Times
  <2> QED
    BY <1>9, <2>1, DoubledOnce
<1>11. \/ m = 1 \/ m = 2 \/ m = 3 \/ m = 4 \/ m = 5 \/ m = 6 \/ m = 7 \/ m = 8
  OBVIOUS
<1>12. CASE m = 1
  BY <1>1, <1>3, <1>12
<1>13. CASE m = 2
  BY <1>1, <1>4, <1>13
<1>14. CASE m = 3
  BY <1>1, <1>5, <1>14
<1>15. CASE m = 4
  BY <1>1, <1>6, <1>15
<1>16. CASE m = 5
  BY <1>1, <1>7, <1>16
<1>17. CASE m = 6
  BY <1>1, <1>8, <1>17
<1>18. CASE m = 7
  BY <1>1, <1>9, <1>18
<1>19. CASE m = 8
  BY <1>1, <1>10, <1>19
<1> QED
  BY <1>11, <1>12, <1>13, <1>14, <1>15, <1>16, <1>17, <1>18, <1>19

(* A field under construction announces the items in P: the bytes that are *)
(* complete have their FX bit, the one being built has the bits of the     *)
(* items visited on its right.                                             *)
Announces(byte, b, P) == \A k \in 1 .. 7 : Bit(byte, 8 - k) <=> 7 * (b - 1) + k \in P

Holds(f, P) ==
  /\ \A b \in 1 .. f.FSPEC_index : f.FSPEC[b] % 2 = 1 /\ Announces(f.FSPEC[b], b, P)
  /\ \A k \in 1 .. f.bits % 7 :
       Bit(f.FSPEC[f.FSPEC_index + 1], (f.bits % 7) - k) <=> 7 * f.FSPEC_index + k \in P
  /\ P \subseteq 1 .. f.bits
  /\ IF P = {} THEN f.lastFRNset = 0 ELSE f.lastFRNset \in P
  /\ \A p \in P : p <= f.lastFRNset

LEMMA NewFieldHolds ==
  ASSUME NEW N, NEW garbage
  PROVE  Holds(NewField(N, garbage), {})
<1> DEFINE f == NewField(N, garbage)
<1>1. f.FSPEC_index = 0 /\ f.bits = 0 /\ f.lastFRNset = 0
  BY DEF NewField
<1>2. 1 .. 0 = {} /\ 0 % 7 = 0
  OBVIOUS
<1> HIDE DEF f
<1> QED
  BY <1>1, <1>2 DEF Holds, f

LEMMA ShiftInByte ==
  ASSUME NEW f \in FieldRecord, NEW bit \in {0, 1}, f.FSPEC_index < Len(f.FSPEC)
  PROVE  /\ f.FSPEC[f.FSPEC_index + 1] \in 0 .. 255
         /\ ShiftIn(f, bit).FSPEC[f.FSPEC_index + 1] = Shifted(f.FSPEC[f.FSPEC_index + 1], bit)
         /\ \A b \in 1 .. f.FSPEC_index : ShiftIn(f, bit).FSPEC[b] = f.FSPEC[b]
<1> DEFINE i == f.FSPEC_index + 1
           value == Shifted(f.FSPEC[i], bit)
<1>1. /\ f.FSPEC \in Seq(0 .. 255) /\ i \in 1 .. Len(f.FSPEC) /\ DOMAIN f.FSPEC = 1 .. Len(f.FSPEC)
      /\ f.FSPEC_index \in Nat /\ Len(f.FSPEC) \in Nat
  BY DEF FieldRecord
<1>2. f.FSPEC[i] \in 0 .. 255
  <2> HIDE DEF i
  <2> QED
    BY <1>1, ElementOfSeq
<1>3. ShiftIn(f, bit).FSPEC = [f.FSPEC EXCEPT ![i] = value]
  BY DEF ShiftIn, FieldRecord, Shifted
<1>4. \A b \in 1 .. f.FSPEC_index : b \in DOMAIN f.FSPEC /\ b # i
  BY <1>1
<1> HIDE DEF value
<1>5. /\ ShiftIn(f, bit).FSPEC[i] = value
      /\ \A b \in 1 .. f.FSPEC_index : ShiftIn(f, bit).FSPEC[b] = f.FSPEC[b]
  <2> HIDE DEF i
  <2> QED
    BY <1>1, <1>3, <1>4
<1> QED
  BY <1>2, <1>5 DEF value

(* The byte being built, with one item more.                               *)
LEMMA ItemShiftedIn ==
  ASSUME NEW v \in 0 .. 255, NEW r \in 0 .. 6, NEW bit \in {0, 1}, NEW p,
         \A k \in 1 .. r : Bit(v, r - k) <=> k \in p
  PROVE  \A k \in 1 .. r + 1 : Bit(Shifted(v, bit), (r + 1) - k) <=> IF k = r + 1 THEN bit = 1 ELSE k \in p
<1> DEFINE w == Shifted(v, bit)
<1>1. /\ \A j \in 0 .. 6 : Bit(w, j + 1) <=> Bit(v, j)
      /\ Bit(w, 0) <=> bit = 1
  BY BitShiftedIn
<1> HIDE DEF w
<1>2. ASSUME NEW k \in 1 .. r + 1
      PROVE  Bit(w, (r + 1) - k) <=> IF k = r + 1 THEN bit = 1 ELSE k \in p
  <2>1. CASE k = r + 1
    <3>1. (r + 1) - k = 0
      BY <2>1
    <3> QED
      BY <1>1, <2>1, <3>1
  <2>2. CASE k # r + 1
    <3>1. k \in 1 .. r /\ r - k \in 0 .. 6 /\ (r + 1) - k = (r - k) + 1
      BY <2>2
    <3>2. Bit(w, (r + 1) - k) <=> Bit(v, r - k)
      BY <1>1, <3>1
    <3> QED
      BY <2>2, <3>1, <3>2
  <2> QED
    BY <2>1, <2>2
<1> QED
  BY <1>2 DEF w

(* With its FX bit a byte is complete.                                     *)
LEMMA FXShiftedIn ==
  ASSUME NEW w \in 0 .. 255, NEW i \in Nat, NEW Q,
         \A k \in 1 .. 7 : Bit(w, 7 - k) <=> 7 * i + k \in Q
  PROVE  Shifted(w, 1) % 2 = 1 /\ Announces(Shifted(w, 1), i + 1, Q)
<1> DEFINE x == Shifted(w, 1)
<1>1. 1 \in {0, 1}
  OBVIOUS
<1>2. x % 2 = 1 /\ \A j \in 0 .. 6 : Bit(x, j + 1) <=> Bit(w, j)
  BY <1>1, BitShiftedIn
<1> HIDE DEF x
<1>3. ASSUME NEW k \in 1 .. 7
      PROVE  Bit(x, 8 - k) <=> 7 * ((i + 1) - 1) + k \in Q
  <2>1. 7 - k \in 0 .. 6 /\ 8 - k = (7 - k) + 1 /\ 7 * ((i + 1) - 1) + k = 7 * i + k
    OBVIOUS
  <2>2. Bit(x, 8 - k) <=> Bit(w, 7 - k)
    BY <1>2, <2>1
  <2> QED
    BY <2>1, <2>2
<1> QED
  BY <1>2, <1>3 DEF x, Announces

LEMMA ItemsInBytes ==
  ASSUME NEW n \in Nat
  PROVE  /\ n % 7 \in 0 .. 6 /\ n = 7 * (n \div 7) + (n % 7)
         /\ (n + 1) % 7 = 0 => n % 7 = 6
         /\ (n + 1) % 7 # 0 => (n + 1) % 7 = (n % 7) + 1
<1>1. n % 7 \in 0 .. 6 /\ n = 7 * (n \div 7) + (n % 7)
  OBVIOUS
<1>2. (n + 1) % 7 = 0 => n % 7 = 6
  OBVIOUS
<1>3. (n + 1) % 7 # 0 => (n + 1) % 7 = (n % 7) + 1
  OBVIOUS
<1> QED
  BY <1>1, <1>2, <1>3

LEMMA VisitedHolds ==
  ASSUME NEW N \in Nat, Fits(N), NEW f, FieldInv(f, N), f.bits < N, NEW P, Holds(f, P),
         NEW present \in BOOLEAN, NEW Q, Q = (IF present THEN P \cup {f.bits + 1} ELSE P)
  PROVE  Holds(Visited(f, present), Q)
<1> DEFINE i == f.FSPEC_index
           r == f.bits % 7
           n == f.bits + 1
           last == IF present THEN n ELSE f.lastFRNset
           next == [f EXCEPT !.bits = @ + 1, !.lastFRNset = last]
           bit == IF present THEN 1 ELSE 0
           withItem == ShiftIn(next, bit)
           withFX == ShiftIn(withItem, 1)
           v == f.FSPEC[i + 1]
           w == Shifted(v, bit)
           x == Shifted(w, 1)
<1>1. /\ f \in FieldRecord /\ f.bits \in Nat /\ f.lastFRNset \in Nat /\ i \in Nat
      /\ i = f.bits \div 7 /\ f.lastFRNset <= f.bits /\ Len(f.FSPEC) = Cleared(N) + 1
  BY DEF FieldInv, FieldRecord
<1>2. r \in 0 .. 6 /\ f.bits = 7 * i + r /\ n = 7 * i + r + 1
  BY <1>1, ItemsInBytes
<1>3. i < Len(f.FSPEC)
  <2>1. f.bits \div 7 < N \div 8 + 2 /\ N \div 8 \in Nat
    BY <1>1, ItemInBuffer
  <2> QED
    BY <1>1, <2>1 DEF Cleared
<1>4. /\ next \in FieldRecord /\ next.bits = n /\ next.lastFRNset = last
      /\ next.FSPEC_index = i /\ next.FSPEC = f.FSPEC
  <2> DEFINE withBit == [f EXCEPT !.bits = n]
  <2>1. n \in Nat /\ last \in Nat
    BY <1>1
  <2> HIDE DEF n, last
  <2>2. /\ withBit \in FieldRecord /\ withBit.bits = n /\ withBit.FSPEC = f.FSPEC
        /\ withBit.FSPEC_index = i
    BY <1>1, <2>1 DEF FieldRecord
  <2>3. next = [withBit EXCEPT !.lastFRNset = last]
    BY DEF n
  <2> HIDE DEF withBit, next
  <2> QED
    BY <2>1, <2>2, <2>3 DEF FieldRecord
<1>5. bit \in {0, 1} /\ 1 \in {0, 1}
  OBVIOUS
<1>6. Visited(f, present) = IF withItem.bits % 7 = 0
                            THEN [withFX EXCEPT !.FSPEC_index = @ + 1] ELSE withItem
  BY Zenon DEF Visited
<1> HIDE DEF next, bit, last
<1>7. /\ withItem \in FieldRecord /\ Len(withItem.FSPEC) = Len(f.FSPEC)
      /\ withItem.FSPEC_index = i /\ withItem.bits = n /\ withItem.lastFRNset = last
  BY <1>4, <1>5, ShiftInInv
<1>8. /\ v \in 0 .. 255 /\ withItem.FSPEC[i + 1] = w
      /\ \A b \in 1 .. i : withItem.FSPEC[b] = f.FSPEC[b]
  <2>1. next.FSPEC_index < Len(next.FSPEC)
    BY ONLY <1>3, <1>4
  <2>2. /\ next.FSPEC[next.FSPEC_index + 1] \in 0 .. 255
        /\ withItem.FSPEC[next.FSPEC_index + 1]
             = Shifted(next.FSPEC[next.FSPEC_index + 1], bit)
        /\ \A b \in 1 .. next.FSPEC_index : withItem.FSPEC[b] = next.FSPEC[b]
    BY ONLY <1>4, <1>5, <2>1, ShiftInByte DEF withItem
  <2> HIDE DEF withItem
  <2> QED
    BY ONLY <1>4, <2>2 DEF v, w
<1> HIDE DEF withItem
<1>9. /\ withFX \in FieldRecord /\ withFX.FSPEC_index = i /\ withFX.bits = n
      /\ withFX.lastFRNset = last
  BY <1>5, <1>7, ShiftInInv
<1>10. /\ withFX.FSPEC[i + 1] = x
       /\ \A b \in 1 .. i : withFX.FSPEC[b] = f.FSPEC[b]
  <2>1. withItem.FSPEC_index < Len(withItem.FSPEC)
    BY ONLY <1>3, <1>7
  <2>2. /\ withFX.FSPEC[withItem.FSPEC_index + 1]
             = Shifted(withItem.FSPEC[withItem.FSPEC_index + 1], 1)
        /\ \A b \in 1 .. withItem.FSPEC_index : withFX.FSPEC[b] = withItem.FSPEC[b]
    BY ONLY <1>5, <1>7, <2>1, ShiftInByte DEF withFX
  <2> HIDE DEF withFX, w
  <2> QED
    BY ONLY <1>7, <1>8, <2>2 DEF x
<1> HIDE DEF withFX
<1>11. /\ \A b \in 1 .. i : f.FSPEC[b] % 2 = 1 /\ Announces(f.FSPEC[b], b, P)
       /\ \A k \in 1 .. r : Bit(v, r - k) <=> 7 * i + k \in P
       /\ P \subseteq 1 .. f.bits /\ (IF P = {} THEN f.lastFRNset = 0 ELSE f.lastFRNset \in P)
       /\ \A p \in P : p <= f.lastFRNset
  BY DEF Holds
<1>12. /\ w \in 0 .. 255
       /\ \A k \in 1 .. r + 1 : Bit(w, (r + 1) - k) <=> 7 * i + k \in Q
  <2> DEFINE p == {k \in 1 .. r : 7 * i + k \in P}
  <2>1. w \in 0 .. 255
    BY <1>5, <1>8, BitShiftedIn
  <2>2. \A k \in 1 .. r : Bit(v, r - k) <=> k \in p
    BY <1>11
  <2>3. \A k \in 1 .. r + 1 : Bit(w, (r + 1) - k) <=> IF k = r + 1 THEN bit = 1 ELSE k \in p
    <3> HIDE DEF p, r, v
    <3> QED
      BY <1>2, <1>5, <1>8, <2>2, ItemShiftedIn
  <2>4. ASSUME NEW k \in 1 .. r + 1
        PROVE  7 * i + k \in Q <=> IF k = r + 1 THEN bit = 1 ELSE k \in p
    <3>1. CASE k = r + 1
      <4>1. 7 * i + k = n /\ n \notin 1 .. f.bits
        <5>1. i \in Nat /\ f.bits \in Nat
          BY <1>1
        <5> HIDE DEF i, r
        <5> QED
          BY <1>2, <3>1, <5>1
      <4> QED
        BY <1>11, <3>1, <4>1 DEF bit
    <3>2. CASE k # r + 1
      <4>1. k \in 1 .. r /\ 7 * i + k # n
        <5>1. i \in Nat
          BY <1>1
        <5> HIDE DEF i, r
        <5> QED
          BY <1>2, <3>2, <5>1
      <4> QED
        BY <3>2, <4>1
    <3> QED
      BY <3>1, <3>2
  <2> HIDE DEF w, p, r
  <2> QED
    BY <2>1, <2>3, <2>4
<1>13. ASSUME NEW b \in 1 .. i
       PROVE  Announces(f.FSPEC[b], b, Q)
  <2>1. ASSUME NEW k \in 1 .. 7
        PROVE  7 * (b - 1) + k \in P <=> 7 * (b - 1) + k \in Q
    <3>1. 7 * (b - 1) + k # n
      <4>1. b <= i /\ i \in Nat
        BY <1>1
      <4> HIDE DEF r, i
      <4> QED
        BY <1>2, <4>1
    <3> QED
      BY <3>1
  <2> QED
    BY <1>11, <2>1 DEF Announces
<1>14. /\ Q \subseteq 1 .. n
       /\ IF Q = {} THEN last = 0 ELSE last \in Q
       /\ \A p \in Q : p <= last
  <2>1. CASE present
    <3>1. n \in Nat /\ n \in 1 .. n /\ \A p \in P : p \in 1 .. n
      BY <1>1, <1>11
    <3>2. Q = P \cup {n} /\ last = n
      BY <2>1 DEF last
    <3> HIDE DEF n
    <3> QED
      BY <3>1, <3>2
  <2>2. CASE ~ present
    <3>1. Q = P /\ last = f.lastFRNset /\ 1 .. f.bits \subseteq 1 .. n
      BY <1>1, <2>2 DEF last
    <3> QED
      BY <1>11, <3>1
  <2> QED
    BY <2>1, <2>2
<1>15. CASE n % 7 = 0
  <2> DEFINE g == Visited(f, present)
  <2>1. g = [withFX EXCEPT !.FSPEC_index = @ + 1]
    BY <1>6, <1>7, <1>15
  <2>2. g.FSPEC = withFX.FSPEC /\ g.bits = n /\ g.lastFRNset = last /\ g.FSPEC_index = i + 1
    BY <2>1, <1>9 DEF FieldRecord
  <2>3. r = 6
    BY <1>1, <1>15, ItemsInBytes
  <2>4. x % 2 = 1 /\ Announces(x, i + 1, Q)
    <3>1. \A k \in 1 .. 7 : Bit(w, 7 - k) <=> 7 * i + k \in Q
      <4> DEFINE j == r + 1
      <4>1. \A k \in 1 .. j : Bit(w, j - k) <=> 7 * i + k \in Q
        BY <1>12
      <4>2. j = 7
        BY <2>3
      <4> HIDE DEF j, w, i
      <4> QED
        BY ONLY <4>1, <4>2
    <3> HIDE DEF w, i
    <3> QED
      BY <1>1, <1>12, <3>1, FXShiftedIn
  <2> HIDE DEF x, g, i, n
  <2>5. ASSUME NEW b \in 1 .. i + 1
        PROVE  g.FSPEC[b] % 2 = 1 /\ Announces(g.FSPEC[b], b, Q)
    <3>1. CASE b = i + 1
      BY <1>10, <2>2, <2>4, <3>1
    <3>2. CASE b \in 1 .. i
      BY <1>10, <1>11, <1>13, <2>2, <3>2
    <3> QED
      BY <1>1, <3>1, <3>2
  <2>6. 1 .. n % 7 = {}
    BY <1>15
  <2> QED
    BY <2>2, <2>5, <2>6, <1>14 DEF Holds, g
<1>16. CASE n % 7 # 0
  <2> DEFINE g == Visited(f, present)
  <2>1. g = withItem
    BY <1>6, <1>7, <1>16
  <2>2. n % 7 = r + 1
    BY <1>1, <1>16, ItemsInBytes
  <2> HIDE DEF w, g, i, n, r
  <2>3. \A b \in 1 .. i : g.FSPEC[b] % 2 = 1 /\ Announces(g.FSPEC[b], b, Q)
    BY <1>8, <1>11, <1>13, <2>1
  <2>4. \A k \in 1 .. g.bits % 7 : Bit(g.FSPEC[g.FSPEC_index + 1], (g.bits % 7) - k)
                                     <=> 7 * g.FSPEC_index + k \in Q
    <3> DEFINE m == r + 1
    <3>1. g.bits % 7 = m /\ g.FSPEC_index = i /\ g.FSPEC[i + 1] = w
      BY <1>7, <1>8, <2>1, <2>2
    <3>2. \A k \in 1 .. m : Bit(w, m - k) <=> 7 * i + k \in Q
      BY <1>12, Zenon
    <3> HIDE DEF m
    <3> QED
      BY <3>1, <3>2
  <2> QED
    BY <1>7, <1>14, <2>1, <2>3, <2>4 DEF Holds, g
<1> QED
  BY <1>15, <1>16

(* A field specification that announces the items in P: FX is set in all   *)
(* of its bytes but the last.                                              *)
IsFspec(F, P) ==
  /\ F \in Seq(0 .. 255) /\ Len(F) \in Nat \ {0}
  /\ \A b \in 1 .. Len(F) - 1 : F[b] % 2 = 1
  /\ F[Len(F)] % 2 = 0
  /\ \A b \in 1 .. Len(F) : Announces(F[b], b, P)
  /\ P \subseteq 1 .. 7 * Len(F)

(* Without its FX bit a byte announces the same items.                     *)
LEMMA EvenByte ==
  ASSUME NEW x \in 0 .. 255
  PROVE  /\ x - (x % 2) \in 0 .. 255 /\ (x - (x % 2)) % 2 = 0
         /\ \A j \in 1 .. 7 : Bit(x - (x % 2), j) <=> Bit(x, j)
<1> DEFINE y == x - (x % 2)
<1>1. y \in 0 .. 255 /\ y % 2 = 0 /\ y \div 2 = x \div 2
  OBVIOUS
<1> HIDE DEF y
<1>2. y \div 4 = x \div 4 /\ y \div 8 = x \div 8 /\ y \div 16 = x \div 16
  BY <1>1
<1>3. y \div 32 = x \div 32 /\ y \div 64 = x \div 64 /\ y \div 128 = x \div 128
  BY <1>1
<1>4. /\ 2 ^ 1 = 2 /\ 2 ^ 2 = 4 /\ 2 ^ 3 = 8 /\ 2 ^ 4 = 16 /\ 2 ^ 5 = 32 /\ 2 ^ 6 = 64
      /\ 2 ^ 7 = 128
  OBVIOUS
<1>5. ASSUME NEW j \in 1 .. 7
      PROVE  y \div 2 ^ j = x \div 2 ^ j
  <2>1. j = 1 \/ j = 2 \/ j = 3 \/ j = 4 \/ j = 5 \/ j = 6 \/ j = 7
    OBVIOUS
  <2>2. CASE j = 1
    BY <1>1, <1>4, <2>2
  <2>3. CASE j = 2
    BY <1>2, <1>4, <2>3
  <2>4. CASE j = 3
    BY <1>2, <1>4, <2>4
  <2>5. CASE j = 4
    BY <1>2, <1>4, <2>5
  <2>6. CASE j = 5
    BY <1>3, <1>4, <2>6
  <2>7. CASE j = 6
    BY <1>3, <1>4, <2>7
  <2>8. CASE j = 7
    BY <1>3, <1>4, <2>8
  <2> QED
    BY <2>1, <2>2, <2>3, <2>4, <2>5, <2>6, <2>7, <2>8
<1> QED
  BY <1>1, <1>5 DEF y, Bit

LEMMA LengthIsBytes ==
  ASSUME NEW n \in Nat, n > 0
  PROVE  /\ LengthInByte(n) = (n - 1) \div 7 + 1
         /\ 7 * (LengthInByte(n) - 1) < n /\ n <= 7 * LengthInByte(n)
         /\ LengthInByte(n) \in Nat \ {0}
<1> DEFINE q == (n - 1) \div 7
<1>1. q \in Nat /\ 7 * q < n /\ n <= 7 * q + 7
  OBVIOUS
<1> HIDE DEF q
<1>2. CASE n = 7 * q + 7
  <2>1. n \div 7 = q + 1
    BY <1>1, <1>2
  <2>2. (n + n \div 7 + 7) \div 8 = q + 1
    BY <1>1, <1>2, <2>1
  <2> QED
    BY <1>1, <1>2, <2>2 DEF q, LengthInByte
<1>3. CASE n < 7 * q + 7
  <2>1. n \div 7 = q
    BY <1>1, <1>3
  <2>2. (n + n \div 7 + 7) \div 8 = q + 1
    BY <1>1, <1>3, <2>1
  <2> QED
    BY <1>1, <1>3, <2>2 DEF q, LengthInByte
<1> QED
  BY <1>1, <1>2, <1>3

(* The byte being built, once it is filled from the right.                 *)
LEMMA FilledAnnounces ==
  ASSUME NEW v \in 0 .. 255, NEW r \in 1 .. 6, NEW i \in Nat, NEW P, P \subseteq 1 .. 7 * i + r,
         \A k \in 1 .. r : Bit(v, r - k) <=> 7 * i + k \in P
  PROVE  /\ (v * 2 ^ (8 - r)) % 256 \in 0 .. 255
         /\ Announces((v * 2 ^ (8 - r)) % 256, i + 1, P)
<1> DEFINE m == 8 - r
           x == (v * 2 ^ m) % 256
<1>1. m \in 1 .. 8
  OBVIOUS
<1>2. x \in 0 .. 255 /\ \A j \in 0 .. 7 : Bit(x, j) <=> j >= m /\ Bit(v, j - m)
  BY <1>1, DoubledBits DEF Doubled, Times
<1> HIDE DEF x
<1>3. ASSUME NEW k \in 1 .. 7
      PROVE  Bit(x, 8 - k) <=> 7 * ((i + 1) - 1) + k \in P
  <2>1. 8 - k \in 0 .. 7 /\ (8 - k) - m = r - k /\ (8 - k >= m <=> k \in 1 .. r)
        /\ 7 * ((i + 1) - 1) + k = 7 * i + k
    OBVIOUS
  <2>2. Bit(x, 8 - k) <=> k \in 1 .. r /\ Bit(v, r - k)
    <3> HIDE DEF m
    <3> QED
      BY <1>2, <2>1
  <2>3. k \notin 1 .. r => 7 * i + k \notin P
    OBVIOUS
  <2> QED
    BY <2>1, <2>2, <2>3
<1> QED
  BY <1>2, <1>3 DEF x, Announces

(* The bytes of the field specification announce the items present.        *)
LEMMA FieldAnnounces ==
  ASSUME NEW N \in Nat, Fits(N), NEW f, FieldInv(f, N), f.bits <= N, NEW P, P # {}, Holds(f, P)
  PROVE  IsFspec(FieldBytes(f), P)
<1> DEFINE i == f.FSPEC_index
           r == f.bits % 7
           last == f.lastFRNset
           n == LengthInByte(last)
           missing == 8 * n - (f.bits + f.bits \div 7)
           v == f.FSPEC[i + 1]
           x == (v * 2 ^ missing) % 256
           byte(b) == IF b <= Len(f.FSPEC) THEN Filled(f)[b] ELSE 0
           cut(b) == IF b = n THEN byte(b) - (byte(b) % 2) ELSE byte(b)
<1>1. /\ f \in FieldRecord /\ f.bits \in Nat /\ last \in Nat /\ i \in Nat
      /\ i = f.bits \div 7 /\ last <= f.bits /\ Len(f.FSPEC) = Cleared(N) + 1
      /\ Len(f.FSPEC) \in Nat /\ DOMAIN f.FSPEC = 1 .. Len(f.FSPEC) /\ ~ f.outside
      /\ f.FSPEC \in Seq(0 .. 255)
  BY DEF FieldInv, FieldRecord
<1>2. r \in 0 .. 6 /\ f.bits = 7 * i + r
  BY <1>1, ItemsInBytes
<1>3. /\ \A b \in 1 .. i : f.FSPEC[b] % 2 = 1 /\ Announces(f.FSPEC[b], b, P)
      /\ \A k \in 1 .. r : Bit(v, r - k) <=> 7 * i + k \in P
      /\ P \subseteq 1 .. f.bits /\ last \in P
      /\ \A p \in P : p <= last
  BY DEF Holds
<1>4. last \in 1 .. f.bits /\ P \subseteq 1 .. last
  BY <1>1, <1>3
<1>5. /\ n = (last - 1) \div 7 + 1 /\ 7 * (n - 1) < last /\ last <= 7 * n /\ n \in Nat \ {0}
  <2>1. last \in Nat /\ last > 0
    BY <1>1, <1>4
  <2> HIDE DEF last
  <2> QED
    BY <2>1, LengthIsBytes
<1>6. n <= Len(f.FSPEC)
  <2>1. last - 1 \in Nat /\ last - 1 < N
    BY <1>1, <1>4
  <2>2. (last - 1) \div 7 < N \div 8 + 2 /\ N \div 8 \in Nat
    BY <2>1, ItemInBuffer
  <2>3. (last - 1) \div 7 \in Nat
    BY <2>1
  <2> HIDE DEF n
  <2> QED
    BY <1>1, <1>5, <2>2, <2>3 DEF Cleared
<1>7. n <= i + 1 /\ (n = i + 1 => r > 0) /\ missing = 8 * n - (8 * i + r)
  <2>1. missing = 8 * n - (7 * i + r + i)
    BY <1>1, <1>2
  <2> HIDE DEF n, i, r, missing
  <2>2. 7 * (n - 1) < 7 * i + r /\ i \in Nat /\ n \in Nat /\ r \in 0 .. 6
    <3>1. i \in Nat /\ last \in Nat /\ last <= f.bits
      BY <1>1
    <3> HIDE DEF last
    <3> QED
      BY <1>2, <1>5, <3>1
  <2>3. missing \in Int
    BY <2>1, <2>2
  <2> QED
    BY <2>1, <2>2, <2>3
<1>8. FieldBytes(f) = [b \in 1 .. n |-> cut(b)]
  BY DEF FieldBytes
<1>9. ASSUME NEW b \in 1 .. n
      PROVE  /\ byte(b) \in 0 .. 255
             /\ b < n => byte(b) % 2 = 1
             /\ Announces(byte(b), b, P)
  <2>1. byte(b) = Filled(f)[b] /\ b \in DOMAIN f.FSPEC /\ b \in 1 .. Len(f.FSPEC)
    <3> HIDE DEF n
    <3> QED
      BY <1>1, <1>5, <1>6
  <2>2. CASE b \in 1 .. i
    <3>1. Filled(f)[b] = f.FSPEC[b]
      <4>1. b # i + 1
        BY <1>1, <2>2
      <4> HIDE DEF x
      <4>2. Filled(f) = f.FSPEC \/ Filled(f) = [f.FSPEC EXCEPT ![i + 1] = x]
        BY DEF Filled, x
      <4> HIDE DEF i
      <4> QED
        BY <2>1, <4>1, <4>2
    <3>2. f.FSPEC[b] \in 0 .. 255
      BY <1>1, <2>1, ElementOfSeq
    <3> HIDE DEF i, byte
    <3> QED
      BY <1>3, <2>1, <2>2, <3>1, <3>2
  <2>3. CASE b \notin 1 .. i
    <3>1. b = i + 1 /\ n = i + 1 /\ b = n
      <4>1. i \in Nat
        BY <1>1
      <4> HIDE DEF n, i
      <4> QED
        BY <1>5, <1>7, <2>3, <4>1
    <3>2. missing = 8 - r /\ r \in 1 .. 6 /\ ~ (missing <= 0)
      <4> HIDE DEF n, i, r, missing
      <4>1. i \in Nat
        BY <1>1
      <4> QED
        BY <1>2, <1>7, <3>1, <4>1
    <3>3. Filled(f)[b] = x
      <4> HIDE DEF x
      <4>1. Filled(f) = [f.FSPEC EXCEPT ![i + 1] = x]
        BY <1>1, <3>2 DEF Filled, x
      <4> HIDE DEF i
      <4> QED
        BY <2>1, <3>1, <4>1
    <3>4. v \in 0 .. 255
      <4> HIDE DEF i
      <4> QED
        BY <1>1, <2>1, <3>1, ElementOfSeq
    <3>5. x \in 0 .. 255 /\ Announces(x, i + 1, P)
      <4>1. P \subseteq 1 .. 7 * i + r
        BY <1>2, <1>3
      <4>2. x = (v * 2 ^ (8 - r)) % 256
        BY <3>2
      <4>3. i \in Nat /\ r \in 1 .. 6 /\ \A k \in 1 .. r : Bit(v, r - k) <=> 7 * i + k \in P
        BY <1>1, <1>3, <3>2
      <4> HIDE DEF i, r, v
      <4>4. /\ (v * 2 ^ (8 - r)) % 256 \in 0 .. 255
            /\ Announces((v * 2 ^ (8 - r)) % 256, i + 1, P)
        BY <3>4, <4>1, <4>3, FilledAnnounces
      <4> HIDE DEF x
      <4> QED
        BY <4>2, <4>4
    <3> HIDE DEF byte, x, n, i
    <3> QED
      BY <1>5, <2>1, <3>1, <3>3, <3>5
  <2> QED
    BY <2>2, <2>3
<1> HIDE DEF byte
<1>10. ASSUME NEW b \in 1 .. n
       PROVE  /\ cut(b) \in 0 .. 255
              /\ b < n => cut(b) % 2 = 1
              /\ b = n => cut(b) % 2 = 0
              /\ Announces(cut(b), b, P)
  <2>1. CASE b = n
    <3> DEFINE y == byte(b) - (byte(b) % 2)
    <3>1. cut(b) = y
      BY <2>1
    <3>2. y \in 0 .. 255 /\ y % 2 = 0 /\ \A j \in 1 .. 7 : Bit(y, j) <=> Bit(byte(b), j)
      BY <1>9, EvenByte
    <3> HIDE DEF y
    <3>3. \A k \in 1 .. 7 : 8 - k \in 1 .. 7
      OBVIOUS
    <3>4. Announces(y, b, P)
      BY <1>9, <3>2, <3>3 DEF Announces
    <3> QED
      BY <2>1, <3>1, <3>2, <3>4
  <2>2. CASE b # n
    <3>1. b < n
      BY <1>5, <2>2
    <3> QED
      BY <1>9, <2>2, <3>1
  <2> QED
    BY <2>1, <2>2
<1> HIDE DEF cut, n
<1>11. P \subseteq 1 .. 7 * n
  BY <1>4, <1>5
<1>12. FieldBytes(f) \in Seq(0 .. 255) /\ Len(FieldBytes(f)) = n
  <2>1. n \in Nat /\ \A b \in 1 .. n : cut(b) \in 0 .. 255
    BY <1>5, <1>10
  <2> QED
    BY <1>8, <2>1
<1>13. \A b \in 1 .. n : FieldBytes(f)[b] = cut(b)
  BY <1>8
<1>14. n \in 1 .. n /\ \A b \in 1 .. n - 1 : b \in 1 .. n /\ b < n
  BY <1>5
<1> QED
  BY <1>5, <1>10, <1>11, <1>12, <1>13, <1>14 DEF IsFspec

-----------------------------------------------------------------------------
(* The elements of P in increasing order.                                  *)
Lists(s, P) ==
  /\ s \in Seq(Nat)
  /\ \A i, j \in 1 .. Len(s) : i < j => s[i] < s[j]
  /\ \A x : x \in P <=> \E i \in 1 .. Len(s) : s[i] = x

LEMMA ListsUnique ==
  ASSUME NEW P, NEW s, Lists(s, P), NEW t, Lists(t, P)
  PROVE  s = t
<1>1. s \in Seq(Nat) /\ t \in Seq(Nat) /\ Len(s) \in Nat /\ Len(t) \in Nat
  BY DEF Lists
<1>2. ASSUME NEW i \in Nat, NEW u, NEW v, Lists(u, P), Lists(v, P), i \in 1 .. Len(u),
             \A k \in 1 .. Len(u) : k < i => k \in 1 .. Len(v) /\ u[k] = v[k]
      PROVE  i \in 1 .. Len(v) /\ v[i] <= u[i]
  <2>1. /\ u \in Seq(Nat) /\ v \in Seq(Nat) /\ Len(u) \in Nat /\ Len(v) \in Nat
        /\ \A k, j \in 1 .. Len(u) : k < j => u[k] < u[j]
        /\ \A k, j \in 1 .. Len(v) : k < j => v[k] < v[j]
    BY <1>2 DEF Lists
  <2>2. \A k \in 1 .. Len(u) : u[k] \in Nat
    BY <2>1
  <2>3. \A k \in 1 .. Len(v) : v[k] \in Nat
    BY <2>1
  <2>4. u[i] \in P
    BY <1>2 DEF Lists
  <2>5. PICK j \in 1 .. Len(v) : v[j] = u[i]
    BY <1>2, <2>4 DEF Lists
  <2>6. ~ (j < i)
    <3>1. SUFFICES ASSUME j < i PROVE FALSE
      OBVIOUS
    <3>2. j \in 1 .. Len(u) /\ u[j] = v[j]
      <4>1. j \in 1 .. Len(u)
        BY <1>2, <2>1, <3>1
      <4> QED
        BY <1>2, <3>1, <4>1
    <3>3. u[j] < u[i]
      BY <1>2, <2>1, <3>1, <3>2
    <3> QED
      BY <1>2, <2>2, <2>5, <3>2, <3>3
  <2>7. i \in 1 .. Len(v)
    BY <1>2, <2>1, <2>6
  <2>8. CASE i = j
    BY <1>2, <2>2, <2>5, <2>7, <2>8
  <2>9. CASE i < j
    <3>1. v[i] < v[j]
      BY <2>1, <2>7, <2>9
    <3> QED
      BY <1>2, <2>2, <2>3, <2>5, <2>7, <3>1
  <2> QED
    BY <1>2, <2>1, <2>6, <2>7, <2>8, <2>9
<1> DEFINE No == {i \in Nat : i \in (1 .. Len(s)) \cup (1 .. Len(t))
                              /\ ~ (i \in 1 .. Len(s) /\ i \in 1 .. Len(t) /\ s[i] = t[i])}
<1>3. ASSUME No # {} PROVE FALSE
  <2>1. No \subseteq Nat
    OBVIOUS
  <2>2. PICK i \in No : \A k \in No : i <= k
    <3> HIDE DEF No
    <3> QED
      BY <1>3, <2>1, LeastElement
  <2>3. /\ \A k \in 1 .. Len(s) : k < i => k \in 1 .. Len(t) /\ s[k] = t[k]
        /\ \A k \in 1 .. Len(t) : k < i => k \in 1 .. Len(s) /\ t[k] = s[k]
    BY <1>1, <2>2
  <2>4. i \in Nat /\ (i \in 1 .. Len(s) \/ i \in 1 .. Len(t))
    OBVIOUS
  <2>5. i \in 1 .. Len(s) => i \in 1 .. Len(t) /\ t[i] <= s[i]
    BY <1>2, <2>3, <2>4
  <2>6. i \in 1 .. Len(t) => i \in 1 .. Len(s) /\ s[i] <= t[i]
    BY <1>2, <2>3, <2>4
  <2>7. i \in 1 .. Len(s) /\ i \in 1 .. Len(t) /\ t[i] <= s[i] /\ s[i] <= t[i]
    BY <2>4, <2>5, <2>6
  <2>8. s[i] \in Nat /\ t[i] \in Nat
    BY <1>1, <2>7, ElementOfSeq
  <2>9. s[i] = t[i]
    BY <2>7, <2>8
  <2> QED
    BY <2>7, <2>9
<1>4. \A i \in (1 .. Len(s)) \cup (1 .. Len(t)) : i \in 1 .. Len(s) /\ i \in 1 .. Len(t) /\ s[i] = t[i]
  <2>1. \A i \in (1 .. Len(s)) \cup (1 .. Len(t)) : i \in Nat
    BY <1>1
  <2> QED
    BY <1>3, <2>1
<1>5. Len(s) = Len(t)
  <2>1. Len(s) > 0 => Len(s) \in 1 .. Len(s)
    BY <1>1
  <2>2. Len(t) > 0 => Len(t) \in 1 .. Len(t)
    BY <1>1
  <2>3. Len(s) > 0 => Len(s) \in 1 .. Len(t)
    BY <1>4, <2>1
  <2>4. Len(t) > 0 => Len(t) \in 1 .. Len(s)
    BY <1>4, <2>2
  <2> QED
    BY <1>1, <2>3, <2>4
<1> QED
  BY <1>1, <1>4, <1>5, SeqEqual

LEMMA ListsConcat ==
  ASSUME NEW P, NEW Q, NEW s, Lists(s, P), NEW t, Lists(t, Q), \A x \in P, y \in Q : x < y
  PROVE  Lists(s \o t, P \cup Q)
<1> DEFINE u == s \o t
           m == Len(s)
           n == Len(t)
<1>1. /\ s \in Seq(Nat) /\ t \in Seq(Nat) /\ m \in Nat /\ n \in Nat
      /\ \A i, j \in 1 .. m : i < j => s[i] < s[j]
      /\ \A i, j \in 1 .. n : i < j => t[i] < t[j]
  BY DEF Lists
<1>2. /\ u \in Seq(Nat) /\ Len(u) = m + n
      /\ \A i \in 1 .. m + n : u[i] = IF i <= m THEN s[i] ELSE t[i - m]
  BY <1>1, ConcatProperties
<1> HIDE DEF u
<1>3. \A x : x \in P <=> \E i \in 1 .. m : s[i] = x
  BY DEF Lists
<1>4. \A x : x \in Q <=> \E i \in 1 .. n : t[i] = x
  BY DEF Lists
<1> HIDE DEF m, n
<1>5. ASSUME NEW i \in 1 .. m
      PROVE  i \in 1 .. m + n /\ u[i] = s[i] /\ u[i] \in P
  <2>1. i \in 1 .. m + n /\ i <= m
    BY <1>1
  <2> QED
    BY <1>2, <1>3, <2>1
<1>6. ASSUME NEW i \in 1 .. n
      PROVE  m + i \in 1 .. m + n /\ u[m + i] = t[i] /\ u[m + i] \in Q
  <2>1. m + i \in 1 .. m + n /\ ~ (m + i <= m) /\ (m + i) - m = i
    BY <1>1
  <2> QED
    BY <1>2, <1>4, <2>1
<1>7. ASSUME NEW i \in 1 .. m + n
      PROVE  i \in 1 .. m \/ (i - m \in 1 .. n /\ m + (i - m) = i)
  BY <1>1
<1>8. ASSUME NEW i \in 1 .. m + n, NEW j \in 1 .. m + n, i < j
      PROVE  u[i] < u[j]
  <2>1. CASE j \in 1 .. m
    <3>1. i \in 1 .. m
      BY <1>1, <1>8, <2>1
    <3> QED
      BY <1>1, <1>5, <1>8, <2>1, <3>1
  <2>2. CASE i \in 1 .. m /\ j - m \in 1 .. n /\ m + (j - m) = j
    <3>1. u[i] \in P /\ u[j] \in Q
      BY <1>5, <1>6, <2>2
    <3> QED
      BY <3>1
  <2>3. CASE i - m \in 1 .. n /\ m + (i - m) = i /\ j - m \in 1 .. n /\ m + (j - m) = j
    <3>1. u[i] = t[i - m] /\ u[j] = t[j - m]
      BY <1>6, <2>3
    <3>2. i - m < j - m
      BY <1>1, <1>8
    <3> QED
      BY <1>1, <2>3, <3>1, <3>2
  <2>4. i \notin 1 .. m => j \notin 1 .. m
    BY <1>1, <1>8
  <2> QED
    BY <1>7, <2>1, <2>2, <2>3, <2>4
<1>9. ASSUME NEW x
      PROVE  x \in P \cup Q <=> \E i \in 1 .. m + n : u[i] = x
  <2>1. ASSUME x \in P PROVE \E i \in 1 .. m + n : u[i] = x
    BY <1>3, <1>5, <2>1
  <2>2. ASSUME x \in Q PROVE \E i \in 1 .. m + n : u[i] = x
    BY <1>4, <1>6, <2>2
  <2>3. ASSUME NEW i \in 1 .. m + n PROVE u[i] \in P \cup Q
    <3>1. CASE i \in 1 .. m
      BY <1>5, <3>1
    <3>2. CASE i - m \in 1 .. n /\ m + (i - m) = i
      <4>1. u[m + (i - m)] \in Q
        BY <1>6, <3>2
      <4> QED
        BY <3>2, <4>1
    <3> QED
      BY <1>7, <3>1, <3>2
  <2> QED
    BY <2>1, <2>2, <2>3
<1> QED
  BY <1>2, <1>8, <1>9 DEF Lists, u

(* The first n of some sequences.                                          *)
Pieces(t, n) == [b \in 1 .. n |-> t[b]]

LEMMA PiecesFlat ==
  ASSUME NEW S, NEW t, NEW N \in Nat, \A b \in 1 .. N : t[b] \in Seq(S)
  PROVE  /\ FlattenSeq(Pieces(t, 0)) = <<>>
         /\ \A n \in 0 .. N : Pieces(t, n) \in Seq(Seq(S)) /\ FlattenSeq(Pieces(t, n)) \in Seq(S)
         /\ \A n \in 1 .. N : FlattenSeq(Pieces(t, n)) = FlattenSeq(Pieces(t, n - 1)) \o t[n]
<1>1. Pieces(t, 0) = <<>>
  <2>1. 1 .. 0 = {}
    OBVIOUS
  <2> QED
    BY <2>1 DEF Pieces
<1>2. ASSUME NEW n \in 0 .. N
      PROVE  Pieces(t, n) \in Seq(Seq(S)) /\ Len(Pieces(t, n)) = n
  <2>1. \A b \in 1 .. n : t[b] \in Seq(S)
    OBVIOUS
  <2> QED
    BY <2>1 DEF Pieces
<1>3. ASSUME NEW n \in 1 .. N
      PROVE  FlattenSeq(Pieces(t, n)) = FlattenSeq(Pieces(t, n - 1)) \o t[n]
  <2>1. n - 1 \in 0 .. N /\ (n - 1) + 1 = n /\ n \in 0 .. N
    OBVIOUS
  <2>2. Pieces(t, n) = Append(Pieces(t, n - 1), t[n])
    <3> DEFINE u == Append(Pieces(t, n - 1), t[n])
    <3>1. Pieces(t, n - 1) \in Seq(Seq(S)) /\ Len(Pieces(t, n - 1)) = n - 1
      BY <1>2, <2>1
    <3>2. /\ u \in Seq(Seq(S)) /\ Len(u) = n /\ u[n] = t[n]
          /\ \A b \in 1 .. n - 1 : u[b] = Pieces(t, n - 1)[b]
      BY <2>1, <3>1, AppendProperties
    <3> HIDE DEF u
    <3>3. \A b \in 1 .. n - 1 : u[b] = t[b]
      BY <3>2 DEF Pieces
    <3>4. \A b \in 1 .. n : u[b] = Pieces(t, n)[b]
      BY <3>2, <3>3 DEF Pieces
    <3>5. Pieces(t, n) \in Seq(Seq(S)) /\ Len(Pieces(t, n)) = n
      BY <1>2, <2>1
    <3> QED
      BY <3>2, <3>4, <3>5, SeqEqual DEF u
  <2> QED
    BY <1>2, <2>1, <2>2, FlattenAppend
<1>4. \A n \in 0 .. N : FlattenSeq(Pieces(t, n)) \in Seq(S)
  BY <1>2, FlattenIn
<1> QED
  BY <1>1, <1>2, <1>3, <1>4, FlattenEmpty

(* Lists one behind the other.                                             *)
Union(q, n) == UNION {q[b] : b \in 1 .. n}

LEMMA ListsFlat ==
  ASSUME NEW N \in Nat, NEW t, NEW q,
         \A b \in 1 .. N : Lists(t[b], q[b]),
         \A a, b \in 1 .. N : a < b => \A x \in q[a], y \in q[b] : x < y
  PROVE  Lists(FlattenSeq(Pieces(t, N)), Union(q, N))
<1> DEFINE All(n) == UNION {q[b] : b \in 1 .. n}
           No == {n \in 0 .. N : ~ Lists(FlattenSeq(Pieces(t, n)), All(n))}
<1>1. \A b \in 1 .. N : t[b] \in Seq(Nat)
  BY DEF Lists
<1>2. /\ FlattenSeq(Pieces(t, 0)) = <<>>
      /\ \A n \in 1 .. N : FlattenSeq(Pieces(t, n)) = FlattenSeq(Pieces(t, n - 1)) \o t[n]
  BY <1>1, PiecesFlat
<1>3. ASSUME No # {} PROVE FALSE
  <2>1. No \subseteq Nat
    OBVIOUS
  <2>2. PICK n \in No : \A k \in No : n <= k
    <3> HIDE DEF No
    <3> QED
      BY <1>3, <2>1, LeastElement
  <2>3. n # 0
    <3>1. All(0) = {}
      OBVIOUS
    <3>2. Lists(<<>>, {})
      BY DEF Lists
    <3> HIDE DEF All
    <3> QED
      BY <1>2, <3>1, <3>2
  <2>4. n \in 1 .. N /\ n - 1 \in 0 .. N /\ ~ (n <= n - 1)
    BY <2>3
  <2>5. Lists(FlattenSeq(Pieces(t, n - 1)), All(n - 1))
    <3> HIDE DEF All
    <3> QED
      BY <2>2, <2>4
  <2>6. All(n) = All(n - 1) \cup q[n]
    <3>1. 1 .. n = (1 .. n - 1) \cup {n}
      BY <2>4
    <3> QED
      BY <3>1
  <2>7. \A x \in All(n - 1), y \in q[n] : x < y
    <3>1. \A a \in 1 .. n - 1 : a \in 1 .. N /\ a < n
      BY <2>4
    <3> QED
      BY <2>4, <3>1
  <2> HIDE DEF All
  <2>8. Lists(FlattenSeq(Pieces(t, n - 1)) \o t[n], All(n - 1) \cup q[n])
    BY <2>4, <2>5, <2>7, ListsConcat
  <2> QED
    BY <1>2, <2>4, <2>6, <2>8
<1>4. N \in 0 .. N
  OBVIOUS
<1>5. Lists(FlattenSeq(Pieces(t, N)), All(N))
  <2> HIDE DEF All
  <2> QED
    BY <1>3, <1>4
<1> QED
  BY <1>5 DEF Union

(* The FRNs of one byte.                                                   *)
LEMMA ByteLists ==
  ASSUME NEW byte, NEW b \in Nat \ {0}, NEW P, P \subseteq Nat, Announces(byte, b, P)
  PROVE  Lists(Announced(byte, 7 * (b - 1) + 1), {p \in P : 7 * (b - 1) < p /\ p <= 7 * b})
<1> DEFINE frn(k) == (7 * (b - 1) + 1) + k - 1
           bit(k) == (byte \div 2 ^ (8 - k)) % 2 = 1
           t == [k \in 1 .. 7 |-> IF bit(k) THEN <<frn(k)>> ELSE <<>>]
           q == [k \in 1 .. 7 |-> IF bit(k) THEN {frn(k)} ELSE {}]
<1>1. Announced(byte, 7 * (b - 1) + 1) = FlattenSeq(Pieces(t, 7))
  BY DEF Announced, Pieces
<1>2. \A k \in 1 .. 7 : frn(k) = 7 * (b - 1) + k /\ frn(k) \in Nat
  OBVIOUS
<1>3. \A k \in 1 .. 7 : bit(k) <=> frn(k) \in P
  BY <1>2 DEF Announces, Bit
<1> HIDE DEF bit, frn
<1>4. ASSUME NEW k \in 1 .. 7
      PROVE  Lists(t[k], q[k])
  <2>1. CASE bit(k)
    <3>1. t[k] = <<frn(k)>> /\ q[k] = {frn(k)} /\ frn(k) \in Nat
      BY <1>2, <2>1
    <3>2. Lists(<<frn(k)>>, {frn(k)})
      BY <3>1 DEF Lists
    <3> QED
      BY <3>1, <3>2
  <2>2. CASE ~ bit(k)
    <3>1. t[k] = <<>> /\ q[k] = {}
      BY <2>2
    <3>2. Lists(<<>>, {})
      BY DEF Lists
    <3> QED
      BY <3>1, <3>2
  <2> QED
    BY <2>1, <2>2
<1>5. ASSUME NEW j \in 1 .. 7, NEW k \in 1 .. 7, j < k, NEW x \in q[j], NEW y \in q[k]
      PROVE  x < y
  <2>1. x = frn(j) /\ y = frn(k)
    OBVIOUS
  <2> QED
    BY <1>2, <1>5, <2>1
<1>6. Union(q, 7) = {p \in P : 7 * (b - 1) < p /\ p <= 7 * b}
  <2>1. ASSUME NEW k \in 1 .. 7, NEW p \in q[k]
        PROVE  p \in P /\ 7 * (b - 1) < p /\ p <= 7 * b
    <3>1. p = frn(k) /\ bit(k)
      OBVIOUS
    <3>2. 7 * (b - 1) < frn(k) /\ frn(k) <= 7 * b
      BY <1>2
    <3> QED
      BY <1>3, <3>1, <3>2
  <2>2. ASSUME NEW p \in P, 7 * (b - 1) < p, p <= 7 * b
        PROVE  \E k \in 1 .. 7 : p \in q[k]
    <3> DEFINE k == p - 7 * (b - 1)
    <3>1. p \in Nat
      OBVIOUS
    <3>2. k \in 1 .. 7 /\ p = 7 * (b - 1) + k
      BY <2>2, <3>1
    <3> HIDE DEF k
    <3>3. p = frn(k) /\ bit(k)
      BY <1>2, <1>3, <3>2
    <3>4. p \in q[k]
      BY <3>2, <3>3
    <3> QED
      BY <3>2, <3>4
  <2> HIDE DEF q
  <2> QED
    BY <2>1, <2>2 DEF Union
<1> HIDE DEF t, q
<1>7. Lists(FlattenSeq(Pieces(t, 7)), Union(q, 7))
  <2>1. \A j, k \in 1 .. 7 : j < k => \A x \in q[j], y \in q[k] : x < y
    BY <1>5
  <2>2. 7 \in Nat /\ \A k \in 1 .. 7 : Lists(t[k], q[k])
    BY <1>4
  <2> QED
    BY <2>1, <2>2, ListsFlat
<1> QED
  BY <1>1, <1>6, <1>7

(* The parser reads the field specification the encoder wrote, and no more *)
(* bytes.                                                                  *)
LEMMA FspecIsRead ==
  ASSUME NEW F, NEW P, IsFspec(F, P), NEW list, Lists(list, P),
         NEW source, Ends(source), NEW index \in Nat,
         \A b \in 1 .. Len(F) : source[index + b - 1] = F[b]
  PROVE  FieldLength(source, index) = Len(F) /\ ReadFspec(source, index) = list
<1> DEFINE N == Len(F)
           t == [b \in 1 .. N |-> Announced(source[index + b - 1], 7 * (b - 1) + 1)]
           q == [b \in 1 .. N |-> {p \in P : 7 * (b - 1) < p /\ p <= 7 * b}]
<1>1. /\ N \in Nat \ {0} /\ P \subseteq 1 .. 7 * N /\ P \subseteq Nat
      /\ \A b \in 1 .. N - 1 : F[b] % 2 = 1
      /\ F[N] % 2 = 0
      /\ \A b \in 1 .. N : Announces(F[b], b, P)
  BY DEF IsFspec
<1>2. \A b \in 1 .. N : source[index + b - 1] = F[b]
  OBVIOUS
<1> HIDE DEF N
<1>3. FieldLength(source, index) = N
  <2> DEFINE odd == FieldOdd(source, index)
             m == N - 1
  <2>1. PICK end : IsUp(end, odd, 1) /\ FieldLength(source, index) = end[0]
    BY FieldLengthUp
  <2>2. \A k \in Nat : k < N => k + 1 \in 1 .. N /\ index + (k + 1) - 1 = index + k
    BY <1>1
  <2>3. \A k \in Nat : k < N => source[index + k] = F[k + 1]
    BY <1>2, <2>2
  <2>4. m \in Nat /\ m >= 0 /\ m < N /\ m + 1 = N /\ 0 \in Nat /\ 1 \in Nat
    BY <1>1
  <2>5. m \notin odd
    <3>1. source[index + m] = F[N]
      BY <2>3, <2>4
    <3> QED
      BY <1>1, <3>1 DEF FieldOdd
  <2>6. \A k \in Nat : k >= 0 /\ k < m => k \in odd
    <3>1. \A k \in Nat : k < m => k < N /\ k + 1 \in 1 .. N - 1
      BY <1>1
    <3> QED
      BY <1>1, <2>3, <3>1 DEF FieldOdd
  <2> HIDE DEF odd, m
  <2>7. ASSUME NEW n \in Nat, n = 0, NEW c \in Nat, c = 1
        PROVE  end[n] = m + c
    <3>1. /\ IsUp(end, odd, c) /\ m \in Nat /\ m >= n /\ m \notin odd
          /\ \A k \in Nat : k >= n /\ k < m => k \in odd
      BY <2>1, <2>4, <2>5, <2>6, <2>7
    <3> QED
      BY ONLY <3>1, n \in Nat, c \in Nat, UpReaches
  <2>8. end[0] = m + 1
    BY <2>4, <2>7
  <2> QED
    BY <2>1, <2>4, <2>8 DEF m
<1>4. ReadFspec(source, index) = FlattenSeq(Pieces(t, N))
  BY <1>3 DEF ReadFspec, Pieces
<1>5. ASSUME NEW b \in 1 .. N
      PROVE  Lists(t[b], q[b])
  <2>1. t[b] = Announced(F[b], 7 * (b - 1) + 1) /\ b \in Nat \ {0}
    BY <1>1, <1>2
  <2> QED
    BY <1>1, <2>1, ByteLists
<1>6. ASSUME NEW a \in 1 .. N, NEW b \in 1 .. N, a < b, NEW x \in q[a], NEW y \in q[b]
      PROVE  x < y
  <2>1. x <= 7 * a /\ 7 * (b - 1) < y /\ x \in Nat /\ y \in Nat
    BY <1>1
  <2> QED
    BY <1>1, <1>6, <2>1
<1>7. Union(q, N) = P
  <2>1. ASSUME NEW p \in P
        PROVE  \E b \in 1 .. N : p \in q[b]
    <3> DEFINE c == (p - 1) \div 7
    <3>1. p \in Nat /\ 1 <= p /\ p <= 7 * N
      BY <1>1
    <3>2. c \in Nat /\ 7 * c < p /\ p <= 7 * c + 7
      BY <3>1
    <3> HIDE DEF c
    <3>3. c + 1 \in 1 .. N /\ 7 * ((c + 1) - 1) < p /\ p <= 7 * (c + 1)
      BY <1>1, <3>1, <3>2
    <3> QED
      BY <3>3
  <2> QED
    BY <2>1 DEF Union
<1> HIDE DEF t, q
<1>8. Lists(FlattenSeq(Pieces(t, N)), Union(q, N))
  <2>1. N \in Nat /\ \A a, b \in 1 .. N : a < b => \A x \in q[a], y \in q[b] : x < y
    BY <1>1, <1>6
  <2>2. \A b \in 1 .. N : Lists(t[b], q[b])
    BY <1>5
  <2> QED
    BY <2>1, <2>2, ListsFlat
<1>9. FlattenSeq(Pieces(t, N)) = list
  BY <1>7, <1>8, ListsUnique
<1> QED
  BY <1>3, <1>4, <1>9 DEF N

-----------------------------------------------------------------------------
(* What the loop over the items has gathered: the items given, in the      *)
(* order of their FRNs, each announced and with its bytes.                 *)
Gave(present, items, record) ==
  [n \in DOMAIN present |-> <<items[present[n]].name, ItemBytes(items[present[n]], record)>>]

Gathered(s, items, record) ==
  /\ Holds(s.field, ToSet(s.present))
  /\ Lists(s.present, ToSet(s.present))
  /\ \A k \in ToSet(s.present) : k \in DOMAIN items /\ Given(items[k], DOMAIN record.elements)
  /\ s.bytes = Content(Gave(s.present, items, record))

LEMMA GaveAppend ==
  ASSUME NEW present \in Seq(Nat), NEW n \in Nat, NEW items, NEW record
  PROVE  Gave(Append(present, n), items, record)
           = Append(Gave(present, items, record), <<items[n].name, ItemBytes(items[n], record)>>)
<1> DEFINE u == Append(present, n)
           pair(k) == <<items[k].name, ItemBytes(items[k], record)>>
           m == Len(present)
           g == [i \in DOMAIN present |-> pair(present[i])]
           h == [i \in DOMAIN u |-> pair(u[i])]
           T == {pair(k) : k \in Nat}
<1>1. /\ u \in Seq(Nat) /\ Len(u) = m + 1 /\ m \in Nat /\ u[m + 1] = n
      /\ DOMAIN present = 1 .. m /\ DOMAIN u = 1 .. m + 1 /\ \A i \in 1 .. m : u[i] = present[i]
  BY AppendProperties, LenProperties
<1> HIDE DEF u
<1>2. \A i \in 1 .. m : present[i] \in Nat
  BY <1>1
<1>3. \A i \in 1 .. m + 1 : u[i] \in Nat
  BY <1>1
<1> HIDE DEF pair, m
<1>4. g \in Seq(T) /\ Len(g) = m /\ \A i \in 1 .. m : g[i] = pair(present[i])
  BY <1>1, <1>2
<1>5. h \in Seq(T) /\ Len(h) = m + 1 /\ \A i \in 1 .. m + 1 : h[i] = pair(u[i])
  BY <1>1, <1>3
<1>6. pair(n) \in T
  OBVIOUS
<1> HIDE DEF g, h, T
<1> DEFINE a == Append(g, pair(n))
<1>7. a \in Seq(T) /\ Len(a) = m + 1 /\ a[m + 1] = pair(n) /\ \A i \in 1 .. m : a[i] = g[i]
  BY <1>4, <1>6, AppendProperties
<1> HIDE DEF a
<1>8. ASSUME NEW i \in 1 .. m + 1
      PROVE  a[i] = h[i]
  <2>1. CASE i = m + 1
    BY <1>1, <1>5, <1>7, <2>1
  <2>2. CASE i # m + 1
    <3>1. i \in 1 .. m
      BY <1>1, <2>2
    <3> QED
      BY <1>1, <1>4, <1>5, <1>7, <3>1
  <2> QED
    BY <2>1, <2>2
<1>9. a = h
  BY <1>5, <1>7, <1>8, SeqEqual
<1> QED
  BY <1>9 DEF Gave, a, g, h, u, pair

LEMMA GaveItems ==
  ASSUME NEW items, \A k \in DOMAIN items : DescribedItem(items[k]),
         NEW record, InputRecord(record), NEW present \in Seq(Nat),
         \A k \in ToSet(present) : k \in DOMAIN items /\ Given(items[k], DOMAIN record.elements)
  PROVE  ItemSeq(Gave(present, items, record))
<1> DEFINE g == Gave(present, items, record)
           T == {e \in {<<items[k].name, ItemBytes(items[k], record)>> : k \in Nat} : e[2] \in Seq(Nat)}
<1>1. DOMAIN present = 1 .. Len(present) /\ Len(present) \in Nat
  BY LenProperties
<1>2. ASSUME NEW n \in DOMAIN present
      PROVE  <<items[present[n]].name, ItemBytes(items[present[n]], record)>> \in T
  <2>1. present[n] \in ToSet(present) /\ present[n] \in Nat
    BY <1>1 DEF ToSet
  <2>2. ToSet(items[present[n]].elements) \subseteq DOMAIN record.elements
    BY <2>1 DEF Given
  <2>3. DescribedItem(items[present[n]])
    BY <2>1
  <2>4. ItemBytes(items[present[n]], record) \in Seq(Nat)
    BY <2>2, <2>3, ItemIsBytes
  <2> QED
    BY <2>1, <2>4
<1> HIDE DEF T
<1>3. g \in Seq(T)
  BY <1>1, <1>2 DEF Gave
<1>4. \A e \in T : e[2] \in Seq(Nat)
  BY DEF T
<1> QED
  BY <1>3, <1>4 DEF ItemSeq

LEMMA AppendSet ==
  ASSUME NEW s \in Seq(Nat), NEW n \in Nat
  PROVE  ToSet(Append(s, n)) = ToSet(s) \cup {n}
<1> DEFINE u == Append(s, n)
<1>1. /\ Len(u) = Len(s) + 1 /\ Len(s) \in Nat /\ u[Len(s) + 1] = n
      /\ DOMAIN s = 1 .. Len(s) /\ DOMAIN u = 1 .. Len(s) + 1 /\ \A i \in 1 .. Len(s) : u[i] = s[i]
  BY AppendProperties, LenProperties
<1> HIDE DEF u
<1>2. \A i \in 1 .. Len(s) + 1 : i \in 1 .. Len(s) \/ i = Len(s) + 1
  BY <1>1
<1>3. \A i \in 1 .. Len(s) : i \in 1 .. Len(s) + 1
  BY <1>1
<1>4. Len(s) + 1 \in 1 .. Len(s) + 1
  BY <1>1
<1> QED
  BY <1>1, <1>2, <1>3, <1>4 DEF ToSet, u

LEMMA ListsAppend ==
  ASSUME NEW s, NEW P, Lists(s, P), NEW n \in Nat, \A p \in P : p < n
  PROVE  Lists(Append(s, n), P \cup {n})
<1>1. Lists(<<n>>, {n})
  BY DEF Lists
<1>2. s \in Seq(Nat)
  BY DEF Lists
<1>3. Append(s, n) = s \o <<n>>
  BY <1>2, AppendIsConcat
<1> QED
  BY <1>1, <1>3, ListsConcat

(* Nothing is gathered before the first item, and an item adds itself or   *)
(* leaves what was gathered.                                               *)
LEMMA NothingGathered ==
  ASSUME NEW record, NEW items, NEW garbage
  PROVE  Gathered(NothingEncoded(record, items, garbage), items, record)
<1> DEFINE s == NothingEncoded(record, items, garbage)
<1>1. s.field = NewField(Len(items), garbage) /\ s.bytes = <<>> /\ s.present = <<>>
  BY DEF NothingEncoded
<1> HIDE DEF s
<1>2. ToSet(<<>>) = {}
  BY DEF ToSet
<1>3. Holds(s.field, ToSet(s.present))
  BY <1>1, <1>2, NewFieldHolds
<1>4. Lists(s.present, ToSet(s.present))
  BY <1>1, <1>2 DEF Lists
<1>5. Gave(<<>>, items, record) = <<>>
  BY DEF Gave
<1>6. s.bytes = Content(Gave(s.present, items, record))
  BY <1>1, <1>5, ContentEmpty
<1> QED
  BY <1>1, <1>2, <1>3, <1>4, <1>6 DEF Gathered, s

LEMMA AfterItemGathered ==
  ASSUME NEW record, InputRecord(record), NEW items, items \in Seq(ToSet(items)),
         \A k \in DOMAIN items : DescribedItem(items[k]), Fits(Len(items)),
         NEW n \in 1 .. Len(items), NEW s,
         Walked(s, n - 1, items), LoopBytes(s, record), Gathered(s, items, record)
  PROVE  Gathered(AfterItem(s, n, items[n], record), items, record)
<1> DEFINE N == Len(items)
           item == items[n]
           t == AfterItem(s, n, item, record)
           P == ToSet(s.present)
           f == s.field
<1>1. /\ N \in Nat /\ DOMAIN items = 1 .. N /\ n \in 1 .. N /\ n \in DOMAIN items /\ n \in Nat
      /\ DescribedItem(item)
  BY LenProperties
<1>2. /\ LoopState(s) /\ FieldInv(f, N) /\ (s.left # {} => f.bits = n - 1)
      /\ s.left \subseteq DOMAIN record.elements
  BY DEF Walked, LoopBytes
<1>3. /\ Holds(f, P) /\ Lists(s.present, P) /\ s.present \in Seq(Nat)
      /\ \A k \in P : k \in DOMAIN items /\ Given(items[k], DOMAIN record.elements)
      /\ s.bytes = Content(Gave(s.present, items, record))
  BY DEF Gathered, Lists
<1> SUFFICES Gathered(t, items, record)
  OBVIOUS
<1>4. CASE s.left = {}
  <2>1. t = s
    BY <1>4 DEF AfterItem
  <2> QED
    BY <2>1
<1>5. CASE s.left # {} /\ Given(item, s.left)
  <2>1. t = [s EXCEPT !.field = Visited(s.field, TRUE),
                      !.left = @ \ ToSet(item.elements),
                      !.bytes = @ \o ItemBytes(item, record),
                      !.present = Append(@, n)]
    BY <1>5 DEF AfterItem
  <2>2. /\ t.field = Visited(f, TRUE) /\ t.present = Append(s.present, n)
        /\ t.bytes = s.bytes \o ItemBytes(item, record)
    BY <1>2, <2>1 DEF LoopState
  <2> HIDE DEF t
  <2>3. f.bits = n - 1 /\ f.bits < N /\ f.bits + 1 = n
    BY <1>1, <1>2, <1>5
  <2>4. ToSet(t.present) = P \cup {n}
    BY <1>1, <1>3, <2>2, AppendSet
  <2>5. Holds(t.field, P \cup {n})
    <3> DEFINE Q == P \cup {n}
    <3>1. Q = (IF TRUE THEN P \cup {f.bits + 1} ELSE P) /\ TRUE \in BOOLEAN
      BY <2>3
    <3> HIDE DEF Q, P, f
    <3> QED
      BY <1>1, <1>2, <1>3, <2>2, <2>3, <3>1, VisitedHolds DEF Q
  <2>6. Lists(t.present, P \cup {n})
    <3> DEFINE p == s.present
               q == t.present
    <3>1. \A m \in P : m < n
      BY <1>1, <1>3, <2>3 DEF Holds
    <3>2. q = Append(p, n) /\ Lists(p, P) /\ n \in Nat
      BY <1>1, <1>3, <2>2
    <3> HIDE DEF P, p, q
    <3>3. Lists(Append(p, n), P \cup {n})
      BY ONLY <3>1, <3>2, ListsAppend
    <3>4. Lists(q, P \cup {n})
      BY <3>2, <3>3
    <3> QED
      BY <3>4 DEF q
  <2>7. Given(item, DOMAIN record.elements)
    BY <1>2, <1>5 DEF Given
  <2>8. t.bytes = Content(Gave(t.present, items, record))
    <3>1. ItemSeq(Gave(s.present, items, record))
      BY <1>3, GaveItems
    <3>2. ItemBytes(item, record) \in Seq(Nat)
      BY <1>1, <2>7, ItemIsBytes DEF Given
    <3>3. Gave(t.present, items, record)
            = Append(Gave(s.present, items, record), <<item.name, ItemBytes(item, record)>>)
      <4>1. s.present \in Seq(Nat) /\ n \in Nat
        BY <1>1, <1>3
      <4>2. t.present = Append(s.present, n)
        BY <2>2
      <4>3. Gave(Append(s.present, n), items, record)
              = Append(Gave(s.present, items, record), <<items[n].name, ItemBytes(items[n], record)>>)
        BY <4>1, GaveAppend
      <4> HIDE DEF item
      <4> QED
        BY <4>2, <4>3 DEF item
    <3> HIDE DEF item
    <3> QED
      BY <1>3, <2>2, <3>1, <3>2, <3>3, ContentAppend
  <2> HIDE DEF P
  <2> QED
    BY <1>1, <1>3, <2>4, <2>5, <2>6, <2>7, <2>8 DEF Gathered
<1>6. CASE s.left # {} /\ ~ Given(item, s.left)
  <2>1. t = [s EXCEPT !.field = Visited(s.field, FALSE),
                      !.missing = IF Reported(item) THEN Append(@, item.name) ELSE @]
    BY <1>6 DEF AfterItem
  <2>2. /\ t.field = Visited(f, FALSE) /\ t.present = s.present /\ t.bytes = s.bytes
    BY <1>2, <2>1 DEF LoopState
  <2> HIDE DEF t
  <2>3. f.bits = n - 1 /\ f.bits < N /\ f.bits + 1 = n
    BY <1>1, <1>2, <1>6
  <2>4. Holds(t.field, P)
    <3>1. P = (IF FALSE THEN P \cup {f.bits + 1} ELSE P) /\ FALSE \in BOOLEAN
      OBVIOUS
    <3> HIDE DEF P, f
    <3> QED
      BY <1>1, <1>2, <1>3, <2>2, <2>3, <3>1, VisitedHolds
  <2> QED
    BY <1>3, <2>2, <2>4 DEF Gathered
<1> QED
  BY <1>4, <1>5, <1>6

LEMMA ItemLoopGathered ==
  ASSUME NEW record, InputRecord(record), NEW items, items \in Seq(ToSet(items)),
         \A item \in ToSet(items) : DescribedItem(item), Fits(Len(items)),
         NEW garbage \in 0 .. 255
  PROVE  Gathered(ItemLoop(record, items, garbage), items, record)
<1> DEFINE N == Len(items)
           Good(s, n) == Walked(s, n, items) /\ LoopBytes(s, record) /\ Gathered(s, items, record)
<1>1. N \in Nat /\ DOMAIN items = 1 .. N
  BY LenProperties
<1>2. PICK f : /\ IsLoop(f, N, record, items, garbage)
               /\ ItemLoop(record, items, garbage) = f[N]
  BY <1>1, LoopOfItems
<1>3. /\ f[0] = NothingEncoded(record, items, garbage)
      /\ \A n \in 1 .. N : f[n] = AfterItem(f[n - 1], n, items[n], record)
  <2>1. \A n \in 0 .. N : f[n] = IF n = 0 THEN NothingEncoded(record, items, garbage)
                                          ELSE AfterItem(f[n - 1], n, items[n], record)
    BY <1>2 DEF IsLoop
  <2>2. 0 \in 0 .. N /\ \A n \in 1 .. N : n \in 0 .. N /\ n # 0
    BY <1>1
  <2> QED
    BY <2>1, <2>2
<1>4. \A k \in DOMAIN items : DescribedItem(items[k]) /\ items[k] \in ToSet(items)
  BY DEF ToSet
<1> DEFINE No == {n \in 0 .. N : ~ Good(f[n], n)}
<1>5. ASSUME No # {} PROVE FALSE
  <2>1. No \subseteq Nat
    OBVIOUS
  <2>2. PICK n \in No : \A k \in No : n <= k
    <3> HIDE DEF No
    <3> QED
      BY <1>5, <2>1, LeastElement
  <2>3. n # 0
    <3> DEFINE s == NothingEncoded(record, items, garbage)
    <3>1. LoopState(s) /\ s.bytes = <<>> /\ s.left = DOMAIN record.elements
      BY DEF NothingEncoded, LoopState
    <3>2. Walked(s, 0, items)
      BY NothingEncodedWalked
    <3>3. Gathered(s, items, record)
      BY NothingGathered
    <3> HIDE DEF s
    <3>4. <<>> \in Seq(Nat)
      OBVIOUS
    <3>5. LoopBytes(s, record)
      BY <3>1, <3>4 DEF LoopBytes
    <3> QED
      BY <1>3, <3>2, <3>3, <3>5 DEF s
  <2>4. n \in 1 .. N /\ n - 1 \in 0 .. N /\ ~ (n <= n - 1)
    BY <1>1, <2>3
  <2>5. Good(f[n - 1], n - 1)
    BY <2>2, <2>4
  <2>6. f[n] = AfterItem(f[n - 1], n, items[n], record) /\ DescribedItem(items[n])
    BY <1>1, <1>3, <1>4, <2>4
  <2>7. Walked(f[n], n, items)
    BY <2>4, <2>5, <2>6, AfterItemWalked
  <2>8. LoopBytes(f[n], record)
    BY <2>5, <2>6, AfterItemBytes
  <2>9. Gathered(f[n], items, record)
    BY <1>4, <2>4, <2>5, <2>6, AfterItemGathered
  <2> QED
    BY <2>7, <2>8, <2>9
<1>6. N \in 0 .. N
  BY <1>1
<1> QED
  BY <1>2, <1>5, <1>6

-----------------------------------------------------------------------------
(* The bytes of an item's elements, and when they are as many as its       *)
(* description says: those of a repeated item make whole repetitions, less *)
(* than 256 of them; those of an extended item leave its FX bits clear.    *)
ElementBytes(item, record) ==
  FlattenSeq([e \in DOMAIN item.elements |-> record.elements[item.elements[e]]])

WellFormed(item, content) ==
  /\ item.kind = "Fixed" => Len(content) = item.length
  /\ item.kind = "Repetitive" =>
       Len(content) % item.length = 0 /\ Len(content) \div item.length < 256
  /\ item.kind = "Explicit" => Len(content) < 255
  /\ item.kind = "Extended" =>
       /\ item.length > 0 /\ Len(content) >= item.length
       /\ \A b \in DOMAIN content : content[b] % 2 = 0

LEMMA Headed ==
  ASSUME NEW S, NEW content \in Seq(S), NEW head \in S
  PROVE  /\ <<head>> \o content \in Seq(S)
         /\ Len(<<head>> \o content) = Len(content) + 1
         /\ (<<head>> \o content)[1] = head
<1> DEFINE h == <<head>>
<1>1. h \in Seq(S) /\ Len(h) = 1 /\ h[1] = head
  OBVIOUS
<1> HIDE DEF h
<1>2. h \o content \in Seq(S) /\ Len(h \o content) = Len(h) + Len(content)
  BY <1>1, ConcatProperties
<1>3. Len(content) \in Nat
  BY LenProperties
<1>4. 1 \in 1 .. Len(h) + Len(content) /\ 1 <= Len(h)
  BY <1>1, <1>3
<1>5. (h \o content)[1] = h[1]
  BY <1>1, <1>4, ConcatProperties
<1>6. Len(h) + Len(content) = Len(content) + 1
  BY <1>1, <1>3
<1> QED
  BY <1>1, <1>2, <1>5, <1>6 DEF h

LEMMA Repetitions ==
  ASSUME NEW n \in Nat, NEW m \in Nat, m > 0, n % m = 0
  PROVE  (n \div m) \in Nat /\ (n \div m) * m = n
OBVIOUS

LEMMA WithFX ==
  ASSUME NEW x \in 0 .. 255, x % 2 = 0
  PROVE  x + 1 \in 0 .. 255 /\ (x + 1) % 2 = 1
OBVIOUS

(* The bytes of a well-formed item, and that the parser takes as many.     *)
LEMMA WrappedInBytes ==
  ASSUME NEW item, DescribedItem(item), NEW content \in Seq(0 .. 255), WellFormed(item, content)
  PROVE  Wrapped(item, content) \in Seq(0 .. 255)
<1>1. Len(content) \in Nat /\ DOMAIN content = 1 .. Len(content)
  BY LenProperties
<1>2. CASE item.kind = "Repetitive"
  <2> DEFINE q == Len(content) \div item.length
  <2>1. Wrapped(item, content) = <<q>> \o content
    BY <1>2 DEF Wrapped
  <2>2. item.length \in Nat /\ item.length > 0 /\ Len(content) % item.length = 0 /\ q < 256
    BY <1>2 DEF DescribedItem, WellFormed
  <2>3. q \in Nat
    BY <1>1, <2>2, Repetitions
  <2> HIDE DEF q
  <2>4. q \in 0 .. 255
    BY <2>2, <2>3
  <2> QED
    BY <2>1, <2>4, Headed
<1>3. CASE item.kind = "Explicit"
  <2>1. Wrapped(item, content) = <<Len(content) + 1>> \o content
    BY <1>3 DEF Wrapped
  <2>2. Len(content) < 255
    BY <1>3, Zenon DEF WellFormed
  <2>3. Len(content) + 1 \in 0 .. 255
    <3> DEFINE n == Len(content)
    <3>1. n \in Nat /\ n < 255
      BY <1>1, <2>2
    <3> HIDE DEF n
    <3>2. n + 1 \in 0 .. 255
      BY <3>1
    <3> QED
      BY <3>2 DEF n
  <2> QED
    BY <2>1, <2>3, Headed
<1>4. CASE item.kind = "Extended"
  <2> DEFINE value(b) == content[b] + (IF b < Len(content) THEN 1 ELSE 0)
  <2>1. Wrapped(item, content) = [b \in 1 .. Len(content) |-> value(b)]
    BY <1>1, <1>4 DEF Wrapped
  <2>2. \A b \in 1 .. Len(content) : content[b] \in 0 .. 255 /\ content[b] % 2 = 0
    BY <1>1, <1>4, ElementOfSeq DEF WellFormed
  <2>3. ASSUME NEW b \in 1 .. Len(content)
        PROVE  value(b) \in 0 .. 255
    <3> DEFINE x == content[b]
    <3>1. x \in 0 .. 255 /\ x % 2 = 0
      BY <2>2
    <3>2. value(b) = x + 1 \/ value(b) = x + 0
      OBVIOUS
    <3> HIDE DEF x, value
    <3>3. x + 1 \in 0 .. 255 /\ x + 0 \in 0 .. 255
      BY <3>1, WithFX
    <3> QED
      BY <3>2, <3>3, Zenon
  <2> HIDE DEF value
  <2> QED
    BY <1>1, <2>1, <2>3
<1>5. CASE item.kind = "Fixed"
  <2>1. Wrapped(item, content) = content
    BY <1>5 DEF Wrapped
  <2> QED
    BY <2>1
<1> QED
  BY <1>2, <1>3, <1>4, <1>5 DEF DescribedItem, Kinds

LEMMA UpStops ==
  ASSUME NEW odd, NEW f, IsUp(f, odd, 0),
         NEW n \in Nat, NEW m \in Nat, n <= m, m \notin odd,
         \A k \in Nat : k >= n /\ k < m => k \in odd
  PROVE  f[n] = m
<1>1. ASSUME NEW c \in Nat, c = 0
      PROVE  f[n] = m + c
  <2>1. IsUp(f, odd, c) /\ m >= n
    BY <1>1
  <2> QED
    BY <2>1, UpReaches
<1> QED
  BY <1>1

LEMMA ItemIsRead ==
  ASSUME SourceInv, NEW item, DescribedItem(item), item.kind = "Explicit" => item.name \in Fields,
         NEW content \in Seq(0 .. 255), WellFormed(item, content), NEW index \in Nat, index > 0,
         NEW w, w = Wrapped(item, content), \A b \in 1 .. Len(w) : Byte[index + b - 1] = w[b]
  PROVE  ItemLength(item, index) = Len(w)
<1>1. /\ Len(content) \in Nat /\ DOMAIN content = 1 .. Len(content)
      /\ item.length \in Nat /\ index + 1 - 1 = index /\ Ends(Byte)
  BY LenProperties, ByteFacts DEF DescribedItem
<1>2. CASE item.kind = "Repetitive"
  <2> DEFINE q == Len(content) \div item.length
  <2>1. w = <<q>> \o content
    BY <1>2 DEF Wrapped
  <2>2. item.length > 0 /\ Len(content) % item.length = 0
    BY <1>2 DEF DescribedItem, WellFormed
  <2>3. q \in Nat /\ q * item.length = Len(content)
    BY <1>1, <2>2, Repetitions
  <2>4. w \in Seq(0 .. 255)
    BY WrappedInBytes
  <2> HIDE DEF q
  <2>5. content \in Seq(Nat)
    BY NatSeq
  <2>6. Len(w) = Len(content) + 1 /\ w[1] = q
    BY <2>1, <2>3, <2>5, Headed
  <2>7. 1 \in 1 .. Len(w)
    BY <1>1, <2>6
  <2>8. Byte[index] = q
    BY <1>1, <2>6, <2>7
  <2>9. ItemLength(item, index) = Byte[index] * item.length + 1
    BY <1>2 DEF ItemLength
  <2> QED
    BY <2>3, <2>6, <2>8, <2>9
<1>3. CASE item.kind = "Explicit"
  <2>1. w = <<Len(content) + 1>> \o content
    BY <1>3 DEF Wrapped
  <2>2. content \in Seq(Nat) /\ Len(content) + 1 \in Nat
    BY <1>1, NatSeq
  <2>3. Len(w) = Len(content) + 1 /\ w[1] = Len(content) + 1
    BY <2>1, <2>2, Headed
  <2>4. 1 \in 1 .. Len(w)
    BY <1>1, <2>3
  <2>5. Byte[index] = Len(content) + 1
    BY <1>1, <2>3, <2>4
  <2>6. ItemLength(item, index) = Byte[index]
    BY <1>3 DEF ItemLength
  <2> QED
    BY <2>3, <2>5, <2>6
<1>4. CASE item.kind = "Extended"
  <2> DEFINE value(b) == content[b] + (IF b < Len(content) THEN 1 ELSE 0)
             m == Len(content)
             odd == ItemOdd(index)
  <2>1. w = [b \in 1 .. m |-> value(b)]
    BY <1>1, <1>4 DEF Wrapped
  <2>2. \A b \in 1 .. m : content[b] \in 0 .. 255 /\ content[b] % 2 = 0
    BY <1>1, <1>4, ElementOfSeq DEF WellFormed
  <2>3. item.length > 0 /\ item.length <= m /\ m \in Nat
    BY <1>1, <1>4 DEF WellFormed
  <2>4. \A b \in 1 .. m : b < m => value(b) % 2 = 1
    BY <2>2, WithFX
  <2>5. value(m) % 2 = 0
    <3> DEFINE x == content[m]
    <3>1. m \in 1 .. m /\ ~ (m < m)
      BY <1>1, <2>3
    <3>2. x \in 0 .. 255 /\ x % 2 = 0
      BY <2>2, <3>1
    <3>3. value(m) = x + 0
      BY <3>1
    <3> HIDE DEF x, value
    <3>4. x + 0 = x
      BY <3>2
    <3> QED
      BY <3>2, <3>3, <3>4
  <2> HIDE DEF value, m, odd
  <2>6. Len(w) = m
    BY <2>1, <2>3
  <2>7. \A b \in 1 .. m : Byte[index + b - 1] = value(b)
    BY <2>1, <2>6
  <2>8. m \notin odd
    <3>1. m \in 1 .. m
      BY <1>1, <2>3
    <3> QED
      BY <2>5, <2>7, <3>1 DEF odd, ItemOdd
  <2>9. \A k \in Nat : k >= item.length /\ k < m => k \in odd
    <3>1. \A k \in Nat : k >= item.length /\ k < m => k \in 1 .. m
      BY <1>1, <2>3
    <3> QED
      BY <2>4, <2>7, <3>1 DEF odd, ItemOdd
  <2>10. PICK end : IsUp(end, odd, 0) /\ ExtendedLength(item, index) = end[item.length]
    BY <1>1, ExtendedLengthUp DEF odd
  <2>11. end[item.length] = m
    BY <1>1, <2>3, <2>8, <2>9, <2>10, UpStops
  <2>12. ItemLength(item, index) = ExtendedLength(item, index)
    BY <1>4 DEF ItemLength
  <2> QED
    BY <2>6, <2>10, <2>11, <2>12
<1>5. CASE item.kind = "Fixed"
  <2>1. w = content /\ Len(content) = item.length
    BY <1>5 DEF Wrapped, WellFormed
  <2>2. ItemLength(item, index) = item.length
    BY <1>5 DEF ItemLength
  <2> QED
    BY <2>1, <2>2
<1> QED
  BY <1>2, <1>3, <1>4, <1>5 DEF DescribedItem, Kinds

-----------------------------------------------------------------------------
(* Where the pieces of a sequence lie.                                     *)
LEMMA PiecesAppend ==
  ASSUME NEW t, NEW n \in Nat
  PROVE  Pieces(t, n + 1) = Append(Pieces(t, n), t[n + 1])
<1> DEFINE T == {t[b] : b \in Nat}
           p == Pieces(t, n)
           q == Pieces(t, n + 1)
           e == t[n + 1]
           a == Append(p, e)
<1>1. p \in Seq(T) /\ Len(p) = n /\ \A b \in 1 .. n : p[b] = t[b]
  BY DEF Pieces
<1>2. q \in Seq(T) /\ Len(q) = n + 1 /\ \A b \in 1 .. n + 1 : q[b] = t[b]
  BY DEF Pieces
<1>3. e \in T
  OBVIOUS
<1> HIDE DEF p, q, e, T
<1>4. a \in Seq(T) /\ Len(a) = n + 1 /\ a[n + 1] = e /\ \A b \in 1 .. n : a[b] = p[b]
  BY <1>1, <1>3, AppendProperties
<1> HIDE DEF a
<1>5. ASSUME NEW b \in 1 .. n + 1
      PROVE  a[b] = q[b]
  <2>1. CASE b = n + 1
    BY <1>2, <1>4, <2>1 DEF e
  <2>2. CASE b # n + 1
    <3>1. b \in 1 .. n
      BY <2>2
    <3> QED
      BY <1>1, <1>2, <1>4, <3>1
  <2> QED
    BY <2>1, <2>2
<1>6. a = q
  BY <1>2, <1>4, <1>5, SeqEqual
<1> QED
  BY <1>6 DEF a, p, q, e

LEMMA Prefixed ==
  ASSUME NEW S, NEW u \in Seq(S), NEW v \in Seq(S)
  PROVE  /\ u \o v \in Seq(S) /\ Len(u \o v) = Len(u) + Len(v)
         /\ \A j \in 1 .. Len(u) : (u \o v)[j] = u[j]
         /\ \A j \in 1 .. Len(v) : (u \o v)[Len(u) + j] = v[j]
<1>1. Len(u) \in Nat /\ Len(v) \in Nat
  BY LenProperties
<1>2. /\ u \o v \in Seq(S) /\ Len(u \o v) = Len(u) + Len(v)
      /\ \A i \in 1 .. Len(u) + Len(v) :
           (u \o v)[i] = IF i <= Len(u) THEN u[i] ELSE v[i - Len(u)]
  BY ConcatProperties
<1>3. \A j \in 1 .. Len(u) : j \in 1 .. Len(u) + Len(v) /\ j <= Len(u)
  BY <1>1
<1>4. \A j \in 1 .. Len(v) :
        Len(u) + j \in 1 .. Len(u) + Len(v) /\ ~ (Len(u) + j <= Len(u)) /\ Len(u) + j - Len(u) = j
  BY <1>1
<1> QED
  BY <1>2, <1>3, <1>4

PieceLies(t, N, n) ==
  LET before == FlattenSeq(Pieces(t, n - 1))
      upTo == FlattenSeq(Pieces(t, n))
      whole == FlattenSeq(Pieces(t, N))
  IN /\ Len(upTo) = Len(before) + Len(t[n]) /\ Len(upTo) <= Len(whole)
     /\ Len(before) \in Nat /\ Len(t[n]) \in Nat
     /\ \A j \in 1 .. Len(t[n]) : whole[Len(before) + j] = t[n][j]

LEMMA PieceAt ==
  ASSUME NEW S, NEW t, NEW N \in Nat, \A b \in 1 .. N : t[b] \in Seq(S), NEW n \in 1 .. N
  PROVE  PieceLies(t, N, n)
<1> DEFINE F == [m \in 0 .. N |-> FlattenSeq(Pieces(t, m))]
           o == Len(F[n - 1])
           l == Len(t[n])
           Good(m) == /\ o + l <= Len(F[m])
                      /\ \A j \in 1 .. l : F[m][o + j] = t[n][j]
<1>1. /\ \A m \in 0 .. N : F[m] = FlattenSeq(Pieces(t, m)) /\ F[m] \in Seq(S)
      /\ \A m \in 1 .. N : F[m] = F[m - 1] \o t[m]
  <2>1. \A m \in 0 .. N : F[m] = FlattenSeq(Pieces(t, m))
    OBVIOUS
  <2>2. \A m \in 0 .. N : FlattenSeq(Pieces(t, m)) \in Seq(S)
    BY PiecesFlat
  <2>3. \A m \in 1 .. N : FlattenSeq(Pieces(t, m)) = FlattenSeq(Pieces(t, m - 1)) \o t[m]
    BY PiecesFlat
  <2>4. \A m \in 1 .. N : m \in 0 .. N /\ m - 1 \in 0 .. N
    OBVIOUS
  <2> HIDE DEF F
  <2> QED
    BY <2>1, <2>2, <2>3, <2>4
<1> HIDE DEF F
<1>2. ASSUME NEW m \in 1 .. N
      PROVE  /\ Len(F[m]) = Len(F[m - 1]) + Len(t[m])
             /\ Len(F[m - 1]) \in Nat /\ Len(t[m]) \in Nat
             /\ \A j \in 1 .. Len(F[m - 1]) : F[m][j] = F[m - 1][j]
             /\ \A j \in 1 .. Len(t[m]) : F[m][Len(F[m - 1]) + j] = t[m][j]
  <2>1. m - 1 \in 0 .. N /\ F[m - 1] \in Seq(S) /\ t[m] \in Seq(S) /\ F[m] = F[m - 1] \o t[m]
    <3>1. m - 1 \in 0 .. N /\ m \in 1 .. N
      OBVIOUS
    <3>2. t[m] \in Seq(S)
      OBVIOUS
    <3> QED
      BY <1>1, <3>1, <3>2
  <2> DEFINE u == F[m - 1]
             v == t[m]
  <2>2. u \in Seq(S) /\ v \in Seq(S) /\ F[m] = u \o v
    BY <2>1
  <2> HIDE DEF u, v
  <2>3. Len(u) \in Nat /\ Len(v) \in Nat
    BY <2>2, LenProperties
  <2>4. /\ Len(u \o v) = Len(u) + Len(v)
        /\ \A j \in 1 .. Len(u) : (u \o v)[j] = u[j]
        /\ \A j \in 1 .. Len(v) : (u \o v)[Len(u) + j] = v[j]
    BY <2>2, Prefixed
  <2> QED
    BY <2>2, <2>3, <2>4 DEF u, v
<1>3. o \in Nat /\ l \in Nat /\ Len(F[n]) = o + l
  BY <1>2
<1>4. Good(n)
  <2>1. \A j \in 1 .. l : F[n][o + j] = t[n][j]
    BY <1>2
  <2> QED
    BY <1>3, <2>1
<1>5. ASSUME NEW m \in n + 1 .. N, Good(m - 1)
      PROVE  Good(m)
  <2>1. m \in 1 .. N
    OBVIOUS
  <2>2. /\ Len(F[m]) = Len(F[m - 1]) + Len(t[m])
        /\ Len(F[m - 1]) \in Nat /\ Len(t[m]) \in Nat
        /\ \A j \in 1 .. Len(F[m - 1]) : F[m][j] = F[m - 1][j]
    BY <1>2, <2>1
  <2>3. o + l <= Len(F[m - 1]) /\ \A j \in 1 .. l : F[m - 1][o + j] = t[n][j]
    BY <1>5
  <2> HIDE DEF o, l
  <2>4. \A j \in 1 .. l : o + j \in 1 .. Len(F[m - 1])
    BY <1>3, <2>2, <2>3
  <2>5. \A j \in 1 .. l : F[m][o + j] = t[n][j]
    BY <2>2, <2>3, <2>4
  <2>6. o + l <= Len(F[m])
    <3>1. Len(t[m]) \in Nat /\ o + l \in Nat
      BY <1>2, <1>3, <2>1
    <3> DEFINE x == o + l
               y == Len(F[m - 1])
               z == Len(t[m])
    <3>2. x \in Nat /\ y \in Nat /\ z \in Nat /\ x <= y /\ Len(F[m]) = y + z
      BY <2>2, <2>3, <3>1
    <3> HIDE DEF x, y, z
    <3>3. x <= Len(F[m])
      BY <3>2
    <3> QED
      BY <3>3 DEF x
  <2> QED
    BY <2>5, <2>6
<1>6. Good(N)
  <2> HIDE DEF Good
  <2> DEFINE No == {m \in n .. N : ~ Good(m)}
  <2>1. ASSUME No # {} PROVE FALSE
    <3>1. No \subseteq Nat
      OBVIOUS
    <3>2. PICK m \in No : \A k \in No : m <= k
      <4> HIDE DEF No
      <4> QED
        BY <2>1, <3>1, LeastElement
    <3>3. m # n
      BY <1>4
    <3>4. m \in n + 1 .. N /\ m - 1 \in n .. N /\ ~ (m <= m - 1)
      BY <3>3
    <3>5. Good(m - 1)
      BY <3>2, <3>4
    <3> QED
      BY <1>5, <3>4, <3>5
  <2>2. N \in n .. N
    OBVIOUS
  <2> QED
    BY <2>1, <2>2
<1>7. n \in 0 .. N /\ n - 1 \in 0 .. N /\ N \in 0 .. N
  OBVIOUS
<1>8. /\ F[n] = FlattenSeq(Pieces(t, n)) /\ F[n - 1] = FlattenSeq(Pieces(t, n - 1))
      /\ F[N] = FlattenSeq(Pieces(t, N))
  BY <1>1, <1>7
<1>9. o + l <= Len(F[N]) /\ \A j \in 1 .. l : F[N][o + j] = t[n][j]
  BY <1>6
<1> QED
  BY <1>3, <1>8, <1>9 DEF PieceLies

-----------------------------------------------------------------------------
(* A datablock as the encoder makes it: CAT and LEN, a field specification *)
(* that announces the items, and the items.                                *)
ByteRecord(r) ==
  r.category \in 0 .. 255 /\ \A e \in DOMAIN r.elements : r.elements[e] \in Seq(0 .. 255)

WellEncoded(s, F) ==
  /\ s.key \in DOMAIN Descriptions /\ s.key # NoDescription
  /\ ByteRecord(s.record) /\ s.present # <<>>
  /\ IsFspec(F, ToSet(s.present)) /\ Lists(s.present, ToSet(s.present))
  /\ \A k \in ToSet(s.present) :
       /\ k \in DOMAIN SentItems(s)
       /\ Given(SentItems(s)[k], DOMAIN s.record.elements)
       /\ WellFormed(SentItems(s)[k], ElementBytes(SentItems(s)[k], s.record))
  /\ s.datablock = CatAndLength(s.record.category, Len(F) + Len(Content(ItemsOf(s))) + 3)
                     \o (F \o Content(ItemsOf(s)))
  /\ Len(F) + Len(Content(ItemsOf(s))) + 3 < 65536

LEMMA ItemInBytes ==
  ASSUME NEW item, DescribedItem(item), NEW record, ByteRecord(record),
         ToSet(item.elements) \subseteq DOMAIN record.elements
  PROVE  ElementBytes(item, record) \in Seq(0 .. 255)
<1> DEFINE names == item.elements
           s == [e \in DOMAIN names |-> record.elements[names[e]]]
<1>1. names \in Seq(ToSet(names)) /\ Len(names) \in Nat /\ DOMAIN names = 1 .. Len(names)
  BY LenProperties DEF DescribedItem
<1>2. \A e \in DOMAIN names : names[e] \in DOMAIN record.elements
  BY DEF ToSet
<1>3. \A e \in DOMAIN names : record.elements[names[e]] \in Seq(0 .. 255)
  BY <1>2 DEF ByteRecord
<1>4. s \in Seq(Seq(0 .. 255))
  BY <1>1, <1>3
<1> HIDE DEF s
<1>5. FlattenSeq(s) \in Seq(0 .. 255)
  BY <1>4, FlattenIn
<1> QED
  BY <1>5 DEF ElementBytes, s

LEMMA DescribedItemAt ==
  ASSUME NEW k \in DOMAIN Descriptions, NEW n \in DOMAIN Items(k)
  PROVE  DescribedItem(Items(k)[n])
<1>1. Items(k)[n] \in ToSet(Items(k))
  BY DEF ToSet
<1> QED
  BY <1>1, ItemsAssumption DEF DescribedItem, Items

(* Its items, one by one.                                                  *)
LEMMA SentItem ==
  ASSUME NEW s, NEW F, WellEncoded(s, F), NEW n \in 1 .. Len(s.present),
         NEW item, item = SentItems(s)[s.present[n]]
  PROVE  /\ ItemsOf(s)[n] = <<item.name, Wrapped(item, ElementBytes(item, s.record))>>
         /\ s.present[n] \in DOMAIN SentItems(s)
         /\ DescribedItem(item)
         /\ item.kind = "Explicit" => item.name \in Fields
         /\ WellFormed(item, ElementBytes(item, s.record))
         /\ ElementBytes(item, s.record) \in Seq(0 .. 255)
         /\ ItemsOf(s)[n][2] \in Seq(0 .. 255)
<1>1. s.present \in Seq(Nat) /\ DOMAIN s.present = 1 .. Len(s.present)
  BY LenProperties DEF WellEncoded, Lists
<1>2. s.present[n] \in ToSet(s.present)
  BY <1>1 DEF ToSet
<1>3. /\ s.present[n] \in DOMAIN SentItems(s)
      /\ Given(item, DOMAIN s.record.elements)
      /\ WellFormed(item, ElementBytes(item, s.record))
      /\ s.key \in DOMAIN Descriptions /\ ByteRecord(s.record)
  BY <1>2 DEF WellEncoded
<1>4. DescribedItem(item)
  BY <1>3, DescribedItemAt DEF SentItems, Items
<1>5. ElementBytes(item, s.record) \in Seq(0 .. 255)
  BY <1>3, <1>4, ItemInBytes DEF Given
<1>6. ItemsOf(s)[n] = <<item.name, Wrapped(item, ElementBytes(item, s.record))>>
  BY <1>1 DEF ItemsOf, ItemBytes, ElementBytes
<1>7. ItemsOf(s)[n][2] \in Seq(0 .. 255)
  BY <1>3, <1>4, <1>5, <1>6, WrappedInBytes
<1>8. item.kind = "Explicit" => item.name \in Fields
  BY <1>3 DEF Given
<1> QED
  BY <1>3, <1>4, <1>5, <1>6, <1>7, <1>8

(* The items behind one another.                                           *)
ItemList(g, N) ==
  /\ N \in Nat /\ g = [n \in 1 .. N |-> g[n]]
  /\ \A n \in 1 .. N : g[n][2] \in Seq(0 .. 255)

ContentLies(g, n) ==
  LET before == Content(Pieces(g, n - 1)) IN
  /\ Len(Content(Pieces(g, n))) = Len(before) + Len(g[n][2])
  /\ Len(Content(Pieces(g, n))) <= Len(Content(g))
  /\ Len(before) \in Nat /\ Len(g[n][2]) \in Nat
  /\ \A j \in 1 .. Len(g[n][2]) : Content(g)[Len(before) + j] = g[n][2][j]

LEMMA ContentPieces ==
  ASSUME NEW g, NEW N, ItemList(g, N)
  PROVE  /\ Pieces(g, N) = g
         /\ Pieces(g, 0) = <<>> /\ Content(Pieces(g, 0)) = <<>>
         /\ \A n \in 0 .. N : Content(Pieces(g, n)) \in Seq(0 .. 255)
         /\ \A n \in 1 .. N : ContentLies(g, n)
<1> DEFINE S == 0 .. 255
<1>0. N \in Nat /\ g = [n \in 1 .. N |-> g[n]] /\ \A n \in 1 .. N : g[n][2] \in Seq(S)
  BY DEF ItemList
<1> HIDE DEF S
<1> DEFINE t == [n \in 1 .. N |-> g[n][2]]
<1>1. (\A b \in 1 .. N : t[b] \in Seq(S)) /\ (\A b \in 1 .. N : t[b] = g[b][2])
  BY <1>0
<1>2. ASSUME NEW n \in 0 .. N
      PROVE  Content(Pieces(g, n)) = FlattenSeq(Pieces(t, n))
  <2>1. DOMAIN Pieces(g, n) = 1 .. n /\ \A i \in 1 .. n : i \in 1 .. N /\ Pieces(g, n)[i] = g[i]
    BY <1>0 DEF Pieces
  <2>2. [i \in DOMAIN Pieces(g, n) |-> Pieces(g, n)[i][2]] = [i \in 1 .. n |-> t[i]]
    BY <2>1
  <2> QED
    BY <2>2 DEF Content, Pieces
<1> HIDE DEF t
<1>3. Pieces(g, N) = g
  BY <1>0 DEF Pieces
<1>4. Pieces(g, 0) = <<>>
  <2>1. 1 .. 0 = {}
    OBVIOUS
  <2> QED
    BY <2>1 DEF Pieces
<1>5. \A n \in 0 .. N : Content(Pieces(g, n)) \in Seq(S)
  <2>1. \A b \in 1 .. N : t[b] \in Seq(S)
    BY <1>1
  <2>2. \A n \in 0 .. N : Pieces(t, n) \in Seq(Seq(S)) /\ FlattenSeq(Pieces(t, n)) \in Seq(S)
    BY <1>0, <2>1, PiecesFlat, Zenon
  <2> QED
    BY <1>2, <2>2
<1>6. ASSUME NEW n \in 1 .. N
      PROVE  ContentLies(g, n)
  <2>1. n \in 0 .. N /\ n - 1 \in 0 .. N /\ N \in 0 .. N
    BY <1>0
  <2>2. /\ Content(Pieces(g, n)) = FlattenSeq(Pieces(t, n))
        /\ Content(Pieces(g, n - 1)) = FlattenSeq(Pieces(t, n - 1))
        /\ Content(g) = FlattenSeq(Pieces(t, N))
    BY <1>2, <1>3, <2>1
  <2>3. t[n] = g[n][2]
    BY <1>1
  <2>4. PieceLies(t, N, n)
    <3>1. \A b \in 1 .. N : t[b] \in Seq(S)
      BY <1>1
    <3> QED
      BY <1>0, <3>1, PieceAt
  <2> QED
    BY <2>2, <2>3, <2>4 DEF PieceLies, ContentLies
<1> QED
  BY <1>3, <1>4, <1>5, <1>6, ContentEmpty DEF S

(* The bytes from index at on are those of d.                              *)
Shows(d, at) == \A j \in 1 .. Len(d) : Byte[at + j - 1] = d[j]

LEMMA ShowsPart ==
  ASSUME NEW u \in Seq(0 .. 255), NEW v \in Seq(0 .. 255), NEW at \in Nat, Shows(u \o v, at)
  PROVE  Shows(u, at) /\ Shows(v, at + Len(u))
<1>1. Len(u) \in Nat /\ Len(v) \in Nat
  BY LenProperties
<1>2. /\ Len(u \o v) = Len(u) + Len(v)
      /\ \A j \in 1 .. Len(u) : (u \o v)[j] = u[j]
      /\ \A j \in 1 .. Len(v) : (u \o v)[Len(u) + j] = v[j]
  BY Prefixed
<1> DEFINE w == u \o v
           m == Len(u)
           n == Len(v)
<1>3. \A j \in 1 .. m + n : Byte[at + j - 1] = w[j]
  BY <1>2 DEF Shows
<1>4. /\ m \in Nat /\ n \in Nat
      /\ \A j \in 1 .. m : w[j] = u[j]
      /\ \A j \in 1 .. n : w[m + j] = v[j]
  BY <1>1, <1>2
<1> HIDE DEF w, m, n
<1>5. \A j \in 1 .. m : Byte[at + j - 1] = u[j]
  BY <1>3, <1>4
<1>6. ASSUME NEW j \in 1 .. n
      PROVE  Byte[at + m + j - 1] = v[j]
  <2>1. m + j \in 1 .. m + n /\ at + (m + j) - 1 = at + m + j - 1
    BY <1>4
  <2>2. Byte[at + (m + j) - 1] = w[m + j]
    BY <1>3, <2>1
  <2> QED
    BY <1>4, <2>1, <2>2
<1> QED
  BY <1>5, <1>6 DEF Shows, m, n

LEMMA BytesShown ==
  ASSUME NEW w \in Seq(Nat), NEW at \in Nat, Shows(w, at)
  PROVE  Bytes(at, Len(w)) = w
BY DEF Bytes, Shows

DatablockLies(s, F, at) ==
  /\ Byte[at] = s.record.category
  /\ 256 * Byte[at + 1] + Byte[at + 2] = Len(s.datablock)
  /\ Len(s.datablock) = 3 + Len(F) + Len(Content(ItemsOf(s)))
  /\ FieldLength(Byte, at + 3) = Len(F) /\ ReadFspec(Byte, at + 3) = s.present
  /\ Shows(Content(ItemsOf(s)), at + 3 + Len(F))
  /\ Len(F) \in Nat \ {0} /\ Len(Content(ItemsOf(s))) \in Nat

IsHead(h, category, size) ==
  h \in Seq(0 .. 255) /\ Len(h) = 3 /\ h[1] = category /\ 256 * h[2] + h[3] = size

LEMMA HeadIsRead ==
  ASSUME NEW category \in 0 .. 255, NEW size \in Nat, size < 65536
  PROVE  IsHead(CatAndLength(category, size), category, size)
<1>1. category % 256 = category
  OBVIOUS
<1> DEFINE a == size \div 256
<1>2. a \in 0 .. 255 /\ size % 256 \in 0 .. 255 /\ size = 256 * a + (size % 256)
  OBVIOUS
<1>3. a % 256 = a
  <2> HIDE DEF a
  <2> QED
    BY <1>2
<1>4. CatAndLength(category, size) = <<category, a, size % 256>>
  BY <1>1, <1>3 DEF CatAndLength
<1> HIDE DEF a
<1> DEFINE r == size % 256
<1>5. a \in 0 .. 255 /\ r \in 0 .. 255 /\ size = 256 * a + r
  BY <1>2
<1> HIDE DEF r
<1> DEFINE h == <<category, a, r>>
<1>6. h \in Seq(0 .. 255) /\ Len(h) = 3 /\ h[1] = category /\ h[2] = a /\ h[3] = r
  BY <1>5
<1> QED
  BY <1>4, <1>5, <1>6 DEF r, IsHead

LEMMA ContentIsBytes ==
  ASSUME NEW s, NEW F, WellEncoded(s, F)
  PROVE  /\ ItemList(ItemsOf(s), Len(s.present))
         /\ Content(ItemsOf(s)) \in Seq(0 .. 255)
<1>1. s.present \in Seq(Nat) /\ DOMAIN s.present = 1 .. Len(s.present) /\ Len(s.present) \in Nat
  BY LenProperties DEF WellEncoded, Lists
<1> DEFINE N == Len(s.present)
           g == ItemsOf(s)
<1>2. g = [n \in 1 .. N |-> g[n]]
  BY <1>1 DEF ItemsOf
<1>3. \A n \in 1 .. N : g[n][2] \in Seq(0 .. 255)
  BY SentItem
<1>4. N \in Nat
  BY <1>1
<1> HIDE DEF N, g
<1>5. ItemList(g, N)
  BY <1>2, <1>3, <1>4 DEF ItemList
<1>6. Pieces(g, N) = g /\ \A n \in 0 .. N : Content(Pieces(g, n)) \in Seq(0 .. 255)
  BY <1>5, ContentPieces
<1>7. Content(g) \in Seq(0 .. 255)
  BY <1>4, <1>6
<1> QED
  BY <1>5, <1>7 DEF N, g

LEMMA DatablockIsRead ==
  ASSUME SourceInv, NEW s, NEW F, WellEncoded(s, F), NEW at \in Nat, Shows(s.datablock, at)
  PROVE  DatablockLies(s, F, at)
<1> DEFINE C == Content(ItemsOf(s))
           size == Len(F) + Len(C) + 3
           h == CatAndLength(s.record.category, size)
<1>1. /\ s.record.category \in 0 .. 255 /\ size < 65536
      /\ IsFspec(F, ToSet(s.present)) /\ Lists(s.present, ToSet(s.present))
      /\ s.datablock = h \o (F \o C)
  BY DEF WellEncoded, ByteRecord
<1>2. C \in Seq(0 .. 255) /\ Len(C) \in Nat
  BY ContentIsBytes, LenProperties
<1>3. F \in Seq(0 .. 255) /\ Len(F) \in Nat \ {0}
  BY <1>1 DEF IsFspec
<1> HIDE DEF C
<1>4. h \in Seq(0 .. 255) /\ Len(h) = 3 /\ h[1] = s.record.category /\ 256 * h[2] + h[3] = size
  <2> DEFINE c == s.record.category
  <2>1. size \in Nat /\ size < 65536 /\ c \in 0 .. 255
    BY <1>1, <1>2, <1>3
  <2> HIDE DEF size, c
  <2>2. IsHead(CatAndLength(c, size), c, size)
    BY <2>1, HeadIsRead
  <2> QED
    BY <2>2 DEF c, IsHead
<1> HIDE DEF h
<1>5. F \o C \in Seq(0 .. 255) /\ Len(F \o C) = Len(F) + Len(C)
  BY <1>2, <1>3, Prefixed
<1>6. Len(s.datablock) = 3 + Len(F) + Len(C)
  <2> DEFINE x == F \o C
  <2>1. h \in Seq(0 .. 255) /\ x \in Seq(0 .. 255)
    BY <1>4, <1>5
  <2> HIDE DEF x
  <2>2. Len(h \o x) = Len(h) + Len(x)
    BY <2>1, Prefixed
  <2>3. Len(h \o (F \o C)) = Len(h) + Len(F \o C)
    BY <2>2 DEF x
  <2> QED
    BY <1>1, <1>2, <1>3, <1>4, <1>5, <2>3
<1>7. Shows(h, at) /\ Shows(F \o C, at + 3)
  <2> DEFINE x == F \o C
  <2>1. x \in Seq(0 .. 255) /\ Shows(h \o x, at)
    BY <1>1, <1>5
  <2> HIDE DEF x
  <2>2. Shows(h, at) /\ Shows(x, at + Len(h))
    BY <1>4, <2>1, ShowsPart
  <2> QED
    BY <1>4, <2>2 DEF x
<1>8. Shows(F, at + 3) /\ Shows(C, at + 3 + Len(F))
  <2>1. at + 3 \in Nat
    OBVIOUS
  <2> QED
    BY <1>2, <1>3, <1>7, <2>1, ShowsPart
<1>9. Byte[at] = h[1] /\ Byte[at + 1] = h[2] /\ Byte[at + 2] = h[3]
  <2>1. \A j \in 1 .. 3 : Byte[at + j - 1] = h[j]
    BY <1>4, <1>7 DEF Shows
  <2>2. at + 1 - 1 = at /\ at + 2 - 1 = at + 1 /\ at + 3 - 1 = at + 2
    OBVIOUS
  <2> QED
    BY <2>1, <2>2
<1>10. FieldLength(Byte, at + 3) = Len(F) /\ ReadFspec(Byte, at + 3) = s.present
  <2>1. at + 3 \in Nat /\ Ends(Byte)
    BY ByteFacts
  <2>2. \A b \in 1 .. Len(F) : Byte[at + 3 + b - 1] = F[b]
    BY <1>8 DEF Shows
  <2> QED
    BY <1>1, <2>1, <2>2, FspecIsRead
<1> QED
  BY <1>2, <1>3, <1>4, <1>6, <1>8, <1>9, <1>10 DEF DatablockLies, C, size

(* Each item is found behind the ones before it, and nothing else is taken *)
(* for it.                                                                 *)
ItemLies(s, F, at, n) ==
  LET o == at + 3 + Len(F) + Len(Content(Pieces(ItemsOf(s), n - 1)))
      item == SentItems(s)[s.present[n]]
      w == ItemsOf(s)[n][2]
  IN /\ ItemLength(item, o) = Len(w) /\ Bytes(o, Len(w)) = w
     /\ ItemsOf(s)[n] = <<item.name, w>>
     /\ Len(w) \in Nat
     /\ Pieces(ItemsOf(s), n) = Append(Pieces(ItemsOf(s), n - 1), ItemsOf(s)[n])
     /\ Len(Content(Pieces(ItemsOf(s), n))) = Len(Content(Pieces(ItemsOf(s), n - 1))) + Len(w)

LEMMA ItemIsFound ==
  ASSUME SourceInv, NEW s, NEW F, WellEncoded(s, F), NEW at \in Nat, Shows(s.datablock, at),
         NEW n \in 1 .. Len(s.present)
  PROVE  ItemLies(s, F, at, n)
<1> DEFINE g == ItemsOf(s)
           N == Len(s.present)
           item == SentItems(s)[s.present[n]]
           w == g[n][2]
           before == Len(Content(Pieces(g, n - 1)))
           base == at + 3 + Len(F)
           o == base + before
<1>1. ItemList(g, N) /\ N \in Nat /\ \A i \in 1 .. N : g[i][2] \in Seq(0 .. 255)
  BY ContentIsBytes DEF ItemList
<1>2. /\ g[n] = <<item.name, Wrapped(item, ElementBytes(item, s.record))>>
      /\ DescribedItem(item)
      /\ item.kind = "Explicit" => item.name \in Fields
      /\ WellFormed(item, ElementBytes(item, s.record))
      /\ ElementBytes(item, s.record) \in Seq(0 .. 255)
  BY SentItem
<1>3. Shows(Content(g), base) /\ Len(F) \in Nat
  BY DatablockIsRead DEF DatablockLies
<1>4. n \in 1 .. N
  OBVIOUS
<1> HIDE DEF g, N, item
<1>5. /\ Len(Content(Pieces(g, n))) = before + Len(w)
      /\ Len(Content(Pieces(g, n))) <= Len(Content(g))
      /\ before \in Nat /\ Len(w) \in Nat
      /\ \A j \in 1 .. Len(w) : Content(g)[before + j] = w[j]
  <2>1. ContentLies(g, n)
    BY <1>1, <1>4, ContentPieces
  <2> QED
    BY <2>1 DEF ContentLies
<1>6. w \in Seq(Nat) /\ w = Wrapped(item, ElementBytes(item, s.record)) /\ g[n] = <<item.name, w>>
  <2>1. w \in Seq(0 .. 255)
    BY <1>1, <1>4
  <2> QED
    BY <1>2, <2>1, NatSeq
<1> HIDE DEF w, before
<1>7. base \in Nat /\ o \in Nat /\ o > 0
  BY <1>3, <1>5
<1> HIDE DEF base
<1>8. Shows(w, o)
  <2>1. ASSUME NEW j \in 1 .. Len(w)
        PROVE  Byte[o + j - 1] = w[j]
    <3>1. \A i \in 1 .. Len(Content(g)) : Byte[base + i - 1] = Content(g)[i]
      BY <1>3 DEF Shows
    <3>2. before + j \in 1 .. Len(Content(g)) /\ base + (before + j) - 1 = o + j - 1
      <4>1. Len(Content(g)) \in Nat
        <5>1. Content(g) \in Seq(0 .. 255)
          BY ContentIsBytes DEF g
        <5> QED
          BY <5>1, LenProperties
      <4> QED
        BY <1>5, <1>7, <4>1
    <3> QED
      BY <1>5, <3>1, <3>2
  <2> QED
    BY <2>1 DEF Shows
<1> HIDE DEF o
<1>9. Bytes(o, Len(w)) = w
  BY <1>6, <1>7, <1>8, BytesShown
<1>10. ItemLength(item, o) = Len(w)
  <2>1. \A b \in 1 .. Len(w) : Byte[o + b - 1] = w[b]
    BY <1>8 DEF Shows
  <2> QED
    BY <1>2, <1>6, <1>7, <2>1, ItemIsRead
<1>11. Pieces(g, n) = Append(Pieces(g, n - 1), g[n])
  <2>1. n - 1 \in Nat /\ (n - 1) + 1 = n
    BY <1>1, <1>4
  <2> QED
    BY <2>1, PiecesAppend
<1> QED
  BY <1>5, <1>6, <1>9, <1>10, <1>11 DEF ItemLies, g, item, w, o, base, before

-----------------------------------------------------------------------------
(* The description the encoder chose.                                      *)
KeyOf(kind, record) ==
  Lookup(IF kind = "single" THEN SingleKey(record) ELSE CollectionKey(record), record.category)

(* What can be read back as it was: records whose category and elements    *)
(* are bytes, whose items are as long as their descriptions say, and whose *)
(* datablock LEN can count.                                                *)
Encodable(r) ==
  /\ ByteRecord(r)
  /\ \A kind \in {"records", "single"} :
       LET k == KeyOf(kind, r)
       IN k # NoDescription =>
            /\ \A n \in DOMAIN Items(k) :
                 Given(Items(k)[n], DOMAIN r.elements) =>
                   WellFormed(Items(k)[n], ElementBytes(Items(k)[n], r))
            /\ \A garbage \in Garbage :
                 Len(Datablock(r, k, ItemLoop(r, Items(k), garbage)).datablock) < 65536

ClientRecords == UNION {UNION {ToSet(c[n].records) : n \in DOMAIN c} : c \in Clients}
AllEncodable == \A r \in ClientRecords : Encodable(r)

Entry(kind, record, r) ==
  [record |-> record, kind |-> kind, datablock |-> r.datablock,
   code |-> r.code, key |-> r.key, present |-> r.present]

Sound(s) ==
  s.record \in ClientRecords /\ (\E F : WellEncoded(s, F)) /\ s.key = KeyOf(s.kind, s.record)

LEMMA ByteRecordIsInput ==
  ASSUME NEW r, ByteRecord(r)
  PROVE  InputRecord(r)
<1>1. r.category \in 0 .. 255 /\ \A e \in DOMAIN r.elements : r.elements[e] \in Seq(0 .. 255)
  BY DEF ByteRecord
<1>2. \A e \in DOMAIN r.elements : r.elements[e] \in Seq(Nat)
  BY <1>1, NatSeq, Zenon
<1>3. r.category \in Nat
  <2> DEFINE c == r.category
  <2>1. c \in 0 .. 255
    BY <1>1
  <2> HIDE DEF c
  <2>2. c \in Nat
    BY <2>1
  <2> QED
    BY <2>2 DEF c
<1> QED
  BY <1>2, <1>3, Zenon DEF InputRecord

LEMMA SeqNotEmpty ==
  ASSUME NEW S, NEW s \in Seq(S), s # <<>>
  PROVE  ToSet(s) # {}
<1>1. Len(s) \in Nat \ {0} /\ DOMAIN s = 1 .. Len(s)
  BY EmptySeq, LenProperties
<1>2. 1 \in DOMAIN s
  BY <1>1
<1> QED
  BY <1>2 DEF ToSet

LEMMA LoopIsEncoded ==
  ASSUME NEW r, Encodable(r), NEW kind, NEW k \in DOMAIN Descriptions, k = KeyOf(kind, r),
         k # NoDescription, Fits(Len(Items(k))), NEW garbage \in Garbage, NEW q,
         q = Datablock(r, k, ItemLoop(r, Items(k), garbage)), q.datablock # Nullptr
  PROVE  (\E F : WellEncoded(Entry(kind, r, q), F)) /\ q.key = k
<1> DEFINE items == Items(k)
           N == Len(items)
           L == ItemLoop(r, items, garbage)
           F == FieldBytes(L.field)
           e == Entry(kind, r, q)
           P == ToSet(L.present)
           C == L.bytes
<1>0. /\ \A n \in DOMAIN items :
           Given(items[n], DOMAIN r.elements) => WellFormed(items[n], ElementBytes(items[n], r))
      /\ Len(q.datablock) < 65536
  <2>1. k = KeyOf("records", r) \/ k = KeyOf("single", r)
    BY DEF KeyOf
  <2> QED
    BY <2>1 DEF Encodable
<1>1. /\ items \in Seq(ToSet(items)) /\ N \in Nat /\ DOMAIN items = 1 .. N
      /\ garbage \in 0 .. 255 /\ ByteRecord(r) /\ InputRecord(r)
  BY DescribedItems, LenProperties, EncodingAssumption, ByteRecordIsInput DEF Encodable
<1>2. \A item \in ToSet(items) : DescribedItem(item)
  BY ItemsAssumption DEF DescribedItem, Items
<1>3. Walked(L, N, items)
  BY <1>1, ItemLoopWalked
<1>4. Gathered(L, items, r)
  BY <1>1, <1>2, ItemLoopGathered
<1>5. LoopBytes(L, r)
  BY <1>1, <1>2, ItemLoopBytes
<1>6. /\ q.datablock = (IF F \o C = <<>> THEN Nullptr
                        ELSE CatAndLength(r.category, Len(F \o C) + 3) \o (F \o C))
      /\ q.key = k /\ q.present = L.present
  BY DEF Datablock
<1>7. Len(q.datablock) < 65536
  BY <1>0
<1> HIDE DEF L, N, items
<1>8. /\ Holds(L.field, P) /\ Lists(L.present, P) /\ L.present \in Seq(Nat)
      /\ \A i \in P : i \in DOMAIN items /\ Given(items[i], DOMAIN r.elements)
      /\ C = Content(Gave(L.present, items, r))
  BY <1>4 DEF Gathered, Lists
<1>9. FieldInv(L.field, N) /\ L.field.bits <= N
  BY <1>3, Zenon DEF Walked, N
<1>10. L.present # <<>>
  <2>1. ASSUME L.present = <<>> PROVE FALSE
    <3>1. F = <<>> /\ C = <<>>
      BY <1>3, <2>1, NoFieldWithoutItems DEF Walked
    <3>2. F \o C = <<>>
      BY <3>1
    <3> QED
      BY <1>6, <3>2
  <2> QED
    BY <2>1
<1>11. P # {}
  BY <1>8, <1>10, SeqNotEmpty
<1>12. IsFspec(F, P)
  <2> HIDE DEF P
  <2>1. Fits(N)
    BY DEF N, items
  <2> QED
    BY <1>1, <1>8, <1>9, <1>11, <2>1, FieldAnnounces
<1> HIDE DEF F, C, P
<1>13. F \in Seq(Nat) /\ C \in Seq(Nat) /\ Len(F) \in Nat \ {0} /\ Len(C) \in Nat
  <2>1. F \in Seq(0 .. 255) /\ Len(F) \in Nat \ {0}
    BY <1>12 DEF IsFspec
  <2>2. C \in Seq(Nat)
    BY <1>5 DEF LoopBytes, C
  <2> QED
    BY <2>1, <2>2, NatSeq, LenProperties
<1>14. F \o C \in Seq(Nat) /\ Len(F \o C) = Len(F) + Len(C) /\ F \o C # <<>>
  <2>1. F \o C \in Seq(Nat) /\ Len(F \o C) = Len(F) + Len(C)
    BY <1>13, Prefixed
  <2>2. Len(F) + Len(C) # 0
    BY <1>13
  <2> QED
    BY <2>1, <2>2
<1>15. /\ e.key = k /\ e.record = r /\ e.present = L.present /\ e.datablock = q.datablock
       /\ SentItems(e) = items
  BY <1>6 DEF Entry, SentItems, items, Items
<1> HIDE DEF e
<1>16. ItemsOf(e) = Gave(L.present, items, r)
  BY <1>15 DEF ItemsOf, Gave
<1>17. Content(ItemsOf(e)) = C
  BY <1>8, <1>16
<1>18. e.datablock = CatAndLength(e.record.category, Len(F) + Len(Content(ItemsOf(e))) + 3)
                       \o (F \o Content(ItemsOf(e)))
  BY <1>6, <1>14, <1>15, <1>17
<1>19. Len(F) + Len(C) + 3 < 65536
  <2> DEFINE size == Len(F) + Len(C) + 3
             h == CatAndLength(r.category, size)
  <2>1. r.category \in Nat /\ size \in Nat
    BY <1>1, <1>13 DEF InputRecord
  <2>2. h \in Seq(Nat) /\ Len(h) = 3
    <3> HIDE DEF size
    <3>1. r.category % 256 \in Nat /\ (size \div 256) % 256 \in Nat /\ size % 256 \in Nat
      BY <2>1
    <3> QED
      BY <3>1 DEF CatAndLength
  <2>3. q.datablock = h \o (F \o C)
    BY <1>15, <1>17, <1>18
  <2> HIDE DEF h
  <2>4. Len(q.datablock) = 3 + Len(F \o C)
    <3> DEFINE x == F \o C
    <3>1. x \in Seq(Nat) /\ q.datablock = h \o x
      BY <1>14, <2>3
    <3> HIDE DEF x
    <3>2. Len(h \o x) = Len(h) + Len(x)
      BY <2>2, <3>1, Prefixed
    <3> QED
      BY <2>2, <3>1, <3>2 DEF x
  <2> QED
    BY <1>7, <1>13, <1>14, <2>4
<1>20. \A i \in ToSet(e.present) :
         /\ i \in DOMAIN SentItems(e)
         /\ Given(SentItems(e)[i], DOMAIN e.record.elements)
         /\ WellFormed(SentItems(e)[i], ElementBytes(SentItems(e)[i], e.record))
  <2>1. \A i \in DOMAIN items : Given(items[i], DOMAIN r.elements) =>
          WellFormed(items[i], ElementBytes(items[i], r))
    BY <1>0
  <2> QED
    BY <1>8, <1>15, <2>1 DEF P
<1>21. WellEncoded(e, F)
  BY <1>1, <1>8, <1>10, <1>12, <1>15, <1>17, <1>18, <1>19, <1>20 DEF WellEncoded, P
<1> QED
  BY <1>6, <1>21 DEF e

(* What a task returns for a record that can be read back.                 *)
LEMMA EncodedIsSound ==
  ASSUME AllFit, AllEncodable, NEW r, NEW garbage \in Garbage, NEW kind, NEW q,
         q = IF kind = "single" THEN EncodeForSingleRecord(r, garbage)
                                ELSE EncodeForDecodedRecord(r, garbage),
         r \in ClientRecords \/ (kind = "single" /\ r.elements = <<>>),
         q.datablock # Nullptr
  PROVE  Sound(Entry(kind, r, q))
<1> DEFINE k == KeyOf(kind, r)
<1>1. \A code, n : Failed(code, n).datablock = Nullptr
  BY DEF Failed
<1>2. /\ k # NoDescription /\ r \in ClientRecords
      /\ q = Datablock(r, k, ItemLoop(r, Items(k), garbage))
  <2>1. CASE kind = "single"
    <3>1. q = IF r.elements = <<>> THEN Failed("ENCODING_ERROR", NoDescription)
              ELSE IF k = NoDescription THEN Failed("UNKNOWN_CATEGORY", k)
              ELSE Datablock(r, k, ItemLoop(r, Items(k), garbage))
      BY <2>1 DEF EncodeForSingleRecord, EncodeAllItemsFromSingleRecord, KeyOf, Items
    <3> HIDE DEF k
    <3> QED
      BY <1>1, <3>1
  <2>2. CASE kind # "single"
    <3>1. q = IF k = NoDescription THEN Failed("UNKNOWN_CATEGORY", k)
              ELSE Datablock(r, k, ItemLoop(r, Items(k), garbage))
      BY <2>2 DEF EncodeForDecodedRecord, KeyOf, Items
    <3> HIDE DEF k
    <3> QED
      BY <1>1, <2>2, <3>1
  <2> QED
    BY <2>1, <2>2
<1>3. k \in DOMAIN Descriptions
  BY <1>2, LookedUp DEF KeyOf
<1>4. Fits(Len(Items(k))) /\ k = KeyOf(kind, r)
  BY <1>3 DEF AllFit
<1> HIDE DEF k
<1>5. (\E F : WellEncoded(Entry(kind, r, q), F)) /\ q.key = k
  <2>1. Encodable(r)
    BY <1>2 DEF AllEncodable
  <2> QED
    BY <1>2, <1>3, <1>4, <2>1, LoopIsEncoded
<1>6. /\ Entry(kind, r, q).key = q.key /\ Entry(kind, r, q).kind = kind
      /\ Entry(kind, r, q).record = r
  BY DEF Entry
<1> QED
  BY <1>2, <1>5, <1>6 DEF Sound, k

-----------------------------------------------------------------------------
(* What was taken can be read back, and is what the parser will be given:  *)
(* the second inductive invariant of the encoder.                          *)
Recordable(kind, r) == r \in ClientRecords \/ (kind = "single" /\ r.elements = <<>>)

SoundSent == \E S : sent \in Seq(S) /\ \A s \in S : Sound(s)
RecordableInv == call # "none" => \E S : records \in Seq(S) /\ \A r \in S : Recordable(call, r)
SoundResults ==
  call # "none" =>
    \A n \in DOMAIN results :
      results[n] # NoResult /\ results[n].datablock # Nullptr => Sound(Entry(call, records[n], results[n]))

EntriesInv == SoundSent /\ RecordableInv /\ SoundResults

Datablocks == [n \in DOMAIN sent |-> sent[n].datablock]
Whole == astOutput => Len(file) = Len(sent)

LinkInv ==
  /\ client = <<>> => sent = <<>> /\ call = "none"
  /\ ~ astOutput => collected = Datablocks /\ (call = "none" => output = FlattenSeq(collected))
  /\ astOutput => Len(file) <= Len(sent) /\ (Len(file) = Len(sent) => file = Datablocks)
  /\ pc # "idle" /\ sent # <<>> /\ Whole => stream = FlattenSeq(Datablocks)

LEMMA EntriesInit == Init => EntriesInv /\ LinkInv
<1> SUFFICES ASSUME Init PROVE EntriesInv /\ LinkInv
  OBVIOUS
<1>1. /\ sent = <<>> /\ call = "none" /\ collected = <<>> /\ output = <<>> /\ file = <<>>
      /\ pc = "idle"
  BY DEF Init, EncoderInit, ParserInit
<1>2. Datablocks = <<>>
  <2>1. DOMAIN sent = {}
    BY <1>1
  <2> QED
    BY <1>1, <2>1 DEF Datablocks
<1>3. SoundSent
  <2>1. sent \in Seq({}) /\ \A s \in {} : Sound(s)
    BY <1>1, EmptySeq
  <2> QED
    BY <2>1 DEF SoundSent
<1>4. EntriesInv
  BY <1>1, <1>3 DEF EntriesInv, RecordableInv, SoundResults
<1>5. LinkInv
  <2>1. Len(file) = Len(sent) /\ Len(file) <= Len(sent)
    BY <1>1
  <2> QED
    BY <1>1, <1>2, <2>1, FlattenEmpty DEF LinkInv
<1> QED
  BY <1>4, <1>5

(* How what was taken grows.                                               *)
LEMMA SentAtStart ==
  ASSUME EncodingInv, EncoderStep, NEW kind, NEW todo, StartCall(kind, todo)
  PROVE  sent' = IF astOutput THEN sent ELSE <<>>
<1>1. calls' = calls + 1 /\ calls \in Nat
  BY DEF StartCall, EncodingInv
<1>2. calls' # calls
  BY <1>1
<1> QED
  BY <1>2 DEF EncoderStep

LEMMA SentKept ==
  ASSUME EncodingInv, EncoderStep, calls' = calls, joined' = joined
  PROVE  sent' = sent
<1>1. joined' # joined + 1
  BY DEF EncodingInv
<1> QED
  BY <1>1 DEF EncoderStep

LEMMA SentAtJoin ==
  ASSUME EncodingInv, EncoderStep, JoinTask, NEW q, q = results[joined + 1]
  PROVE  /\ joined + 1 \in DOMAIN results /\ q # NoResult
         /\ sent' = IF q.datablock # Nullptr THEN Append(sent, Entry(call, records[joined + 1], q))
                    ELSE sent
<1>1. /\ client' = client /\ calls' = calls /\ joined' = joined + 1 /\ results' = results
      /\ joined' \in DOMAIN results /\ results[joined'] # NoResult
  BY JoinStep
<1>2. Taken(joined + 1) = Entry(call, records[joined + 1], q)
  BY DEF Taken, Entry
<1>3. sent' = CASE calls' # calls /\ ~astOutput -> <<>>
                [] calls' = calls /\ joined' = joined + 1 /\ results[joined'].datablock # Nullptr
                     -> Append(sent, Taken(joined'))
                [] OTHER -> sent
  BY DEF EncoderStep
<1>4. CASE q.datablock # Nullptr
  <2>1. sent' = Append(sent, Taken(joined'))
    BY <1>1, <1>3, <1>4
  <2> QED
    BY <1>1, <1>2, <1>4, <2>1
<1>5. CASE q.datablock = Nullptr
  <2>1. sent' = sent
    BY <1>1, <1>3, <1>5
  <2> QED
    BY <1>1, <1>5, <2>1
<1> QED
  BY <1>4, <1>5

LEMMA DatablocksAppend ==
  ASSUME NEW S, sent \in Seq(S), NEW e, sent' = Append(sent, e)
  PROVE  /\ Datablocks' = Append(Datablocks, e.datablock) /\ Len(sent') = Len(sent) + 1
         /\ Len(sent) \in Nat
<1> DEFINE T == {r.datablock : r \in S \cup {e}}
           d == Datablocks
           b == e.datablock
           m == Len(sent)
           a == Append(d, b)
           f == Datablocks'
<1>1. /\ sent \in Seq(S \cup {e}) /\ m \in Nat /\ DOMAIN sent = 1 .. m
      /\ sent' \in Seq(S \cup {e}) /\ Len(sent') = m + 1 /\ sent'[m + 1] = e
      /\ DOMAIN sent' = 1 .. m + 1 /\ \A i \in 1 .. m : sent'[i] = sent[i]
  BY SeqMonotonic, AppendProperties, LenProperties
<1>2. \A i \in 1 .. m : sent[i] \in S \cup {e}
  BY <1>1
<1>3. d \in Seq(T) /\ Len(d) = m /\ \A i \in 1 .. m : d[i] = sent[i].datablock
  BY <1>1, <1>2 DEF Datablocks
<1>4. \A i \in 1 .. m + 1 : sent'[i] \in S \cup {e}
  BY <1>1
<1>5. f = [i \in 1 .. m + 1 |-> sent'[i].datablock]
  BY <1>1 DEF Datablocks
<1>6. f \in Seq(T) /\ Len(f) = m + 1 /\ \A i \in 1 .. m + 1 : f[i] = sent'[i].datablock
  BY <1>1, <1>4, <1>5
<1>7. b \in T
  OBVIOUS
<1> HIDE DEF d, f, T, b, m
<1>8. a \in Seq(T) /\ Len(a) = m + 1 /\ a[m + 1] = b /\ \A i \in 1 .. m : a[i] = d[i]
  BY <1>1, <1>3, <1>7, AppendProperties
<1> HIDE DEF a
<1>9. ASSUME NEW i \in 1 .. m + 1
      PROVE  a[i] = f[i]
  <2>1. CASE i = m + 1
    BY <1>1, <1>6, <1>8, <2>1 DEF b
  <2>2. CASE i # m + 1
    <3>1. i \in 1 .. m
      BY <1>1, <2>2
    <3> QED
      BY <1>1, <1>3, <1>6, <1>8, <3>1
  <2> QED
    BY <2>1, <2>2
<1>10. a = f
  BY <1>6, <1>8, <1>9, SeqEqual
<1> QED
  BY <1>1, <1>10 DEF a, d, f, b, m

LEMMA StartEntries ==
  ASSUME EncodingInv, EntriesInv, EncoderStep, NEW kind, kind # "none", NEW todo, NEW S,
         todo \in Seq(S), \A r \in S : Recordable(kind, r), StartCall(kind, todo)
  PROVE  EntriesInv'
<1>1. call' = kind /\ records' = todo /\ results' = [n \in DOMAIN todo |-> NoResult]
  BY DEF StartCall
<1>2. SoundSent'
  <2>1. PICK T : sent \in Seq(T) /\ \A s \in T : Sound(s)
    BY DEF EntriesInv, SoundSent
  <2>2. sent' \in Seq(T)
    BY <2>1, SentAtStart, EmptySeq
  <2> QED
    BY <2>1, <2>2 DEF SoundSent
<1>3. RecordableInv'
  BY <1>1 DEF RecordableInv
<1>4. SoundResults'
  BY <1>1 DEF SoundResults
<1> QED
  BY <1>2, <1>3, <1>4 DEF EntriesInv

LEMMA RunEntries ==
  ASSUME AllFit, AllEncodable, EncodingInv, OutputInv, EntriesInv, EncoderStep, RunTask
  PROVE  EntriesInv'
<1>1. PICK n \in DOMAIN results, garbage \in Garbage :
        /\ call # "none"
        /\ results' = [results EXCEPT ![n] =
                         IF call = "single" THEN EncodeForSingleRecord(records[n], garbage)
                                            ELSE EncodeForDecodedRecord(records[n], garbage)]
        /\ UNCHANGED <<records, call, calls, joined>>
  BY DEF RunTask
<1> DEFINE r == IF call = "single" THEN EncodeForSingleRecord(records[n], garbage)
                                   ELSE EncodeForDecodedRecord(records[n], garbage)
<1>2. PICK T : records \in Seq(T) /\ \A q \in T : Recordable(call, q)
  BY <1>1 DEF EntriesInv, RecordableInv
<1>3. PICK S : results \in Seq(S)
  BY DEF EncodingInv, ResultsInv
<1>4. n \in 1 .. Len(records)
  BY <1>3, LenProperties DEF OutputInv, GivenInv
<1>5. Recordable(call, records[n])
  BY <1>2, <1>4, ElementOfSeq
<1>6. r.datablock # Nullptr => Sound(Entry(call, records[n], r))
  BY <1>5, EncodedIsSound DEF Recordable
<1>7. results' = [results EXCEPT ![n] = r]
  BY <1>1
<1> HIDE DEF r
<1>8. SoundResults'
  <2>1. \A m \in DOMAIN results : results[m] # NoResult /\ results[m].datablock # Nullptr
                                    => Sound(Entry(call, records[m], results[m]))
    BY <1>1 DEF EntriesInv, SoundResults
  <2>2. DOMAIN results' = DOMAIN results
    BY <1>7
  <2>3. \A m \in DOMAIN results' : results'[m] = IF m = n THEN r ELSE results[m]
    BY <1>7, <2>2
  <2> QED
    BY <1>1, <1>6, <2>1, <2>2, <2>3 DEF SoundResults
<1>9. sent' = sent
  BY <1>1, SentKept
<1> QED
  BY <1>1, <1>8, <1>9 DEF EntriesInv, RecordableInv, SoundSent

LEMMA JoinEntries ==
  ASSUME EncodingInv, EntriesInv, EncoderStep, JoinTask
  PROVE  EntriesInv'
<1>1. UNCHANGED <<records, call, results>> /\ call # "none"
  BY DEF JoinTask
<1>2. PICK T : sent \in Seq(T) /\ \A s \in T : Sound(s)
  BY DEF EntriesInv, SoundSent
<1> DEFINE q == results[joined + 1]
           e == Entry(call, records[joined + 1], q)
<1>3. /\ joined + 1 \in DOMAIN results /\ q # NoResult
      /\ sent' = IF q.datablock # Nullptr THEN Append(sent, e) ELSE sent
  BY SentAtJoin
<1>4. q.datablock # Nullptr => Sound(e)
  BY <1>1, <1>3 DEF EntriesInv, SoundResults
<1> HIDE DEF q, e
<1>5. SoundSent'
  <2>1. CASE q.datablock # Nullptr
    <3>1. sent' \in Seq(T \cup {e})
      BY <1>2, <1>3, <2>1, SeqMonotonic, AppendProperties
    <3>2. \A s \in T \cup {e} : Sound(s)
      BY <1>2, <1>4, <2>1
    <3> QED
      BY <3>1, <3>2 DEF SoundSent
  <2>2. CASE q.datablock = Nullptr
    BY <1>2, <1>3, <2>2 DEF SoundSent
  <2> QED
    BY <2>1, <2>2
<1> QED
  BY <1>1, <1>5 DEF EntriesInv, RecordableInv, SoundResults

LEMMA ConstructedRecordable ==
  ASSUME NEW r \in ClientRecords, r = [category |-> r.category, elements |-> r.elements]
  PROVE  Recordable("single", Constructed(r))
<1> DEFINE none == [r EXCEPT !.elements = <<>>]
<1>1. Constructed(r) \in {none, r}
  BY DEF Constructed
<1>2. none.elements = <<>>
  OBVIOUS
<1> HIDE DEF none
<1> QED
  BY <1>1, <1>2 DEF Recordable

LEMMA ArgumentFromClient ==
  ASSUME EncodingInv, calls < Len(client), NEW r \in ToSet(Argument)
  PROVE  r \in ClientRecords
<1>1. client \in Clients /\ calls \in Nat
  BY DEF EncodingInv
<1>2. client \in Seq(ToSet(client))
  BY <1>1, ClientsAssumption
<1>3. calls + 1 \in DOMAIN client
  BY <1>1, <1>2, LenProperties
<1> QED
  BY <1>1, <1>3 DEF ClientRecords, Argument

(* The records of the call that begins.                                    *)
LEMMA CallBegins ==
  ASSUME EncodingInv, EncodeRecords \/ EncodeSingleRecord
  PROVE  /\ client # <<>>
         /\ \E kind, todo, S : /\ StartCall(kind, todo) /\ kind # "none"
                               /\ todo \in Seq(S) /\ \A r \in S : Recordable(kind, r)
<1>1. calls < Len(client) /\ calls \in Nat
  BY DEF EncodeRecords, EncodeSingleRecord, StartCall, EncodingInv
<1>2. client # <<>>
  BY <1>1
<1>3. /\ Argument \in Seq(ToSet(Argument))
      /\ \A r \in ToSet(Argument) :
           r = [category |-> r.category, elements |-> r.elements] /\ r \in ClientRecords
      /\ client[calls + 1].kind = "single" => Argument[1] \in ToSet(Argument)
  BY <1>1, ArgumentRecords, ArgumentFromClient
<1>4. CASE EncodeRecords
  <2>1. StartCall("records", Argument)
    BY <1>4 DEF EncodeRecords
  <2>2. \A r \in ToSet(Argument) : Recordable("records", r)
    BY <1>3 DEF Recordable
  <2> QED
    BY <1>2, <1>3, <2>1, <2>2
<1>5. CASE EncodeSingleRecord
  <2> DEFINE a == Argument[1]
             r == Constructed(a)
  <2>1. client[calls + 1].kind = "single" /\ StartCall("single", <<r>>)
    BY <1>5 DEF EncodeSingleRecord, StartCall
  <2>2. a = [category |-> a.category, elements |-> a.elements] /\ a \in ClientRecords
    BY <1>3, <2>1
  <2> HIDE DEF a
  <2>3. Recordable("single", r)
    BY <2>2, ConstructedRecordable
  <2> DEFINE todo == <<r>>
             S == {r}
  <2> HIDE DEF r
  <2>4. todo \in Seq(S) /\ \A q \in S : Recordable("single", q)
    BY <2>3
  <2>5. StartCall("single", todo)
    BY <2>1
  <2> HIDE DEF todo, S
  <2> QED
    BY <1>2, <2>4, <2>5
<1> QED
  BY <1>4, <1>5

LEMMA EntriesStep ==
  ASSUME AllFit, AllEncodable, EncodingInv, OutputInv, EntriesInv, EncoderStep
  PROVE  EntriesInv'
<1>1. CASE EncodeRecords \/ EncodeSingleRecord
  BY <1>1, CallBegins, StartEntries
<1>2. CASE RunTask
  BY <1>2, RunEntries
<1>3. CASE JoinTask
  BY <1>3, JoinEntries
<1>4. CASE ReturnDatablocks
  <2>1. UNCHANGED <<calls, joined>> /\ call' = "none"
    BY <1>4 DEF ReturnDatablocks
  <2>2. sent' = sent
    BY <2>1, SentKept
  <2> QED
    BY <2>1, <2>2 DEF EntriesInv, RecordableInv, SoundResults, SoundSent
<1> QED
  BY <1>1, <1>2, <1>3, <1>4 DEF EncoderStep, EncoderNext

LEMMA LinkStep ==
  ASSUME EncodingInv, OutputInv, EntriesInv, LinkInv, EncoderStep
  PROVE  LinkInv'
<1>1. pc = "idle" /\ pc' = "idle" /\ stream' = stream
  BY DEF EncoderStep, parserVars
<1>2. PICK T : sent \in Seq(T)
  BY DEF EntriesInv, SoundSent
<1>3. CASE EncodeRecords \/ EncodeSingleRecord
  <2>1. PICK kind, todo : StartCall(kind, todo) /\ kind # "none" /\ client # <<>>
    BY <1>3, CallBegins
  <2>2. /\ call' = kind /\ collected' = <<>> /\ output' = output /\ file' = file
        /\ astOutput' = astOutput /\ client' = client
    BY <2>1 DEF StartCall
  <2>3. sent' = IF astOutput THEN sent ELSE <<>>
    BY <2>1, SentAtStart
  <2>4. CASE astOutput
    <3>1. Datablocks' = Datablocks
      BY <2>3, <2>4 DEF Datablocks
    <3> QED
      BY <1>1, <2>1, <2>2, <2>3, <2>4, <3>1 DEF LinkInv
  <2>5. CASE ~ astOutput
    <3>1. Datablocks' = <<>>
      <4>1. sent' = <<>> /\ DOMAIN sent' = {}
        BY <2>3, <2>5
      <4> QED
        BY <4>1 DEF Datablocks
    <3> QED
      BY <1>1, <2>1, <2>2, <2>3, <2>5, <3>1 DEF LinkInv
  <2> QED
    BY <2>4, <2>5
<1>4. CASE RunTask
  <2>1. UNCHANGED <<calls, joined, astOutput, client, call, collected, output, file>>
    BY <1>4 DEF RunTask, outVars
  <2>2. sent' = sent
    BY <2>1, SentKept
  <2>3. Datablocks' = Datablocks
    BY <2>2 DEF Datablocks
  <2> QED
    BY <1>1, <2>1, <2>2, <2>3 DEF LinkInv
<1>5. CASE JoinTask
  <2> DEFINE q == results[joined + 1]
             e == Entry(call, records[joined + 1], q)
  <2>1. sent' = IF q.datablock # Nullptr THEN Append(sent, e) ELSE sent
    BY <1>5, SentAtJoin
  <2>2. /\ UNCHANGED <<astOutput, client, call, output>> /\ call # "none"
        /\ IF q.datablock = Nullptr THEN UNCHANGED <<collected, file>>
           ELSE IF astOutput THEN collected' = collected /\ file' \in {file, Append(file, q.datablock)}
           ELSE collected' = Append(collected, q.datablock) /\ file' = file
    BY <1>5 DEF JoinTask, Write
  <2>3. e.datablock = q.datablock
    BY DEF Entry
  <2> HIDE DEF q, e
  <2>4. CASE q.datablock = Nullptr
    <3>1. sent' = sent /\ Datablocks' = Datablocks
      BY <2>1, <2>4 DEF Datablocks
    <3> QED
      BY <1>1, <2>2, <2>4, <3>1 DEF LinkInv
  <2>5. CASE q.datablock # Nullptr
    <3>1. /\ Datablocks' = Append(Datablocks, q.datablock)
          /\ Len(sent') = Len(sent) + 1 /\ Len(sent) \in Nat
      BY <1>2, <2>1, <2>3, <2>5, DatablocksAppend
    <3>2. client # <<>>
      BY <2>2 DEF LinkInv
    <3>3. CASE astOutput
      <4>1. Len(file) <= Len(sent) /\ (Len(file) = Len(sent) => file = Datablocks)
        BY <3>3 DEF LinkInv
      <4>2. CASE file' = file
        <5>1. Len(file) \in Nat
          BY LenProperties DEF OutputInv, CollectedInv
        <5> QED
          BY <1>1, <2>2, <3>1, <3>2, <3>3, <4>1, <4>2, <5>1 DEF LinkInv
      <4>3. CASE file' = Append(file, q.datablock)
        <5>1. Len(file') = Len(file) + 1 /\ Len(file) \in Nat
          <6>1. PICK S : file \in Seq(S) /\ q.datablock \in S
            <7>1. file \in Seq(Seq(Nat) \cup {q.datablock})
              BY SeqMonotonic DEF OutputInv, CollectedInv
            <7> QED
              BY <7>1
          <6> QED
            BY <4>3, <6>1, AppendProperties, LenProperties
        <5> QED
          BY <1>1, <2>2, <3>1, <3>2, <3>3, <4>1, <4>3, <5>1 DEF LinkInv
      <4> QED
        BY <2>2, <2>5, <3>3, <4>2, <4>3
    <3>4. CASE ~ astOutput
      BY <1>1, <2>2, <2>5, <3>1, <3>2, <3>4 DEF LinkInv
    <3> QED
      BY <3>3, <3>4
  <2> QED
    BY <2>4, <2>5
<1>6. CASE ReturnDatablocks
  <2>1. /\ UNCHANGED <<calls, joined, astOutput, client, collected, file>>
        /\ call # "none" /\ output' = FlattenSeq(collected)
    BY <1>6 DEF ReturnDatablocks
  <2>2. sent' = sent
    BY <2>1, SentKept
  <2>3. Datablocks' = Datablocks
    BY <2>2 DEF Datablocks
  <2> QED
    BY <1>1, <2>1, <2>2, <2>3 DEF LinkInv
<1> QED
  BY <1>3, <1>4, <1>5, <1>6 DEF EncoderStep, EncoderNext

LEMMA EntriesKept ==
  ASSUME UNCHANGED <<encoderVars, sent>>
  PROVE  /\ Datablocks' = Datablocks
         /\ EntriesInv => EntriesInv'
         /\ LinkInv /\ (pc' = pc \/ pc # "idle") /\ stream' = stream => LinkInv'
<1>1. /\ UNCHANGED <<astOutput, client, call, records, results, collected, output, file, sent>>
      /\ Datablocks' = Datablocks
  BY DEF encoderVars, callVars, outVars, Datablocks
<1>2. EntriesInv => EntriesInv'
  BY <1>1 DEF EntriesInv, SoundSent, RecordableInv, SoundResults
<1>3. LinkInv /\ (pc' = pc \/ pc # "idle") /\ stream' = stream => LinkInv'
  BY <1>1 DEF LinkInv, Whole
<1> QED
  BY <1>1, <1>2, <1>3

LEMMA LinkParsing ==
  ASSUME LinkInv, ParserStep
  PROVE  LinkInv'
<1>1. UNCHANGED <<encoderVars, sent>>
  BY DEF ParserStep, ParserNext, ParseEncoded, ParseReceived, Start, NextDatablock,
         NoMoreDatablocks, BeginRecord, GiveUp, ParseItem, EndRecord, EndDatablock
<1>2. UNCHANGED <<astOutput, client, call, collected, output, file, sent>> /\ Datablocks' = Datablocks
  BY <1>1, EntriesKept DEF encoderVars, callVars, outVars
<1>3. CASE ParseEncoded
  <2>1. /\ call = "none" /\ client # <<>>
        /\ stream' = IF astOutput THEN FlattenSeq(file) ELSE output
    <3>1. calls = Len(client) /\ calls > 0 /\ Len(<<>>) = 0
      BY <1>3 DEF ParseEncoded
    <3>2. client # <<>>
      BY <3>1
    <3> QED
      BY <1>3, <3>2 DEF ParseEncoded, Start
  <2> QED
    BY <1>2, <2>1 DEF LinkInv, Whole
<1>4. CASE ParseReceived
  <2>1. client = <<>> /\ sent = <<>>
    BY <1>4 DEF ParseReceived, LinkInv
  <2> QED
    BY <1>2, <2>1 DEF LinkInv, Whole
<1>5. CASE ~ ParseEncoded /\ ~ ParseReceived
  <2>1. pc # "idle" /\ stream' = stream
    BY <1>5 DEF ParserStep, ParserNext, NextDatablock, NoMoreDatablocks, BeginRecord, GiveUp,
                ParseItem, EndRecord, EndDatablock
  <2> QED
    BY <1>1, <2>1, EntriesKept
<1> QED
  BY <1>3, <1>4, <1>5

LEMMA EntriesInvariant ==
  ASSUME AllFit, AllEncodable
  PROVE  Spec => [](EntriesInv /\ LinkInv)
<1>1. ASSUME EncodingInv, OutputInv, EntriesInv, LinkInv, [Next]_vars
      PROVE  EntriesInv' /\ LinkInv'
  <2>1. CASE EncoderStep
    BY <1>1, <2>1, EntriesStep, LinkStep
  <2>2. CASE ParserStep
    <3>1. UNCHANGED <<encoderVars, sent>>
      BY <2>2 DEF ParserStep, ParserNext, ParseEncoded, ParseReceived, Start, NextDatablock,
             NoMoreDatablocks, BeginRecord, GiveUp, ParseItem, EndRecord, EndDatablock
    <3> QED
      BY <1>1, <2>2, <3>1, EntriesKept, LinkParsing
  <2>3. CASE UNCHANGED vars
    <3>1. UNCHANGED <<encoderVars, sent>> /\ pc' = pc /\ stream' = stream
      BY <2>3 DEF vars, parserVars
    <3> QED
      BY <1>1, <3>1, EntriesKept
  <2> QED
    BY <1>1, <2>1, <2>2, <2>3 DEF Next
<1> QED
  BY <1>1, EntriesInit, EncodingInvariant, OutputInvariant, PTL DEF Spec

-----------------------------------------------------------------------------
(* Where the datablocks lie in what the parser is given.                   *)
LEMMA DatablockBytes ==
  ASSUME NEW s, NEW F, WellEncoded(s, F)
  PROVE  s.datablock \in Seq(0 .. 255) /\ Len(s.datablock) >= 4
<1> DEFINE C == Content(ItemsOf(s))
           size == Len(F) + Len(C) + 3
           c == s.record.category
           h == CatAndLength(c, size)
<1>1. /\ c \in 0 .. 255 /\ size < 65536 /\ s.datablock = h \o (F \o C)
      /\ F \in Seq(0 .. 255) /\ Len(F) \in Nat \ {0}
  BY DEF WellEncoded, ByteRecord, IsFspec
<1>2. C \in Seq(0 .. 255) /\ Len(C) \in Nat
  BY ContentIsBytes, LenProperties
<1> HIDE DEF C, c
<1>3. h \in Seq(0 .. 255) /\ Len(h) = 3
  <2>1. size \in Nat /\ size < 65536 /\ c \in 0 .. 255
    BY <1>1, <1>2
  <2> HIDE DEF size
  <2>2. IsHead(CatAndLength(c, size), c, size)
    BY <2>1, HeadIsRead
  <2> QED
    BY <2>2 DEF IsHead
<1> HIDE DEF h
<1> DEFINE x == F \o C
<1>4. x \in Seq(0 .. 255) /\ Len(x) = Len(F) + Len(C)
  BY <1>1, <1>2, Prefixed
<1>5. s.datablock = h \o x
  BY <1>1
<1> HIDE DEF x
<1>6. h \o x \in Seq(0 .. 255) /\ Len(h \o x) = Len(h) + Len(x)
  <2>1. h \in Seq(0 .. 255) /\ x \in Seq(0 .. 255)
    BY <1>3, <1>4
  <2>2. h \o x \in Seq(0 .. 255)
    BY ONLY <2>1, ConcatProperties
  <2>3. Len(h \o x) = Len(h) + Len(x)
    BY ONLY <2>1, ConcatProperties
  <2> QED
    BY ONLY <2>2, <2>3
<1> QED
  BY <1>1, <1>2, <1>3, <1>4, <1>5, <1>6

Offset(n) == Len(FlattenSeq(Pieces(Datablocks, n)))

OffsetLies(n) ==
  /\ Offset(n - 1) \in Nat /\ Offset(n) \in Nat
  /\ Len(sent[n].datablock) \in Nat /\ Len(sent[n].datablock) >= 4
  /\ Offset(n) = Offset(n - 1) + Len(sent[n].datablock)
  /\ \A m \in n .. Len(sent) : Offset(n) <= Offset(m)
  /\ Offset(n) <= Len(FlattenSeq(Datablocks))
  /\ \A j \in 1 .. Len(sent[n].datablock) :
       FlattenSeq(Datablocks)[Offset(n - 1) + j] = sent[n].datablock[j]

LEMMA Offsets ==
  ASSUME SoundSent
  PROVE  /\ Len(sent) \in Nat /\ DOMAIN sent = 1 .. Len(sent)
         /\ \A n \in 1 .. Len(sent) : Sound(sent[n])
         /\ Offset(0) = 0
         /\ Offset(Len(sent)) = Len(FlattenSeq(Datablocks)) /\ Offset(Len(sent)) \in Nat
         /\ FlattenSeq(Datablocks) \in Seq(0 .. 255)
         /\ \A n \in 1 .. Len(sent) : OffsetLies(n)
<1> DEFINE N == Len(sent)
           t == Datablocks
           S == 0 .. 255
<1>1. PICK T : sent \in Seq(T) /\ \A s \in T : Sound(s)
  BY DEF SoundSent
<1>2. N \in Nat /\ DOMAIN sent = 1 .. N /\ \A n \in 1 .. N : Sound(sent[n])
  BY <1>1, LenProperties
<1>3. t = [n \in 1 .. N |-> sent[n].datablock]
  BY <1>2 DEF Datablocks
<1> HIDE DEF S, N
<1>4. ASSUME NEW n \in 1 .. N
      PROVE  t[n] = sent[n].datablock /\ t[n] \in Seq(S) /\ Len(t[n]) >= 4
  <2>1. PICK F : WellEncoded(sent[n], F)
    BY <1>2 DEF Sound
  <2>2. sent[n].datablock \in Seq(0 .. 255) /\ Len(sent[n].datablock) >= 4
    BY <2>1, DatablockBytes
  <2> QED
    BY <1>3, <2>2 DEF S
<1>5. \A n \in 1 .. N : t[n] \in Seq(S)
  BY <1>4
<1>6. Pieces(t, N) = t
  BY <1>3 DEF Pieces
<1> HIDE DEF t
<1>7. /\ FlattenSeq(Pieces(t, 0)) = <<>>
      /\ \A n \in 0 .. N : FlattenSeq(Pieces(t, n)) \in Seq(S)
  BY <1>2, <1>5, PiecesFlat
<1>8. N \in 0 .. N /\ 0 \in 0 .. N
  BY <1>2
<1>9. FlattenSeq(t) \in Seq(S)
  BY <1>6, <1>7, <1>8
<1>10. Offset(0) = 0 /\ Offset(N) = Len(FlattenSeq(t)) /\ Offset(N) \in Nat
  <2>1. Len(<<>>) = 0
    OBVIOUS
  <2>2. Len(FlattenSeq(t)) \in Nat
    BY <1>9, LenProperties
  <2> QED
    BY <1>6, <1>7, <2>1, <2>2 DEF Offset, t
<1>11. ASSUME NEW n \in 1 .. N
       PROVE  OffsetLies(n)
  <2>1. PieceLies(t, N, n)
    BY <1>2, <1>5, PieceAt
  <2>2. /\ Offset(n) = Offset(n - 1) + Len(t[n]) /\ Offset(n) <= Len(FlattenSeq(t))
        /\ Offset(n - 1) \in Nat /\ Len(t[n]) \in Nat
        /\ \A j \in 1 .. Len(t[n]) : FlattenSeq(t)[Offset(n - 1) + j] = t[n][j]
    BY <1>6, <2>1 DEF PieceLies, Offset, t
  <2>3. Offset(n) \in Nat
    BY <2>2
  <2>4. ASSUME NEW m \in n .. N
        PROVE  Offset(n) <= Offset(m)
    <3>1. m \in Nat /\ n \in 1 .. m /\ \A b \in 1 .. m : b \in 1 .. N
      BY <1>2
    <3>2. \A b \in 1 .. m : t[b] \in Seq(S)
      BY <1>5, <3>1
    <3>3. PieceLies(t, m, n)
      BY <3>1, <3>2, PieceAt
    <3> QED
      BY <3>3 DEF PieceLies, Offset, t
  <2>5. t[n] = sent[n].datablock /\ Len(t[n]) >= 4
    BY <1>4
  <2> QED
    BY <2>2, <2>3, <2>4, <2>5 DEF OffsetLies, t, N
<1> QED
  BY <1>2, <1>9, <1>10, <1>11 DEF N, S, t

(* Two datablocks do not begin at the same place.                          *)
LEMMA OffsetsDiffer ==
  ASSUME SoundSent, NEW m \in 0 .. Len(sent), NEW n \in 0 .. Len(sent), Offset(m) = Offset(n)
  PROVE  m = n
<1> DEFINE N == Len(sent)
<1>1. N \in Nat /\ \A i \in 1 .. N : OffsetLies(i)
  BY Offsets
<1>2. ASSUME NEW a \in 0 .. N, NEW b \in 0 .. N, a < b
      PROVE  Offset(a) < Offset(b)
  <2>1. a + 1 \in 1 .. N /\ b \in a + 1 .. N /\ (a + 1) - 1 = a
    BY <1>1, <1>2
  <2>2. OffsetLies(a + 1)
    BY <1>1, <2>1
  <2>3. /\ Offset(a) \in Nat /\ Len(sent[a + 1].datablock) \in Nat
        /\ Len(sent[a + 1].datablock) >= 4
        /\ Offset(a + 1) = Offset(a) + Len(sent[a + 1].datablock)
        /\ Offset(a + 1) <= Offset(b)
    BY <2>1, <2>2 DEF OffsetLies
  <2>4. OffsetLies(b)
    BY <1>1, <2>1
  <2>5. Offset(b) \in Nat
    BY <2>4 DEF OffsetLies
  <2> QED
    BY <2>3, <2>5
<1>3. \A i \in 0 .. N : Offset(i) \in Nat
  <2> TAKE i \in 0 .. N
  <2>1. CASE i = 0
    BY <2>1, Offsets
  <2>2. CASE i # 0
    <3>1. i \in 1 .. N
      BY <1>1, <2>2
    <3> QED
      BY <1>1, <3>1 DEF OffsetLies
  <2> QED
    BY <2>1, <2>2
<1>4. m < n \/ n < m \/ m = n
  BY <1>1
<1>5. Offset(m) \in Nat /\ Offset(n) \in Nat
  BY <1>3
<1> QED
  BY <1>2, <1>4, <1>5

(* The bytes of each are those the parser reads there.                     *)
LEMMA DatablockShown ==
  ASSUME SoundSent, stream = FlattenSeq(Datablocks), NEW n \in 1 .. Len(sent)
  PROVE  Shows(sent[n].datablock, Offset(n - 1))
<1> DEFINE d == sent[n].datablock
           o == Offset(n - 1)
<1>1. /\ OffsetLies(n) /\ Len(stream) = Offset(Len(sent)) /\ Len(stream) \in Nat
  BY Offsets
<1>2. /\ o \in Nat /\ Len(d) \in Nat /\ o + Len(d) <= Len(stream)
      /\ \A j \in 1 .. Len(d) : stream[o + j] = d[j]
  BY <1>1 DEF OffsetLies
<1> HIDE DEF d, o
<1>3. ASSUME NEW j \in 1 .. Len(d)
      PROVE  Byte[o + j - 1] = d[j]
  <2>1. o + j - 1 \in Nat /\ o + j - 1 < Len(stream) /\ (o + j - 1) + 1 = o + j
    BY <1>1, <1>2
  <2>2. Byte[o + j - 1] = stream[(o + j - 1) + 1]
    BY <2>1 DEF Byte
  <2> QED
    BY <1>2, <2>1, <2>2
<1> QED
  BY <1>3 DEF Shows, d, o

-----------------------------------------------------------------------------
(* The description the parser finds for a datablock is the encoder's, when *)
(* it can find no other.                                                   *)
Chooses(s) == ParserFinds(s) = {s.key}

LEMMA CategoryOfKey ==
  ASSUME NEW c \in 0 .. 255, NEW sac \in 0 .. 255, NEW sic \in 0 .. 255
  PROVE  Lookup(SacSicKey(c, sac, sic), c) \in KeysOf(c)
<1> DEFINE k == SacSicKey(c, sac, sic)
<1>1. k = c * 1000000 + sac * 1000 + sic
  BY DEF SacSicKey
<1> HIDE DEF k
<1>2. k \in Nat /\ 1000000 * c <= k /\ k < 1000000 * c + 1000000
  BY <1>1
<1>3. k \div 1000000 = c
  BY <1>2
<1>4. (Lookup(k, c) = k /\ k \in DOMAIN Descriptions) \/ Lookup(k, c) = Lookup(c, c)
  BY DEF Lookup
<1>5. Lookup(k, c) \in KeysOf(c)
  BY <1>3, <1>4 DEF KeysOf
<1> QED
  BY <1>5 DEF k

LEMMA BytesInRange ==
  ASSUME stream \in Seq(0 .. 255), beyond \in 0 .. 255, NEW n \in Nat
  PROVE  Byte[n] \in 0 .. 255
<1>1. Len(stream) \in Nat /\ \A i \in 1 .. Len(stream) : stream[i] \in 0 .. 255
  BY ElementOfSeq, LenProperties
<1>2. Byte[n] = IF n < Len(stream) THEN stream[n + 1] ELSE beyond
  BY DEF Byte
<1>3. n < Len(stream) => n + 1 \in 1 .. Len(stream)
  BY <1>1
<1> QED
  BY <1>1, <1>2, <1>3

LEMMA SameIsFound ==
  ASSUME SourceInv, stream \in Seq(0 .. 255), beyond \in 0 .. 255, bufferIndex \in Nat,
         NEW s, NEW F, WellEncoded(s, F), Shows(s.datablock, bufferIndex), Chooses(s),
         NEW index, index = bufferIndex + 3 + Len(F)
  PROVE  /\ Category = s.record.category
         /\ Lookup(ParserKey(index), Category) = s.key
<1> DEFINE C == Content(ItemsOf(s))
           c == s.record.category
           x == Byte[index]
           y == Byte[index + 1]
           k == SacSicKey(c, x, y)
<1>1. /\ Category = c /\ Shows(C, index) /\ Len(F) \in Nat /\ Len(C) \in Nat
  BY DatablockIsRead DEF DatablockLies, Category
<1>2. c \in 0 .. 255
  BY DEF WellEncoded, ByteRecord
<1>3. index \in Nat /\ index + 1 \in Nat
  BY <1>1
<1>4. x \in 0 .. 255 /\ y \in 0 .. 255
  BY <1>3, BytesInRange
<1>5. ParserKey(index) = k
  BY <1>1 DEF ParserKey
<1>6. Lookup(k, c) = s.key
  <2>1. CASE Len(C) >= 2
    <3>1. ParserFinds(s) = {Lookup(SacSicKey(c, C[1], C[2]), c)}
      BY <2>1 DEF ParserFinds
    <3>2. 1 \in 1 .. Len(C) /\ 2 \in 1 .. Len(C) /\ index + 1 - 1 = index /\ index + 2 - 1 = index + 1
      BY <1>1, <1>3, <2>1
    <3>3. \A j \in 1 .. Len(C) : Byte[index + j - 1] = C[j]
      BY <1>1 DEF Shows
    <3> HIDE DEF C
    <3>4. x = C[1] /\ y = C[2]
      BY <3>2, <3>3
    <3> HIDE DEF x, y, c
    <3> QED
      BY <3>1, <3>4, Zenon DEF Chooses
  <2>2. CASE ~ (Len(C) >= 2)
    <3>1. ParserFinds(s) = KeysOf(c)
      BY <2>2 DEF ParserFinds
    <3> HIDE DEF x, y, c
    <3>2. Lookup(SacSicKey(c, x, y), c) \in KeysOf(c)
      BY <1>2, <1>4, CategoryOfKey
    <3>3. Lookup(k, c) \in ParserFinds(s)
      BY <3>1, <3>2
    <3> QED
      BY <3>3 DEF Chooses
  <2> QED
    BY <2>1, <2>2
<1> HIDE DEF k
<1> QED
  BY <1>1, <1>5, <1>6

-----------------------------------------------------------------------------
(* What the parser has done of the datablocks it was given: the invariant  *)
(* of reading what was encoded.  It is at one of them, or behind the last; *)
(* of that one it has read a part as it was written, if it finds the       *)
(* description; and what it has handed on are the records of those before. *)
AllChosen == \A s \in ToSet(sent) : Chooses(s)

Pairs == [n \in DOMAIN delivered |-> <<delivered[n].category, delivered[n].items>>]
Handing == [n \in DOMAIN sent |-> Parsed(sent[n])]
Handed(n) == FlattenSeq(Pieces(Handing, n))

AtDatablock(s) ==
  /\ pc = "record" => bytesRead = 3 \/ (bytesRead = Len(s.datablock) /\ ~ Rejected(s))
  /\ pc = "items" =>
       /\ key = s.key /\ FRN_list = s.present /\ ~ Rejected(s)
       /\ Len(parsed) \in Nat /\ Len(parsed) <= Len(s.present)
       /\ parsed = Pieces(ItemsOf(s), Len(parsed))
       /\ bytesRead = 3 + FieldLength(Byte, bufferIndex + 3) + Len(Content(parsed))

Begun(n) == IF pc = "record" /\ bytesRead # 3 THEN n + 1 ELSE n

At(n) ==
  /\ bufferIndex = Offset(n)
  /\ pc \in {"record", "items"} => n < Len(sent) /\ (Chooses(sent[n + 1]) => AtDatablock(sent[n + 1]))
  /\ pc = "done" => n = Len(sent)
  /\ AllChosen => Pairs = Handed(Begun(n))

KeysInv ==
  \A i \in DOMAIN delivered, m \in 1 .. Len(sent) :
    delivered[i].datablock = Offset(m - 1) /\ Chooses(sent[m]) => delivered[i].key = sent[m].key

ReadInv ==
  /\ pc = "idle" => bufferIndex = 0
  /\ pc # "idle" => beyond \in 0 .. 255
  /\ pc # "idle" /\ sent # <<>> /\ Whole => KeysInv /\ \E n \in 0 .. Len(sent) : At(n)

(* The parser reads what was encoded.                                      *)
Reading ==
  /\ ParserInv /\ SoundSent /\ pc # "idle"
  /\ stream = FlattenSeq(Datablocks) /\ beyond \in 0 .. 255

LEMMA ReadInitially == Init => ReadInv
BY DEF Init, ParserInit, ReadInv

(* The datablock at hand.                                                  *)
LEMMA DatablockAtHand ==
  ASSUME Reading, NEW n \in 0 .. Len(sent), n < Len(sent), bufferIndex = Offset(n),
         NEW s, s = sent[n + 1]
  PROVE  /\ \E F : WellEncoded(s, F)
         /\ Shows(s.datablock, bufferIndex)
         /\ Length = Len(s.datablock) /\ Length \in Nat /\ Length >= 4
         /\ Offset(n + 1) = bufferIndex + Length /\ Offset(n + 1) <= Len(stream)
         /\ n \in Nat /\ n + 1 \in 1 .. Len(sent) /\ n + 1 \in 0 .. Len(sent)
         /\ s \in ToSet(sent)
<1>1. /\ Len(sent) \in Nat /\ DOMAIN sent = 1 .. Len(sent)
      /\ \A m \in 1 .. Len(sent) : Sound(sent[m]) /\ OffsetLies(m)
  BY Offsets DEF Reading
<1>2. n \in Nat /\ n + 1 \in 1 .. Len(sent) /\ n + 1 \in 0 .. Len(sent) /\ (n + 1) - 1 = n
  BY <1>1
<1>3. OffsetLies(n + 1) /\ Sound(s)
  BY <1>1, <1>2
<1>4. Shows(sent[n + 1].datablock, Offset((n + 1) - 1))
  BY <1>2, DatablockShown DEF Reading
<1>5. Shows(s.datablock, bufferIndex)
  BY <1>2, <1>4
<1>6. PICK F : WellEncoded(s, F)
  BY <1>3 DEF Sound
<1>7. SourceInv /\ bufferIndex \in Nat
  BY DEF Reading, ParserInv
<1>8. DatablockLies(s, F, bufferIndex)
  BY <1>5, <1>6, <1>7, DatablockIsRead
<1>9. Length = Len(s.datablock)
  BY <1>8 DEF DatablockLies, Length
<1>10. /\ Len(s.datablock) \in Nat /\ Len(s.datablock) >= 4
       /\ Offset(n + 1) = Offset(n) + Len(s.datablock)
       /\ Offset(n + 1) <= Len(FlattenSeq(Datablocks))
  BY <1>2, <1>3 DEF OffsetLies
<1>11. s \in ToSet(sent)
  BY <1>1, <1>2 DEF ToSet
<1> QED
  BY <1>2, <1>5, <1>6, <1>9, <1>10, <1>11 DEF Reading

(* What is handed on with a datablock.                                     *)
LEMMA HandedNext ==
  ASSUME SoundSent, NEW n \in 0 .. Len(sent), n < Len(sent)
  PROVE  /\ Handed(n + 1) = Handed(n) \o Parsed(sent[n + 1])
         /\ \E T : Handed(n) \in Seq(T) /\ Parsed(sent[n + 1]) \in Seq(T)
<1> DEFINE N == Len(sent)
           t == Handing
           S == UNION {{<<s.record.category, ItemsOf(s)>>} : s \in ToSet(sent)}
<1>1. N \in Nat /\ DOMAIN sent = 1 .. N
  BY Offsets
<1>2. ASSUME NEW m \in 1 .. N
      PROVE  t[m] = Parsed(sent[m]) /\ t[m] \in Seq(S)
  <2>1. t[m] = Parsed(sent[m]) /\ sent[m] \in ToSet(sent)
    BY <1>1 DEF Handing, ToSet
  <2> DEFINE p == <<sent[m].record.category, ItemsOf(sent[m])>>
  <2>2. p \in S
    BY <2>1
  <2>3. Parsed(sent[m]) = <<>> \/ Parsed(sent[m]) = <<p>>
    BY DEF Parsed
  <2> HIDE DEF p, S
  <2>4. <<>> \in Seq(S) /\ <<p>> \in Seq(S)
    BY <2>2
  <2> QED
    BY <2>1, <2>3, <2>4
<1> HIDE DEF t, S
<1>3. n + 1 \in 1 .. N /\ (n + 1) - 1 = n /\ n \in 0 .. N
  BY <1>1
<1>4. \A b \in 1 .. N : t[b] \in Seq(S)
  BY <1>2
<1>5. /\ \A m \in 0 .. N : FlattenSeq(Pieces(t, m)) \in Seq(S)
      /\ \A m \in 1 .. N : FlattenSeq(Pieces(t, m)) = FlattenSeq(Pieces(t, m - 1)) \o t[m]
  BY <1>1, <1>4, PiecesFlat
<1>6. FlattenSeq(Pieces(t, n + 1)) = FlattenSeq(Pieces(t, n)) \o t[n + 1]
  BY <1>3, <1>5
<1> QED
  BY <1>2, <1>3, <1>5, <1>6 DEF Handed, t

LEMMA ReadingKept ==
  ASSUME UNCHANGED <<encoderVars, sent, stream, beyond>>
  PROVE  /\ Byte' = Byte
         /\ \A n : Offset(n)' = Offset(n) /\ Handed(n)' = Handed(n)
         /\ AllChosen' = AllChosen /\ Whole' = Whole
<1>1. sent' = sent /\ astOutput' = astOutput /\ file' = file
  BY DEF encoderVars, outVars
<1> QED
  BY <1>1, SourceKept DEF Offset, Datablocks, Handed, Handing, AllChosen, Whole

(* It goes to the next datablock, or stays in this one.                    *)
LEMMA AtNext ==
  ASSUME Reading, NEW n \in 0 .. Len(sent), n < Len(sent), At(n),
         UNCHANGED <<encoderVars, sent, stream, beyond>>,
         pc' = "datablock", bufferIndex' = bufferIndex + Length,
         AllChosen => Pairs' = Handed(n + 1)
  PROVE  n + 1 \in 0 .. Len(sent') /\ At(n + 1)'
<1>1. /\ n + 1 \in 0 .. Len(sent) /\ sent' = sent
      /\ Offset(n + 1) = bufferIndex + Length
  <2>1. bufferIndex = Offset(n)
    BY DEF At
  <2>2. PICK s : s = sent[n + 1]
    OBVIOUS
  <2> QED
    BY <2>1, <2>2, DatablockAtHand
<1>2. Offset(n + 1)' = Offset(n + 1) /\ Handed(n + 1)' = Handed(n + 1) /\ AllChosen' = AllChosen
  BY ReadingKept
<1>3. Begun(n + 1)' = n + 1
  BY DEF Begun
<1>4. Handed(Begun(n + 1))' = Handed(n + 1)
  BY <1>2, <1>3
<1> QED
  BY <1>1, <1>2, <1>4 DEF At

LEMMA AtSame ==
  ASSUME Reading, NEW n \in 0 .. Len(sent), n < Len(sent), At(n), NEW s, s = sent[n + 1],
         UNCHANGED <<encoderVars, sent, stream, beyond, bufferIndex>>,
         pc' \in {"record", "items"}, Chooses(s) => AtDatablock(s)',
         AllChosen => Pairs' = Handed(IF pc' = "record" /\ bytesRead' # 3 THEN n + 1 ELSE n)
  PROVE  n \in 0 .. Len(sent') /\ At(n)'
<1>1. sent' = sent /\ bufferIndex = Offset(n)
  BY DEF At
<1>2. Offset(n)' = Offset(n) /\ Handed(Begun(n)') = Handed(Begun(n))' /\ AllChosen' = AllChosen
  BY ReadingKept
<1>3. Begun(n)' = IF pc' = "record" /\ bytesRead' # 3 THEN n + 1 ELSE n
  BY DEF Begun
<1> QED
  BY <1>1, <1>2, <1>3 DEF At

LEMMA MissingIsRejected ==
  ASSUME NEW s
  PROVE  MissingAt(s.present, Descriptions[s.key].mandatoryItemFRNs) # {} <=> Rejected(s)
BY DEF MissingAt, Rejected, Lacking, ToSet

LEMMA PairsKept == delivered' = delivered => Pairs' = Pairs
BY DEF Pairs

LEMMA BeginReading ==
  ASSUME Reading, NEW n \in 0 .. Len(sent), n < Len(sent), At(n), sent' = sent, BeginRecord
  PROVE  \E m \in 0 .. Len(sent') : At(m)'
<1> PICK s : s = sent[n + 1]
  OBVIOUS
<1> DEFINE list == ReadFspec(Byte, Here)
           index == Here + FieldLength(Byte, Here)
           found == IF list = <<>> THEN NoDescription ELSE Lookup(ParserKey(index), Category)
           mandatory == IF found = NoDescription THEN <<>> ELSE Descriptions[found].mandatoryItemFRNs
           missing == MissingAt(list, mandatory)
<1>1. /\ pc = "record" /\ bytesRead < Length
      /\ FRN_list' = list /\ key' = found /\ parsed' = <<>> /\ bytesRead' = index - bufferIndex
      /\ UNCHANGED <<encoderVars, stream, beyond, delivered>>
      /\ \/ /\ pc' = "datablock" /\ bufferIndex' = bufferIndex + Length
            /\ found = NoDescription \/ missing # {}
         \/ /\ pc' = "items" /\ bufferIndex' = bufferIndex
            /\ found # NoDescription /\ missing = {}
  <2> DEFINE unknown == <<<<"UNKNOWN_CATEGORY", "">>>>
             report == MissingReport(Descriptions[found].items, mandatory[Min(missing)])
  <2>1. /\ FRN_list' = list /\ key' = found /\ parsed' = <<>> /\ bytesRead' = index - bufferIndex
        /\ pc = "record" /\ bytesRead < Length
    BY DEF BeginRecord
  <2>2. IF found = NoDescription THEN GiveUp(unknown)
        ELSE IF missing # {} THEN GiveUp(report)
        ELSE /\ pc' = "items"
             /\ UNCHANGED <<encoderVars, stream, beyond, bufferIndex, delivered, failures>>
    BY DEF BeginRecord
  <2> HIDE DEF index, list, found, mandatory, missing, unknown, report
  <2>3. \A reported : GiveUp(reported) =>
          /\ pc' = "datablock" /\ bufferIndex' = bufferIndex + Length
          /\ UNCHANGED <<encoderVars, stream, beyond, delivered>>
    BY DEF GiveUp
  <2> QED
    BY <2>1, <2>2, <2>3
<1>2. /\ bufferIndex = Offset(n) /\ (Chooses(s) => AtDatablock(s))
      /\ AllChosen => Pairs = Handed(Begun(n))
  BY <1>1 DEF At
<1>3. /\ Shows(s.datablock, bufferIndex) /\ Length = Len(s.datablock)
      /\ Length \in Nat /\ n \in Nat /\ s \in ToSet(sent)
  BY <1>2, DatablockAtHand
<1>4. PICK F : WellEncoded(s, F)
  BY <1>2, DatablockAtHand
<1>5. /\ SourceInv /\ bufferIndex \in Nat /\ bytesRead \in Nat
      /\ stream \in Seq(0 .. 255) /\ beyond \in 0 .. 255
  BY Offsets DEF Reading, ParserInv
<1>6. DatablockLies(s, F, bufferIndex)
  BY <1>3, <1>4, <1>5, DatablockIsRead
<1>7. ASSUME Chooses(s)
      PROVE  /\ bytesRead = 3 /\ list = s.present /\ found = s.key /\ found # NoDescription
             /\ Here = bufferIndex + 3 /\ index = bufferIndex + 3 + Len(F)
             /\ Len(F) = FieldLength(Byte, bufferIndex + 3) /\ Len(F) \in Nat
             /\ missing # {} <=> Rejected(s)
  <2>1. bytesRead = 3
    BY <1>1, <1>2, <1>3, <1>7 DEF AtDatablock
  <2>2. Here = bufferIndex + 3
    BY <2>1 DEF Here
  <2>3. /\ list = s.present /\ Len(F) = FieldLength(Byte, bufferIndex + 3) /\ Len(F) \in Nat
        /\ index = bufferIndex + 3 + Len(F)
    BY <1>6, <2>2 DEF DatablockLies
  <2>4. s.present # <<>> /\ s.key # NoDescription
    BY <1>4 DEF WellEncoded
  <2>5. Lookup(ParserKey(index), Category) = s.key
    <3> HIDE DEF index
    <3> QED
      BY <1>3, <1>4, <1>5, <1>7, <2>3, SameIsFound
  <2> HIDE DEF list, index
  <2>6. found = s.key
    BY <2>3, <2>4, <2>5
  <2> HIDE DEF found
  <2>7. missing = MissingAt(s.present, Descriptions[s.key].mandatoryItemFRNs)
    BY <2>3, <2>4, <2>6
  <2> HIDE DEF missing
  <2> QED
    BY <2>1, <2>2, <2>3, <2>4, <2>6, <2>7, MissingIsRejected
<1> HIDE DEF list, index, found, mandatory, missing
<1>8. Pairs' = Pairs
  BY <1>1, PairsKept
<1>9. ASSUME AllChosen
      PROVE  Chooses(s) /\ Pairs = Handed(n)
  <2>1. Chooses(s)
    BY <1>3, <1>9 DEF AllChosen
  <2>2. Begun(n) = n
    BY <1>7, <2>1 DEF Begun
  <2> QED
    BY <1>2, <1>9, <2>1, <2>2
<1>10. CASE /\ pc' = "datablock" /\ bufferIndex' = bufferIndex + Length
            /\ (found = NoDescription \/ missing # {})
  <2>1. ASSUME AllChosen
        PROVE  Pairs' = Handed(n + 1)
    <3>1. Rejected(s) /\ Parsed(s) = <<>>
      BY <1>7, <1>9, <1>10, <2>1 DEF Parsed
    <3>2. Handed(n + 1) = Handed(n) \o <<>> /\ \E T : Handed(n) \in Seq(T)
      BY <3>1, HandedNext DEF Reading
    <3> QED
      BY <1>8, <1>9, <2>1, <3>2, ConcatEmptySeq
  <2>2. n + 1 \in 0 .. Len(sent') /\ At(n + 1)'
    BY <1>1, <1>10, <2>1, AtNext
  <2> QED
    BY <2>2
<1>11. CASE pc' = "items" /\ bufferIndex' = bufferIndex /\ found # NoDescription /\ missing = {}
  <2>1. ASSUME Chooses(s)
        PROVE  AtDatablock(s)'
    <3>1. key' = s.key /\ FRN_list' = s.present /\ ~ Rejected(s)
      BY <1>1, <1>7, <1>11, <2>1
    <3>2. Len(parsed') = 0 /\ parsed' = Pieces(ItemsOf(s), 0) /\ Len(Content(parsed')) = 0
      <4>1. ItemList(ItemsOf(s), Len(s.present))
        BY <1>4, ContentIsBytes
      <4>2. Pieces(ItemsOf(s), 0) = <<>>
        BY <4>1, ContentPieces
      <4> QED
        BY <1>1, <4>2, ContentEmpty
    <3>3. Len(s.present) \in Nat
      BY <1>4, LenProperties DEF WellEncoded, Lists
    <3>4. bytesRead' = 3 + FieldLength(Byte', bufferIndex' + 3) + Len(Content(parsed'))
      <4>1. Byte' = Byte
        BY <1>1, SourceKept
      <4>2. bytesRead' = index - bufferIndex /\ index = bufferIndex + 3 + Len(F) /\ Len(F) \in Nat
        BY <1>1, <1>7, <2>1
      <4>3. FieldLength(Byte', bufferIndex' + 3) = Len(F)
        BY <1>7, <1>11, <2>1, <4>1
      <4> QED
        BY <1>5, <3>2, <4>2, <4>3
    <3> QED
      BY <1>11, <3>1, <3>2, <3>3, <3>4 DEF AtDatablock
  <2>2. AllChosen => Pairs' = Handed(IF pc' = "record" /\ bytesRead' # 3 THEN n + 1 ELSE n)
    BY <1>8, <1>9, <1>11
  <2>3. n \in 0 .. Len(sent') /\ At(n)'
    BY <1>1, <1>11, <2>1, <2>2, AtSame
  <2> QED
    BY <2>3
<1> QED
  BY <1>1, <1>10, <1>11

LEMMA ItemReading ==
  ASSUME Reading, NEW n \in 0 .. Len(sent), n < Len(sent), At(n), sent' = sent, ParseItem
  PROVE  \E m \in 0 .. Len(sent') : At(m)'
<1> PICK s : s = sent[n + 1]
  OBVIOUS
<1> DEFINE k == Len(parsed) + 1
           frn == FRN_list[k]
           items == Descriptions[key].items
           l == ItemLength(items[frn], Here)
<1>1. /\ pc = "items" /\ Len(parsed) < Len(FRN_list)
      /\ UNCHANGED <<encoderVars, stream, beyond, delivered>>
      /\ \/ /\ pc' = "datablock" /\ bufferIndex' = bufferIndex + Length
            /\ frn > Len(items) \/ l < 0
         \/ /\ parsed' = Append(parsed, <<items[frn].name, Bytes(Here, l)>>)
            /\ bytesRead' = bytesRead + l
            /\ UNCHANGED <<pc, bufferIndex, recordStart, FRN_list, key>>
  <2> DEFINE wrong == <<<<"PARSING_ERROR", items[frn].name>>>>
             unknown == <<<<"UNKNOWN_FRN", "">>>>
  <2>1. /\ pc = "items" /\ Len(parsed) < Len(FRN_list)
        /\ IF frn > Len(items) THEN GiveUp(unknown)
           ELSE IF l < 0 THEN GiveUp(wrong)
           ELSE /\ parsed' = Append(parsed, <<items[frn].name, Bytes(Here, l)>>)
                /\ bytesRead' = bytesRead + l
                /\ UNCHANGED <<encoderVars, pc, stream, beyond, bufferIndex, recordStart,
                               FRN_list, key, delivered, failures>>
    BY DEF ParseItem
  <2> HIDE DEF frn, items, l, wrong, unknown
  <2>2. \A reported : GiveUp(reported) =>
          /\ pc' = "datablock" /\ bufferIndex' = bufferIndex + Length
          /\ UNCHANGED <<encoderVars, stream, beyond, delivered>>
    BY DEF GiveUp
  <2> QED
    BY <2>1, <2>2
<1>2. /\ bufferIndex = Offset(n) /\ (Chooses(s) => AtDatablock(s))
      /\ AllChosen => Pairs = Handed(Begun(n))
  BY <1>1 DEF At
<1>3. Begun(n) = n
  BY <1>1 DEF Begun
<1>4. Shows(s.datablock, bufferIndex) /\ s \in ToSet(sent)
  BY <1>2, DatablockAtHand
<1>5. PICK F : WellEncoded(s, F)
  BY <1>2, DatablockAtHand
<1>6. SourceInv /\ bufferIndex \in Nat /\ bytesRead \in Nat
  BY DEF Reading, ParserInv
<1>7. DatablockLies(s, F, bufferIndex)
  BY <1>4, <1>5, <1>6, DatablockIsRead
<1>8. Pairs' = Pairs
  BY <1>1, PairsKept
<1> DEFINE g == ItemsOf(s)
           w == g[k][2]
<1>9. ASSUME Chooses(s)
      PROVE  /\ key = s.key /\ FRN_list = s.present /\ ~ Rejected(s)
             /\ k \in Nat /\ k <= Len(s.present)
             /\ ~ (frn > Len(items)) /\ l = Len(w) /\ l \in Nat
             /\ Append(parsed, <<items[frn].name, Bytes(Here, l)>>) = Pieces(g, k)
             /\ bytesRead + l = 3 + FieldLength(Byte, bufferIndex + 3) + Len(Content(Pieces(g, k)))
  <2>1. /\ key = s.key /\ FRN_list = s.present /\ ~ Rejected(s)
        /\ Len(parsed) \in Nat /\ parsed = Pieces(g, Len(parsed))
        /\ bytesRead = 3 + FieldLength(Byte, bufferIndex + 3) + Len(Content(parsed))
    BY <1>1, <1>2, <1>9 DEF AtDatablock
  <2>2. s.present \in Seq(Nat) /\ Len(s.present) \in Nat
    BY <1>5, LenProperties DEF WellEncoded, Lists
  <2>3. k \in Nat /\ k \in 1 .. Len(s.present) /\ k - 1 = Len(parsed)
    <3> DEFINE done == Len(parsed)
               all == Len(s.present)
    <3>1. done < Len(FRN_list)
      BY ONLY <1>1
    <3>2. Len(FRN_list) = all
      BY ONLY <2>1
    <3>3. done \in Nat /\ all \in Nat /\ k = done + 1
      BY ONLY <2>1, <2>2
    <3> HIDE DEF done, all, k
    <3>4. done < all
      BY ONLY <3>1, <3>2
    <3>5. k \in Nat /\ k \in 1 .. all /\ k - 1 = done
      BY ONLY <3>3, <3>4
    <3> QED
      BY ONLY <3>5 DEF done, all
  <2>4. ItemLies(s, F, bufferIndex, k)
    <3> HIDE DEF k
    <3> QED
      BY <1>4, <1>5, <1>6, <2>3, ItemIsFound
  <2>5. frn = s.present[k] /\ items = SentItems(s)
    BY <2>1 DEF SentItems
  <2>6. frn \in DOMAIN items
    <3> PICK item : item = SentItems(s)[s.present[k]]
      OBVIOUS
    <3> HIDE DEF k, frn, items
    <3>1. s.present[k] \in DOMAIN SentItems(s)
      BY <1>5, <2>3, SentItem
    <3> QED
      BY <2>5, <3>1
  <2>7. ~ (frn > Len(items))
    <3>1. items \in Seq(ToSet(items))
      <4>1. s.key \in DOMAIN Descriptions
        BY <1>5 DEF WellEncoded
      <4>2. key \in DOMAIN Descriptions
        BY <2>1, <4>1
      <4> QED
        BY <4>2, DescriptionsAssumption
    <3> HIDE DEF items, frn
    <3>2. Len(items) \in Nat /\ DOMAIN items = 1 .. Len(items)
      BY <3>1, LenProperties
    <3> QED
      BY <2>6, <3>2
  <2>8. Len(F) = FieldLength(Byte, bufferIndex + 3) /\ Len(F) \in Nat
    BY <1>7 DEF DatablockLies
  <2> DEFINE before == Len(Content(parsed))
             o == bufferIndex + 3 + Len(F) + Len(Content(Pieces(g, k - 1)))
  <2>9. before \in Nat /\ Content(Pieces(g, k - 1)) = Content(parsed)
    <3>1. ItemList(g, Len(s.present)) /\ k - 1 \in 0 .. Len(s.present)
      BY <1>5, <2>2, <2>3, ContentIsBytes
    <3> HIDE DEF g, k
    <3>2. Content(Pieces(g, k - 1)) \in Seq(0 .. 255)
      BY <3>1, ContentPieces
    <3>3. Len(Content(Pieces(g, k - 1))) \in Nat
      BY <3>2, LenProperties
    <3> QED
      BY <2>1, <2>3, <3>3
  <2>10. o = Here
    <3>1. bytesRead = 3 + Len(F) + before
      BY <2>1, <2>8
    <3>2. o = bufferIndex + 3 + Len(F) + before
      BY <2>9
    <3> DEFINE field == Len(F)
    <3>3. /\ bufferIndex \in Nat /\ before \in Nat /\ field \in Nat
          /\ bytesRead = 3 + field + before /\ o = bufferIndex + 3 + field + before
          /\ Here = bufferIndex + bytesRead
      BY ONLY <1>6, <2>8, <2>9, <3>1, <3>2 DEF Here
    <3> HIDE DEF before, o, field
    <3> QED
      BY ONLY <3>3
  <2> HIDE DEF k
  <2>11. /\ ItemLength(SentItems(s)[s.present[k]], o) = Len(w) /\ Bytes(o, Len(w)) = w
         /\ g[k] = <<SentItems(s)[s.present[k]].name, w>>
         /\ Len(w) \in Nat
         /\ Pieces(g, k) = Append(Pieces(g, k - 1), g[k])
         /\ Len(Content(Pieces(g, k))) = Len(Content(Pieces(g, k - 1))) + Len(w)
    BY <2>4 DEF ItemLies
  <2> HIDE DEF o, g, w, frn, items
  <2>12. l = Len(w) /\ l \in Nat
    BY <2>5, <2>10, <2>11
  <2>13. Append(parsed, <<items[frn].name, Bytes(Here, l)>>) = Pieces(g, k)
    BY <2>1, <2>3, <2>5, <2>10, <2>11, <2>12
  <2>14. bytesRead + l = 3 + FieldLength(Byte, bufferIndex + 3) + Len(Content(Pieces(g, k)))
    <3>1. Len(Content(Pieces(g, k))) = before + l
      BY <2>9, <2>11, <2>12
    <3>2. bytesRead = 3 + FieldLength(Byte, bufferIndex + 3) + before
      BY <2>1
    <3> DEFINE f == FieldLength(Byte, bufferIndex + 3)
               c == Len(Content(Pieces(g, k)))
    <3>3. c = before + l /\ bytesRead = 3 + f + before /\ f \in Nat /\ before \in Nat /\ l \in Nat
      BY <2>8, <2>9, <2>12, <3>1, <3>2
    <3> HIDE DEF before, l, f, c
    <3>4. bytesRead + l = 3 + f + c
      BY <3>3
    <3> QED
      BY <3>4 DEF f, c
  <2>15. k \in Nat /\ k <= Len(s.present)
    BY <2>2, <2>3
  <2> HIDE DEF l
  <2> QED
    BY <2>1, <2>7, <2>12, <2>13, <2>14, <2>15
<1> HIDE DEF l, frn, items, w
<1>10. ASSUME AllChosen
       PROVE  Chooses(s) /\ Pairs = Handed(n)
  BY <1>2, <1>3, <1>4, <1>10 DEF AllChosen
<1>11. CASE pc' = "datablock" /\ bufferIndex' = bufferIndex + Length /\ (frn > Len(items) \/ l < 0)
  <2>1. ~ AllChosen
    <3>1. l \in Nat => ~ (l < 0)
      OBVIOUS
    <3> QED
      BY <1>9, <1>10, <1>11, <3>1
  <2>2. n + 1 \in 0 .. Len(sent') /\ At(n + 1)'
    BY <1>1, <1>11, <2>1, AtNext
  <2> QED
    BY <2>2
<1>12. CASE /\ parsed' = Append(parsed, <<items[frn].name, Bytes(Here, l)>>)
            /\ bytesRead' = bytesRead + l
            /\ UNCHANGED <<pc, bufferIndex, recordStart, FRN_list, key>>
  <2>1. ASSUME Chooses(s)
        PROVE  AtDatablock(s)'
    <3>1. key' = s.key /\ FRN_list' = s.present /\ ~ Rejected(s) /\ k \in Nat /\ k <= Len(s.present)
      BY <1>9, <1>12, <2>1
    <3>2. parsed' = Pieces(g, k)
      BY <1>9, <1>12, <2>1
    <3>3. Len(Pieces(g, k)) = k
      <4> HIDE DEF g, k
      <4> QED
        BY <3>1 DEF Pieces
    <3>4. Byte' = Byte
      BY <1>1, SourceKept
    <3>5. bytesRead' = 3 + FieldLength(Byte', bufferIndex' + 3) + Len(Content(parsed'))
      BY <1>9, <1>12, <2>1, <3>2, <3>4
    <3> HIDE DEF k
    <3>6. Len(parsed') = k /\ parsed' = Pieces(ItemsOf(s), Len(parsed'))
      BY <3>2, <3>3
    <3> QED
      BY <1>1, <1>12, <3>1, <3>5, <3>6 DEF AtDatablock
  <2>2. AllChosen => Pairs' = Handed(IF pc' = "record" /\ bytesRead' # 3 THEN n + 1 ELSE n)
    BY <1>1, <1>8, <1>10, <1>12
  <2>3. n \in 0 .. Len(sent') /\ At(n)'
    BY <1>1, <1>12, <2>1, <2>2, AtSame
  <2> QED
    BY <2>3
<1> QED
  BY <1>1, <1>11, <1>12

LEMMA PairsAppend ==
  ASSUME NEW S, delivered \in Seq(S), NEW r, delivered' = Append(delivered, r)
  PROVE  Pairs' = Append(Pairs, <<r.category, r.items>>)
<1> DEFINE T == {<<q.category, q.items>> : q \in S \cup {r}}
           d == Pairs
           b == <<r.category, r.items>>
           m == Len(delivered)
           a == Append(d, b)
           f == Pairs'
<1>1. /\ delivered \in Seq(S \cup {r}) /\ m \in Nat /\ DOMAIN delivered = 1 .. m
      /\ delivered' \in Seq(S \cup {r}) /\ Len(delivered') = m + 1 /\ delivered'[m + 1] = r
      /\ DOMAIN delivered' = 1 .. m + 1 /\ \A i \in 1 .. m : delivered'[i] = delivered[i]
  BY SeqMonotonic, AppendProperties, LenProperties
<1>2. \A i \in 1 .. m : delivered[i] \in S \cup {r}
  BY <1>1
<1>3. d \in Seq(T) /\ Len(d) = m /\ \A i \in 1 .. m : d[i] = <<delivered[i].category, delivered[i].items>>
  BY <1>1, <1>2 DEF Pairs
<1>4. \A i \in 1 .. m + 1 : delivered'[i] \in S \cup {r}
  BY <1>1
<1>5. f = [i \in 1 .. m + 1 |-> <<delivered'[i].category, delivered'[i].items>>]
  BY <1>1 DEF Pairs
<1>6. /\ f \in Seq(T) /\ Len(f) = m + 1
      /\ \A i \in 1 .. m + 1 : f[i] = <<delivered'[i].category, delivered'[i].items>>
  BY <1>1, <1>4, <1>5
<1>7. b \in T
  OBVIOUS
<1> HIDE DEF d, f, T, b, m
<1>8. a \in Seq(T) /\ Len(a) = m + 1 /\ a[m + 1] = b /\ \A i \in 1 .. m : a[i] = d[i]
  BY <1>1, <1>3, <1>7, AppendProperties
<1> HIDE DEF a
<1>9. ASSUME NEW i \in 1 .. m + 1
      PROVE  a[i] = f[i]
  <2>1. CASE i = m + 1
    BY <1>1, <1>6, <1>8, <2>1 DEF b
  <2>2. CASE i # m + 1
    <3>1. i \in 1 .. m
      BY <1>1, <2>2
    <3> QED
      BY <1>1, <1>3, <1>6, <1>8, <3>1
  <2> QED
    BY <2>1, <2>2
<1>10. a = f
  BY <1>6, <1>8, <1>9, SeqEqual
<1> QED
  BY <1>10 DEF a, d, f, b

LEMMA EndReading ==
  ASSUME Reading, KeysInv, NEW n \in 0 .. Len(sent), n < Len(sent), At(n), sent' = sent, EndRecord
  PROVE  KeysInv' /\ \E m \in 0 .. Len(sent') : At(m)'
<1> PICK s : s = sent[n + 1]
  OBVIOUS
<1> PICK r : r = [category |-> Category, key |-> key, items |-> parsed, datablock |-> bufferIndex,
                  from |-> recordStart, raw |-> Bytes(recordStart, RecordSize)]
  OBVIOUS
<1>1. /\ pc = "items" /\ Len(parsed) = Len(FRN_list) /\ delivered' = Append(delivered, r)
      /\ r.category = Category /\ r.key = key /\ r.items = parsed /\ r.datablock = bufferIndex
      /\ pc' = "record" /\ UNCHANGED <<encoderVars, stream, beyond, bufferIndex, bytesRead>>
  BY DEF EndRecord
<1>2. /\ bufferIndex = Offset(n) /\ (Chooses(s) => AtDatablock(s))
      /\ AllChosen => Pairs = Handed(Begun(n))
  BY <1>1 DEF At
<1>3. Begun(n) = n
  BY <1>1 DEF Begun
<1>4. /\ Shows(s.datablock, bufferIndex) /\ s \in ToSet(sent)
      /\ Length = Len(s.datablock) /\ Length \in Nat /\ Length >= 4
      /\ n \in Nat /\ n + 1 \in 1 .. Len(sent)
  BY <1>2, DatablockAtHand
<1>5. PICK F : WellEncoded(s, F)
  BY <1>2, DatablockAtHand
<1>6. SourceInv /\ bufferIndex \in Nat /\ bytesRead \in Nat /\ DeliveredInv
  BY DEF Reading, ParserInv
<1>7. DatablockLies(s, F, bufferIndex)
  BY <1>4, <1>5, <1>6, DatablockIsRead
<1> DEFINE g == ItemsOf(s)
<1>8. ASSUME Chooses(s)
      PROVE  /\ key = s.key /\ ~ Rejected(s) /\ parsed = g
             /\ bytesRead = Len(s.datablock) /\ Category = s.record.category
  <2>1. /\ key = s.key /\ FRN_list = s.present /\ ~ Rejected(s)
        /\ parsed = Pieces(g, Len(parsed))
        /\ bytesRead = 3 + FieldLength(Byte, bufferIndex + 3) + Len(Content(parsed))
    BY <1>1, <1>2, <1>8 DEF AtDatablock
  <2>2. parsed = Pieces(g, Len(s.present))
    BY <1>1, <2>1
  <2>3. ItemList(g, Len(s.present))
    BY <1>5, ContentIsBytes
  <2>4. Pieces(g, Len(s.present)) = g
    <3> HIDE DEF g
    <3> QED
      BY <2>3, ContentPieces
  <2>5. /\ FieldLength(Byte, bufferIndex + 3) = Len(F)
        /\ Len(s.datablock) = 3 + Len(F) + Len(Content(g)) /\ Category = s.record.category
    BY <1>7 DEF DatablockLies, Category
  <2> HIDE DEF g
  <2> QED
    BY <2>1, <2>2, <2>4, <2>5
<1> HIDE DEF g
<1>9. PICK S : delivered \in Seq(S)
  BY <1>6 DEF DeliveredInv
<1>10. Pairs' = Append(Pairs, <<Category, parsed>>)
  BY <1>1, <1>9, PairsAppend
<1>11. ASSUME AllChosen
       PROVE  Pairs' = Handed(n + 1) /\ bytesRead' # 3
  <2>1. Chooses(s) /\ Pairs = Handed(n)
    BY <1>2, <1>3, <1>4, <1>11 DEF AllChosen
  <2> DEFINE p == <<s.record.category, ItemsOf(s)>>
  <2>2. Parsed(s) = <<p>> /\ Pairs' = Append(Handed(n), p)
    BY <1>8, <1>10, <2>1 DEF Parsed, g
  <2>3. PICK T : Handed(n) \in Seq(T) /\ Handed(n + 1) = Handed(n) \o Parsed(s) /\ Parsed(s) \in Seq(T)
    BY HandedNext DEF Reading
  <2> HIDE DEF p
  <2>4. Append(Handed(n), p) = Handed(n) \o <<p>>
    <3> DEFINE h == Handed(n)
               U == T \cup {p}
    <3>1. h \in Seq(U) /\ p \in U
      BY <2>3, SeqMonotonic
    <3> HIDE DEF h, U
    <3>2. Append(h, p) = h \o <<p>>
      BY <3>1, AppendIsConcat
    <3> QED
      BY <3>2 DEF h
  <2>5. bytesRead' # 3
    BY <1>1, <1>4, <1>8, <2>1
  <2> QED
    BY <2>2, <2>3, <2>4, <2>5
<1>12. Chooses(s) => AtDatablock(s)'
  BY <1>1, <1>8 DEF AtDatablock
<1>13. AllChosen => Pairs' = Handed(IF pc' = "record" /\ bytesRead' # 3 THEN n + 1 ELSE n)
  BY <1>1, <1>11
<1>14. n \in 0 .. Len(sent') /\ At(n)'
  BY <1>1, <1>12, <1>13, AtSame
<1>15. KeysInv'
  <2> DEFINE m == Len(delivered)
  <2>1. /\ DOMAIN delivered = 1 .. m /\ m \in Nat
        /\ DOMAIN delivered' = 1 .. m + 1 /\ delivered'[m + 1] = r
        /\ \A i \in 1 .. m : delivered'[i] = delivered[i]
    <3>1. delivered \in Seq(S \cup {r}) /\ m \in Nat /\ DOMAIN delivered = 1 .. m
      BY <1>9, SeqMonotonic, LenProperties
    <3>2. /\ delivered' \in Seq(S \cup {r}) /\ Len(delivered') = m + 1
          /\ delivered'[m + 1] = r /\ \A i \in 1 .. m : delivered'[i] = delivered[i]
      BY <1>1, <3>1, AppendProperties
    <3> QED
      BY <3>1, <3>2, LenProperties
  <2> HIDE DEF m
  <2>2. ASSUME NEW i \in 1 .. m + 1, NEW k \in 1 .. Len(sent),
               delivered'[i].datablock = Offset(k - 1), Chooses(sent[k])
        PROVE  delivered'[i].key = sent[k].key
    <3>1. CASE i \in 1 .. m
      BY <2>1, <2>2, <3>1 DEF KeysInv
    <3>2. CASE i = m + 1
      <4>1. Offset(k - 1) = Offset(n) /\ r.key = key
        BY <1>1, <1>2, <2>1, <2>2, <3>2
      <4>2. k - 1 \in 0 .. Len(sent) /\ k \in Nat
        <5>1. Len(sent) \in Nat
          BY Offsets DEF Reading
        <5> QED
          BY <5>1
      <4>3. k - 1 = n
        BY <4>1, <4>2, OffsetsDiffer DEF Reading
      <4>4. k = n + 1
        BY <1>4, <4>2, <4>3
      <4> QED
        BY <1>8, <2>1, <2>2, <3>2, <4>1, <4>4
    <3> QED
      BY <2>1, <3>1, <3>2
  <2>3. \A k : Offset(k)' = Offset(k)
    BY <1>1, ReadingKept
  <2> QED
    BY <2>1, <2>2, <2>3 DEF KeysInv
<1> QED
  BY <1>14, <1>15

(* From datablock to datablock.                                            *)
LEMMA NextReading ==
  ASSUME Reading, NEW n \in 0 .. Len(sent), At(n), sent' = sent, NextDatablock
  PROVE  \E m \in 0 .. Len(sent') : At(m)'
<1> PICK s : s = sent[n + 1]
  OBVIOUS
<1>1. /\ pc = "datablock" /\ bufferIndex < Len(stream)
      /\ UNCHANGED <<encoderVars, stream, beyond, bufferIndex, delivered>>
      /\ bufferIndex + Length <= Len(stream) => pc' = "record" /\ bytesRead' = 3
  BY DEF NextDatablock
<1>2. /\ bufferIndex = Offset(n) /\ Begun(n) = n
      /\ AllChosen => Pairs = Handed(Begun(n))
  BY <1>1 DEF At, Begun
<1>3. /\ Len(sent) \in Nat /\ Len(stream) = Offset(Len(sent)) /\ Len(stream) \in Nat
  BY Offsets DEF Reading
<1>4. n < Len(sent)
  <2>1. n # Len(sent)
    BY <1>1, <1>2, <1>3
  <2> QED
    BY <1>3, <2>1
<1>5. Offset(n + 1) = bufferIndex + Length /\ Offset(n + 1) <= Len(stream)
  BY <1>2, <1>4, DatablockAtHand
<1>6. pc' = "record" /\ bytesRead' = 3
  BY <1>1, <1>5
<1>7. Pairs' = Pairs
  BY <1>1, PairsKept
<1>8. AtDatablock(s)'
  BY <1>6 DEF AtDatablock
<1>9. AllChosen => Pairs' = Handed(IF pc' = "record" /\ bytesRead' # 3 THEN n + 1 ELSE n)
  BY <1>2, <1>6, <1>7
<1>10. n \in 0 .. Len(sent') /\ At(n)'
  BY <1>1, <1>4, <1>6, <1>8, <1>9, AtSame
<1> QED
  BY <1>10

LEMMA DoneReading ==
  ASSUME Reading, NEW n \in 0 .. Len(sent), At(n), sent' = sent, NoMoreDatablocks
  PROVE  \E m \in 0 .. Len(sent') : At(m)'
<1>1. /\ pc = "datablock" /\ bufferIndex >= Len(stream) /\ pc' = "done"
      /\ UNCHANGED <<encoderVars, stream, beyond, bufferIndex, bytesRead, delivered>>
  BY DEF NoMoreDatablocks
<1>2. /\ bufferIndex = Offset(n) /\ Begun(n) = n
      /\ AllChosen => Pairs = Handed(Begun(n))
  BY <1>1 DEF At, Begun
<1>3. n = Len(sent)
  <2>1. ASSUME n < Len(sent)
        PROVE  FALSE
    <3> PICK s : s = sent[n + 1]
      OBVIOUS
    <3>1. /\ Length \in Nat /\ Length >= 4
          /\ Offset(n + 1) = bufferIndex + Length /\ Offset(n + 1) <= Len(stream)
      BY <1>2, <2>1, DatablockAtHand
    <3>2. bufferIndex \in Nat /\ Len(stream) \in Nat
      BY Offsets DEF Reading, ParserInv
    <3> QED
      BY <1>1, <3>1, <3>2
  <2>2. Len(sent) \in Nat
    BY Offsets DEF Reading
  <2> QED
    BY <2>1, <2>2
<1>4. Pairs' = Pairs
  BY <1>1, PairsKept
<1>5. Offset(n)' = Offset(n) /\ Handed(n)' = Handed(n) /\ AllChosen' = AllChosen
  BY <1>1, ReadingKept
<1>6. Begun(n)' = n
  BY <1>1 DEF Begun
<1>7. Handed(Begun(n))' = Handed(n)
  BY <1>5, <1>6
<1>8. At(n)'
  BY <1>1, <1>2, <1>3, <1>4, <1>5, <1>7 DEF At
<1> QED
  BY <1>8

LEMMA LeaveReading ==
  ASSUME Reading, NEW n \in 0 .. Len(sent), n < Len(sent), At(n), sent' = sent, EndDatablock
  PROVE  \E m \in 0 .. Len(sent') : At(m)'
<1> PICK s : s = sent[n + 1]
  OBVIOUS
<1>1. /\ pc = "record" /\ bytesRead >= Length
      /\ pc' = "datablock" /\ bufferIndex' = bufferIndex + Length
      /\ UNCHANGED <<encoderVars, stream, beyond, delivered>>
  BY DEF EndDatablock
<1>2. bufferIndex = Offset(n) /\ (AllChosen => Pairs = Handed(Begun(n)))
  BY DEF At
<1>3. Length \in Nat /\ Length >= 4 /\ bytesRead \in Nat
  BY <1>2, DatablockAtHand DEF Reading, ParserInv
<1>4. bytesRead # 3
  BY <1>1, <1>3
<1>5. Begun(n) = n + 1
  BY <1>1, <1>4 DEF Begun
<1>6. Pairs' = Pairs
  BY <1>1, PairsKept
<1>7. n + 1 \in 0 .. Len(sent') /\ At(n + 1)'
  BY <1>1, <1>2, <1>5, <1>6, AtNext
<1> QED
  BY <1>7

(* The parser's steps, and the invariant.                                  *)
LEMMA StartReading ==
  ASSUME ParserInv, EntriesInv, ReadInv, ParserStep, ParseEncoded \/ ParseReceived
  PROVE  ReadInv'
<1>1. PICK bytes : Start(bytes)
  BY DEF ParseEncoded, ParseReceived
<1>2. /\ pc = "idle" /\ pc' = "datablock" /\ beyond' \in Beyond /\ sent' = sent
      /\ UNCHANGED <<bufferIndex, delivered>>
  BY <1>1 DEF Start, ParserStep
<1>3. bufferIndex' = 0 /\ delivered' = <<>> /\ beyond' \in 0 .. 255
  BY <1>2, ParsingAssumption DEF ReadInv, ParserInv, DeliveredInv
<1>4. DOMAIN <<>> = {}
  OBVIOUS
<1>5. KeysInv'
  BY <1>3, <1>4 DEF KeysInv
<1>6. Offset(0)' = 0 /\ Len(sent) \in Nat
  <2>1. Offset(0) = 0 /\ Len(sent) \in Nat
    BY Offsets DEF EntriesInv
  <2>2. Offset(0)' = Offset(0)
    BY <1>2 DEF Offset, Datablocks
  <2> QED
    BY <2>1, <2>2
<1>7. Pairs' = <<>>
  BY <1>3, <1>4 DEF Pairs
<1>8. Handed(Begun(0))' = <<>>
  <2>1. Begun(0)' = 0
    BY <1>2 DEF Begun
  <2>2. 1 .. 0 = {}
    OBVIOUS
  <2>3. Handed(0)' = FlattenSeq(<<>>)
    BY <2>2 DEF Handed, Pieces
  <2>4. Handed(Begun(0))' = Handed(0)'
    BY <2>1
  <2> QED
    BY <2>3, <2>4, FlattenEmpty
<1>9. At(0)'
  BY <1>2, <1>3, <1>6, <1>7, <1>8 DEF At
<1>10. 0 \in 0 .. Len(sent')
  BY <1>2, <1>6
<1> QED
  BY <1>2, <1>3, <1>5, <1>9, <1>10 DEF ReadInv

LEMMA ParserReads ==
  ASSUME ParserInv, EntriesInv, LinkInv, ReadInv, ParserStep
  PROVE  ReadInv'
<1>1. CASE ParseEncoded \/ ParseReceived
  BY <1>1, StartReading
<1>2. CASE ~ ParseEncoded /\ ~ ParseReceived
  <2>1. /\ NextDatablock \/ NoMoreDatablocks \/ BeginRecord \/ ParseItem \/ EndRecord \/ EndDatablock
        /\ sent' = sent
    BY <1>2 DEF ParserStep, ParserNext
  <2>2. /\ pc # "idle" /\ pc' # "idle" /\ UNCHANGED <<encoderVars, stream, beyond>>
        /\ EndRecord \/ delivered' = delivered
    BY <2>1 DEF NextDatablock, NoMoreDatablocks, BeginRecord, GiveUp, ParseItem, EndRecord, EndDatablock
  <2>3. beyond' \in 0 .. 255 /\ Whole' = Whole
    BY <2>1, <2>2, ReadingKept DEF ReadInv
  <2>4. ASSUME sent # <<>>, Whole
        PROVE  KeysInv' /\ \E m \in 0 .. Len(sent') : At(m)'
    <3>1. Reading
      BY <2>2, <2>4 DEF Reading, ReadInv, EntriesInv, LinkInv
    <3>2. KeysInv
      BY <2>2, <2>4 DEF ReadInv
    <3>3. PICK n \in 0 .. Len(sent) : At(n)
      BY <2>2, <2>4 DEF ReadInv
    <3>4. pc \in {"record", "items"} => n < Len(sent)
      BY <3>3 DEF At
    <3>5. CASE EndRecord
      <4>1. pc = "items"
        BY <3>5 DEF EndRecord
      <4> QED
        BY <2>1, <3>1, <3>2, <3>3, <3>4, <3>5, <4>1, EndReading
    <3>6. CASE ~ EndRecord
      <4>1. KeysInv'
        <5>1. \A k : Offset(k)' = Offset(k)
          BY <2>1, <2>2, ReadingKept
        <5> QED
          BY <2>1, <2>2, <3>2, <3>6, <5>1 DEF KeysInv
      <4>2. CASE NextDatablock
        BY <2>1, <3>1, <3>3, <4>1, <4>2, NextReading
      <4>3. CASE NoMoreDatablocks
        BY <2>1, <3>1, <3>3, <4>1, <4>3, DoneReading
      <4>4. CASE BeginRecord
        <5>1. pc = "record"
          BY <4>4 DEF BeginRecord
        <5> QED
          BY <2>1, <3>1, <3>3, <3>4, <4>1, <4>4, <5>1, BeginReading
      <4>5. CASE ParseItem
        <5>1. pc = "items"
          BY <4>5 DEF ParseItem
        <5> QED
          BY <2>1, <3>1, <3>3, <3>4, <4>1, <4>5, <5>1, ItemReading
      <4>6. CASE EndDatablock
        <5>1. pc = "record"
          BY <4>6 DEF EndDatablock
        <5> QED
          BY <2>1, <3>1, <3>3, <3>4, <4>1, <4>6, <5>1, LeaveReading
      <4> QED
        BY <2>1, <3>6, <4>2, <4>3, <4>4, <4>5, <4>6
    <3> QED
      BY <3>5, <3>6
  <2> QED
    BY <2>1, <2>2, <2>3, <2>4 DEF ReadInv
<1> QED
  BY <1>1, <1>2

LEMMA ReadKept ==
  ASSUME ReadInv, UNCHANGED vars
  PROVE  ReadInv'
<1>1. /\ UNCHANGED <<pc, stream, beyond, bufferIndex, bytesRead, FRN_list, key, parsed, delivered>>
      /\ UNCHANGED <<encoderVars, sent>>
  BY DEF vars, parserVars, recordVars
<1>2. /\ Byte' = Byte /\ AllChosen' = AllChosen /\ Whole' = Whole /\ Pairs' = Pairs
      /\ \A n : Offset(n)' = Offset(n) /\ Begun(n)' = Begun(n)
  BY <1>1, ReadingKept, PairsKept DEF Begun
<1>3. \A s : AtDatablock(s)' <=> AtDatablock(s)
  BY <1>1, <1>2 DEF AtDatablock
<1>4. \A n : Handed(Begun(n))' = Handed(Begun(n))
  BY <1>1, <1>2 DEF Handed, Handing
<1>5. \A n : At(n)' <=> At(n)
  BY <1>1, <1>2, <1>3, <1>4 DEF At
<1>6. KeysInv' <=> KeysInv
  BY <1>1, <1>2 DEF KeysInv
<1> QED
  BY <1>1, <1>2, <1>5, <1>6 DEF ReadInv

LEMMA ReadInvariant ==
  ASSUME AllFit, AllEncodable
  PROVE  Spec => [](ReadInv /\ EntriesInv)
<1>1. ASSUME ParserInv, EntriesInv, LinkInv, ReadInv, [Next]_vars
      PROVE  ReadInv'
  <2>1. CASE EncoderStep
    <3>1. pc = "idle" /\ pc' = "idle" /\ bufferIndex' = bufferIndex
      BY <2>1 DEF EncoderStep, parserVars
    <3> QED
      BY <1>1, <3>1 DEF ReadInv
  <2>2. CASE ParserStep
    BY <1>1, <2>2, ParserReads
  <2>3. CASE UNCHANGED vars
    BY <1>1, <2>3, ReadKept
  <2> QED
    BY <1>1, <2>1, <2>2, <2>3 DEF Next
<1> QED
  BY <1>1, ReadInitially, ParserInvariant, EntriesInvariant, PTL DEF Spec

(* Whatever the client encodes, in how many calls and with how many        *)
(* threads, when the parser has gone through what the last call returned,  *)
(* or through the whole AST file, it has handed on exactly the records     *)
(* encoded, in their order, each with its category and its items byte by   *)
(* byte: if no record is too big for its description's or LEN's bytes, and *)
(* the parser could find no other description (encodeRecords,              *)
(* parseAllRecords).                                                       *)
THEOREM ReadAsWritten ==
  ASSUME AllFit, AllEncodable
  PROVE  Spec => []ParsedAsEncoded
<1>1. ASSUME ReadInv, EntriesInv
      PROVE  ParsedAsEncoded
  <2> SUFFICES ASSUME pc = "done", sent # <<>>, astOutput => Len(file) = Len(sent),
                      \A s \in ToSet(sent) : ParserFinds(s) = {s.key}
               PROVE  Pairs = FlattenSeq(Handing)
    BY DEF ParsedAsEncoded, Pairs, Handing
  <2>1. Whole /\ AllChosen
    BY DEF Whole, AllChosen, Chooses
  <2>2. PICK n \in 0 .. Len(sent) : At(n)
    BY <1>1, <2>1 DEF ReadInv
  <2>3. n = Len(sent) /\ Begun(n) = n /\ Pairs = Handed(n)
    BY <2>1, <2>2 DEF At, Begun
  <2>4. DOMAIN sent = 1 .. Len(sent)
    BY <1>1, Offsets DEF EntriesInv
  <2>5. Pieces(Handing, Len(sent)) = Handing
    BY <2>4 DEF Pieces, Handing
  <2> QED
    BY <2>3, <2>5 DEF Handed
<1> QED
  BY <1>1, ReadInvariant, PTL

-----------------------------------------------------------------------------
(* Where the source identifier stands: an item that begins with SAC and    *)
(* SIC has a fixed length, and each of the two is one byte.                *)
SourceItems ==
  /\ \A k \in DOMAIN Descriptions : \A n \in DOMAIN Items(k) :
       IsPrefix(<<"SAC", "SIC">>, Items(k)[n].elements) => Items(k)[n].kind = "Fixed"
  /\ \A r \in ClientRecords :
       \A e \in {"SAC", "SIC"} \cap DOMAIN r.elements : Len(r.elements[e]) = 1

LEMMA PrefixOfTwo ==
  ASSUME NEW S, NEW t \in Seq(S), NEW a, NEW b, IsPrefix(<<a, b>>, t)
  PROVE  Len(t) >= 2 /\ t[1] = a /\ t[2] = b
<1> DEFINE p == <<a, b>>
<1>1. Len(p) = 2 /\ p[1] = a /\ p[2] = b
  OBVIOUS
<1>2. Len(p) \in Nat /\ p \in Seq({a, b})
  OBVIOUS
<1> HIDE DEF p
<1>3. Len(t) \in Nat /\ 2 <= Len(t) /\ SubSeq(p, 1, 2) = SubSeq(t, 1, 2)
  BY <1>1, LenProperties DEF IsPrefix, p
<1>4. SubSeq(p, 1, 2)[1] = a /\ SubSeq(p, 1, 2)[2] = b
  BY <1>1, <1>2
<1>5. SubSeq(t, 1, 2)[1] = t[1] /\ SubSeq(t, 1, 2)[2] = t[2]
  BY <1>3
<1> QED
  BY <1>3, <1>4, <1>5

(* The content of an item that begins with two elements of one byte.       *)
LEMMA TwoBytesFirst ==
  ASSUME NEW item, DescribedItem(item), NEW record, ByteRecord(record),
         ToSet(item.elements) \subseteq DOMAIN record.elements,
         NEW a, NEW b, IsPrefix(<<a, b>>, item.elements),
         Len(record.elements[a]) = 1, Len(record.elements[b]) = 1
  PROVE  LET content == ElementBytes(item, record)
         IN /\ Len(content) >= 2 /\ a \in DOMAIN record.elements /\ b \in DOMAIN record.elements
            /\ content[1] = record.elements[a][1] /\ content[2] = record.elements[b][1]
<1> DEFINE names == item.elements
           N == Len(names)
           s == [e \in DOMAIN names |-> record.elements[names[e]]]
           C == FlattenSeq(s)
           S == 0 .. 255
<1>1. names \in Seq(ToSet(names)) /\ N \in Nat /\ DOMAIN names = 1 .. N
  BY LenProperties DEF DescribedItem
<1>2. N >= 2 /\ names[1] = a /\ names[2] = b
  BY <1>1, PrefixOfTwo
<1>3. 1 \in 1 .. N /\ 2 \in 1 .. N
  BY <1>1, <1>2
<1>4. \A e \in 1 .. N : names[e] \in DOMAIN record.elements
  BY <1>1 DEF ToSet
<1>5. /\ \A e \in 1 .. N : s[e] = record.elements[names[e]]
      /\ s = [e \in 1 .. N |-> s[e]]
  BY <1>1
<1>6. \A e \in 1 .. N : s[e] \in Seq(S)
  BY <1>4, <1>5 DEF ByteRecord
<1>7. s[1] = record.elements[a] /\ s[2] = record.elements[b]
  BY <1>2, <1>3, <1>5
<1> HIDE DEF N, S, s
<1>8. Pieces(s, N) = s
  BY <1>5 DEF Pieces
<1>9. /\ FlattenSeq(Pieces(s, 0)) = <<>> /\ PieceLies(s, N, 1) /\ PieceLies(s, N, 2)
  BY <1>1, <1>3, <1>6, PiecesFlat, PieceAt
<1>10. Len(s[1]) = 1 /\ Len(s[2]) = 1
  BY <1>7
<1> DEFINE p(n) == Len(FlattenSeq(Pieces(s, n)))
<1>11. /\ p(1) = p(0) + 1 /\ p(2) = p(1) + 1 /\ p(2) <= p(N)
       /\ FlattenSeq(Pieces(s, N))[p(0) + 1] = s[1][1]
       /\ FlattenSeq(Pieces(s, N))[p(1) + 1] = s[2][1]
  BY <1>9, <1>10 DEF PieceLies
<1>12. p(0) = 0 /\ p(N) = Len(C)
  <2>1. Len(<<>>) = 0
    OBVIOUS
  <2> QED
    BY <1>8, <1>9, <2>1
<1>13. 0 + 1 = 1 /\ 1 + 1 = 2
  OBVIOUS
<1>14. p(N) \in Nat
  BY <1>9 DEF PieceLies
<1> HIDE DEF p, C
<1>15. Len(C) >= 2 /\ FlattenSeq(Pieces(s, N))[1] = s[1][1] /\ FlattenSeq(Pieces(s, N))[2] = s[2][1]
  BY <1>11, <1>12, <1>13, <1>14
<1>16. ElementBytes(item, record) = C
  BY DEF ElementBytes, C, s
<1>17. a \in DOMAIN record.elements /\ b \in DOMAIN record.elements
  BY <1>2, <1>3, <1>4
<1> QED
  BY <1>7, <1>8, <1>15, <1>16, <1>17 DEF C

LEMMA SourceFirst ==
  ASSUME SourceItems, NEW s, NEW F, WellEncoded(s, F), s.record \in ClientRecords,
         IsPrefix(<<"SAC", "SIC">>, SentItems(s)[s.present[1]].elements)
  PROVE  /\ Has(s.record, "SAC") /\ Has(s.record, "SIC")
         /\ Len(Content(ItemsOf(s))) >= 2
         /\ Content(ItemsOf(s))[1] = Value(s.record, "SAC")
         /\ Content(ItemsOf(s))[2] = Value(s.record, "SIC")
         /\ Value(s.record, "SAC") \in 0 .. 255 /\ Value(s.record, "SIC") \in 0 .. 255
<1> DEFINE N == Len(s.present)
           item == SentItems(s)[s.present[1]]
           record == s.record
           g == ItemsOf(s)
           C == Content(g)
           c == ElementBytes(item, record)
<1>1. s.present \in Seq(Nat) /\ s.present # <<>> /\ DOMAIN s.present = 1 .. N /\ N \in Nat
  BY LenProperties DEF WellEncoded, Lists
<1>2. 1 \in 1 .. N
  BY <1>1, EmptySeq
<1>3. s.present[1] \in ToSet(s.present)
  BY <1>1, <1>2 DEF ToSet
<1>4. /\ s.present[1] \in DOMAIN SentItems(s) /\ Given(item, DOMAIN record.elements)
      /\ s.key \in DOMAIN Descriptions /\ ByteRecord(record)
  BY <1>3 DEF WellEncoded
<1>5. /\ g[1] = <<item.name, Wrapped(item, c)>> /\ DescribedItem(item)
  BY <1>2, SentItem
<1>6. item.kind = "Fixed"
  BY <1>4 DEF SourceItems, SentItems, Items
<1>7. g[1][2] = c
  BY <1>5, <1>6 DEF Wrapped
<1>8. ToSet(item.elements) \subseteq DOMAIN record.elements
  BY <1>4 DEF Given
<1>9. item.elements \in Seq(ToSet(item.elements))
  BY <1>5 DEF DescribedItem
<1>10. "SAC" \in DOMAIN record.elements /\ "SIC" \in DOMAIN record.elements
  <2> DEFINE names == item.elements
  <2>1. Len(names) >= 2 /\ names[1] = "SAC" /\ names[2] = "SIC"
    BY <1>9, PrefixOfTwo
  <2>2. Len(names) \in Nat /\ DOMAIN names = 1 .. Len(names)
    BY <1>9, LenProperties
  <2> HIDE DEF names
  <2>3. 1 \in DOMAIN names /\ 2 \in DOMAIN names
    BY <2>1, <2>2
  <2>4. "SAC" \in ToSet(names) /\ "SIC" \in ToSet(names)
    BY <2>1, <2>3 DEF ToSet
  <2> QED
    BY <1>8, <2>4 DEF names
<1>11. Len(record.elements["SAC"]) = 1 /\ Len(record.elements["SIC"]) = 1
  BY <1>10 DEF SourceItems
<1>12. /\ Len(c) >= 2
       /\ c[1] = record.elements["SAC"][1] /\ c[2] = record.elements["SIC"][1]
  BY <1>4, <1>5, <1>8, <1>11, TwoBytesFirst
<1>13. Value(record, "SAC") = record.elements["SAC"][1] /\ Value(record, "SIC") = record.elements["SIC"][1]
  BY <1>10 DEF Value, Has
<1>14. ItemList(g, N)
  BY ContentIsBytes
<1>15. ContentLies(g, 1) /\ Content(Pieces(g, 0)) = <<>> /\ Content(Pieces(g, 1)) \in Seq(0 .. 255)
       /\ Content(g) \in Seq(0 .. 255)
  BY <1>1, <1>2, <1>14, ContentPieces, ContentIsBytes
<1>16. \A b \in 1 .. Len(c) : c[b] = C[b]
  <2>1. Len(<<>>) = 0 /\ 1 - 1 = 0
    OBVIOUS
  <2>2. Len(c) \in Nat /\ \A b \in 1 .. Len(c) : C[0 + b] = c[b]
    BY <1>7, <1>15, <2>1 DEF ContentLies
  <2> HIDE DEF c, C
  <2>3. \A b \in 1 .. Len(c) : 0 + b = b
    BY <2>2
  <2> QED
    BY <2>2, <2>3
<1>17. Len(C) >= Len(c) /\ Len(C) \in Nat /\ Len(c) \in Nat
  <2>1. Len(<<>>) = 0 /\ 1 - 1 = 0
    OBVIOUS
  <2>2. Len(Content(Pieces(g, 1))) = 0 + Len(c) /\ Len(Content(Pieces(g, 1))) <= Len(C) /\ Len(c) \in Nat
    BY <1>7, <1>15, <2>1 DEF ContentLies
  <2>3. Len(C) \in Nat
    BY <1>15, LenProperties
  <2> HIDE DEF c, C
  <2> QED
    BY <2>2, <2>3
<1>18. \A e \in {"SAC", "SIC"} : record.elements[e][1] \in 0 .. 255
  <2> TAKE e \in {"SAC", "SIC"}
  <2> DEFINE v == record.elements[e]
  <2>1. v \in Seq(0 .. 255) /\ Len(v) = 1
    BY <1>4, <1>10, <1>11 DEF ByteRecord
  <2> HIDE DEF v
  <2>2. 1 \in 1 .. Len(v)
    BY <2>1
  <2>3. v[1] \in 0 .. 255
    BY <2>1, <2>2, ElementOfSeq
  <2> QED
    BY <2>3 DEF v
<1> HIDE DEF c
<1>19. 1 \in 1 .. Len(c) /\ 2 \in 1 .. Len(c)
  BY <1>12, <1>17
<1>20. Len(C) >= 2
  BY <1>12, <1>17
<1>21. C[1] = c[1] /\ C[2] = c[2]
  <2> HIDE DEF C
  <2> QED
    BY ONLY <1>16, <1>19
<1>22. C[1] = Value(record, "SAC") /\ C[2] = Value(record, "SIC")
  <2> DEFINE sac == record.elements["SAC"][1]
             sic == record.elements["SIC"][1]
  <2>1. c[1] = sac /\ c[2] = sic /\ Value(record, "SAC") = sac /\ Value(record, "SIC") = sic
    BY ONLY <1>12, <1>13
  <2> HIDE DEF C, sac, sic
  <2> QED
    BY ONLY <1>21, <2>1
<1>23. Value(record, "SAC") \in 0 .. 255 /\ Value(record, "SIC") \in 0 .. 255
  BY ONLY <1>13, <1>18
<1>24. Has(record, "SAC") /\ Has(record, "SIC")
  BY ONLY <1>10 DEF Has
<1> QED
  BY ONLY <1>20, <1>22, <1>23, <1>24

(* The decimal number of a single record whose two bytes have three digits *)
(* each is the key the parser will look for.                               *)
LEMMA ThreeDigits ==
  ASSUME NEW record, record.category \in Nat, Has(record, "SAC"), Has(record, "SIC"),
         Value(record, "SAC") \in 0 .. 255, Value(record, "SIC") \in 0 .. 255,
         Digits(Value(record, "SAC")) = 3, Digits(Value(record, "SIC")) = 3
  PROVE  SingleKey(record)
           = SacSicKey(record.category, Value(record, "SAC"), Value(record, "SIC"))
<1> DEFINE c == record.category
           x == Value(record, "SAC")
           y == Value(record, "SIC")
<1>1. Written(c, record, "SAC") = c * 10 ^ 3 + x
  BY DEF Written
<1>2. SingleKey(record) = (c * 10 ^ 3 + x) * 10 ^ 3 + y
  BY <1>1 DEF SingleKey, Written
<1>3. 10 ^ 3 = 1000
  OBVIOUS
<1>4. SingleKey(record) = (c * 1000 + x) * 1000 + y
  BY <1>2, <1>3
<1>5. c \in Nat /\ x \in Nat /\ y \in Nat
  OBVIOUS
<1> HIDE DEF c, x, y
<1>6. (c * 1000 + x) * 1000 + y = c * 1000000 + x * 1000 + y
  BY <1>5
<1>7. SacSicKey(c, x, y) = c * 1000000 + x * 1000 + y
  BY DEF SacSicKey
<1> QED
  BY <1>4, <1>6, <1>7 DEF c, x, y

LEMMA SourceIsChosen ==
  ASSUME SourceItems, NEW s, Sound(s),
         IsPrefix(<<"SAC", "SIC">>, SentItems(s)[s.present[1]].elements),
         s.kind = "single" =>
           Digits(Value(s.record, "SAC")) = 3 /\ Digits(Value(s.record, "SIC")) = 3
  PROVE  Chooses(s)
<1> DEFINE record == s.record
           c == record.category
           x == Value(record, "SAC")
           y == Value(record, "SIC")
           C == Content(ItemsOf(s))
<1>1. PICK F : WellEncoded(s, F)
  BY DEF Sound
<1>2. /\ Has(record, "SAC") /\ Has(record, "SIC")
      /\ Len(C) >= 2 /\ C[1] = x /\ C[2] = y /\ x \in 0 .. 255 /\ y \in 0 .. 255
  BY <1>1, SourceFirst DEF Sound
<1>3. c \in 0 .. 255
  BY <1>1 DEF WellEncoded, ByteRecord
<1>4. c \in Nat
  BY <1>3
<1>5. CollectionKey(record) = SacSicKey(c, x, y)
  BY DEF CollectionKey
<1>6. s.kind = "single" => SingleKey(record) = SacSicKey(c, x, y)
  BY <1>2, <1>4, ThreeDigits
<1>7. KeyOf(s.kind, record) = Lookup(SacSicKey(c, x, y), c)
  BY <1>5, <1>6 DEF KeyOf
<1>8. ParserFinds(s) = {Lookup(SacSicKey(c, C[1], C[2]), c)}
  BY <1>2 DEF ParserFinds
<1>9. s.key = KeyOf(s.kind, record)
  BY DEF Sound
<1> QED
  BY <1>2, <1>7, <1>8, <1>9 DEF Chooses

(* A record that begins with its source identifier is read with the        *)
(* description it was written with: one of a collection always, a single   *)
(* Record when both numbers have three digits (encodeForDecodedRecord,     *)
(* encodeForSingleRecord, parseAllRecords).                                *)
THEOREM SameDescriptionIsFound ==
  ASSUME AllFit, AllEncodable, SourceItems
  PROVE  Spec => []SameDescription
<1>1. ASSUME ParserInv, ReadInv, EntriesInv
      PROVE  SameDescription
  <2> SUFFICES ASSUME NEW r \in ToSet(delivered), NEW n \in DOMAIN sent,
                      r.datablock = Len(FlattenSeq([m \in 1 .. n - 1 |-> sent[m].datablock])),
                      astOutput => Len(file) = Len(sent),
                      IsPrefix(<<"SAC", "SIC">>, SentItems(sent[n])[sent[n].present[1]].elements),
                      sent[n].kind = "single" =>
                        /\ Digits(Value(sent[n].record, "SAC")) = 3
                        /\ Digits(Value(sent[n].record, "SIC")) = 3
               PROVE  r.key = sent[n].key
    BY DEF SameDescription
  <2>1. PICK i \in DOMAIN delivered : r = delivered[i]
    BY DEF ToSet
  <2>2. pc # "idle"
    <3>1. SUFFICES ASSUME delivered = <<>> PROVE FALSE
      BY <1>1 DEF ParserInv, DeliveredInv
    <3> QED
      BY <2>1, <3>1
  <2>3. Len(sent) \in Nat /\ DOMAIN sent = 1 .. Len(sent) /\ Sound(sent[n])
    BY <1>1, Offsets DEF EntriesInv
  <2>4. sent # <<>>
    OBVIOUS
  <2>5. KeysInv
    BY <1>1, <2>2, <2>4 DEF ReadInv, Whole
  <2>6. [m \in 1 .. n - 1 |-> sent[m].datablock] = Pieces(Datablocks, n - 1)
    <3>1. \A m \in 1 .. n - 1 : m \in DOMAIN sent
      BY <2>3
    <3>2. \A m \in 1 .. n - 1 : Datablocks[m] = sent[m].datablock
      BY <3>1 DEF Datablocks
    <3> QED
      BY <3>2 DEF Pieces
  <2>7. delivered[i].datablock = Offset(n - 1)
    BY <2>1, <2>6 DEF Offset
  <2>8. Chooses(sent[n])
    BY <2>3, SourceIsChosen
  <2> QED
    BY <2>1, <2>3, <2>5, <2>7, <2>8 DEF KeysInv
<1> QED
  BY <1>1, ParserInvariant, ReadInvariant, PTL
=============================================================================

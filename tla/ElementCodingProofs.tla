-------------------------- MODULE ElementCodingProofs --------------------------
(***************************************************************************)
(* What is proved of the decoder and the encoder of elements for every     *)
(* description and every record, and every width of byte.                  *)
(*                                                                         *)
(* The provers know of powers only that they are integers.  The law that   *)
(* the rest follows from, 2^(n+1) = 2 * 2^n, is read off the number of     *)
(* subsets of a set, which is a theorem of the library.                    *)
(***************************************************************************)
EXTENDS ElementCoding, FiniteSetTheorems, SequenceTheorems, WellFoundedInduction, TLAPS

(* A set of natural numbers that is not empty has a least element.         *)
LEMMA LeastElement ==
  ASSUME NEW S, S \subseteq Nat, S # {}
  PROVE  \E m \in S : \A k_ \in S : m <= k_
<1>1. PICK m \in S : \A y \in S : ~ (<<y, m>> \in OpToRel(<, Nat))
  BY NatLessThanWellFounded, WFMin
<1>2. \A y \in S : ~ (<<y, m>> \in {ss \in Nat \X Nat : ss[1] < ss[2]})
  BY <1>1 DEF OpToRel
<1>3. \A y \in S : ~ (y < m)
  BY <1>2
<1> QED
  BY <1>3

(* Powers of two, as numbers of subsets.                                   *)
LEMMA SubsetsCounted ==
  ASSUME NEW n \in Nat
  PROVE  /\ IsFiniteSet(SUBSET (1 .. n))
         /\ Cardinality(SUBSET (1 .. n)) = 2 ^ n
<1>1. IsFiniteSet(1 .. n) /\ Cardinality(1 .. n) = n
  <2>1. 1 \in Int /\ n \in Int /\ (IF 1 > n THEN 0 ELSE n - 1 + 1) = n
    OBVIOUS
  <2> QED
    BY <2>1, FS_Interval
<1> QED
  BY <1>1, FS_SUBSET

LEMMA PowerNat ==
  ASSUME NEW n \in Nat
  PROVE  2 ^ n \in Nat \ {0}
<1>1. {} \in SUBSET (1 .. n)
  OBVIOUS
<1>2. SUBSET (1 .. n) # {}
  BY <1>1
<1>3. 2 ^ n \in Nat /\ (2 ^ n = 0 <=> SUBSET (1 .. n) = {})
  BY SubsetsCounted, FS_CardinalityType, FS_EmptySet
<1> QED
  BY <1>2, <1>3

LEMMA PowerZero == 2 ^ 0 = 1
OBVIOUS

(* Half of the subsets of 1 .. n + 1 hold n + 1.                           *)
LEMMA PowerNext ==
  ASSUME NEW n \in Nat
  PROVE  2 ^ (n + 1) = 2 * 2 ^ n
<1> DEFINE S == SUBSET (1 .. n)
           f == [A \in S |-> A \cup {n + 1}]
           T == {A \cup {n + 1} : A \in S}
<1>1. SUBSET (1 .. n + 1) = S \cup T
  <2>1. ASSUME NEW B \in SUBSET (1 .. n + 1), B \notin S
        PROVE  B \in T
    <3>1. 1 .. n + 1 = (1 .. n) \cup {n + 1}
      OBVIOUS
    <3>2. n + 1 \in B /\ B \ {n + 1} \in S
      BY <2>1, <3>1
    <3>3. B = (B \ {n + 1}) \cup {n + 1}
      BY <3>2
    <3> QED
      BY <3>2, <3>3
  <2>2. S \subseteq SUBSET (1 .. n + 1) /\ T \subseteq SUBSET (1 .. n + 1)
    <3>1. 1 .. n \subseteq 1 .. n + 1 /\ n + 1 \in 1 .. n + 1
      OBVIOUS
    <3> QED
      BY <3>1
  <2> QED
    BY <2>1, <2>2
<1>2. S \cap T = {}
  <2>1. n + 1 \notin 1 .. n
    OBVIOUS
  <2> QED
    BY <2>1
<1>3. ExistsBijection(S, T)
  <2>1. ASSUME NEW A \in S, NEW B \in S, f[A] = f[B]
        PROVE  A = B
    <3>1. n + 1 \notin A /\ n + 1 \notin B
      OBVIOUS
    <3>2. A \cup {n + 1} = B \cup {n + 1}
      BY <2>1
    <3> QED
      BY <3>1, <3>2
  <2>2. \A A \in S : A \cup {n + 1} \in T
    OBVIOUS
  <2>3. f \in [S -> T]
    BY <2>2
  <2>4. \A t \in T : \E A \in S : f[A] = t
    OBVIOUS
  <2> HIDE DEF f, S, T
  <2>5. f \in Bijection(S, T)
    BY <2>1, <2>3, <2>4 DEF Bijection, Injection, Surjection, IsInjective
  <2> QED
    BY <2>5 DEF ExistsBijection
<1>4. IsFiniteSet(S) /\ Cardinality(S) = 2 ^ n
  BY SubsetsCounted
<1>5. Cardinality(SUBSET (1 .. n + 1)) = 2 ^ (n + 1)
  BY SubsetsCounted
<1> HIDE DEF S, T
<1>6. IsFiniteSet(T) /\ Cardinality(T) = Cardinality(S)
  BY <1>3, <1>4, FS_Bijection
<1>7. Cardinality(S \cup T) = Cardinality(S) + Cardinality(T) - Cardinality(S \cap T)
  BY <1>4, <1>6, FS_Union
<1>8. Cardinality({}) = 0
  BY FS_EmptySet
<1>9. 2 ^ (n + 1) = 2 ^ n + 2 ^ n - 0
  BY <1>1, <1>2, <1>4, <1>5, <1>6, <1>7, <1>8
<1>10. \A a \in Nat : a + a - 0 = 2 * a
  OBVIOUS
<1>11. 2 ^ n \in Nat
  BY PowerNat
<1> QED
  BY <1>9, <1>10, <1>11

LEMMA PowerSum ==
  ASSUME NEW a \in Nat, NEW b \in Nat
  PROVE  2 ^ (a + b) = 2 ^ a * 2 ^ b
<1> DEFINE No == {n \in Nat : 2 ^ (a + n) # 2 ^ a * 2 ^ n}
<1>1. SUFFICES ASSUME No # {} PROVE FALSE
  OBVIOUS
<1>2. PICK m \in No : \A n \in No : m <= n
  <2>1. No \subseteq Nat
    OBVIOUS
  <2> HIDE DEF No
  <2> QED
    BY <1>1, <2>1, LeastElement
<1>3. m # 0
  <2>1. 2 ^ a \in Nat
    BY PowerNat
  <2>2. \A x \in Nat : x = x * 1
    OBVIOUS
  <2>3. 2 ^ (a + 0) = 2 ^ a * 2 ^ 0
    BY <2>1, <2>2, PowerZero
  <2> QED
    BY <2>3
<1>4. m \in Nat /\ m - 1 \in Nat /\ m - 1 \notin No
  BY <1>2, <1>3
<1> DEFINE n == m - 1
<1>5. n \in Nat /\ m = n + 1 /\ 2 ^ (a + n) = 2 ^ a * 2 ^ n
  BY <1>4
<1> HIDE DEF n
<1>6. 2 ^ m = 2 * 2 ^ n /\ 2 ^ (a + m) = 2 * 2 ^ (a + n)
  <2>1. a + n \in Nat /\ (a + n) + 1 = a + m
    BY <1>5
  <2> QED
    BY <1>5, <2>1, PowerNext
<1>7. 2 ^ a \in Nat /\ 2 ^ n \in Nat
  BY <1>5, PowerNat
<1>8. \A x, y \in Nat : 2 * (x * y) = x * (2 * y)
  OBVIOUS
<1>9. 2 ^ (a + m) = 2 ^ a * 2 ^ m
  BY <1>5, <1>6, <1>7, <1>8
<1> QED
  BY <1>2, <1>9

LEMMA Products ==
  ASSUME NEW a \in Nat, NEW b \in Nat, NEW c \in Nat, a <= b
  PROVE  a * c \in Nat /\ a * c <= b * c /\ c * a <= c * b
<1>1. PICK d \in Nat : b = a + d
  BY b - a \in Nat
<1>2. \A x, y, z \in Nat : (x + y) * z = x * z + y * z /\ z * (x + y) = z * x + z * y /\ y * z \in Nat /\ z * y \in Nat
  OBVIOUS
<1>3. b * c = a * c + d * c /\ c * b = c * a + c * d /\ d * c \in Nat /\ c * d \in Nat /\ a * c \in Nat /\ c * a \in Nat
  BY <1>1, <1>2
<1> QED
  BY <1>3

LEMMA PowerMonotonic ==
  ASSUME NEW a \in Nat, NEW b \in Nat, a <= b
  PROVE  2 ^ a <= 2 ^ b
<1> DEFINE d == b - a
<1>1. d \in Nat /\ b = a + d
  OBVIOUS
<1> HIDE DEF d
<1>2. 2 ^ b = 2 ^ a * 2 ^ d
  BY <1>1, PowerSum
<1>3. 2 ^ a \in Nat /\ 2 ^ d \in Nat /\ 1 <= 2 ^ d
  BY <1>1, PowerNat
<1>4. 2 ^ a * 1 <= 2 ^ a * 2 ^ d
  BY <1>3, Products
<1>5. 2 ^ a * 1 = 2 ^ a
  BY <1>3
<1> QED
  BY <1>2, <1>4, <1>5

(* Division.                                                               *)
LEMMA Division ==
  ASSUME NEW a \in Int, NEW b \in Nat \ {0}
  PROVE  /\ a \div b \in Int /\ a % b \in Nat
         /\ a = b * (a \div b) + (a % b) /\ a % b < b
OBVIOUS

LEMMA DivisionIsUnique ==
  ASSUME NEW b \in Nat \ {0}, NEW q \in Int, NEW r \in Nat, r < b
  PROVE  (b * q + r) \div b = q /\ (b * q + r) % b = r
OBVIOUS

LEMMA DivisionBelow ==
  ASSUME NEW p \in Nat, NEW b \in Nat \ {0}, NEW w \in Nat
  PROVE  /\ p \div b \in Nat
         /\ p < b * w => p \div b < w
         /\ p <= b * w => p \div b <= w
OBVIOUS

LEMMA SmallRemainder ==
  ASSUME NEW b \in Nat \ {0}, NEW r \in Nat, r < b
  PROVE  r % b = r /\ r \div b = 0
OBVIOUS

(* A finite set of numbers has a largest.                                  *)
LEMMA MaxIsMax ==
  ASSUME NEW S, S \subseteq Nat, S # {}, IsFiniteSet(S)
  PROVE  Max(S) \in S /\ \A y \in S : y <= Max(S)
<1> DEFINE above(x) == {y \in S : y > x}
           Sizes == {Cardinality(above(x)) : x \in S}
<1>1. ASSUME NEW x \in S
      PROVE  IsFiniteSet(above(x)) /\ Cardinality(above(x)) \in Nat
  <2>1. above(x) \in SUBSET S
    OBVIOUS
  <2> HIDE DEF above
  <2> QED
    BY <2>1, FS_Subset, FS_CardinalityType
<1>2. PICK m \in Sizes : \A c \in Sizes : m <= c
  <2>1. Sizes \subseteq Nat /\ Sizes # {}
    BY <1>1
  <2> HIDE DEF Sizes
  <2> QED
    BY <2>1, LeastElement
<1>3. PICK x \in S : m = Cardinality(above(x))
  BY <1>2
<1>4. ASSUME NEW y \in S, y > x
      PROVE  FALSE
  <2>1. x \notin above(y) /\ y \in above(x) /\ above(y) \subseteq above(x) \ {y}
    <3>1. \A z \in S : z > y => z > x /\ z # y
      <4>1. x \in Nat /\ y \in Nat /\ \A z \in S : z \in Nat
        OBVIOUS
      <4> QED
        BY <1>4, <4>1
    <3>2. ~ (x > y)
      BY <1>4
    <3> QED
      BY <1>4, <3>1, <3>2
  <2>2. IsFiniteSet(above(x)) /\ Cardinality(above(x)) \in Nat /\ Cardinality(above(y)) \in Nat
    BY <1>1
  <2>3. Cardinality(above(y)) \in Sizes
    OBVIOUS
  <2> HIDE DEF above, Sizes
  <2>4. IsFiniteSet(above(x) \ {y}) /\ Cardinality(above(x) \ {y}) = Cardinality(above(x)) - 1
    BY <2>1, <2>2, FS_RemoveElement
  <2>5. Cardinality(above(y)) <= Cardinality(above(x) \ {y})
    BY <2>1, <2>4, FS_Subset
  <2>6. Cardinality(above(x)) <= Cardinality(above(y))
    BY <1>2, <1>3, <2>3
  <2> QED
    BY <2>2, <2>4, <2>5, <2>6
<1>5. \A y \in S : x >= y
  BY <1>4
<1>6. Max(S) \in S /\ \A y \in S : Max(S) >= y
  BY <1>5 DEF Max
<1> QED
  BY <1>6

LEMMA SequenceIsFinite ==
  ASSUME NEW S, NEW s \in Seq(S)
  PROVE  IsFiniteSet(ToSet(s)) /\ ToSet(s) \subseteq S
<1>1. Len(s) \in Nat /\ DOMAIN s = 1 .. Len(s) /\ \A n \in 1 .. Len(s) : s[n] \in S
  BY LenProperties, ElementOfSeq
<1>2. ToSet(s) = {s[n] : n \in 1 .. Len(s)}
  BY <1>1 DEF ToSet
<1>3. IsFiniteSet(1 .. Len(s))
  BY <1>1, FS_Interval
<1> DEFINE f == [n \in 1 .. Len(s) |-> s[n]]
<1>4. f \in Surjection(1 .. Len(s), ToSet(s))
  BY <1>2 DEF Surjection
<1>5. IsFiniteSet(ToSet(s))
  <2> HIDE DEF f
  <2> QED
    BY <1>3, <1>4, FS_Surjection
<1> QED
  BY <1>1, <1>2, <1>5

-----------------------------------------------------------------------------
(* The number that the bits of an element stand for is the number read.    *)
Element(e) ==
  /\ e.bits \in Nat \ {0} /\ e.raw \in 0 .. 2 ^ e.bits - 1
  /\ LsbValues(e) \in Seq(Nat) /\ LsbValues(e) # <<>>

LEMMA Widths ==
  /\ ByteBits \in Nat \ {0} /\ IntBits \in Nat /\ LongBits \in Nat
  /\ IntBits = 4 * ByteBits /\ LongBits > IntBits
<1>1. ByteBits \in Nat \ {0} /\ IntBytes = 4 /\ LongBytes \in Nat /\ LongBytes > 4
  BY ElementAssumption
<1>2. IntBits = 4 * ByteBits /\ LongBits = LongBytes * ByteBits
  BY <1>1 DEF IntBits, LongBits
<1>3. PICK x \in Nat \ {0} : LongBytes = 4 + x
  BY <1>1, LongBytes - 4 \in Nat \ {0}
<1>4. \A a, b \in Nat \ {0} : (4 + a) * b = 4 * b + a * b /\ a * b \in Nat \ {0}
  OBVIOUS
<1>5. LongBits = 4 * ByteBits + x * ByteBits /\ x * ByteBits \in Nat \ {0}
  BY <1>1, <1>2, <1>3, <1>4
<1> QED
  BY <1>1, <1>2, <1>5

(* 2 ^ bits is twice 2 ^ (bits - 1).                                       *)
LEMMA Halves ==
  ASSUME NEW bits \in Nat \ {0}
  PROVE  2 ^ (bits - 1) \in Nat \ {0} /\ 2 ^ bits = 2 * 2 ^ (bits - 1)
<1>1. bits - 1 \in Nat /\ (bits - 1) + 1 = bits
  OBVIOUS
<1> QED
  BY <1>1, PowerNat, PowerNext

(* A number narrower than an int is left by a conversion to int.           *)
LEMMA NarrowIsSigned ==
  ASSUME NEW bits \in Nat \ {0}, bits < IntBits, NEW raw \in Nat, raw < 2 ^ bits
  PROVE  Signed(raw, IntBits) = raw
<1>1. IntBits \in Nat \ {0} /\ IntBits - 1 \in Nat /\ bits <= IntBits - 1
  BY Widths
<1>2. 2 ^ bits <= 2 ^ (IntBits - 1) /\ 2 ^ IntBits = 2 * 2 ^ (IntBits - 1)
      /\ 2 ^ (IntBits - 1) \in Nat \ {0} /\ 2 ^ bits \in Nat
  BY <1>1, PowerMonotonic, Halves, PowerNat
<1>3. raw < 2 ^ (IntBits - 1) /\ raw < 2 ^ IntBits /\ 2 ^ IntBits \in Nat \ {0}
  BY <1>2
<1>4. raw % 2 ^ IntBits = raw
  BY <1>3, SmallRemainder
<1>5. ~ (raw >= 2 ^ (IntBits - 1))
  BY <1>2, <1>3
<1> QED
  BY <1>4, <1>5 DEF Signed

(* A complement is taken of the bits of an element and no others.          *)
LEMMA FlippedIsNegative ==
  ASSUME NEW bits \in Nat \ {0}, bits < IntBits, NEW raw \in Nat, raw < 2 ^ bits
  PROVE  Flipped(raw, bits) = {raw - 2 ^ bits}
<1> DEFINE m == 2 ^ bits
           rest == IntBits - bits
           M == 2 ^ IntBits
           q == 2 ^ rest
<1>1. rest \in Nat \ {0} /\ bits + rest = IntBits /\ bits <= IntBits
  BY Widths
<1>2. M = m * q /\ m \in Nat \ {0} /\ q \in Nat \ {0} /\ M \in Nat \ {0} /\ m <= M
  <2> HIDE DEF rest
  <2> QED
    BY <1>1, PowerSum, PowerNat, PowerMonotonic, Widths
<1>3. Masks(bits) = {m - 1}
  BY DEF Masks
<1>4. Flipped(raw, bits) = {-((M - 1 - (raw % M)) % ((m - 1) + 1)) - 1}
  <2> HIDE DEF m, M
  <2> QED
    BY <1>3 DEF Flipped, M
<1>5. raw < m
  OBVIOUS
<1> HIDE DEF m, M, q, rest
<1>6. raw % M = raw
  BY <1>2, <1>5, SmallRemainder
<1>7. M - 1 - raw = m * (q - 1) + (m - 1 - raw) /\ q - 1 \in Int /\ m - 1 - raw \in Nat /\ m - 1 - raw < m
  BY <1>2, <1>5
<1>8. (M - 1 - raw) % m = m - 1 - raw
  <2>1. (m * (q - 1) + (m - 1 - raw)) % m = m - 1 - raw
    BY <1>2, <1>7, DivisionIsUnique
  <2> QED
    BY <1>7, <2>1
<1>9. (m - 1) + 1 = m /\ -(m - 1 - raw) - 1 = raw - m
  BY <1>2
<1> QED
  BY <1>4, <1>6, <1>8, <1>9 DEF m

(* An element that fills its bytes.                                       *)
LEMMA WholeBytes ==
  ASSUME NEW bits \in Nat \ {0}, bits % ByteBits = 0
  PROVE  BytesFor(bits) \in Nat \ {0} /\ ByteBits * BytesFor(bits) = bits
<1> DEFINE n == bits \div ByteBits
           rest == ByteBits - 1
<1>1. ByteBits \in Nat \ {0}
  BY Widths
<1>2. n \in Nat /\ bits = ByteBits * n + (bits % ByteBits)
  BY <1>1, Division, DivisionBelow
<1>3. rest \in Nat /\ rest < ByteBits /\ (bits + ByteBits) - 1 = bits + rest
  BY <1>1
<1> HIDE DEF n, rest
<1>4. bits = ByteBits * n
  <2> DEFINE x == ByteBits * n
  <2>1. bits = x + (bits % ByteBits) /\ x \in Nat
    BY <1>1, <1>2
  <2> HIDE DEF x
  <2>2. bits = x
    BY <2>1
  <2> QED
    BY <2>2 DEF x
<1>5. (ByteBits * n + rest) \div ByteBits = n
  BY <1>1, <1>2, <1>3, DivisionIsUnique
<1>6. BytesFor(bits) = n
  <2>1. bits + ByteBits - 1 = ByteBits * n + rest
    <3>1. bits + ByteBits - 1 = bits + rest
      BY <1>1 DEF rest
    <3> QED
      BY <1>4, <3>1
  <2> QED
    BY <1>5, <2>1 DEF BytesFor
<1>7. n # 0
  <2>1. \A x \in Nat : x * 0 = 0
    OBVIOUS
  <2> QED
    BY <1>1, <1>4, <2>1
<1> QED
  BY <1>2, <1>4, <1>6, <1>7

(* In an element that fills its bytes the highest bit is that of the first.*)
LEMMA HighestBit ==
  ASSUME NEW bits \in Nat \ {0}, bits % ByteBits = 0, NEW raw \in Nat, raw < 2 ^ bits
  PROVE  HighestBitOfByte(raw, bits) <=> raw >= 2 ^ (bits - 1)
<1> DEFINE n == BytesFor(bits)
           low == bits - ByteBits
           h == 2 ^ low
           half == 2 ^ (ByteBits - 1)
           B == 2 ^ ByteBits
<1>1. ByteBits \in Nat \ {0}
  BY Widths
<1>2. n \in Nat \ {0} /\ bits = ByteBits * n
  BY WholeBytes
<1>3. low = ByteBits * (n - 1) /\ low \in Nat
  <2>1. \A a \in Nat, b \in Int : a * (b - 1) = a * b - a /\ (b > 0 => a * (b - 1) \in Nat)
    OBVIOUS
  <2> HIDE DEF n
  <2> QED
    BY <1>1, <1>2, <2>1
<1>4. HighestBitOfByte(raw, bits) <=> (raw \div h) % B >= half
  <2> HIDE DEF low
  <2> QED
    BY <1>3 DEF HighestBitOfByte, ByteAt, h
<1>5. /\ h \in Nat \ {0} /\ half \in Nat \ {0} /\ B \in Nat \ {0}
      /\ 2 ^ bits = h * B /\ 2 ^ (bits - 1) = h * half
  <2>1. ByteBits - 1 \in Nat /\ low + ByteBits = bits /\ low + (ByteBits - 1) = bits - 1
    BY <1>1
  <2> HIDE DEF low
  <2>2. low \in Nat
    BY <1>3
  <2>3. 2 ^ low \in Nat \ {0} /\ 2 ^ (ByteBits - 1) \in Nat \ {0} /\ 2 ^ ByteBits \in Nat \ {0}
    BY <1>1, <2>1, <2>2, PowerNat
  <2>4. 2 ^ (low + ByteBits) = 2 ^ low * 2 ^ ByteBits
    BY <1>1, <2>2, PowerSum
  <2>5. 2 ^ (low + (ByteBits - 1)) = 2 ^ low * 2 ^ (ByteBits - 1)
    BY <2>1, <2>2, PowerSum
  <2> QED
    BY <2>1, <2>3, <2>4, <2>5
<1> HIDE DEF n, low, h, half, B
<1> DEFINE q == raw \div h
           r == raw % h
<1>6. q \in Int /\ r \in Nat /\ raw = h * q + r /\ r < h
  BY <1>5, Division
<1>7. q \in Nat /\ q < B
  BY <1>5, DivisionBelow
<1>8. q % B = q
  BY <1>5, <1>7, SmallRemainder
<1> HIDE DEF q, r
<1>9. q >= half => h * half <= h * q
  BY <1>5, <1>7, Products
<1>10. ~ (q >= half) => h * q + h <= h * half
  <2>1. ASSUME ~ (q >= half)
        PROVE  h * (q + 1) <= h * half
    <3>1. q + 1 \in Nat /\ q + 1 <= half
      BY <1>5, <1>7, <2>1
    <3> QED
      BY <1>5, <3>1, Products
  <2>2. h * (q + 1) = h * q + h
    BY <1>5, <1>7
  <2> QED
    BY <2>1, <2>2
<1>11. h * q \in Nat /\ h * half \in Nat
  BY <1>5, <1>7
<1>12. q >= half <=> raw >= h * half
  <2> DEFINE x == h * q
             y == h * half
  <2>1. x \in Nat /\ y \in Nat /\ raw = x + r /\ (q >= half => y <= x) /\ (~ (q >= half) => x + h <= y)
    BY <1>6, <1>9, <1>10, <1>11
  <2> HIDE DEF x, y
  <2>2. q >= half <=> raw >= y
    BY <1>5, <1>6, <2>1
  <2> QED
    BY <2>2 DEF y
<1> QED
  BY <1>4, <1>5, <1>8, <1>12 DEF q

(* The functions whose numbers are printed in decimal.                     *)
Decimals == {"toDecimal", "CA2toDecimal"}

ReadNumber(d, i, representation, o) ==
  \E x \in Stored(d.mode, i, representation) : o = Outcome(x, InRange(d.range, i))

LEMMA NumbersOfOne ==
  ASSUME NEW d, NEW i, NEW lsb, NEW representation, NEW o \in Numbers(d, {i}, lsb, representation)
  PROVE  ReadNumber(d, i * lsb, representation, o)
BY DEF Numbers, ReadNumber

LEMMA MeaningIsRead ==
  ASSUME NEW e, Element(e), ReadAsMeant(e), NEW d, NEW lsb, NEW o \in Decodings(e, d, lsb)
  PROVE  \E representation : /\ ReadNumber(d, Meaning(e) * lsb, representation, o)
                             /\ e.function \in Decimals => representation = "IntegerValue"
<1>1. /\ e.bits \in Nat \ {0} /\ e.bits < IntBits /\ e.raw \in Nat /\ e.raw < 2 ^ e.bits
      /\ e.function = "CA2toHexadecimal" => e.bits % ByteBits = 0
  <2>1. 2 ^ e.bits \in Nat
    BY PowerNat DEF Element
  <2> QED
    BY <2>1 DEF Element, ReadAsMeant
<1>2. FromBytes(e.raw) = e.raw
  BY <1>1, NarrowIsSigned DEF FromBytes
<1>3. Flipped(e.raw, e.bits) = {e.raw - 2 ^ e.bits}
  BY <1>1, FlippedIsNegative
<1>4. e.bits % ByteBits = 0 => (HighestBitOfByte(e.raw, e.bits) <=> e.raw >= 2 ^ (e.bits - 1))
  BY <1>1, HighestBit
<1>5. CASE e.function \in Integers
  <2>1. Meaning(e) = e.raw
    BY <1>5 DEF Meaning, Integers, TwosComplement
  <2>2. \/ o \in Numbers(d, {e.raw}, lsb, "IntegerValue")
        \/ e.function \notin Decimals /\ o \in Numbers(d, {e.raw}, lsb, "HexadecimalValue")
    BY <1>2, <1>5 DEF Decodings, Integers, Decimals, toDecimal, toHexadecimal, toOctal
  <2> QED
    BY <2>1, <2>2, NumbersOfOne
<1>6. CASE e.function \in TwosComplement
  <2>1. Meaning(e) = IF e.raw >= 2 ^ (e.bits - 1) THEN e.raw - 2 ^ e.bits ELSE e.raw
    BY <1>6 DEF Meaning
  <2>2. \/ o \in Numbers(d, {Meaning(e)}, lsb, "IntegerValue")
        \/ e.function \notin Decimals /\ o \in Numbers(d, {Meaning(e)}, lsb, "HexadecimalValue")
    <3>1. CASE e.function = "CA2toDecimal"
      <4>1. o \in CA2toDecimal(e, d, lsb)
        BY <3>1 DEF Decodings
      <4> QED
        BY <1>2, <1>3, <2>1, <4>1 DEF CA2toDecimal
    <3>2. CASE e.function = "CA2toHexadecimal"
      <4>1. o \in CA2toHexadecimal(e, d, lsb)
        BY <3>2 DEF Decodings
      <4> QED
        BY <1>1, <1>2, <1>3, <1>4, <2>1, <3>2, <4>1 DEF CA2toHexadecimal, Decimals
    <3> QED
      BY <1>6, <3>1, <3>2 DEF TwosComplement
  <2> QED
    BY <1>6, <2>2, NumbersOfOne DEF TwosComplement
<1> QED
  BY <1>5, <1>6 DEF ReadAsMeant

-----------------------------------------------------------------------------
(* The type the loader chooses holds what the decoder stores.              *)
LEMMA LsbIsBelow ==
  ASSUME NEW e, Element(e), NEW lsb \in ToSet(LsbValues(e))
  PROVE  lsb \in Nat /\ Max(ToSet(LsbValues(e))) \in Nat /\ lsb <= Max(ToSet(LsbValues(e)))
<1>1. IsFiniteSet(ToSet(LsbValues(e))) /\ ToSet(LsbValues(e)) \subseteq Nat
  BY SequenceIsFinite DEF Element
<1> QED
  BY <1>1, MaxIsMax

LEMMA ProductBelow ==
  ASSUME NEW a \in Nat, NEW b \in Nat, NEW x \in Nat, NEW y \in Nat, NEW z \in Nat \ {0},
         x <= y, a * y <= z
  PROVE  /\ b < a => b * x < z
         /\ b <= a => b * x <= z
         /\ b * x \in Nat
<1>1. b * x \in Nat /\ b * x <= b * y /\ b * y \in Nat
  BY Products
<1>2. b <= a => b * y <= a * y
  BY Products
<1>3. ASSUME b < a
      PROVE  b * x < z
  <2>1. CASE y = 0
    <3>1. b * x = 0
      BY <1>1, <2>1
    <3> QED
      BY <3>1
  <2>2. CASE y # 0
    <3>1. (b + 1) * y <= a * y
      BY <1>3, Products
    <3>2. (b + 1) * y = b * y + y
      OBVIOUS
    <3> QED
      BY <1>1, <2>2, <3>1, <3>2
  <2> QED
    BY <2>1, <2>2
<1> QED
  BY <1>1, <1>2, <1>3

LEMMA TruncatedIn ==
  ASSUME NEW v \in Int, NEW w \in Nat \ {0}
  PROVE  /\ 0 <= v /\ v < Denominator * w => Truncated(v) \in 0 .. w - 1
         /\ v < 0 /\ -v <= Denominator * w => Truncated(v) \in -w .. 0
<1>1. Denominator \in Nat \ {0}
  BY ElementAssumption
<1>2. ASSUME 0 <= v, v < Denominator * w
      PROVE  Truncated(v) \in 0 .. w - 1
  <2>1. v \in Nat
    BY <1>2
  <2>2. v \div Denominator \in Nat /\ v \div Denominator < w
    BY <1>1, <1>2, <2>1, DivisionBelow
  <2> QED
    BY <1>2, <2>2 DEF Truncated
<1>3. ASSUME v < 0, -v <= Denominator * w
      PROVE  Truncated(v) \in -w .. 0
  <2>1. -v \in Nat
    BY <1>3
  <2>2. (-v) \div Denominator \in Nat /\ (-v) \div Denominator <= w
    BY <1>1, <1>3, <2>1, DivisionBelow
  <2>3. Truncated(v) = -((-v) \div Denominator)
    BY <1>3 DEF Truncated
  <2> QED
    BY <2>2, <2>3
<1> QED
  BY <1>2, <1>3

Type(e, bytes) ==
  Class(IF e.function = "CA2toDecimal" THEN "Signed" ELSE "Unsigned", ByteBits * bytes)

(* The cases of the loader exclude each other.                             *)
LEMMA TwoBytesHoldOne ==
  ASSUME NEW e, Element(e), ValueFits(e, 1)
  PROVE  ValueFits(e, 2)
<1> DEFINE x == 2 ^ e.bits * Max(ToSet(LsbValues(e)))
<1>1. Denominator \in Nat /\ ByteBits * 1 \in Nat /\ ByteBits * 2 \in Nat /\ ByteBits * 1 <= ByteBits * 2
  BY ElementAssumption
<1>2. 2 ^ (ByteBits * 1) \in Nat /\ 2 ^ (ByteBits * 2) \in Nat /\ 2 ^ (ByteBits * 1) <= 2 ^ (ByteBits * 2)
  BY <1>1, PowerNat, PowerMonotonic
<1>3. /\ Denominator * 2 ^ (ByteBits * 1) <= Denominator * 2 ^ (ByteBits * 2)
      /\ Denominator * 2 ^ (ByteBits * 1) \in Nat /\ Denominator * 2 ^ (ByteBits * 2) \in Nat
  BY <1>1, <1>2, Products
<1>4. x \in Int
  <2>1. PICK lsb \in ToSet(LsbValues(e)) : TRUE
    <3>1. LsbValues(e)[1] \in ToSet(LsbValues(e))
      BY EmptySeq, LenProperties DEF Element, ToSet
    <3> QED
      BY <3>1
  <2>2. Max(ToSet(LsbValues(e))) \in Nat
    BY <2>1, LsbIsBelow
  <2>3. 2 ^ e.bits \in Nat
    BY PowerNat DEF Element
  <2> QED
    BY <2>2, <2>3
<1>5. x <= Denominator * 2 ^ (ByteBits * 1)
  BY DEF ValueFits
<1>6. x <= Denominator * 2 ^ (ByteBits * 2)
  <2> HIDE DEF x
  <2> QED
    BY <1>3, <1>4, <1>5
<1> QED
  BY <1>6 DEF ValueFits

OtherTypes == {"FloatValue", "DoubleValue", "StringValue", "HexadecimalValue"}

LEMMA OtherRepresentations ==
  ASSUME NEW e, RepresentationMode(e).type \in IntegerTypes
  PROVE  e.representation \notin OtherTypes
BY DEF RepresentationMode, FloatValue, DoubleValue, StringValue, Class, IntegerTypes, OtherTypes

(* The type chosen fits the values, unless it is the largest one.          *)
LEMMA IntegerTypeIs ==
  ASSUME NEW e, Element(e), e.representation \notin OtherTypes
  PROVE  \E bytes \in Nat \ {0} : /\ ValueFits(e, bytes) \/ bytes = LongBytes
                                  /\ RepresentationMode(e) = Type(e, bytes)
<1> DEFINE mode == RepresentationMode(e)
<1>1. e.representation \notin {"FloatValue", "DoubleValue", "StringValue", "HexadecimalValue"}
  BY DEF OtherTypes
<1>2. /\ ByteBits \in Nat \ {0} /\ LongBytes \in Nat \ {0} /\ IntBits = ByteBits * 4
      /\ LongBits = ByteBits * LongBytes
  BY ElementAssumption DEF IntBits, LongBits
<1>3. CASE ValueFits(e, 1) /\ ~ ValueFits(e, 0)
  <2>1. ByteBits * 1 = ByteBits
    BY <1>2
  <2>2. mode = Class(IF e.function = "CA2toDecimal" THEN "Signed" ELSE "Unsigned", ByteBits)
    BY <1>1, <1>3, TwoBytesHoldOne DEF RepresentationMode, SignedInteger8bitValue, UnsignedInteger8bitValue
  <2>3. mode = Type(e, 1)
    BY <2>1, <2>2 DEF Type
  <2> QED
    BY <1>3, <2>3
<1>4. CASE ~ (ValueFits(e, 1) /\ ~ ValueFits(e, 0)) /\ ValueFits(e, 2) /\ ~ ValueFits(e, 1)
  <2>1. mode = Type(e, 2)
    BY <1>1, <1>2, <1>4 DEF RepresentationMode, Type, Class, SignedInteger16bitValue, UnsignedInteger16bitValue
  <2> QED
    BY <1>4, <2>1
<1>5. CASE /\ ~ (ValueFits(e, 1) /\ ~ ValueFits(e, 0)) /\ ~ (ValueFits(e, 2) /\ ~ ValueFits(e, 1))
           /\ ValueFits(e, 4) /\ ~ ValueFits(e, 2)
  <2>1. mode = Type(e, 4)
    BY <1>1, <1>2, <1>5 DEF RepresentationMode, Type, Class, SignedInteger32bitValue, UnsignedInteger32bitValue
  <2> QED
    BY <1>5, <2>1
<1>6. CASE /\ ~ (ValueFits(e, 1) /\ ~ ValueFits(e, 0)) /\ ~ (ValueFits(e, 2) /\ ~ ValueFits(e, 1))
           /\ ~ (ValueFits(e, 4) /\ ~ ValueFits(e, 2))
  <2>1. mode = Type(e, LongBytes)
    BY <1>1, <1>2, <1>6 DEF RepresentationMode, Type, Class, SignedInteger64bitValue, UnsignedInteger64bitValue
  <2> QED
    BY <1>2, <2>1
<1> QED
  BY <1>3, <1>4, <1>5, <1>6

LEMMA IntegerTypeFits ==
  ASSUME NEW e, Element(e), e.representation \notin OtherTypes, ValueFits(e, LongBytes)
  PROVE  \E bytes \in Nat \ {0} : ValueFits(e, bytes) /\ RepresentationMode(e) = Type(e, bytes)
BY IntegerTypeIs

(* The bounds of Meaning: those of an unsigned number, or of half as many  *)
(* positive ones.                                                          *)
LEMMA MeaningBounds ==
  ASSUME NEW e, Element(e), ReadAsMeant(e)
  PROVE  /\ Meaning(e) \in Int
         /\ Meaning(e) >= 0 => Meaning(e) < 2 ^ e.bits
         /\ e.function \in Integers => Meaning(e) >= 0
         /\ e.function = "CA2toDecimal" => Meaning(e) < 2 ^ (e.bits - 1)
         /\ Meaning(e) < 0 => -Meaning(e) <= 2 ^ (e.bits - 1)
<1> DEFINE m == 2 ^ e.bits
           h == 2 ^ (e.bits - 1)
<1>1. h \in Nat \ {0} /\ m = 2 * h /\ e.raw \in 0 .. m - 1
  BY Halves DEF Element
<1>2. Meaning(e) = IF e.function \in TwosComplement /\ e.raw >= h THEN e.raw - m ELSE e.raw
  BY DEF Meaning
<1>3. e.function \in Integers => e.function \notin TwosComplement
  BY DEF Integers, TwosComplement
<1>4. e.function = "CA2toDecimal" => e.function \in TwosComplement
  BY DEF TwosComplement
<1> HIDE DEF m, h
<1>5. /\ Meaning(e) \in Int
      /\ Meaning(e) >= 0 => Meaning(e) < m
      /\ e.function \in Integers => Meaning(e) >= 0
      /\ e.function = "CA2toDecimal" => Meaning(e) < h
      /\ Meaning(e) < 0 => -Meaning(e) <= h
  BY <1>1, <1>2, <1>3, <1>4
<1> QED
  BY <1>5 DEF m, h

LEMMA TypeOfBytesHolds ==
  ASSUME NEW e, Element(e), ReadAsMeant(e), NEW lsb \in ToSet(LsbValues(e)),
         NEW bytes \in Nat \ {0}, ValueFits(e, bytes), RepresentationMode(e) = Type(e, bytes),
         RepresentationMode(e).type = "Signed" \/ Meaning(e) >= 0
  PROVE  Meaning(e) * lsb \in Int
         /\ Truncated(Meaning(e) * lsb) \in TypeRange(RepresentationMode(e))
<1> DEFINE mode == RepresentationMode(e)
           max == Max(ToSet(LsbValues(e)))
           n == Meaning(e)
           m == 2 ^ e.bits
           h == 2 ^ (e.bits - 1)
<1>1. ValueFits(e, bytes) /\ mode = Type(e, bytes)
  OBVIOUS
<1> DEFINE width == ByteBits * bytes
           W == 2 ^ width
           H == 2 ^ (width - 1)
<1>2. lsb \in Nat /\ max \in Nat /\ lsb <= max
  BY LsbIsBelow
<1>3. Denominator \in Nat \ {0}
  BY ElementAssumption
<1>4. m * max <= Denominator * W
  BY <1>1 DEF ValueFits
<1>5. width \in Nat \ {0} /\ mode.bits = width
  BY <1>1, Widths DEF Type, Class
<1>6. h \in Nat \ {0} /\ m = 2 * h
  BY Halves DEF Element
<1>7. H \in Nat \ {0} /\ W = 2 * H
  <2> HIDE DEF width
  <2> QED
    BY <1>5, Halves
<1>8. /\ n \in Int
      /\ n >= 0 => n < m
      /\ e.function = "CA2toDecimal" => n < h
      /\ n < 0 => -n <= h
  BY MeaningBounds
<1>9. /\ mode.type = "Signed" <=> e.function = "CA2toDecimal"
      /\ mode.type # "Signed" => n >= 0
      /\ TypeRange(mode) = IF mode.type = "Signed" THEN -H .. H - 1 ELSE 0 .. W - 1
  <2>1. mode.type = IF e.function = "CA2toDecimal" THEN "Signed" ELSE "Unsigned"
    BY <1>1 DEF Type, Class
  <2>2. TypeRange(mode) = IF mode.type = "Signed" THEN -H .. H - 1 ELSE 0 .. W - 1
    <3> HIDE DEF mode, width
    <3> QED
      BY <1>5 DEF TypeRange
  <2> QED
    BY <2>1, <2>2
<1> HIDE DEF mode, max, n, m, h, width, W, H
<1>10. Denominator * W \in Nat \ {0} /\ Denominator * H \in Nat \ {0} /\ h * max <= Denominator * H
  <2>1. \A a, b \in Nat \ {0} : a * b \in Nat \ {0} /\ a * (2 * b) = 2 * (a * b)
    OBVIOUS
  <2>2. \A a, b \in Nat : (2 * a) * b = 2 * (a * b) /\ a * b \in Nat
    OBVIOUS
  <2>3. 2 * (h * max) <= 2 * (Denominator * H) /\ h * max \in Nat /\ Denominator * H \in Nat \ {0}
    BY <1>2, <1>3, <1>4, <1>6, <1>7, <2>1, <2>2
  <2>4. \A a, b \in Nat : 2 * a <= 2 * b => a <= b
    OBVIOUS
  <2> QED
    BY <1>3, <1>7, <2>1, <2>3, <2>4
<1>11. CASE n >= 0
  <2>1. n \in Nat
    BY <1>8, <1>11
  <2>2. n * lsb \in Nat /\ n * lsb < Denominator * W
    BY <1>2, <1>4, <1>6, <1>8, <1>10, <1>11, <2>1, ProductBelow
  <2>3. e.function = "CA2toDecimal" => n * lsb < Denominator * H
    BY <1>2, <1>6, <1>8, <1>10, <2>1, ProductBelow
  <2>4. /\ Truncated(n * lsb) \in 0 .. W - 1
        /\ e.function = "CA2toDecimal" => Truncated(n * lsb) \in 0 .. H - 1
    BY <1>7, <2>2, <2>3, TruncatedIn
  <2>5. 0 .. H - 1 \subseteq -H .. H - 1
    BY <1>7
  <2>6. n * lsb \in Int
    BY <2>2
  <2> QED
    BY <1>9, <2>4, <2>5, <2>6 DEF mode, n
<1>12. CASE ~ (n >= 0)
  <2>1. -n \in Nat /\ n < 0
    BY <1>8, <1>12
  <2>2. (-n) * lsb \in Nat /\ (-n) * lsb <= Denominator * H
    BY <1>2, <1>6, <1>8, <1>10, <2>1, ProductBelow
  <2>3. (-n) * lsb = -(n * lsb) /\ n * lsb \in Int
    BY <1>2, <1>8
  <2>4. Truncated(n * lsb) \in -H .. H - 1
    <3>1. CASE n * lsb < 0
      <4>1. Truncated(n * lsb) \in -H .. 0
        BY <1>7, <2>2, <2>3, <3>1, TruncatedIn
      <4> QED
        BY <1>7, <4>1
    <3>2. CASE ~ (n * lsb < 0)
      <4> DEFINE v == n * lsb
      <4>1. v \in Int /\ 0 <= v /\ -v \in Nat
        BY <2>2, <2>3, <3>2
      <4> HIDE DEF v
      <4>2. v = 0
        BY <4>1
      <4>3. Truncated(0) \in 0 .. H - 1
        BY <1>7, <1>10, TruncatedIn
      <4> QED
        BY <1>7, <4>2, <4>3 DEF v
    <3> QED
      BY <3>1, <3>2
  <2> QED
    BY <1>9, <1>12, <2>3, <2>4 DEF mode, n
<1> QED
  BY <1>11, <1>12

LEMMA TypeHolds ==
  ASSUME NEW e, Element(e), ReadAsMeant(e), ValueFits(e, LongBytes), NEW lsb \in ToSet(LsbValues(e)),
         RepresentationMode(e).type \in IntegerTypes,
         RepresentationMode(e).type = "Signed" \/ Meaning(e) >= 0
  PROVE  Meaning(e) * lsb \in Int
         /\ Truncated(Meaning(e) * lsb) \in TypeRange(RepresentationMode(e))
BY IntegerTypeFits, OtherRepresentations, TypeOfBytesHolds

(* A value stored is the number read, unless its type is not permitted.    *)
LEMMA StoredInteger ==
  ASSUME NEW d, NEW v \in Int, NEW representation, NEW o, ReadNumber(d, v, representation, o),
         d.mode.type \in IntegerTypes, Truncated(v) \in TypeRange(d.mode), d.mode.bits \in Nat \ {0}
  PROVE  o.value = setDecodedValue(d.mode, <<Truncated(v)>>, representation)
<1>1. PICK x \in Stored(d.mode, v, representation) : o = Outcome(x, InRange(d.range, v))
  BY DEF ReadNumber
<1>2. o.value = x
  BY <1>1 DEF Outcome
<1> DEFINE t == Truncated(v)
           lowest == IF d.mode.type = "Signed" THEN -(2 ^ (d.mode.bits - 1)) ELSE 0
           highest == lowest + (2 ^ d.mode.bits - 1)
<1>3. TypeRange(d.mode) = lowest .. highest
  <2> DEFINE bits == d.mode.bits
             h == 2 ^ (bits - 1)
             m == 2 ^ bits
  <2>1. h \in Nat \ {0} /\ m = 2 * h
    BY Halves
  <2>2. TypeRange(d.mode) = IF d.mode.type = "Signed" THEN -h .. h - 1 ELSE 0 .. m - 1
    BY DEF TypeRange
  <2>3. lowest = (IF d.mode.type = "Signed" THEN -h ELSE 0) /\ highest = lowest + (m - 1)
    OBVIOUS
  <2> HIDE DEF h, m, lowest, highest
  <2>4. -h + (m - 1) = h - 1 /\ 0 + (m - 1) = m - 1
    BY <2>1
  <2> QED
    BY <2>2, <2>3, <2>4
<1>4. t \in lowest .. highest
  BY <1>3
<1>5. Converted(d.mode, v) = {t}
  <2>1. Converted(d.mode, v) =
          IF t \in lowest .. highest THEN {t}
          ELSE {lowest + ((t - lowest) % 2 ^ d.mode.bits), IF t < lowest THEN lowest ELSE highest}
    BY DEF Converted
  <2> HIDE DEF lowest, highest, t
  <2> QED
    BY <1>4, <2>1
<1> HIDE DEF lowest, highest, t
<1>6. Stored(d.mode, v, representation)
        = {setDecodedValue(d.mode, <<i>>, representation) : i \in Converted(d.mode, v)}
  BY DEF Stored, IntegerTypes
<1> QED
  BY <1>1, <1>2, <1>5, <1>6 DEF t

LEMMA StoredIsMeant ==
  ASSUME NEW d, NEW v \in Int, NEW representation, NEW o, ReadNumber(d, v, representation, o),
         d.mode.type \in IntegerTypes => Truncated(v) \in TypeRange(d.mode)
                                         /\ d.mode.bits \in Nat \ {0}
  PROVE  \/ "UNKNOWN_REPRESENTATION_MODE" \in o.codes
         \/ o.value.value = <<IF d.mode.type \in IntegerTypes THEN Truncated(v) ELSE v>>
<1>1. CASE d.mode.type \in IntegerTypes
  <2>1. o.value = setDecodedValue(d.mode, <<Truncated(v)>>, representation)
    BY <1>1, StoredInteger
  <2> QED
    BY <1>1, <2>1 DEF setDecodedValue
<1>2. CASE d.mode.type \notin IntegerTypes
  <2>1. PICK x \in Stored(d.mode, v, representation) : o = Outcome(x, InRange(d.range, v))
    BY DEF ReadNumber
  <2>2. o.value = x /\ (x = Null => "UNKNOWN_REPRESENTATION_MODE" \in o.codes)
    BY <2>1 DEF Outcome
  <2>3. x = setDecodedValue(d.mode, <<v>>, representation) \/ x = Null
    BY <1>2, <2>1 DEF Stored
  <2> QED
    BY <1>2, <2>2, <2>3 DEF setDecodedValue
<1> QED
  BY <1>1, <1>2

-----------------------------------------------------------------------------
(* The records as described, and each value with what was read for it.     *)
DescribedAs(n) ==
  described[n] = [lsb |-> LsbValues(record[n]), mode |-> RepresentationMode(record[n]),
                  range |-> RangeValues(record[n].range)]

Before == {"load", "loadError"}

DescribedInv ==
  pc \notin Before => DOMAIN described = DOMAIN record /\ \A n \in DOMAIN record : DescribedAs(n)

(* What a function that reads numbers returned for an element; those that  *)
(* return nothing depend on the element before.                            *)
ReadElement(e, lsb, value, n, report) ==
  /\ lsb \in ToSet(LsbValues(e))
  /\ (ReadAsMeant(e)) =>
       \E representation, o :
         /\ ReadNumber([lsb |-> LsbValues(e), mode |-> RepresentationMode(e), range |-> RangeValues(e.range)],
                       Meaning(e) * lsb, representation, o)
         /\ e.function \in Decimals => representation = "IntegerValue"
         /\ value = o.value /\ {n} \X o.codes \subseteq report

DecoderInv ==
  /\ record \in Records
  /\ DescribedInv
  /\ pc \in Before => decoded = <<>> /\ k = 1
  /\ pc = "decode" => k = Len(decoded) + 1
  /\ (\E S : decoded \in Seq(S)) /\ Len(decoded) <= Len(record)
  /\ \E S : decoderLsb \in [DOMAIN record -> S]
  /\ \A n \in DOMAIN decoded : ReadElement(record[n], decoderLsb[n], decoded[n], n, failures)

LEMMA RecordOfElements ==
  ASSUME record \in Records
  PROVE  /\ Len(record) \in Nat /\ DOMAIN record = 1 .. Len(record)
         /\ \A n \in DOMAIN record : record[n] \in ToSet(record) /\ Element(record[n])
<1>1. record \in Seq(ToSet(record)) /\ \A e \in ToSet(record) : Element(e)
  BY RecordsAssumption DEF Element
<1>2. Len(record) \in Nat /\ DOMAIN record = 1 .. Len(record)
  BY <1>1, LenProperties
<1>3. \A n \in DOMAIN record : record[n] \in ToSet(record)
  BY DEF ToSet
<1> QED
  BY <1>1, <1>2, <1>3

LEMMA DecoderInitially == Init => DecoderInv
<1> SUFFICES ASSUME Init PROVE DecoderInv
  OBVIOUS
<1>1. /\ record \in Records /\ pc = "load" /\ decoded = <<>> /\ k = 1
      /\ decoderLsb = [n \in DOMAIN record |-> 0]
  BY DEF Init
<1>2. <<>> \in Seq({}) /\ Len(<<>>) = 0 /\ DOMAIN <<>> = {}
  OBVIOUS
<1>3. decoderLsb \in [DOMAIN record -> {0}]
  BY <1>1
<1>4. Len(decoded) <= Len(record)
  BY <1>1, <1>2, RecordOfElements
<1> QED
  BY <1>1, <1>2, <1>3, <1>4 DEF DecoderInv, DescribedInv, Before

(* All steps but Load and Decode keep what was decoded.                    *)
LEMMA DecodedKept ==
  ASSUME DecoderInv, UNCHANGED <<record, described, decoded, decoderLsb>>, failures \subseteq failures',
         \/ pc' \notin Before /\ pc' # "decode" /\ pc \notin Before
         \/ UNCHANGED <<pc, k>>
  PROVE  DecoderInv'
<1>1. /\ record \in Records /\ DescribedInv /\ Len(decoded) <= Len(record)
      /\ \E S : decoded \in Seq(S)
      /\ \E S : decoderLsb \in [DOMAIN record -> S]
      /\ pc \in Before => decoded = <<>> /\ k = 1
      /\ pc = "decode" => k = Len(decoded) + 1
      /\ \A n \in DOMAIN decoded : ReadElement(record[n], decoderLsb[n], decoded[n], n, failures)
  BY DEF DecoderInv
<1>2. ASSUME NEW n \in DOMAIN decoded
      PROVE  ReadElement(record[n], decoderLsb[n], decoded[n], n, failures')
  <2>1. ReadElement(record[n], decoderLsb[n], decoded[n], n, failures)
    BY <1>1
  <2>2. \A codes : {n} \X codes \subseteq failures => {n} \X codes \subseteq failures'
    OBVIOUS
  <2> QED
    BY <2>1, <2>2 DEF ReadElement
<1>3. \A n \in DOMAIN decoded' : ReadElement(record'[n], decoderLsb'[n], decoded'[n], n, failures')
  BY <1>2
<1>4. DescribedInv'
  BY <1>1 DEF DescribedInv, DescribedAs
<1>5. /\ pc' \in Before => decoded' = <<>> /\ k' = 1
      /\ pc' = "decode" => k' = Len(decoded') + 1
  BY <1>1
<1>6. (\E S : decoded' \in Seq(S)) /\ (\E S : decoderLsb' \in [DOMAIN record' -> S])
      /\ Len(decoded') <= Len(record') /\ record' \in Records
  BY <1>1
<1> QED
  BY <1>3, <1>4, <1>5, <1>6 DEF DecoderInv

LEMMA LoadStep ==
  ASSUME DecoderInv, Load
  PROVE  DecoderInv'
<1>1. /\ pc = "load" /\ UNCHANGED <<record, k, decoded, decoderLsb, failures>>
      /\ \/ pc' = "loadError" /\ UNCHANGED described
         \/ /\ pc' = "decode"
            /\ described' = [n \in DOMAIN record |->
                               [lsb |-> LsbValues(record[n]), mode |-> RepresentationMode(record[n]),
                                range |-> RangeValues(record[n].range)]]
  BY DEF Load, decoderVars
<1>2. decoded = <<>> /\ k = 1
  BY <1>1 DEF DecoderInv, Before
<1> QED
  BY <1>1, <1>2 DEF DecoderInv, DescribedInv, DescribedAs, Before

(* A turn of the decoder's loop adds the value of one element.             *)
LEMMA DecodeOne ==
  ASSUME DecoderInv, Decode
  PROVE  /\ pc = "decode" /\ record \in Records /\ DescribedInv
         /\ k \in DOMAIN record /\ Element(record[k]) /\ DescribedAs(k)
         /\ k = Len(decoded) + 1 /\ k \notin DOMAIN decoded /\ Len(decoded') = k
         /\ DOMAIN decoded' = DOMAIN decoded \cup {k}
         /\ \A n \in DOMAIN decoded : decoded'[n] = decoded[n] /\ decoderLsb'[n] = decoderLsb[n]
         /\ (\E S : decoded' \in Seq(S)) /\ (\E S : decoderLsb' \in [DOMAIN record -> S])
         /\ decoderLsb'[k] \in ToSet(LsbValues(record[k]))
         /\ \E o \in Decodings(record[k], described[k], decoderLsb'[k]) :
              decoded'[k] = o.value /\ failures' = failures \cup ({k} \X o.codes)
<1> DEFINE e == record[k]
           d == described[k]
           lsb == d.lsb[Selected(k)[1] + 1]
<1>1. /\ pc = "decode" /\ k <= Len(record) /\ ~ SelectionThrows(k)
      /\ decoderLsb' = [decoderLsb EXCEPT ![k] = lsb]
      /\ \E o \in Decodings(e, d, lsb) :
           decoded' = Append(decoded, o.value) /\ failures' = failures \cup ({k} \X o.codes)
  BY DEF Decode
<1>2. PICK o \in Decodings(e, d, lsb) :
        decoded' = Append(decoded, o.value) /\ failures' = failures \cup ({k} \X o.codes)
  BY <1>1
<1>3. record \in Records /\ DescribedInv /\ k = Len(decoded) + 1
  BY <1>1 DEF DecoderInv
<1>4. PICK S : decoded \in Seq(S)
  BY DEF DecoderInv
<1>5. PICK T : decoderLsb \in [DOMAIN record -> T]
  BY DEF DecoderInv
<1>6. Len(decoded) \in Nat /\ DOMAIN decoded = 1 .. Len(decoded) /\ decoded \in Seq(S \cup {o.value})
  BY <1>4, LenProperties, SeqMonotonic
<1>7. k \in DOMAIN record /\ Element(e) /\ k \notin DOMAIN decoded
  BY <1>1, <1>3, <1>6, RecordOfElements
<1>8. DescribedAs(k)
  BY <1>1, <1>3, <1>7 DEF DescribedInv, Before
<1>9. lsb \in ToSet(LsbValues(e))
  <2>1. d.lsb = LsbValues(e)
    BY <1>8 DEF DescribedAs
  <2>2. Selected(k)[1] + 1 \in DOMAIN d.lsb
    BY <1>1 DEF SelectionThrows
  <2> QED
    BY <2>1, <2>2 DEF ToSet
<1>10. /\ decoded' \in Seq(S \cup {o.value}) /\ Len(decoded') = k
       /\ DOMAIN decoded' = DOMAIN decoded \cup {k}
       /\ \A n \in DOMAIN decoded : decoded'[n] = decoded[n]
       /\ decoded'[k] = o.value
  <2> DEFINE v == o.value
  <2>1. decoded' = Append(decoded, v) /\ v \in S \cup {v} /\ decoded \in Seq(S \cup {v})
    BY <1>2, <1>6
  <2> HIDE DEF v, e, d, lsb
  <2>2. /\ decoded' \in Seq(S \cup {v}) /\ Len(decoded') = Len(decoded) + 1
        /\ \A n \in 1 .. Len(decoded) : decoded'[n] = decoded[n]
        /\ decoded'[Len(decoded) + 1] = v
    BY <1>6, <2>1, AppendProperties
  <2>3. DOMAIN decoded' = 1 .. Len(decoded')
    BY <2>2, LenProperties
  <2> QED
    BY <1>3, <1>6, <2>2, <2>3 DEF v
<1> HIDE DEF lsb
<1>11. decoderLsb'[k] = lsb /\ \A n \in DOMAIN decoded : decoderLsb'[n] = decoderLsb[n]
  <2>1. \A n \in DOMAIN decoded : n \in DOMAIN record /\ n # k
    BY <1>1, <1>3, <1>6, RecordOfElements
  <2> QED
    BY <1>1, <1>5, <1>7, <2>1
<1>12. \E U : decoderLsb' \in [DOMAIN record -> U]
  <2>1. decoderLsb' \in [DOMAIN record -> T \cup {lsb}]
    BY <1>1, <1>5
  <2> QED
    BY <2>1
<1> HIDE DEF e, d
<1>13. \E p \in Decodings(e, d, decoderLsb'[k]) :
         decoded'[k] = p.value /\ failures' = failures \cup ({k} \X p.codes)
  BY <1>2, <1>10, <1>11
<1> QED
  BY <1>1, <1>3, <1>7, <1>8, <1>9, <1>10, <1>11, <1>12, <1>13 DEF e, d

LEMMA DecodeStep ==
  ASSUME DecoderInv, Decode
  PROVE  DecoderInv'
<1> DEFINE e == record[k]
           d == described[k]
           lsb == decoderLsb'[k]
<1>1. /\ pc = "decode" /\ k <= Len(record) /\ UNCHANGED <<record, described, pc>> /\ k' = k + 1
      /\ record \in Records /\ DescribedInv
      /\ \A n \in DOMAIN decoded : ReadElement(record[n], decoderLsb[n], decoded[n], n, failures)
  BY DecodeOne DEF Decode, DecoderInv
<1>2. PICK o \in Decodings(e, d, lsb) :
        decoded'[k] = o.value /\ failures' = failures \cup ({k} \X o.codes)
  BY DecodeOne
<1>3. ASSUME NEW n \in DOMAIN decoded'
      PROVE  ReadElement(record[n], decoderLsb'[n], decoded'[n], n, failures')
  <2>1. CASE n = k
    <3>1. d = [lsb |-> LsbValues(e), mode |-> RepresentationMode(e), range |-> RangeValues(e.range)]
      BY DecodeOne DEF DescribedAs
    <3>2. {k} \X o.codes \subseteq failures'
      BY <1>2
    <3>3. Element(e) /\ lsb \in ToSet(LsbValues(e))
      BY DecodeOne
    <3> HIDE DEF e, d, lsb
    <3>4. ReadAsMeant(e) => \E representation :
            /\ ReadNumber(d, Meaning(e) * lsb, representation, o)
            /\ e.function \in Decimals => representation = "IntegerValue"
      BY <3>3, MeaningIsRead
    <3>5. ReadElement(e, lsb, o.value, k, failures')
      BY <3>1, <3>2, <3>3, <3>4 DEF ReadElement
    <3> QED
      BY <1>2, <2>1, <3>5 DEF e, lsb
  <2>2. CASE n # k
    <3>1. n \in DOMAIN decoded
      BY <2>2, DecodeOne
    <3>2. ReadElement(record[n], decoderLsb[n], decoded[n], n, failures)
      BY <1>1, <3>1
    <3>3. \A codes : {n} \X codes \subseteq failures => {n} \X codes \subseteq failures'
      BY <1>2
    <3>4. decoded'[n] = decoded[n] /\ decoderLsb'[n] = decoderLsb[n]
      BY <3>1, DecodeOne
    <3> QED
      BY <3>2, <3>3, <3>4 DEF ReadElement
  <2> QED
    BY <2>1, <2>2
<1>4. DescribedInv'
  BY <1>1 DEF DescribedInv, DescribedAs
<1>5. record' \in Records /\ pc' = "decode" /\ k' = Len(decoded') + 1 /\ Len(decoded') <= Len(record')
  BY <1>1, DecodeOne
<1>6. \A n \in DOMAIN decoded' : ReadElement(record'[n], decoderLsb'[n], decoded'[n], n, failures')
  BY <1>1, <1>3
<1>7. (\E U : decoded' \in Seq(U)) /\ (\E U : decoderLsb' \in [DOMAIN record' -> U])
  BY <1>1, DecodeOne
<1> HIDE DEF e, d, lsb
<1> QED
  BY <1>4, <1>5, <1>6, <1>7 DEF DecoderInv, Before

LEMMA OthersKeepDecoded ==
  ASSUME DecoderInv,
         \/ DecoderThrows \/ HandOver \/ BuildRecord \/ Encode \/ GiveUpItem
         \/ EncoderThrows \/ EndEncoding \/ UNCHANGED vars
  PROVE  DecoderInv'
<1>1. UNCHANGED <<record, described, decoded, decoderLsb>>
  BY DEF DecoderThrows, HandOver, BuildRecord, Encode, GiveUpItem, EncoderThrows, EndEncoding,
         vars, decoderVars
<1>2. failures \subseteq failures'
  <2>1. CASE Encode \/ GiveUpItem
    BY <2>1 DEF Encode, GiveUpItem
  <2>2. CASE ~ (Encode \/ GiveUpItem)
    BY <2>2 DEF DecoderThrows, HandOver, BuildRecord, EncoderThrows, EndEncoding, vars
  <2> QED
    BY <2>1, <2>2
<1>3. \/ pc' \notin Before /\ pc' # "decode" /\ pc \notin Before
      \/ UNCHANGED <<pc, k>>
  <2>1. CASE UNCHANGED vars
    BY <2>1 DEF vars
  <2>2. CASE ~ UNCHANGED vars
    <3>1. pc \in {"decode", "encode"} /\ pc' \in {"decoderThrew", "encode", "recordThrew", "encoderThrew", "done"}
      BY <2>2 DEF DecoderThrows, HandOver, BuildRecord, Encode, GiveUpItem, EncoderThrows, EndEncoding
    <3> QED
      BY <3>1 DEF Before
  <2> QED
    BY <2>1, <2>2
<1> QED
  BY <1>1, <1>2, <1>3, DecodedKept

LEMMA DecoderInvariant == Spec => []DecoderInv
<1>1. ASSUME DecoderInv, [Next]_vars
      PROVE  DecoderInv'
  BY <1>1, LoadStep, DecodeStep, OthersKeepDecoded DEF Next
<1> QED
  BY <1>1, DecoderInitially, PTL DEF Spec

(* What a theorem about a value needs to know of its element.              *)
LEMMA DecodedElement ==
  ASSUME DecoderInv, NEW n \in DOMAIN decoded
  PROVE  /\ record[n] \in ToSet(record) /\ Element(record[n]) /\ DescribedAs(n)
         /\ ReadElement(record[n], decoderLsb[n], decoded[n], n, failures)
<1>1. /\ record \in Records /\ DescribedInv /\ Len(decoded) <= Len(record)
      /\ pc \in Before => decoded = <<>>
      /\ ReadElement(record[n], decoderLsb[n], decoded[n], n, failures)
  BY DEF DecoderInv
<1>2. PICK S : decoded \in Seq(S)
  BY DEF DecoderInv
<1>3. n \in DOMAIN record /\ decoded # <<>>
  BY <1>1, <1>2, RecordOfElements, LenProperties, EmptySeq
<1> QED
  BY <1>1, <1>3, RecordOfElements DEF DescribedInv

-----------------------------------------------------------------------------
(* The loader knows no integer longer than eight bytes: an element whose   *)
(* largest value is longer gets that type too.                             *)
ValuesFitLong ==
  \A r \in Records : \A e \in ToSet(r) : ReadAsMeant(e) => ValueFits(e, LongBytes)

(* The integer type that the loader derives from the length and the        *)
(* largest LSB holds every value the decoder reads, whichever LSB the      *)
(* element before selects, so that no conversion to it is undefined, if    *)
(* eight bytes are enough (marshallingToInnerDatamodel, toDecimal,         *)
(* CA2toDecimal).                                                          *)
THEOREM ValuesFitTheirType ==
  ASSUME ValuesFitLong
  PROVE  Spec => []ValueFitsType
<1>1. ASSUME DecoderInv
      PROVE  ValueFitsType
  <2> SUFFICES ASSUME NEW n \in DOMAIN decoded, ReadAsMeant(record[n]),
                      record[n].representation = "IntegerValue",
                      record[n].function # "CA2toHexadecimal"
               PROVE  Truncated(Meaning(record[n]) * decoderLsb[n]) \in TypeRange(described[n].mode)
    BY DEF ValueFitsType
  <2> DEFINE e == record[n]
             lsb == decoderLsb[n]
  <2>1. /\ record \in Records /\ e \in ToSet(record) /\ Element(e) /\ DescribedAs(n)
        /\ lsb \in ToSet(LsbValues(e))
    BY <1>1, DecodedElement DEF ReadElement, DecoderInv
  <2>2. ValueFits(e, LongBytes)
    BY <2>1 DEF ValuesFitLong
  <2>3. described[n].mode = RepresentationMode(e)
    BY <2>1 DEF DescribedAs
  <2>4. ReadAsMeant(e) /\ e.representation \notin OtherTypes /\ e.function # "CA2toHexadecimal"
    BY DEF OtherTypes
  <2> HIDE DEF e, lsb
  <2>5. PICK bytes \in Nat \ {0} : RepresentationMode(e) = Type(e, bytes)
    BY <2>1, <2>2, <2>4, IntegerTypeFits
  <2>6. RepresentationMode(e).type = IF e.function = "CA2toDecimal" THEN "Signed" ELSE "Unsigned"
    BY <2>5 DEF Type, Class
  <2>7. e.function # "CA2toDecimal" => Meaning(e) >= 0
    BY <2>1, <2>4, MeaningBounds DEF ReadAsMeant, TwosComplement
  <2>8. RepresentationMode(e).type \in IntegerTypes
    BY <2>6 DEF IntegerTypes
  <2>9. Truncated(Meaning(e) * lsb) \in TypeRange(RepresentationMode(e))
    BY <2>1, <2>2, <2>4, <2>6, <2>7, <2>8, TypeHolds
  <2> QED
    BY <2>3, <2>9 DEF e, lsb
<1> QED
  BY <1>1, DecoderInvariant, PTL

(* A number that is not what the bits of its own element mean never gets   *)
(* into a record unnoticed, whatever the elements before it left in the    *)
(* variable of the loop, unless a function that reads a sign is given a    *)
(* type without one (decodeAllElementsOfRecord, DecodingUtils.cpp).        *)
THEOREM WrongValuesAreReported ==
  ASSUME ValuesFitLong
  PROVE  Spec => []WrongValueIsReported
<1>1. ASSUME DecoderInv
      PROVE  WrongValueIsReported
  <2> SUFFICES ASSUME NEW n \in DOMAIN decoded, ReadAsMeant(record[n]),
                      ~ (described[n].mode.type = "Unsigned" /\ Meaning(record[n]) < 0)
               PROVE  \/ <<n, "UNKNOWN_REPRESENTATION_MODE">> \in failures
                      \/ decoded[n].value =
                           <<IF described[n].mode.type \in {"Signed", "Unsigned"}
                             THEN Truncated(Meaning(record[n]) * decoderLsb[n])
                             ELSE Meaning(record[n]) * decoderLsb[n]>>
    BY DEF WrongValueIsReported
  <2> DEFINE e == record[n]
             lsb == decoderLsb[n]
             d == described[n]
             v == Meaning(e) * lsb
  <2>1. /\ record \in Records /\ e \in ToSet(record) /\ Element(e) /\ DescribedAs(n)
        /\ lsb \in ToSet(LsbValues(e)) /\ ReadAsMeant(e)
    BY <1>1, DecodedElement DEF ReadElement, DecoderInv
  <2>2. ValueFits(e, LongBytes)
    BY <2>1 DEF ValuesFitLong
  <2>3. d.mode = RepresentationMode(e)
    BY <2>1 DEF DescribedAs
  <2>4. PICK representation, o :
          /\ ReadNumber(d, v, representation, o)
          /\ decoded[n] = o.value /\ {n} \X o.codes \subseteq failures
    BY <1>1, <2>1, DecodedElement DEF ReadElement, DescribedAs
  <2>5. v \in Int
    <3>1. lsb \in Nat /\ Meaning(e) \in Int
      BY <2>1, LsbIsBelow, MeaningBounds
    <3> HIDE DEF lsb, e
    <3> QED
      BY <3>1
  <2>6. d.mode.type \in IntegerTypes =>
          Truncated(v) \in TypeRange(d.mode) /\ d.mode.bits \in Nat \ {0}
    <3> SUFFICES ASSUME d.mode.type \in IntegerTypes
                 PROVE  Truncated(v) \in TypeRange(d.mode) /\ d.mode.bits \in Nat \ {0}
      OBVIOUS
    <3>1. ~ (d.mode.type = "Unsigned" /\ Meaning(e) < 0) /\ Meaning(e) \in Int
      BY <2>1, MeaningBounds
    <3> HIDE DEF e, lsb, d
    <3>2. d.mode.type = "Signed" \/ Meaning(e) >= 0
      BY <3>1 DEF IntegerTypes
    <3>3. Truncated(v) \in TypeRange(d.mode)
      BY <2>1, <2>2, <2>3, <3>2, TypeHolds
    <3>4. PICK bytes \in Nat \ {0} : d.mode = Type(e, bytes)
      BY <2>1, <2>2, <2>3, IntegerTypeFits, OtherRepresentations
    <3>5. d.mode.bits \in Nat \ {0}
      BY <3>4, Widths DEF Type, Class
    <3> QED
      BY <3>3, <3>5
  <2> HIDE DEF v, d
  <2>7. \/ "UNKNOWN_REPRESENTATION_MODE" \in o.codes
        \/ o.value.value = <<IF d.mode.type \in IntegerTypes THEN Truncated(v) ELSE v>>
    BY <2>4, <2>5, <2>6, StoredIsMeant
  <2> QED
    BY <2>4, <2>7 DEF v, d, IntegerTypes
<1> QED
  BY <1>1, DecoderInvariant, PTL

-----------------------------------------------------------------------------
(* Numbers and their digits.  A set that holds 0 and, with a number, the   *)
(* next one, holds all of them.                                            *)
LEMMA AllNumbers ==
  ASSUME NEW S, 0 \in S, \A n \in Nat : n \in S => n + 1 \in S
  PROVE  Nat \subseteq S
<1> SUFFICES ASSUME Nat \ S # {} PROVE FALSE
  OBVIOUS
<1>1. PICK m \in Nat \ S : \A x \in Nat \ S : m <= x
  BY LeastElement
<1>2. m # 0 /\ m - 1 \in Nat /\ (m - 1) + 1 = m
  BY <1>1
<1>3. m - 1 \in S
  BY <1>1, <1>2
<1> QED
  BY <1>1, <1>2, <1>3

(* NumberOf is the last value of any function that reads digit by digit.   *)
Reads(f, s, radix) ==
  f = [n \in 0 .. Len(s) |-> IF n = 0 THEN 0 ELSE radix * f[n - 1] + s[n]]

LEMMA NumberIsRead ==
  ASSUME NEW s, Len(s) \in Nat, NEW radix, NEW f, Reads(f, s, radix)
  PROVE  NumberOf(s, radix) = f[Len(s)]
<1> DEFINE Is(g) == g = [n \in 0 .. Len(s) |-> IF n = 0 THEN 0 ELSE radix * g[n - 1] + s[n]]
           number == CHOOSE g : Is(g)
           l == Len(s)
           S == {n \in Nat : n <= l => number[n] = f[n]}
<1>1. Is(f)
  BY DEF Reads
<1>2. Is(number)
  <2> HIDE DEF Is
  <2> QED
    BY <1>1
<1>3. NumberOf(s, radix) = number[l]
  BY DEF NumberOf
<1>4. \A n \in 0 .. l : /\ f[n] = IF n = 0 THEN 0 ELSE radix * f[n - 1] + s[n]
                        /\ number[n] = IF n = 0 THEN 0 ELSE radix * number[n - 1] + s[n]
  <2> HIDE DEF number
  <2> QED
    BY <1>1, <1>2
<1> HIDE DEF number, l
<1>5. l \in Nat
  BY DEF l
<1>6. 0 \in S
  BY <1>4, <1>5
<1>7. ASSUME NEW n \in Nat, n \in S
      PROVE  n + 1 \in S
  <2>1. CASE n + 1 <= l
    <3>1. n + 1 \in 0 .. l /\ n <= l /\ n + 1 # 0 /\ (n + 1) - 1 = n
      BY <1>5, <2>1
    <3>2. number[n] = f[n]
      BY <1>7, <3>1
    <3>3. f[n + 1] = radix * f[n] + s[n + 1] /\ number[n + 1] = radix * number[n] + s[n + 1]
      BY <1>4, <3>1
    <3> QED
      BY <3>2, <3>3
  <2>2. CASE ~ (n + 1 <= l)
    BY <2>2
  <2> QED
    BY <2>1, <2>2
<1>8. Nat \subseteq S
  <2> HIDE DEF S
  <2> QED
    BY <1>6, <1>7, AllNumbers
<1> QED
  BY <1>3, <1>5, <1>8 DEF l

(* Such a function exists.                                                 *)
LEMMA ReaderExists ==
  ASSUME NEW s \in Seq(Nat), NEW radix \in Nat
  PROVE  \E f \in [0 .. Len(s) -> Nat] : Reads(f, s, radix)
<1> DEFINE l == Len(s)
           Is(f, m) == /\ f \in [0 .. m -> Nat]
                       /\ \A n \in 0 .. m : f[n] = IF n = 0 THEN 0 ELSE radix * f[n - 1] + s[n]
           S == {m \in Nat : m <= l => \E f : Is(f, m)}
<1>1. l \in Nat /\ \A n \in 1 .. l : s[n] \in Nat
  BY LenProperties, ElementOfSeq
<1>2. Is([n \in 0 .. 0 |-> 0], 0)
  OBVIOUS
<1>3. 0 \in S
  <2> HIDE DEF Is
  <2> QED
    BY <1>2
<1>4. ASSUME NEW m \in Nat, m \in S
      PROVE  m + 1 \in S
  <2> HIDE DEF Is, l
  <2> SUFFICES ASSUME m + 1 <= l PROVE \E f : Is(f, m + 1)
    OBVIOUS
  <2> USE DEF Is
  <2>1. m <= l /\ m + 1 \in 1 .. l
    BY <1>1
  <2>2. PICK f : Is(f, m)
    BY <1>4, <2>1
  <2> DEFINE g == [n \in 0 .. m + 1 |-> IF n = m + 1 THEN radix * f[m] + s[m + 1] ELSE f[n]]
  <2>3. s[m + 1] \in Nat /\ f[m] \in Nat
    BY <1>1, <2>1, <2>2
  <2>4. radix * f[m] + s[m + 1] \in Nat
    <3>1. \A x, y, z \in Nat : x * y + z \in Nat
      OBVIOUS
    <3> QED
      BY <2>3, <3>1
  <2>5. \A n \in 0 .. m + 1 : n # m + 1 => n \in 0 .. m /\ (n # 0 => n - 1 \in 0 .. m /\ n - 1 # m + 1)
    OBVIOUS
  <2>6. g \in [0 .. m + 1 -> Nat]
    BY <2>2, <2>4, <2>5
  <2>7. ASSUME NEW n \in 0 .. m + 1
        PROVE  g[n] = IF n = 0 THEN 0 ELSE radix * g[n - 1] + s[n]
    <3>1. CASE n = m + 1
      <4>1. n - 1 = m /\ m \in 0 .. m + 1 /\ m # m + 1 /\ n # 0
        BY <3>1
      <4>2. g[n] = radix * f[m] + s[m + 1] /\ g[n - 1] = f[m]
        BY <3>1, <4>1
      <4> HIDE DEF g
      <4> QED
        BY <3>1, <4>1, <4>2
    <3>2. CASE n # m + 1
      <4>1. g[n] = f[n] /\ (n # 0 => n - 1 \in 0 .. m + 1 /\ g[n - 1] = f[n - 1])
        BY <2>5, <3>2
      <4>2. f[n] = IF n = 0 THEN 0 ELSE radix * f[n - 1] + s[n]
        BY <2>2, <2>5, <3>2
      <4> HIDE DEF g
      <4> QED
        BY <4>1, <4>2
    <3> QED
      BY <3>1, <3>2
  <2> HIDE DEF g
  <2> QED
    BY <2>6, <2>7
<1>5. Nat \subseteq S
  <2> HIDE DEF S
  <2> QED
    BY <1>3, <1>4, AllNumbers
<1>6. PICK f : Is(f, l)
  <2> HIDE DEF Is
  <2>1. l \in S /\ l <= l
    BY <1>1, <1>5
  <2> QED
    BY <2>1
<1>7. Reads(f, s, radix)
  <2>1. f = [n \in 0 .. l |-> f[n]]
    BY <1>6
  <2> QED
    BY <1>6, <2>1 DEF Reads
<1> QED
  BY <1>6, <1>7

LEMMA NumberOfLonger ==
  ASSUME NEW s \in Seq(Nat), NEW b \in Nat, NEW radix \in Nat
  PROVE  /\ NumberOf(s, radix) \in Nat
         /\ NumberOf(Append(s, b), radix) = radix * NumberOf(s, radix) + b
<1> DEFINE l == Len(s)
           t == Append(s, b)
<1>1. PICK f \in [0 .. l -> Nat] : Reads(f, s, radix)
  BY ReaderExists
<1>2. l \in Nat
  BY LenProperties
<1>3. NumberOf(s, radix) = f[l] /\ f[l] \in Nat
  BY <1>1, <1>2, NumberIsRead
<1>4. Len(t) = l + 1 /\ (\A n \in 1 .. l : t[n] = s[n]) /\ t[l + 1] = b
  BY AppendProperties
<1> DEFINE g == [n \in 0 .. l + 1 |-> IF n = l + 1 THEN radix * f[l] + b ELSE f[n]]
<1>5. \A n \in 0 .. l : f[n] = IF n = 0 THEN 0 ELSE radix * f[n - 1] + s[n]
  BY <1>1 DEF Reads
<1> HIDE DEF l, t
<1>6. ASSUME NEW n \in 0 .. l + 1
      PROVE  g[n] = IF n = 0 THEN 0 ELSE radix * g[n - 1] + t[n]
  <2>1. CASE n = l + 1
    <3>1. n - 1 = l /\ l \in 0 .. l + 1 /\ l # l + 1 /\ n # 0
      BY <1>2, <2>1
    <3>2. g[n] = radix * f[l] + b /\ g[n - 1] = f[l]
      BY <2>1, <3>1
    <3> HIDE DEF g
    <3> QED
      BY <1>4, <2>1, <3>1, <3>2
  <2>2. CASE n # l + 1
    <3>1. n \in 0 .. l /\ (n # 0 => n - 1 \in 0 .. l + 1 /\ n - 1 # l + 1 /\ n \in 1 .. l)
      BY <1>2, <2>2
    <3>2. g[n] = f[n] /\ (n # 0 => g[n - 1] = f[n - 1] /\ t[n] = s[n])
      BY <1>4, <2>2, <3>1
    <3> HIDE DEF g
    <3> QED
      BY <1>5, <3>1, <3>2
  <2> QED
    BY <2>1, <2>2
<1>7. g = [n \in 0 .. l + 1 |-> g[n]] /\ g[l + 1] = radix * f[l] + b
  BY <1>2
<1> HIDE DEF g
<1>8. Reads(g, t, radix)
  BY <1>4, <1>6, <1>7 DEF Reads
<1>9. NumberOf(t, radix) = g[l + 1]
  BY <1>2, <1>4, <1>8, NumberIsRead
<1> QED
  BY <1>3, <1>7, <1>9 DEF t

LEMMA NumberOfNone ==
  ASSUME NEW radix \in Nat
  PROVE  NumberOf(<<>>, radix) = 0
<1>1. PICK f \in [0 .. Len(<<>>) -> Nat] : Reads(f, <<>>, radix)
  <2>1. <<>> \in Seq(Nat)
    OBVIOUS
  <2> QED
    BY <2>1, ReaderExists
<1>2. Len(<<>>) = 0
  OBVIOUS
<1>3. f[0] = 0
  BY <1>1, <1>2 DEF Reads
<1> QED
  BY <1>1, <1>2, <1>3, NumberIsRead

(* The digits of a number are digits, and read back as the number.         *)
LEMMA DigitsReadBack ==
  ASSUME NEW number \in Nat, NEW radix \in Nat, radix > 1
  PROVE  /\ DigitsOf(number, radix) \in Seq(0 .. radix - 1)
         /\ DigitsOf(number, radix) # <<>>
         /\ NumberOf(DigitsOf(number, radix), radix) = number
<1> DEFINE Step(f, m) == IF m < radix THEN <<m>> ELSE Append(f[m \div radix], m % radix)
           Is(f, n) == f = [m \in 0 .. n |-> Step(f, m)]
           S == {n \in Nat : \E f : Is(f, n)}
           digits == CHOOSE f : Is(f, number)
           Right(d, m) == d \in Seq(0 .. radix - 1) /\ d # <<>> /\ NumberOf(d, radix) = m
           T == {n \in Nat : \A m \in 0 .. n : m <= number => Right(digits[m], m)}
<1>1. ASSUME NEW m \in Nat, ~ (m < radix)
      PROVE  /\ m \div radix \in 0 .. m - 1 /\ m % radix \in 0 .. radix - 1
             /\ radix * (m \div radix) + (m % radix) = m
  <2> DEFINE q == m \div radix
             r == m % radix
  <2>1. q \in Nat /\ r \in Nat /\ r < radix /\ m = radix * q + r
    BY Division, DivisionBelow
  <2>2. q > 0
    <3>1. CASE q = 0
      <4>1. radix * q = 0
        BY <3>1
      <4> HIDE DEF q, r
      <4> QED
        BY <1>1, <2>1, <4>1
    <3> QED
      BY <2>1, <3>1
  <2> HIDE DEF q, r
  <2>3. q < radix * q
    <3>1. \A x, y \in Nat : x > 0 /\ y > 1 => x < y * x
      OBVIOUS
    <3> QED
      BY <2>1, <2>2, <3>1
  <2>4. radix * q \in Nat
    BY <2>1
  <2>5. q <= m - 1
    BY <2>1, <2>3, <2>4
  <2>6. q \in 0 .. m - 1 /\ r \in 0 .. radix - 1 /\ radix * q + r = m
    BY <2>1, <2>5
  <2> QED
    BY <2>6 DEF q, r
<1>2. 0 \in S
  <2>1. Is([m \in 0 .. 0 |-> <<m>>], 0)
    OBVIOUS
  <2> HIDE DEF Is
  <2> QED
    BY <2>1
<1>3. ASSUME NEW n \in Nat, n \in S
      PROVE  n + 1 \in S
  <2>1. PICK f : Is(f, n)
    BY <1>3
  <2> DEFINE g == [m \in 0 .. n + 1 |-> IF m = n + 1 THEN Step(f, n + 1) ELSE f[m]]
  <2>2. ASSUME NEW m \in 0 .. n + 1
        PROVE  g[m] = Step(g, m)
    <3>1. ~ (m < radix) => m \div radix \in 0 .. n + 1 /\ m \div radix # n + 1
      <4>1. ~ (m < radix) => m \div radix \in 0 .. m - 1
        BY <1>1
      <4> DEFINE q == m \div radix
      <4> HIDE DEF q
      <4>2. ~ (m < radix) => q \in 0 .. n + 1 /\ q # n + 1
        BY <4>1 DEF q
      <4> QED
        BY <4>2 DEF q
    <3>2. Step(g, m) = Step(f, m)
      BY <3>1
    <3>3. g[m] = Step(f, m)
      <4>1. CASE m = n + 1
        BY <4>1
      <4>2. CASE m # n + 1
        <5>1. m \in 0 .. n
          BY <4>2
        <5>2. f[m] = Step(f, m)
          BY <2>1, <5>1
        <5> HIDE DEF Step
        <5> QED
          BY <4>2, <5>2
      <4> QED
        BY <4>1, <4>2
    <3> HIDE DEF g, Step
    <3> QED
      BY <3>2, <3>3
  <2>3. g = [m \in 0 .. n + 1 |-> g[m]]
    OBVIOUS
  <2>4. Is(g, n + 1)
    <3> HIDE DEF g, Step
    <3> QED
      BY <2>2, <2>3
  <2> HIDE DEF Is, g
  <2> QED
    BY <2>4
<1>4. Is(digits, number)
  <2>1. number \in S
    <3> HIDE DEF S
    <3> QED
      BY <1>2, <1>3, AllNumbers
  <2> HIDE DEF Is
  <2> QED
    BY <2>1
<1>5. DigitsOf(number, radix) = digits[number]
  BY DEF DigitsOf
<1> HIDE DEF digits
<1>6. \A m \in 0 .. number : digits[m] = Step(digits, m)
  BY <1>4
<1>7. ASSUME NEW m \in 0 .. number,
             ~ (m < radix) => Right(digits[m \div radix], m \div radix)
      PROVE  Right(digits[m], m)
  <2>1. CASE m < radix
    <3>1. digits[m] = <<m>>
      BY <1>6, <2>1
    <3>2. <<m>> = Append(<<>>, m) /\ <<>> \in Seq(Nat) /\ m \in Nat
      OBVIOUS
    <3>3. NumberOf(Append(<<>>, m), radix) = radix * NumberOf(<<>>, radix) + m
      BY <3>2, NumberOfLonger
    <3>4. NumberOf(<<m>>, radix) = m
      BY <3>2, <3>3, NumberOfNone
    <3>5. m \in 0 .. radix - 1
      BY <2>1
    <3>6. <<m>> \in Seq(0 .. radix - 1) /\ <<m>> # <<>>
      BY <3>5
    <3> QED
      BY <3>1, <3>4, <3>6
  <2>2. CASE ~ (m < radix)
    <3> DEFINE q == m \div radix
               r == m % radix
    <3>1. r \in 0 .. radix - 1 /\ r \in Nat /\ radix * q + r = m
      BY <1>1, <2>2
    <3>2. digits[m] = Append(digits[q], r) /\ Right(digits[q], q)
      BY <1>6, <1>7, <2>2
    <3> HIDE DEF q, r
    <3>3. digits[q] \in Seq(Nat)
      BY <3>2, SeqMonotonic
    <3>4. NumberOf(digits[m], radix) = m
      BY <3>1, <3>2, <3>3, NumberOfLonger
    <3>5. digits[m] \in Seq(0 .. radix - 1) /\ digits[m] # <<>>
      <4>1. digits[q] \in Seq(0 .. radix - 1)
        BY <3>2
      <4>2. digits[m] \in Seq(0 .. radix - 1) /\ Len(digits[m]) = Len(digits[q]) + 1 /\ Len(digits[q]) \in Nat
        BY <3>1, <3>2, <4>1, AppendProperties, LenProperties
      <4>3. Len(digits[m]) # 0
        BY <4>2
      <4> QED
        BY <4>2, <4>3, EmptySeq
    <3> QED
      BY <3>4, <3>5
  <2> QED
    BY <2>1, <2>2
<1> HIDE DEF Right
<1>8. 0 \in T
  BY <1>7
<1>9. ASSUME NEW n \in Nat, n \in T
      PROVE  n + 1 \in T
  <2> SUFFICES ASSUME NEW m \in 0 .. n + 1, m <= number PROVE Right(digits[m], m)
    OBVIOUS
  <2>1. ~ (m < radix) => m \div radix \in 0 .. m - 1
    BY <1>1
  <2> DEFINE q == m \div radix
  <2> HIDE DEF q
  <2>2. ~ (m < radix) => q \in 0 .. n /\ q <= number
    BY <2>1 DEF q
  <2>3. ~ (m < radix) => Right(digits[q], q)
    BY <1>9, <2>2
  <2> QED
    BY <1>7, <2>3 DEF q
<1>10. number \in T
  <2> HIDE DEF T
  <2> QED
    BY <1>8, <1>9, AllNumbers
<1>11. Right(digits[number], number)
  BY <1>10
<1> QED
  BY <1>5, <1>11 DEF Right

-----------------------------------------------------------------------------
(* Texts of one digit.                                                     *)
LEMMA FlattenOne ==
  ASSUME NEW s
  PROVE  FlattenSeq(<<s>>) = s
<1> DEFINE Is(f) == f = [i \in 1 .. Len(<<s>>) |-> IF i = 1 THEN <<s>>[i] ELSE f[i - 1] \o <<s>>[i]]
           f0 == [i \in 1 .. 1 |-> s]
           flat == CHOOSE f : Is(f)
<1>1. Len(<<s>>) = 1 /\ <<s>>[1] = s
  OBVIOUS
<1>2. \A i \in 1 .. 1 : i = 1
  OBVIOUS
<1>3. Is(f0)
  BY <1>1, <1>2
<1>4. Is(flat)
  <2> HIDE DEF Is
  <2> QED
    BY <1>3
<1>5. flat[1] = s
  <2>1. flat = [i \in 1 .. Len(<<s>>) |-> IF i = 1 THEN <<s>>[i] ELSE flat[i - 1] \o <<s>>[i]]
    BY <1>4
  <2> HIDE DEF flat
  <2> QED
    BY <1>1, <2>1
<1> QED
  BY <1>1, <1>5 DEF FlattenSeq

LEMMA NumberOfDigit ==
  ASSUME NEW b \in Nat, NEW radix \in Nat
  PROVE  NumberOf(<<b>>, radix) = b /\ NumberOf(<<0, b>>, radix) = b
<1> DEFINE none == <<>>
           zero == 0
           start == <<zero>>
<1>1. zero \in Nat /\ none \in Seq(Nat) /\ start \in Seq(Nat)
  OBVIOUS
<1>2. NumberOf(none, radix) = zero
  BY NumberOfNone
<1>3. Append(none, b) = <<b>> /\ Append(none, zero) = start
  OBVIOUS
<1>4. Append(start, b) = <<zero, b>>
  <2>1. Append(start, b) \in Seq(Nat) /\ <<zero, b>> \in Seq(Nat)
    BY <1>1, AppendProperties
  <2>2. Len(Append(start, b)) = 2 /\ Append(start, b)[1] = zero /\ Append(start, b)[2] = b
    BY <1>1, AppendProperties
  <2>3. Len(<<zero, b>>) = 2 /\ \A j \in 1 .. 2 : j = 1 \/ j = 2
    OBVIOUS
  <2> DEFINE one == Append(start, b)
             other == <<zero, b>>
  <2>4. other[1] = zero /\ other[2] = b
    OBVIOUS
  <2> HIDE DEF start, one, other
  <2>5. \A j \in 1 .. Len(one) : one[j] = other[j]
    BY <2>2, <2>3, <2>4 DEF one
  <2>6. one = other
    BY <2>1, <2>2, <2>3, <2>5, SeqEqual DEF one, other
  <2> QED
    BY <2>6 DEF one, other
<1>5. radix * zero + b = b /\ radix * zero + zero = zero
  OBVIOUS
<1> HIDE DEF none, zero, start
<1>6. NumberOf(<<b>>, radix) = b
  <2>1. NumberOf(Append(none, b), radix) = radix * NumberOf(none, radix) + b
    BY <1>1, NumberOfLonger
  <2> QED
    BY <1>2, <1>3, <1>5, <2>1
<1>7. NumberOf(start, radix) = zero
  <2>1. NumberOf(Append(none, zero), radix) = radix * NumberOf(none, radix) + zero
    BY <1>1, NumberOfLonger
  <2> QED
    BY <1>2, <1>3, <1>5, <2>1
<1>8. NumberOf(<<zero, b>>, radix) = b
  <2>1. NumberOf(Append(start, b), radix) = radix * NumberOf(start, radix) + b
    BY <1>1, NumberOfLonger
  <2> QED
    BY <1>4, <1>5, <1>7, <2>1
<1> QED
  BY <1>6, <1>8 DEF zero

(* A small number is printed as its one digit, with a zero before it if    *)
(* the element fills its byte, and read as that digit.                     *)
LEMMA OneByte ==
  ASSUME NEW e, Element(e), e.bits <= ByteBits
  PROVE  BytesFor(e.bits) = 1 /\ ByteAt(e.raw, e.bits, 1) = e.raw /\ e.raw \in Nat
         /\ e.raw < 2 ^ e.bits /\ e.raw < 2 ^ ByteBits
<1>1. ByteBits \in Nat \ {0} /\ e.bits \in Nat \ {0} /\ e.raw \in 0 .. 2 ^ e.bits - 1
  BY Widths DEF Element
<1>2. 2 ^ e.bits \in Nat \ {0} /\ 2 ^ ByteBits \in Nat \ {0} /\ 2 ^ e.bits <= 2 ^ ByteBits
  BY <1>1, PowerNat, PowerMonotonic
<1>3. e.raw \in Nat /\ e.raw < 2 ^ e.bits /\ e.raw < 2 ^ ByteBits
  BY <1>1, <1>2
<1>4. (e.bits + ByteBits - 1) \div ByteBits = 1
  <2> DEFINE r == e.bits - 1
             x == e.bits + ByteBits - 1
             one == 1
  <2>1. x = ByteBits * one + r /\ r \in Nat /\ r < ByteBits /\ one \in Int
    BY <1>1
  <2> HIDE DEF r, x, one
  <2>2. x \div ByteBits = one
    BY <1>1, <2>1, DivisionIsUnique
  <2> QED
    BY <2>2 DEF x, one
<1>5. BytesFor(e.bits) = 1
  BY <1>4 DEF BytesFor
<1>6. ByteAt(e.raw, e.bits, 1) = (e.raw \div 1) % 2 ^ ByteBits
  <2>1. ByteBits * (1 - 1) = 0
    BY <1>1
  <2>2. 2 ^ (ByteBits * (BytesFor(e.bits) - 1)) = 1
    BY <1>5, <2>1, PowerZero
  <2> QED
    BY <2>2 DEF ByteAt
<1>7. e.raw \div 1 = e.raw /\ e.raw % 2 ^ ByteBits = e.raw
  BY <1>2, <1>3, SmallRemainder
<1> QED
  BY <1>3, <1>5, <1>6, <1>7

LEMMA DigitIsRead ==
  ASSUME NEW e, Element(e), e.bits <= ByteBits, e.raw < DecimalRadix
  PROVE  Stoi(HexDigits(e)) = <<e.raw>>
<1>1. /\ BytesFor(e.bits) = 1 /\ ByteAt(e.raw, e.bits, 1) = e.raw /\ e.raw \in Nat
  BY OneByte
<1> DEFINE base == 2 ^ (ByteBits \div 2)
           digits == IF e.bits % ByteBits # 0 THEN <<e.raw>> ELSE <<0, e.raw>>
<1>2. DecimalRadix \in Nat \ {0} /\ base \in Nat \ {0} /\ e.raw < base
  <2>1. ByteBits \div 2 \in Nat
    BY ElementAssumption
  <2>2. base \in Nat \ {0}
    BY <2>1, PowerNat
  <2>3. DecimalRadix \in 2 .. base
    BY ElementAssumption DEF HexRadix
  <2> HIDE DEF base
  <2> QED
    BY <1>1, <2>2, <2>3
<1>3. HexDigits(e) = digits
  <2> DEFINE Printed(j) == LET b == ByteAt(e.raw, e.bits, j)
                           IN IF e.bits % ByteBits # 0 /\ j \in {1, 1} /\ b < base
                              THEN <<b>> ELSE <<b \div base, b % base>>
  <2>1. HexDigits(e) = FlattenSeq([j \in 1 .. 1 |-> Printed(j)])
    BY <1>1 DEF HexDigits
  <2>2. Printed(1) = digits
    <3>1. e.raw \div base = 0 /\ e.raw % base = e.raw
      BY <1>1, <1>2, SmallRemainder
    <3>2. Printed(1) = IF e.bits % ByteBits # 0 /\ e.raw < base
                       THEN <<e.raw>> ELSE <<e.raw \div base, e.raw % base>>
      BY <1>1
    <3> HIDE DEF base, Printed
    <3> QED
      BY <1>2, <3>1, <3>2
  <2> HIDE DEF Printed, digits
  <2>3. [j \in 1 .. 1 |-> Printed(j)] = <<digits>>
    BY <2>2
  <2> QED
    BY <2>1, <2>3, FlattenOne
<1>4. {n \in DOMAIN digits : digits[n] >= DecimalRadix} = {}
  BY <1>1, <1>2
<1>5. digits # <<>> /\ NumberOf(digits, DecimalRadix) = e.raw
  BY <1>1, <1>2, NumberOfDigit
<1> HIDE DEF digits
<1> QED
  BY <1>3, <1>4, <1>5 DEF Stoi

-----------------------------------------------------------------------------
(* An element that selects by a digit: it keeps its number on the way to   *)
(* the encoder, also through a text.                                       *)
DigitElement(e, d) ==
  /\ e.function \in Integers /\ e.bits <= ByteBits /\ e.raw < DecimalRadix
  /\ d.lsb = <<Denominator>> /\ d.mode.type = "Unsigned"

Shows(x, raw) == x.type \in IntegerTypes /\ x.value = <<raw>>

LEMMA OneLsb ==
  ASSUME NEW e, Element(e), e.bits <= ByteBits, LsbValues(e) = <<Denominator>>
  PROVE  ValueFits(e, LongBytes) /\ ToSet(LsbValues(e)) = {Denominator}
<1>1. ToSet(LsbValues(e)) = {Denominator}
  BY DEF ToSet
<1>2. Denominator \in Nat \ {0}
  BY ElementAssumption
<1>3. Max({Denominator}) = Denominator
  <2>1. Max({Denominator}) \in {Denominator}
    BY <1>2, FS_Singleton, MaxIsMax
  <2> QED
    BY <2>1
<1>4. /\ e.bits \in Nat /\ ByteBits * LongBytes \in Nat /\ e.bits <= ByteBits * LongBytes
  <2>1. e.bits \in Nat /\ ByteBits \in Nat /\ LongBytes \in Nat \ {0}
    BY ElementAssumption DEF Element
  <2>2. \A a \in Nat : \A b \in Nat \ {0} : a * b \in Nat /\ a <= a * b
    OBVIOUS
  <2>3. ByteBits * LongBytes \in Nat /\ ByteBits <= ByteBits * LongBytes
    BY <2>1, <2>2
  <2> QED
    BY <2>1, <2>3
<1> DEFINE p == 2 ^ e.bits
           q == 2 ^ (ByteBits * LongBytes)
<1>5. p \in Nat /\ q \in Nat /\ p <= q
  BY <1>4, PowerNat, PowerMonotonic
<1> HIDE DEF p, q
<1>6. p * Denominator <= Denominator * q
  BY <1>2, <1>5, Products
<1> QED
  BY <1>1, <1>3, <1>6 DEF ValueFits, p, q

LEMMA DecodedDigit ==
  ASSUME DecoderInv, NEW n \in DOMAIN decoded, DigitElement(record[n], described[n])
  PROVE  \E representation :
           /\ decoded[n] = setDecodedValue(described[n].mode, <<record[n].raw>>, representation)
           /\ record[n].function \in Decimals => representation = "IntegerValue"
           /\ described[n].mode.bits \in Nat /\ described[n].mode.bits >= ByteBits
<1> DEFINE e == record[n]
           d == described[n]
           lsb == decoderLsb[n]
<1>1. /\ Element(e) /\ d.lsb = LsbValues(e) /\ d.mode = RepresentationMode(e)
      /\ d = [lsb |-> LsbValues(e), mode |-> RepresentationMode(e), range |-> RangeValues(e.range)]
      /\ ReadElement(e, lsb, decoded[n], n, failures)
  BY DecodedElement DEF DescribedAs
<1>2. /\ e.function \in Integers /\ e.bits <= ByteBits /\ LsbValues(e) = <<Denominator>>
      /\ d.mode.type = "Unsigned"
  BY <1>1 DEF DigitElement
<1> HIDE DEF e, d, lsb
<1>3. ReadAsMeant(e) /\ Meaning(e) = e.raw
  <2>1. e.bits < IntBits
    BY <1>1, <1>2, Widths DEF Element
  <2> QED
    BY <1>2, <2>1 DEF ReadAsMeant, Meaning, Integers, TwosComplement
<1>4. ValueFits(e, LongBytes) /\ lsb = Denominator /\ Denominator \in ToSet(LsbValues(e))
  BY <1>1, <1>2, OneLsb DEF ReadElement
<1>5. e.raw \in Nat
  BY <1>1, <1>2, OneByte
<1>6. PICK representation, o :
        /\ ReadNumber(d, e.raw * Denominator, representation, o)
        /\ e.function \in Decimals => representation = "IntegerValue"
        /\ decoded[n] = o.value
  BY <1>1, <1>3, <1>4 DEF ReadElement
<1>7. e.raw * Denominator \in Int /\ Truncated(e.raw * Denominator) \in TypeRange(d.mode)
  <2>1. RepresentationMode(e).type \in IntegerTypes /\ Meaning(e) >= 0
    BY <1>1, <1>2, <1>3, <1>5 DEF IntegerTypes
  <2> QED
    BY <1>1, <1>3, <1>4, <2>1, TypeHolds
<1>8. Truncated(e.raw * Denominator) = e.raw
  <2> DEFINE none == 0
             x == e.raw * Denominator
  <2>1. Denominator \in Nat \ {0}
    BY ElementAssumption
  <2>2. x = Denominator * e.raw + none /\ none \in Nat /\ none < Denominator /\ x >= 0
    BY <1>5, <2>1
  <2> HIDE DEF none, x
  <2>3. x \div Denominator = e.raw
    <3> DEFINE q == e.raw
    <3>1. q \in Int /\ x = Denominator * q + none
      BY <1>5, <2>2
    <3> HIDE DEF q
    <3>2. (Denominator * q + none) \div Denominator = q
      BY <2>1, <2>2, <3>1, DivisionIsUnique
    <3> QED
      BY <3>1, <3>2 DEF q
  <2>4. Truncated(x) = e.raw
    BY <2>2, <2>3 DEF Truncated
  <2> QED
    BY <2>4 DEF x
<1>9. PICK bytes \in Nat \ {0} : d.mode = Type(e, bytes)
  <2>1. RepresentationMode(e).type \in IntegerTypes
    BY <1>1, <1>2 DEF IntegerTypes
  <2> QED
    BY <1>1, <1>4, <2>1, IntegerTypeFits, OtherRepresentations
<1>10. d.mode.bits \in Nat \ {0} /\ d.mode.bits >= ByteBits
  <2>1. d.mode.bits = ByteBits * bytes
    BY <1>9 DEF Type, Class
  <2>2. \A a, b \in Nat \ {0} : a * b \in Nat \ {0} /\ a * b >= a
    OBVIOUS
  <2> QED
    BY <2>1, <2>2, Widths
<1>11. decoded[n] = setDecodedValue(d.mode, <<e.raw>>, representation)
  BY <1>2, <1>6, <1>7, <1>8, <1>10, StoredInteger DEF IntegerTypes
<1> QED
  BY <1>6, <1>10, <1>11 DEF e, d

(* An integer of a type is left by a conversion to the type.               *)
LEMMA SignedInRange ==
  ASSUME NEW bits \in Nat \ {0}, NEW i \in Int, -(2 ^ (bits - 1)) <= i, i < 2 ^ (bits - 1)
  PROVE  Signed(i, bits) = i
<1> DEFINE h == 2 ^ (bits - 1)
           m == 2 ^ bits
<1>1. h \in Nat \ {0} /\ m = 2 * h /\ m \in Nat \ {0} /\ -h <= i /\ i < h
  BY Halves
<1>2. Signed(i, bits) = IF (i % m) >= h THEN (i % m) - m ELSE i % m
  BY DEF Signed
<1> HIDE DEF h, m
<1>3. CASE i >= 0
  <2>1. i \in Nat /\ i < m
    BY <1>1, <1>3
  <2>2. i % m = i
    BY <1>1, <2>1, SmallRemainder
  <2> QED
    BY <1>1, <1>2, <2>2
<1>4. CASE i < 0
  <2> DEFINE minus == -1
             r == i + m
  <2>1. minus \in Int /\ r \in Nat /\ r < m /\ i = m * minus + r /\ r >= h /\ r - m = i
    BY <1>1, <1>4
  <2> HIDE DEF minus, r
  <2>2. i % m = r
    BY <1>1, <2>1, DivisionIsUnique
  <2> QED
    BY <1>2, <2>1, <2>2
<1> QED
  BY <1>3, <1>4

LEMMA CastInRange ==
  ASSUME NEW class, class.type \in IntegerTypes, class.bits \in Nat \ {0},
         NEW i \in TypeRange(class)
  PROVE  i \in Int /\ CastTo(class, i) = i
<1>1. CASE class.type = "Signed"
  <2> DEFINE h == 2 ^ (class.bits - 1)
  <2>1. h \in Nat
    BY Halves
  <2>2. i \in -h .. h - 1
    BY <1>1 DEF TypeRange
  <2>3. i \in Int /\ -h <= i /\ i < h
    <3> HIDE DEF h
    <3> QED
      BY <2>1, <2>2
  <2>4. Signed(i, class.bits) = i
    BY <2>3, SignedInRange
  <2> QED
    BY <1>1, <2>3, <2>4 DEF CastTo
<1>2. CASE class.type # "Signed"
  <2> DEFINE m == 2 ^ class.bits
  <2>1. m \in Nat \ {0}
    BY PowerNat
  <2>2. i \in 0 .. m - 1
    BY <1>2 DEF TypeRange
  <2>3. i \in Nat /\ i < m
    <3> HIDE DEF m
    <3> QED
      BY <2>1, <2>2
  <2>4. i % m = i
    <3> HIDE DEF m
    <3> QED
      BY <2>1, <2>3, SmallRemainder
  <2> QED
    BY <1>2, <2>3, <2>4 DEF CastTo
<1> QED
  BY <1>1, <1>2

(* The text of an integer that fits an int, read by the constructor of a   *)
(* record, gives the integer back.                                         *)
LEMMA TextOfInteger ==
  ASSUME NEW class, class.type \in IntegerTypes, class.bits \in Nat \ {0},
         NEW i \in TypeRange(class), Signed(i, IntBits) = i
  PROVE  ValueOfText(class, getDecodedDataInString(setDecodedValue(class, <<i>>, "IntegerValue")))
           = <<setDecodedValue(class, <<i>>, "IntegerValue")>>
<1> DEFINE x == setDecodedValue(class, <<i>>, "IntegerValue")
           text == getDecodedDataInString(x)
           size == IF i < 0 THEN -i ELSE i
           digits == DigitsOf(size, DecimalRadix)
<1>1. DecimalRadix \in Nat /\ DecimalRadix > 1
  BY ElementAssumption
<1>2. i \in Int /\ CastTo(class, i) = i /\ size \in Nat
  BY CastInRange
<1>3. text = [negative |-> i < 0, prefixed |-> DecimalRadix = HexRadix, digits |-> digits]
  <2>1. x.type \in IntegerTypes /\ x.value[1] = i /\ x.representation = "IntegerValue"
    BY DEF setDecodedValue
  <2>2. text = Numeral(i, DecimalRadix)
    <3> HIDE DEF x
    <3> QED
      BY <2>1 DEF getDecodedDataInString
  <2> QED
    BY <2>2 DEF Numeral
<1> HIDE DEF text, size
<1>4. /\ digits \in Seq(0 .. DecimalRadix - 1) /\ digits # <<>>
      /\ NumberOf(digits, DecimalRadix) = size
  BY <1>1, <1>2, DigitsReadBack
<1> HIDE DEF digits
<1>5. {j \in DOMAIN digits : digits[j] >= DecimalRadix} = {}
  <2>1. \A j \in DOMAIN digits : digits[j] \in 0 .. DecimalRadix - 1
    BY <1>4, LenProperties, ElementOfSeq
  <2>2. \A y \in 0 .. DecimalRadix - 1 : ~ (y >= DecimalRadix)
    BY <1>1
  <2> QED
    BY <2>1, <2>2
<1>6. /\ (text.negative <=> i < 0) /\ text.digits = digits
      /\ (text.prefixed <=> DecimalRadix = HexRadix)
  BY <1>3
<1>7. ReadIn(text, DecimalRadix) = <<i>>
  <2>1. ~ (text.prefixed /\ DecimalRadix # HexRadix)
    BY <1>6
  <2>2. {j \in DOMAIN text.digits : text.digits[j] >= DecimalRadix} = {}
    BY <1>5, <1>6
  <2>3. ReadIn(text, DecimalRadix) = <<IF text.negative THEN -size ELSE size>>
    BY <1>4, <1>6, <2>1, <2>2 DEF ReadIn
  <2>4. (IF i < 0 THEN -size ELSE size) = i
    BY <1>2 DEF size
  <2>5. (IF text.negative THEN -size ELSE size) = (IF i < 0 THEN -size ELSE size)
    BY <1>6
  <2> QED
    BY <2>3, <2>4, <2>5
<1>8. atoi(text) = i /\ stoi(text, DecimalRadix) = <<i>>
  BY <1>7 DEF atoi, stoi
<1>9. ValueOfText(class, text) = <<x>>
  BY <1>2, <1>8 DEF ValueOfText
<1> QED
  BY <1>9 DEF text

(* What the client may make of it keeps the number.                        *)
LEMMA RebuiltInteger ==
  ASSUME NEW n, record[n].function \in Decimals, described[n].mode.type \in IntegerTypes,
         described[n].mode.bits \in Nat \ {0},
         NEW i \in TypeRange(described[n].mode), Signed(i, IntBits) = i,
         decoded[n] = setDecodedValue(described[n].mode, <<i>>, "IntegerValue")
  PROVE  Rebuilt(n) = {<<decoded[n]>>}
<1> DEFINE class == described[n].mode
           text == getDecodedDataInString(decoded[n])
<1>1. TextsFor(record[n], text) = {text}
  BY DEF TextsFor, Decimals
<1>2. class # StringValue /\ class.type \in IntegerTypes
  BY DEF StringValue, Class, IntegerTypes
<1>3. {text} # {} /\ {ValueOfText(class, t) : t \in {text}} = {ValueOfText(class, text)}
  OBVIOUS
<1>4. Rebuilt(n) = {} \cup {ValueOfText(class, t) : t \in {text}}
  BY <1>1, <1>2, <1>3 DEF Rebuilt
<1>5. ValueOfText(class, text) = <<decoded[n]>>
  BY TextOfInteger
<1> QED
  BY <1>3, <1>4, <1>5

LEMMA RebuiltDigit ==
  ASSUME DecoderInv, NEW n \in DOMAIN decoded, DigitElement(record[n], described[n]), ReadsBack(n),
         NEW value \in Rebuilt(n)
  PROVE  Shows(value[1], record[n].raw)
<1> DEFINE class == described[n].mode
           raw == record[n].raw
<1>1. /\ record[n].function \in Decimals /\ class.type = "Unsigned" /\ raw < DecimalRadix
      /\ record[n].bits <= ByteBits
  BY DEF DigitElement, ReadsBack, Integers, Decimals
<1>2. /\ decoded[n] = setDecodedValue(class, <<raw>>, "IntegerValue")
      /\ class.bits \in Nat /\ class.bits >= ByteBits
  BY <1>1, DecodedDigit
<1>3. raw \in Nat /\ raw < 2 ^ ByteBits
  BY <1>1, DecodedElement, OneByte
<1> HIDE DEF class, raw
<1>4. Signed(raw, IntBits) = raw
  BY <1>3, Widths, NarrowIsSigned
<1>5. raw \in TypeRange(class)
  <2>1. 2 ^ ByteBits \in Nat /\ 2 ^ class.bits \in Nat \ {0} /\ 2 ^ ByteBits <= 2 ^ class.bits
    BY <1>2, Widths, PowerNat, PowerMonotonic
  <2>2. raw \in 0 .. 2 ^ class.bits - 1
    BY <1>3, <2>1
  <2> QED
    BY <1>1, <2>2 DEF TypeRange
<1>6. value = <<decoded[n]>>
  <2>1. class.bits \in Nat \ {0} /\ class.type \in IntegerTypes
    BY <1>1, <1>2, Widths DEF IntegerTypes
  <2> QED
    BY <1>1, <1>2, <1>4, <1>5, <2>1, RebuiltInteger DEF class
<1> QED
  BY <1>1, <1>2, <1>6 DEF Shows, setDecodedValue, IntegerTypes, class, raw

-----------------------------------------------------------------------------
(* The LSB that the decoder looks up, and the elements for which the       *)
(* encoder is to find the same.                                            *)
LsbMeant(n) == described[n].lsb[Selected(n)[1] + 1]

Compared(n) == Len(described[n].lsb) = 1 \/ SelectedByDigit(n)

Coding == {"encode", "done"}

(* Between two elements: what decoding chose, the digits on their way to   *)
(* the encoder, the index one of them left for the next, the LSB encoded   *)
(* with so far.                                                            *)
EncoderInv ==
  /\ \A n \in DOMAIN decoded : decoderLsb[n] = LsbMeant(n)
  /\ pc \in Coding => Len(decoded) = Len(record)
  /\ (\E S : encoded \in [DOMAIN record -> S]) /\ (\E S : encoderLsb \in [DOMAIN record -> S])
  /\ pc \in {"load", "decode"} => \A n \in DOMAIN record : encoded[n] = <<>>
  /\ pc \in Coding => \A n \in DOMAIN record :
       encoded[n] # <<>> /\ Compared(n) => encoderLsb[n] = LsbMeant(n)
  /\ pc = "encode" =>
       /\ k \in Nat \ {0}
       /\ \A m \in DOMAIN record :
            DigitElement(record[m], described[m]) /\ (built => ReadsBack(m))
              => Shows(given[m], record[m].raw)
       /\ k \in DOMAIN record /\ SelectedByDigit(k) => lsbIndex = record[k - 1].raw

LEMMA SelectorIsDigit ==
  ASSUME NEW n, SelectedByDigit(n)
  PROVE  /\ n > 1 /\ record[n].item = record[n - 1].item
         /\ built => ReadsBack(n - 1)
         /\ DigitElement(record[n - 1], described[n - 1])
BY DEF SelectedByDigit, DigitElement

(* The decoder reads the digit in the bytes of the element before.         *)
LEMMA DigitIsMeant ==
  ASSUME record \in Records, DescribedInv, pc \notin Before, NEW n \in DOMAIN record, Compared(n)
  PROVE  LsbMeant(n) = described[n].lsb[(IF Len(described[n].lsb) = 1 THEN 0 ELSE record[n - 1].raw) + 1]
<1>1. DescribedAs(n) /\ Element(record[n])
  BY RecordOfElements DEF DescribedInv
<1>2. described[n].lsb = LsbValues(record[n]) /\ LsbValues(record[n]) # <<>>
      /\ LsbValues(record[n]) \in Seq(Nat)
  BY <1>1 DEF DescribedAs, Element
<1>3. CASE Len(described[n].lsb) = 1
  <2>1. Selected(n) = <<0>>
    BY <1>3 DEF Selected
  <2> QED
    BY <1>3, <2>1 DEF LsbMeant
<1>4. CASE Len(described[n].lsb) # 1
  <2>1. SelectedByDigit(n)
    BY <1>4 DEF Compared
  <2>2. n > 1 /\ n - 1 \in DOMAIN record /\ DigitElement(record[n - 1], described[n - 1])
    BY <2>1, SelectorIsDigit, RecordOfElements
  <2>3. Stoi(HexDigits(record[n - 1])) = <<record[n - 1].raw>>
    BY <2>2, RecordOfElements, DigitIsRead DEF DigitElement
  <2>4. Len(described[n].lsb) > 1
    <3>1. ASSUME NEW s \in Seq(Nat), s # <<>>, Len(s) # 1
          PROVE  Len(s) > 1
      <4> DEFINE l == Len(s)
      <4>1. l \in Nat /\ l # 0 /\ l # 1
        BY <3>1, LenProperties, EmptySeq
      <4> HIDE DEF l
      <4>2. l > 1
        BY <4>1
      <4> QED
        BY <4>2 DEF l
    <3> QED
      BY <1>2, <1>4, <3>1
  <2>5. n # 1
    BY <2>2, RecordOfElements
  <2>6. Selected(n) = <<record[n - 1].raw>>
    BY <2>3, <2>4, <2>5 DEF Selected
  <2> QED
    BY <1>4, <2>6 DEF LsbMeant
<1> QED
  BY <1>3, <1>4

(* Elements of one item follow each other up to the next item.             *)
LEMMA NextItemIs ==
  ASSUME record \in Records, NEW n \in DOMAIN record
  PROVE  /\ NextItem(n) \in n + 1 .. Len(record) + 1
         /\ NextItem(n) > Len(record) \/ record[NextItem(n)].item # record[n].item
         /\ \A j \in n + 1 .. NextItem(n) - 1 : record[j].item = record[n].item
<1> DEFINE S == {m \in n + 1 .. Len(record) + 1 : m > Len(record) \/ record[m].item # record[n].item}
<1>1. Len(record) \in Nat /\ n \in 1 .. Len(record)
  BY RecordOfElements
<1>2. S \subseteq Nat /\ Len(record) + 1 \in S
  BY <1>1
<1>3. \E m \in S : \A y \in S : m <= y
  <2> HIDE DEF S
  <2> QED
    BY <1>2, LeastElement
<1>4. NextItem(n) = Min(S)
  BY DEF NextItem
<1> HIDE DEF S
<1>5. Min(S) \in S /\ \A y \in S : Min(S) <= y
  BY <1>3 DEF Min
<1> DEFINE m == Min(S)
<1> HIDE DEF m
<1>6. m \in S /\ \A y \in S : m <= y
  BY <1>5 DEF m
<1>7. m \in n + 1 .. Len(record) + 1 /\ (m > Len(record) \/ record[m].item # record[n].item)
  BY <1>6 DEF S
<1>8. ASSUME NEW j \in n + 1 .. m - 1
      PROVE  record[j].item = record[n].item
  <2>1. j \in n + 1 .. Len(record) + 1 /\ ~ (m <= j)
    BY <1>1, <1>7
  <2> QED
    BY <1>6, <2>1 DEF S
<1> QED
  BY <1>4, <1>7, <1>8 DEF m

-----------------------------------------------------------------------------
LEMMA EncoderInitially == Init => EncoderInv
<1> SUFFICES ASSUME Init PROVE EncoderInv
  OBVIOUS
<1>1. /\ pc = "load" /\ decoded = <<>>
      /\ encoderLsb = [n \in DOMAIN record |-> 0] /\ encoded = [n \in DOMAIN record |-> <<>>]
  BY DEF Init
<1>2. encoderLsb \in [DOMAIN record -> {0}] /\ encoded \in [DOMAIN record -> {<<>>}]
  BY <1>1
<1>3. (\E S : encoded \in [DOMAIN record -> S]) /\ (\E S : encoderLsb \in [DOMAIN record -> S])
  BY <1>2
<1>4. \A n \in DOMAIN record : encoded[n] = <<>>
  BY <1>1
<1>5. \A n \in DOMAIN decoded : decoderLsb[n] = LsbMeant(n)
  BY <1>1
<1>6. pc \notin Coding /\ pc # "encode"
  BY <1>1 DEF Coding
<1> QED
  BY <1>3, <1>4, <1>5, <1>6 DEF EncoderInv

(* Loading and decoding leave the encoder where it was.                    *)
LEMMA LoadKeepsEncoder ==
  ASSUME DecoderInv, EncoderInv, Load
  PROVE  EncoderInv'
<1>1. /\ pc = "load" /\ pc' \in {"loadError", "decode"} /\ UNCHANGED <<record, decoded, decoderLsb, encoded, encoderLsb>>
  BY DEF Load, decoderVars, encoderVars
<1>2. decoded = <<>>
  BY <1>1 DEF DecoderInv, Before
<1>3. (\E S : encoded' \in [DOMAIN record' -> S]) /\ (\E S : encoderLsb' \in [DOMAIN record' -> S])
  BY <1>1 DEF EncoderInv
<1>4. \A n \in DOMAIN record' : encoded'[n] = <<>>
  BY <1>1 DEF EncoderInv
<1>5. \A n \in DOMAIN decoded' : decoderLsb'[n] = LsbMeant(n)'
  BY <1>1, <1>2
<1>6. pc' \notin Coding /\ pc' # "encode"
  BY <1>1 DEF Coding
<1> QED
  BY <1>3, <1>4, <1>5, <1>6 DEF EncoderInv

LEMMA DecodeChoosesLsb ==
  ASSUME DecoderInv, EncoderInv, Decode
  PROVE  EncoderInv'
<1>1. /\ pc = "decode" /\ UNCHANGED <<record, described, pc, encoded, encoderLsb>>
      /\ decoderLsb' = [decoderLsb EXCEPT ![k] = LsbMeant(k)]
  BY DEF Decode, encoderVars, LsbMeant
<1>2. PICK T : decoderLsb \in [DOMAIN record -> T]
  BY DEF DecoderInv
<1>3. ASSUME NEW n \in DOMAIN decoded'
      PROVE  decoderLsb'[n] = LsbMeant(n)
  <2>1. CASE n = k
    BY <1>1, <1>2, <2>1, DecodeOne
  <2>2. CASE n # k
    <3>1. n \in DOMAIN decoded /\ decoderLsb'[n] = decoderLsb[n]
      BY <2>2, DecodeOne
    <3> QED
      BY <3>1 DEF EncoderInv
  <2> QED
    BY <2>1, <2>2
<1>4. \A n \in DOMAIN decoded' : decoderLsb'[n] = LsbMeant(n)'
  BY <1>1, <1>3 DEF LsbMeant, Selected
<1> QED
  BY <1>1, <1>4 DEF EncoderInv, Coding

(* The record is handed over with every digit it had.                      *)
LEMMA DecodedCompletely ==
  ASSUME DecoderInv, pc = "decode", k > Len(record)
  PROVE  Len(decoded) = Len(record) /\ DOMAIN decoded = DOMAIN record
<1>1. PICK S : decoded \in Seq(S)
  BY DEF DecoderInv
<1>2. /\ Len(decoded) \in Nat /\ DOMAIN decoded = 1 .. Len(decoded)
      /\ Len(decoded) <= Len(record) /\ k = Len(decoded) + 1 /\ record \in Records
  BY <1>1, LenProperties DEF DecoderInv
<1>3. Len(record) \in Nat /\ DOMAIN record = 1 .. Len(record)
  BY <1>2, RecordOfElements
<1>4. Len(decoded) = Len(record)
  <2> DEFINE d == Len(decoded)
             r == Len(record)
  <2>1. d \in Nat /\ r \in Nat /\ d <= r /\ k = d + 1 /\ k > r
    BY <1>2, <1>3
  <2> HIDE DEF d, r
  <2>2. d = r
    BY <2>1
  <2> QED
    BY <2>2 DEF d, r
<1> QED
  BY <1>2, <1>3, <1>4

LEMMA RecordIsHandedOver ==
  ASSUME DecoderInv, EncoderInv, HandOver \/ BuildRecord
  PROVE  EncoderInv'
<1>1. /\ pc = "decode" /\ k > Len(record)
      /\ UNCHANGED <<record, described, decoded, decoderLsb, encoded, encoderLsb>>
      /\ pc' \in {"encode", "recordThrew"}
      /\ pc' = "encode" => k' = 1
  BY DEF HandOver, BuildRecord, decoderVars, encoderVars
<1>2. Len(decoded) = Len(record) /\ DOMAIN decoded = DOMAIN record
  BY <1>1, DecodedCompletely
<1>3. ASSUME pc' = "encode", NEW m \in DOMAIN record, DigitElement(record[m], described[m]),
             built' => ReadsBack(m)
      PROVE  Shows(given'[m], record[m].raw)
  <2>1. CASE HandOver
    <3>1. given' = decoded
      BY <2>1 DEF HandOver
    <3>2. PICK representation :
            decoded[m] = setDecodedValue(described[m].mode, <<record[m].raw>>, representation)
      BY <1>2, <1>3, DecodedDigit
    <3> QED
      BY <1>3, <3>1, <3>2 DEF DigitElement, setDecodedValue, Shows, IntegerTypes
  <2>2. CASE BuildRecord
    <3>1. built' = TRUE
      BY <2>2 DEF BuildRecord
    <3>2. PICK values : /\ \A n \in DOMAIN record : values[n] \in Rebuilt(n)
                        /\ given' = [n \in DOMAIN record |-> values[n][1]]
      BY <1>3, <2>2 DEF BuildRecord
    <3>3. Shows(values[m][1], record[m].raw)
      BY <1>2, <1>3, <3>1, <3>2, RebuiltDigit
    <3> QED
      BY <3>2, <3>3
  <2> QED
    BY <2>1, <2>2
<1>4. \A m \in DOMAIN record : LsbMeant(m)' = LsbMeant(m) /\ (ReadsBack(m)' <=> ReadsBack(m))
  BY <1>1 DEF LsbMeant, Selected, ReadsBack
<1>5. \A n \in DOMAIN decoded' : decoderLsb'[n] = LsbMeant(n)'
  BY <1>1, <1>2, <1>4 DEF EncoderInv
<1>6. pc' = "encode" => ~ SelectedByDigit(k)'
  BY <1>1 DEF SelectedByDigit
<1>7. \A n \in DOMAIN record : encoded'[n] = <<>>
  BY <1>1 DEF EncoderInv
<1>8. (\E S : encoded' \in [DOMAIN record' -> S]) /\ (\E S : encoderLsb' \in [DOMAIN record' -> S])
  BY <1>1 DEF EncoderInv
<1>9. pc' = "encode" =>
        /\ k' \in Nat \ {0}
        /\ \A m \in DOMAIN record' :
             DigitElement(record'[m], described'[m]) /\ (built' => ReadsBack(m)')
               => Shows(given'[m], record'[m].raw)
  BY <1>1, <1>3, <1>4
<1> QED
  BY <1>1, <1>2, <1>5, <1>6, <1>7, <1>8, <1>9 DEF EncoderInv, Coding

(* An element is encoded with the LSB it was decoded with, and leaves its  *)
(* digit for the next of its item.                                         *)
LEMMA EncodeStep ==
  ASSUME DecoderInv, EncoderInv, Encode
  PROVE  EncoderInv'
<1> DEFINE lsb == described[k].lsb[IndexUsed(k) + 1]
<1>1. /\ pc = "encode" /\ k <= Len(record) /\ k' = k + 1 /\ lsbIndex' \in LsbIndexAfter(k)
      /\ UNCHANGED <<record, described, pc, decoded, decoderLsb, given, built>>
      /\ encoderLsb' = [encoderLsb EXCEPT ![k] = lsb]
      /\ \E bits : encoded' = [encoded EXCEPT ![k] = bits]
  BY DEF Encode, decoderVars, clientVars
<1>2. PICK bits : encoded' = [encoded EXCEPT ![k] = bits]
  BY <1>1
<1>3. PICK S : encoded \in [DOMAIN record -> S]
  BY DEF EncoderInv
<1>4. PICK T : encoderLsb \in [DOMAIN record -> T]
  BY DEF EncoderInv
<1>5. record \in Records /\ DescribedInv /\ pc \notin Before /\ k \in Nat \ {0}
  BY <1>1 DEF DecoderInv, EncoderInv, Before
<1>6. k \in DOMAIN record /\ DOMAIN record = 1 .. Len(record) /\ Len(record) \in Nat
  BY <1>1, <1>5, RecordOfElements
<1>7. \A n \in DOMAIN record : LsbMeant(n)' = LsbMeant(n) /\ (Compared(n)' <=> Compared(n))
                               /\ (SelectedByDigit(n)' <=> SelectedByDigit(n))
  BY <1>1 DEF LsbMeant, Selected, Compared, SelectedByDigit, ReadsBack
<1>8. Compared(k) => lsb = LsbMeant(k)
  <2> SUFFICES ASSUME Compared(k) PROVE lsb = LsbMeant(k)
    OBVIOUS
  <2>1. LsbMeant(k) = described[k].lsb[(IF Len(described[k].lsb) = 1 THEN 0 ELSE record[k - 1].raw) + 1]
    BY <1>5, <1>6, DigitIsMeant
  <2>2. Len(described[k].lsb) # 1 => lsbIndex = record[k - 1].raw
    BY <1>1, <1>6 DEF Compared, EncoderInv
  <2>3. Len(described[k].lsb) # 1 => ~ ResetByFiller(k)
    BY DEF Compared, SelectedByDigit, ResetByFiller
  <2>4. IndexUsed(k) = IF Len(described[k].lsb) = 1 THEN 0 ELSE record[k - 1].raw
    BY <2>2, <2>3 DEF IndexUsed
  <2> QED
    BY <2>1, <2>4
<1> HIDE DEF lsb
<1>9. ASSUME NEW n \in DOMAIN record, encoded'[n] # <<>>, Compared(n)
      PROVE  encoderLsb'[n] = LsbMeant(n)
  <2>1. CASE n = k
    <3>1. encoderLsb'[k] = lsb
      BY <1>1, <1>4, <1>6
    <3> QED
      BY <1>8, <1>9, <2>1, <3>1
  <2>2. CASE n # k
    <3>1. encoderLsb'[n] = encoderLsb[n] /\ encoded'[n] = encoded[n]
      BY <1>1, <1>2, <1>3, <1>4, <2>2
    <3> QED
      BY <1>1, <1>9, <3>1 DEF EncoderInv, Coding
  <2> QED
    BY <2>1, <2>2
<1>10. ASSUME k + 1 \in DOMAIN record, SelectedByDigit(k + 1)
       PROVE  lsbIndex' = record[k].raw
  <2>1. (k + 1) - 1 = k
    BY <1>5
  <2>2. /\ record[k + 1].item = record[k].item /\ (built => ReadsBack(k))
        /\ DigitElement(record[k], described[k])
    BY <1>10, <2>1, SelectorIsDigit
  <2>3. Shows(given[k], record[k].raw)
    BY <1>1, <1>6, <2>2 DEF EncoderInv
  <2>4. NextItem(k) # k + 1
    <3>1. NextItem(k) > Len(record) \/ record[NextItem(k)].item # record[k].item
      BY <1>5, <1>6, NextItemIs
    <3>2. k + 1 <= Len(record)
      BY <1>6, <1>10
    <3>3. ~ (k + 1 > Len(record))
      BY <1>5, <1>6, <3>2
    <3> QED
      BY <2>2, <3>1, <3>3
  <2>5. lsbIndex' \in FirstByte(given[k])
    BY <1>1, <2>2, <2>4 DEF LsbIndexAfter, DigitElement
  <2>6. lsbIndex' = record[k].raw % 2 ^ ByteBits
    BY <2>3, <2>5 DEF FirstByte, Shows
  <2>7. record[k].raw \in Nat /\ record[k].raw < 2 ^ ByteBits /\ 2 ^ ByteBits \in Nat \ {0}
    BY <1>5, <1>6, <2>2, RecordOfElements, OneByte, PowerNat, Widths DEF DigitElement
  <2> QED
    BY <2>6, <2>7, SmallRemainder
<1>11. (\E U : encoded' \in [DOMAIN record' -> U]) /\ (\E U : encoderLsb' \in [DOMAIN record' -> U])
  <2>1. encoded' \in [DOMAIN record -> S \cup {bits}] /\ encoderLsb' \in [DOMAIN record -> T \cup {lsb}]
    BY <1>1, <1>2, <1>3, <1>4
  <2> QED
    BY <1>1, <2>1
<1>12. /\ \A n \in DOMAIN decoded' : decoderLsb'[n] = LsbMeant(n)'
       /\ Len(decoded') = Len(record')
  <2>1. Len(decoded) = Len(record) /\ \A n \in DOMAIN decoded : decoderLsb[n] = LsbMeant(n)
    BY <1>1 DEF EncoderInv, Coding
  <2>2. \A n \in DOMAIN decoded : LsbMeant(n)' = LsbMeant(n)
    BY <1>1 DEF LsbMeant, Selected
  <2> QED
    BY <1>1, <2>1, <2>2
<1>13. \A n \in DOMAIN record' : encoded'[n] # <<>> /\ Compared(n)' => encoderLsb'[n] = LsbMeant(n)'
  BY <1>1, <1>7, <1>9
<1>14. /\ k' \in Nat \ {0}
       /\ k' \in DOMAIN record' /\ SelectedByDigit(k)' => lsbIndex' = record'[k' - 1].raw
  <2>1. k + 1 \in Nat \ {0} /\ (k + 1) - 1 = k
    BY <1>5
  <2>2. SelectedByDigit(k)' <=> SelectedByDigit(k + 1)
    BY <1>1 DEF SelectedByDigit, ReadsBack
  <2> QED
    BY <1>1, <1>10, <2>1, <2>2
<1>15. \A m \in DOMAIN record' :
         DigitElement(record'[m], described'[m]) /\ (built' => ReadsBack(m)')
           => Shows(given'[m], record'[m].raw)
  <2>1. \A m \in DOMAIN record : ReadsBack(m)' <=> ReadsBack(m)
    BY <1>1 DEF ReadsBack
  <2> QED
    BY <1>1, <2>1 DEF EncoderInv
<1> QED
  BY <1>1, <1>11, <1>12, <1>13, <1>14, <1>15 DEF EncoderInv, Coding

(* Giving up an item never ends between two of its elements.               *)
LEMMA GiveUpStep ==
  ASSUME DecoderInv, EncoderInv, GiveUpItem
  PROVE  EncoderInv'
<1>1. /\ pc = "encode" /\ k <= Len(record) /\ k' = NextItem(k) /\ encoded' = WithoutItem(k)
      /\ UNCHANGED <<record, described, pc, decoded, decoderLsb, given, built, encoderLsb>>
  BY DEF GiveUpItem, decoderVars, clientVars
<1>2. record \in Records /\ k \in Nat \ {0}
  BY <1>1 DEF DecoderInv, EncoderInv
<1>3. k \in DOMAIN record /\ DOMAIN record = 1 .. Len(record) /\ Len(record) \in Nat
  BY <1>1, <1>2, RecordOfElements
<1>4. PICK S : encoded \in [DOMAIN record -> S]
  BY DEF EncoderInv
<1>5. /\ encoded' \in [DOMAIN record -> S \cup {<<>>}]
      /\ \A n \in DOMAIN record : encoded'[n] # <<>> => encoded[n] # <<>>
  BY <1>1, <1>4 DEF WithoutItem
<1>6. \A n \in DOMAIN record : LsbMeant(n)' = LsbMeant(n) /\ (Compared(n)' <=> Compared(n))
                               /\ (ReadsBack(n)' <=> ReadsBack(n))
  BY <1>1 DEF LsbMeant, Selected, Compared, SelectedByDigit, ReadsBack
<1>7. ASSUME NextItem(k) \in DOMAIN record
      PROVE  ~ SelectedByDigit(NextItem(k))
  <2> DEFINE n == NextItem(k)
  <2>1. /\ n \in k + 1 .. Len(record) + 1
        /\ n > Len(record) \/ record[n].item # record[k].item
        /\ \A j \in k + 1 .. n - 1 : record[j].item = record[k].item
    BY <1>2, <1>3, NextItemIs
  <2> HIDE DEF n
  <2>2. n \in Nat /\ n <= Len(record)
    BY <1>3, <1>7 DEF n
  <2>3. record[n].item # record[k].item
    BY <1>3, <2>1, <2>2
  <2>4. record[n - 1].item = record[k].item
    <3>1. n - 1 = k \/ n - 1 \in k + 1 .. n - 1
      BY <1>2, <1>3, <2>1
    <3> QED
      BY <2>1, <3>1
  <2> QED
    BY <2>3, <2>4 DEF SelectedByDigit, n
<1>8. ~ (k' \in DOMAIN record' /\ SelectedByDigit(k)')
  <2>1. SelectedByDigit(k)' <=> SelectedByDigit(NextItem(k))
    BY <1>1 DEF SelectedByDigit, ReadsBack
  <2> QED
    BY <1>1, <1>7, <2>1
<1>9. k' \in Nat \ {0}
  BY <1>1, <1>2, <1>3, NextItemIs
<1>10. /\ \A n \in DOMAIN decoded' : decoderLsb'[n] = LsbMeant(n)'
       /\ Len(decoded') = Len(record')
  <2>1. Len(decoded) = Len(record) /\ \A n \in DOMAIN decoded : decoderLsb[n] = LsbMeant(n)
    BY <1>1 DEF EncoderInv, Coding
  <2>2. \A n \in DOMAIN decoded : LsbMeant(n)' = LsbMeant(n)
    BY <1>1 DEF LsbMeant, Selected
  <2> QED
    BY <1>1, <2>1, <2>2
<1>11. \A n \in DOMAIN record' : encoded'[n] # <<>> /\ Compared(n)' => encoderLsb'[n] = LsbMeant(n)'
  BY <1>1, <1>5, <1>6 DEF EncoderInv, Coding
<1>12. \A m \in DOMAIN record' :
         DigitElement(record'[m], described'[m]) /\ (built' => ReadsBack(m)')
           => Shows(given'[m], record'[m].raw)
  BY <1>1, <1>6 DEF EncoderInv
<1>13. (\E U : encoded' \in [DOMAIN record' -> U]) /\ (\E U : encoderLsb' \in [DOMAIN record' -> U])
  BY <1>1, <1>5 DEF EncoderInv
<1> QED
  BY <1>1, <1>8, <1>9, <1>10, <1>11, <1>12, <1>13 DEF EncoderInv, Coding

LEMMA OthersKeepEncoder ==
  ASSUME DecoderInv, EncoderInv,
         DecoderThrows \/ EncoderThrows \/ EndEncoding \/ UNCHANGED vars
  PROVE  EncoderInv'
<1>1. /\ UNCHANGED <<record, described, k, decoded, decoderLsb, given, built, lsbIndex, encoded, encoderLsb>>
      /\ \/ pc' \in {"decoderThrew", "encoderThrew"}
         \/ pc = "encode" /\ pc' = "done"
         \/ pc' = pc
  BY DEF DecoderThrows, EncoderThrows, EndEncoding, vars, decoderVars, encoderVars, clientVars
<1>2. \A n : /\ LsbMeant(n)' = LsbMeant(n) /\ (Compared(n)' <=> Compared(n))
             /\ (ReadsBack(n)' <=> ReadsBack(n)) /\ (SelectedByDigit(n)' <=> SelectedByDigit(n))
  BY <1>1 DEF LsbMeant, Selected, Compared, SelectedByDigit, ReadsBack
<1>3. SelectedByDigit(k)' <=> SelectedByDigit(k)
  BY <1>1 DEF SelectedByDigit, ReadsBack
<1>4. \A n \in DOMAIN decoded' : decoderLsb'[n] = LsbMeant(n)'
  BY <1>1, <1>2 DEF EncoderInv
<1>5. (\E U : encoded' \in [DOMAIN record' -> U]) /\ (\E U : encoderLsb' \in [DOMAIN record' -> U])
  BY <1>1 DEF EncoderInv
<1>6. /\ pc' \in Coding => Len(decoded') = Len(record')
      /\ pc' \in {"load", "decode"} => \A n \in DOMAIN record' : encoded'[n] = <<>>
  BY <1>1 DEF EncoderInv, Coding
<1>7. pc' \in Coding => \A n \in DOMAIN record' :
        encoded'[n] # <<>> /\ Compared(n)' => encoderLsb'[n] = LsbMeant(n)'
  <2>1. pc' \in Coding => pc \in Coding
    BY <1>1 DEF Coding
  <2> QED
    BY <1>1, <1>2, <2>1 DEF EncoderInv
<1>8. pc' = "encode" =>
       /\ k' \in Nat \ {0}
       /\ \A m \in DOMAIN record' :
            DigitElement(record'[m], described'[m]) /\ (built' => ReadsBack(m)')
              => Shows(given'[m], record'[m].raw)
       /\ k' \in DOMAIN record' /\ SelectedByDigit(k)' => lsbIndex' = record'[k' - 1].raw
  <2>1. pc' = "encode" => pc = "encode"
    BY <1>1
  <2> QED
    BY <1>1, <1>2, <1>3, <2>1 DEF EncoderInv
<1> QED
  BY <1>4, <1>5, <1>6, <1>7, <1>8 DEF EncoderInv

LEMMA EncoderInvariant == Spec => [](DecoderInv /\ EncoderInv)
<1>1. ASSUME DecoderInv, EncoderInv, [Next]_vars
      PROVE  EncoderInv'
  BY <1>1, LoadKeepsEncoder, DecodeChoosesLsb, RecordIsHandedOver, EncodeStep, GiveUpStep,
     OthersKeepEncoder DEF Next
<1> QED
  BY <1>1, EncoderInitially, DecoderInvariant, PTL DEF Spec

(* Decoder and encoder, which look in different places, use the same LSB   *)
(* for every element that has one of its own or is selected by a digit of  *)
(* its item, whatever was encoded, given up or rebuilt from a text before  *)
(* it (DecoderParser.cpp, ItemEncodingUtils::encodeFixedLengthItem).       *)
THEOREM LsbsAreTheSame == Spec => []SameLsb
<1>1. ASSUME DecoderInv, EncoderInv
      PROVE  SameLsb
  <2> SUFFICES ASSUME NEW n \in DOMAIN record, pc = "done", encoded[n] # <<>>, Compared(n)
               PROVE  encoderLsb[n] = decoderLsb[n]
    BY DEF SameLsb, Compared
  <2>1. PICK S : decoded \in Seq(S)
    BY <1>1 DEF DecoderInv
  <2>2. Len(decoded) = Len(record) /\ record \in Records
    BY <1>1 DEF DecoderInv, EncoderInv, Coding
  <2>3. n \in DOMAIN decoded
    BY <2>1, <2>2, LenProperties, RecordOfElements
  <2> QED
    BY <1>1, <2>3 DEF EncoderInv, Coding
<1> QED
  BY <1>1, EncoderInvariant, PTL

-----------------------------------------------------------------------------
(* What is encoded comes from what was decoded, by the functions that the  *)
(* description names and with no verdict but theirs.                       *)
Strings == {"toASCII", "toTargetId", "toMBData"}
Known == Integers \cup TwosComplement \cup Strings

OutDecoded == "OUT_OF_RANGE_DECODED_ELEMENT"
OutEncoded == "OUT_OF_RANGE_ENCODED_ELEMENT"

Reported(n, code) == <<n, code>> \in failures

DecodedFrom(n) ==
  record[n].function \in Known =>
    \E o \in Decodings(record[n], described[n], decoderLsb[n]) :
      decoded[n] = o.value /\ (Reported(n, OutDecoded) <=> OutDecoded \in o.codes)

GivenFrom(n) ==
  IF built THEN \E v \in Rebuilt(n) : v # <<>> /\ given[n] = v[1] ELSE given[n] = decoded[n]

EncodedFrom(n) ==
  \E b \in Encodings(record[n], described[n], encoderLsb[n], given[n]) :
    encoded[n] = b.raw /\ (Reported(n, OutEncoded) <=> OutEncoded \in b.codes)

ConversionInv ==
  /\ pc \in {"load", "decode"} => ~ built
  /\ \A n \in DOMAIN decoded : DecodedFrom(n)
  /\ \A n \in DOMAIN record \ DOMAIN decoded : ~ Reported(n, OutDecoded)
  /\ pc \in {"load", "decode"} => \A n \in DOMAIN record : ~ Reported(n, OutEncoded)
  /\ pc \in Coding => \A n \in DOMAIN record : GivenFrom(n)
  /\ pc = "encode" => \A n \in DOMAIN record : n >= k => encoded[n] = <<>> /\ ~ Reported(n, OutEncoded)
  /\ pc \in Coding => \A n \in DOMAIN record : encoded[n] # <<>> => EncodedFrom(n)

(* The verdicts of the decoder and of the encoder are told apart.          *)
LEMMA CodesOfDecodings ==
  ASSUME NEW e, NEW d, NEW lsb, NEW o \in Decodings(e, d, lsb)
  PROVE  OutEncoded \notin o.codes
<1>1. ASSUME NEW v, NEW fits, o = Outcome(v, fits)
      PROVE  OutEncoded \notin o.codes
  BY <1>1 DEF Outcome, OutEncoded
<1>2. ASSUME NEW integers, NEW representation, o \in Numbers(d, integers, lsb, representation)
      PROVE  OutEncoded \notin o.codes
  BY <1>1, <1>2 DEF Numbers
<1>3. ASSUME NEW s, o \in StringOutcome(d, s)
      PROVE  OutEncoded \notin o.codes
  BY <1>1, <1>3 DEF StringOutcome
<1>4. CASE e.function \in {"toDecimal", "toHexadecimal", "toOctal"}
  BY <1>2, <1>4 DEF Decodings, toDecimal, toHexadecimal, toOctal
<1>5. CASE e.function \in {"CA2toDecimal", "CA2toHexadecimal"}
  BY <1>2, <1>5 DEF Decodings, CA2toDecimal, CA2toHexadecimal
<1>6. CASE e.function = "toASCII"
  <2>1. o \in toAscii(e, d)
    BY <1>6 DEF Decodings
  <2> QED
    BY <1>3, <2>1 DEF toAscii
<1>7. CASE e.function = "toTargetId"
  <2>1. o \in toTargetId(e, d)
    BY <1>7 DEF Decodings
  <2> QED
    BY <1>3, <2>1 DEF toTargetId
<1>8. CASE e.function = "toMBData"
  <2>1. o \in toMBData(e, d)
    BY <1>8 DEF Decodings
  <2> QED
    BY <1>3, <2>1 DEF toMBData
<1>9. CASE e.function \notin Known
  <2>1. o = [value |-> current, codes |-> {"DECODING_ERROR"}]
    BY <1>9 DEF Decodings, Known, Integers, TwosComplement, Strings
  <2> QED
    BY <2>1 DEF OutEncoded
<1> QED
  BY <1>4, <1>5, <1>6, <1>7, <1>8, <1>9 DEF Known, Integers, TwosComplement, Strings

LEMMA CodesOfEncodings ==
  ASSUME NEW e, NEW d, NEW lsb, NEW x, NEW b \in Encodings(e, d, lsb, x)
  PROVE  OutDecoded \notin b.codes
<1>1. CASE e.function \in Integers \cup TwosComplement
  <2>1. b \in encodeDecimal(e, d, lsb, x)
    BY <1>1 DEF Encodings, encodeDecimalToCA2, Integers, TwosComplement
  <2>2. \E raw, v : b = Bits(raw, {}) \/ b = Bits(raw, checkValidityRange(d, v))
    BY <2>1 DEF encodeDecimal
  <2> QED
    BY <2>2 DEF Bits, checkValidityRange, OutDecoded
<1>2. CASE e.function = "toASCII"
  <2>1. b \in encodeAscii(e, x)
    BY <1>2 DEF Encodings, Integers, TwosComplement
  <2>2. b = NotAString \/ \E raw : b = Bits(raw, {})
    BY <2>1 DEF encodeAscii
  <2> QED
    BY <2>2 DEF Bits, NoBits, NotAString, OutDecoded
<1>3. CASE e.function = "toTargetId"
  <2>1. b \in encodeTargetId(e, x)
    BY <1>3 DEF Encodings, Integers, TwosComplement
  <2>2. b = NotAString \/ \E raw : b = Bits(raw, {})
    BY <2>1 DEF encodeTargetId
  <2> QED
    BY <2>2 DEF Bits, NoBits, NotAString, OutDecoded
<1>4. CASE e.function = "toMBData"
  <2>1. b \in encodeMBData(e, x)
    BY <1>4 DEF Encodings, Integers, TwosComplement
  <2>2. b = NotAString \/ \E raw : b = Bits(raw, {})
    BY <2>1 DEF encodeMBData
  <2> QED
    BY <2>2 DEF Bits, NoBits, NotAString, OutDecoded
<1>5. CASE e.function \notin Known
  <2>1. b = NoBits({"UNKNOWN_DECODING_FUNCTION", "UNKNOWN_REPRESENTATION_MODE"})
    BY <1>5 DEF Encodings, Known, Strings
  <2> QED
    BY <2>1 DEF NoBits, OutDecoded
<1> QED
  BY <1>1, <1>2, <1>3, <1>4, <1>5 DEF Known, Strings

(* A function that the decoder knows does not look at the value before.    *)
LEMMA KnownDecodings ==
  ASSUME NEW e, e.function \in Known, NEW d, NEW lsb
  PROVE  Decodings(e, d, lsb)' = Decodings(e, d, lsb)
<1>1. CASE e.function \in Integers \cup TwosComplement
  BY <1>1 DEF Decodings, Integers, TwosComplement
<1>2. CASE e.function \in Strings
  BY <1>2 DEF Decodings, Strings
<1> QED
  BY <1>1, <1>2 DEF Known

LEMMA ConversionInitially ==
  ASSUME Init
  PROVE  ConversionInv
<1>1. pc = "load" /\ decoded = <<>> /\ failures = {} /\ ~ built
  BY DEF Init
<1>2. DOMAIN decoded = {}
  BY <1>1
<1> QED
  BY <1>1, <1>2 DEF ConversionInv, Reported, Coding

(* Steps that leave a value as it is leave where it comes from.            *)
LEMMA DecodedFromKept ==
  ASSUME NEW n, DecodedFrom(n), UNCHANGED <<record, described>>, decoded'[n] = decoded[n],
         decoderLsb'[n] = decoderLsb[n], Reported(n, OutDecoded)' <=> Reported(n, OutDecoded)
  PROVE  DecodedFrom(n)'
<1>1. SUFFICES ASSUME record[n].function \in Known
               PROVE  DecodedFrom(n)'
  BY DEF DecodedFrom
<1>2. PICK o \in Decodings(record[n], described[n], decoderLsb[n]) :
        decoded[n] = o.value /\ (Reported(n, OutDecoded) <=> OutDecoded \in o.codes)
  BY <1>1 DEF DecodedFrom
<1> DEFINE e == record[n]
           d == described[n]
           lsb == decoderLsb[n]
<1>3. Decodings(e, d, lsb)' = Decodings(e, d, lsb)
  BY <1>1, KnownDecodings
<1> QED
  BY <1>2, <1>3 DEF DecodedFrom

LEMMA LoadKeepsConversion ==
  ASSUME DecoderInv, ConversionInv, Load
  PROVE  ConversionInv'
<1>1. /\ pc = "load" /\ pc' \in {"decode", "loadError"} /\ decoded = <<>>
      /\ UNCHANGED <<record, decoded, failures, built>>
  BY DEF Load, DecoderInv, Before, decoderVars, clientVars
<1>2. DOMAIN decoded' = {} /\ DOMAIN decoded = {}
  BY <1>1
<1>3. ~ built
  BY <1>1 DEF ConversionInv
<1> QED
  BY <1>1, <1>2, <1>3 DEF ConversionInv, Reported, Coding

LEMMA DecodeKeepsConversion ==
  ASSUME DecoderInv, ConversionInv, Decode
  PROVE  ConversionInv'
<1>1. /\ pc = "decode" /\ UNCHANGED <<record, described, pc, built>>
      /\ k \in DOMAIN record /\ k \notin DOMAIN decoded /\ DOMAIN decoded' = DOMAIN decoded \cup {k}
      /\ \A n \in DOMAIN decoded : decoded'[n] = decoded[n] /\ decoderLsb'[n] = decoderLsb[n]
  BY DecodeOne DEF Decode, clientVars
<1>2. PICK o \in Decodings(record[k], described[k], decoderLsb'[k]) :
        decoded'[k] = o.value /\ failures' = failures \cup ({k} \X o.codes)
  BY DecodeOne
<1>3. \A n, code : <<n, code>> \in failures' <=> <<n, code>> \in failures \/ (n = k /\ code \in o.codes)
  BY <1>2
<1>4. OutEncoded \notin o.codes
  BY <1>2, CodesOfDecodings
<1>5. ASSUME NEW n \in DOMAIN decoded'
      PROVE  DecodedFrom(n)'
  <2>1. CASE n = k
    <3>1. ~ Reported(n, OutDecoded)
      BY <1>1, <2>1 DEF ConversionInv
    <3>2. Reported(n, OutDecoded)' <=> OutDecoded \in o.codes
      BY <1>3, <2>1, <3>1 DEF Reported
    <3>3. record[n].function \in Known => o \in Decodings(record[n], described[n], decoderLsb[n])'
      <4>1. ASSUME NEW lsb, lsb = decoderLsb'[n], record[n].function \in Known
            PROVE  o \in Decodings(record[n], described[n], lsb)'
        BY <1>1, <1>2, <2>1, <4>1, KnownDecodings
      <4> QED
        BY <4>1
    <3>4. decoded'[n] = o.value
      BY <1>2, <2>1
    <3> QED
      BY <1>1, <3>2, <3>3, <3>4 DEF DecodedFrom
  <2>2. CASE n # k
    <3>1. n \in DOMAIN decoded
      BY <1>1, <2>2
    <3>2. DecodedFrom(n) /\ (Reported(n, OutDecoded)' <=> Reported(n, OutDecoded))
      BY <1>3, <2>2, <3>1 DEF ConversionInv, Reported
    <3> QED
      BY <1>1, <3>1, <3>2, DecodedFromKept
  <2> QED
    BY <2>1, <2>2
<1>6. \A n \in DOMAIN record' \ DOMAIN decoded' : ~ Reported(n, OutDecoded)'
  BY <1>1, <1>3 DEF ConversionInv, Reported
<1>7. \A n \in DOMAIN record' : ~ Reported(n, OutEncoded)'
  BY <1>1, <1>3, <1>4 DEF ConversionInv, Reported
<1>8. ~ built'
  BY <1>1 DEF ConversionInv
<1> QED
  BY <1>1, <1>5, <1>6, <1>7, <1>8 DEF ConversionInv, Coding

(* The client's record.                                                    *)
LEMMA GivenFromKept ==
  ASSUME NEW n, GivenFrom(n), UNCHANGED <<record, described, decoded, given, built>>
  PROVE  GivenFrom(n)'
<1>1. Rebuilt(n)' = Rebuilt(n)
  BY DEF Rebuilt
<1> QED
  BY <1>1 DEF GivenFrom

LEMMA HandOverKeepsConversion ==
  ASSUME DecoderInv, EncoderInv, ConversionInv, HandOver \/ BuildRecord
  PROVE  ConversionInv'
<1>1. /\ pc = "decode" /\ pc' \in {"encode", "recordThrew"} /\ k > Len(record)
      /\ UNCHANGED <<record, described, decoded, decoderLsb, encoded, failures>>
  BY DEF HandOver, BuildRecord, decoderVars, encoderVars
<1>2. ASSUME pc' = "encode", NEW n \in DOMAIN record
      PROVE  GivenFrom(n)'
  <2>1. Rebuilt(n)' = Rebuilt(n)
    BY <1>1 DEF Rebuilt
  <2>2. CASE HandOver
    <3>1. ~ built' /\ given' = decoded
      BY <1>1, <2>2 DEF HandOver, ConversionInv
    <3> QED
      BY <1>1, <3>1 DEF GivenFrom
  <2>3. CASE BuildRecord
    <3>1. built' = TRUE
      BY <2>3 DEF BuildRecord
    <3>2. PICK values : /\ \A m \in DOMAIN record : values[m] \in Rebuilt(m)
                        /\ \A m \in DOMAIN record : values[m] # <<>>
                        /\ given' = [m \in DOMAIN record |-> values[m][1]]
      BY <1>2, <2>3 DEF BuildRecord
    <3>3. values[n] \in Rebuilt(n) /\ values[n] # <<>> /\ given'[n] = values[n][1]
      BY <1>2, <3>2
    <3> QED
      BY <2>1, <3>1, <3>3 DEF GivenFrom
  <2> QED
    BY <2>2, <2>3
<1>3. \A n \in DOMAIN decoded : DecodedFrom(n)'
  <2>1. ASSUME NEW n \in DOMAIN decoded
        PROVE  DecodedFrom(n)'
    <3>1. DecodedFrom(n) /\ (Reported(n, OutDecoded)' <=> Reported(n, OutDecoded))
      BY <1>1 DEF ConversionInv, Reported
    <3> QED
      BY <1>1, <3>1, DecodedFromKept
  <2> QED
    BY <2>1
<1>4. \A n \in DOMAIN record : ~ Reported(n, OutEncoded)' /\ encoded'[n] = <<>>
  BY <1>1 DEF ConversionInv, EncoderInv, Reported
<1>5. \A n \in DOMAIN record \ DOMAIN decoded : ~ Reported(n, OutDecoded)'
  BY <1>1 DEF ConversionInv, Reported
<1> QED
  BY <1>1, <1>2, <1>3, <1>4, <1>5 DEF ConversionInv, Coding

(* Nothing is reported of other elements than the one that is encoded.     *)
LEMMA VerdictsKept ==
  ASSUME ConversionInv, NEW codes, OutDecoded \notin codes,
         UNCHANGED <<record, described, decoded, decoderLsb>>,
         failures' = failures \cup ({k} \X codes)
  PROVE  /\ \A n \in DOMAIN decoded : DecodedFrom(n)'
         /\ \A n \in DOMAIN record \ DOMAIN decoded : ~ Reported(n, OutDecoded)'
<1>1. \A n : Reported(n, OutDecoded)' <=> Reported(n, OutDecoded)
  BY DEF Reported
<1>2. ASSUME NEW n \in DOMAIN decoded
      PROVE  DecodedFrom(n)'
  <2>1. DecodedFrom(n) /\ (Reported(n, OutDecoded)' <=> Reported(n, OutDecoded))
    BY <1>1 DEF ConversionInv
  <2> QED
    BY <2>1, DecodedFromKept
<1> QED
  BY <1>1, <1>2 DEF ConversionInv

LEMMA EncodeKeepsConversion ==
  ASSUME DecoderInv, EncoderInv, ConversionInv, Encode
  PROVE  ConversionInv'
<1>1. /\ pc = "encode" /\ k <= Len(record) /\ k' = k + 1
      /\ UNCHANGED <<record, described, pc, decoded, decoderLsb, given, built>>
      /\ \E lsb : \E b \in Encodings(record[k], described[k], lsb, given[k]) :
           /\ encoded' = [encoded EXCEPT ![k] = b.raw]
           /\ failures' = failures \cup ({k} \X b.codes)
           /\ encoderLsb' = [encoderLsb EXCEPT ![k] = lsb]
  BY DEF Encode, decoderVars, clientVars
<1>2. PICK lsb : \E b \in Encodings(record[k], described[k], lsb, given[k]) :
           /\ encoded' = [encoded EXCEPT ![k] = b.raw]
           /\ failures' = failures \cup ({k} \X b.codes)
           /\ encoderLsb' = [encoderLsb EXCEPT ![k] = lsb]
  BY <1>1
<1>3. PICK b \in Encodings(record[k], described[k], lsb, given[k]) :
        /\ encoded' = [encoded EXCEPT ![k] = b.raw]
        /\ failures' = failures \cup ({k} \X b.codes)
        /\ encoderLsb' = [encoderLsb EXCEPT ![k] = lsb]
  BY <1>2
<1>4. k \in Nat /\ k \in DOMAIN record /\ DOMAIN record = 1 .. Len(record)
  <2>1. record \in Records /\ k \in Nat \ {0}
    BY <1>1 DEF DecoderInv, EncoderInv
  <2> QED
    BY <1>1, <2>1, RecordOfElements
<1>5. \A n, code : <<n, code>> \in failures' <=> <<n, code>> \in failures \/ (n = k /\ code \in b.codes)
  BY <1>3
<1>6. OutDecoded \notin b.codes
  BY CodesOfEncodings
<1>7. PICK S, T : encoded \in [DOMAIN record -> S] /\ encoderLsb \in [DOMAIN record -> T]
  BY DEF EncoderInv
<1>8. ASSUME NEW n \in DOMAIN record, n >= k'
      PROVE  encoded'[n] = <<>> /\ ~ Reported(n, OutEncoded)'
  <2>1. n # k /\ n >= k
    BY <1>1, <1>4, <1>8
  <2>2. encoded[n] = <<>> /\ ~ Reported(n, OutEncoded)
    BY <1>1, <2>1 DEF ConversionInv
  <2> QED
    BY <1>3, <1>5, <1>7, <2>1, <2>2 DEF Reported
<1>9. ASSUME NEW n \in DOMAIN record, encoded'[n] # <<>>
      PROVE  EncodedFrom(n)'
  <2>1. CASE n = k
    <3>1. encoded'[n] = b.raw /\ encoderLsb'[n] = lsb
      BY <1>3, <1>7, <2>1
    <3>2. ~ Reported(n, OutEncoded)
      BY <1>1, <1>4, <2>1 DEF ConversionInv
    <3>3. Reported(n, OutEncoded)' <=> OutEncoded \in b.codes
      BY <1>5, <2>1, <3>2 DEF Reported
    <3>4. b \in Encodings(record'[n], described'[n], encoderLsb'[n], given'[n])
      BY <1>1, <1>3, <2>1, <3>1
    <3> QED
      BY <3>1, <3>3, <3>4 DEF EncodedFrom
  <2>2. CASE n # k
    <3>1. encoded'[n] = encoded[n] /\ encoderLsb'[n] = encoderLsb[n]
      BY <1>3, <1>7, <2>2
    <3>2. Reported(n, OutEncoded)' <=> Reported(n, OutEncoded)
      BY <1>5, <2>2 DEF Reported
    <3>3. EncodedFrom(n)
      BY <1>1, <1>9, <3>1 DEF ConversionInv, Coding
    <3> QED
      BY <1>1, <3>1, <3>2, <3>3 DEF EncodedFrom
  <2> QED
    BY <2>1, <2>2
<1>10. \A n \in DOMAIN record : GivenFrom(n)'
  <2>1. \A n \in DOMAIN record : GivenFrom(n)
    BY <1>1 DEF ConversionInv, Coding
  <2> QED
    BY <1>1, <2>1, GivenFromKept
<1>11. /\ \A n \in DOMAIN decoded : DecodedFrom(n)'
       /\ \A n \in DOMAIN record \ DOMAIN decoded : ~ Reported(n, OutDecoded)'
  BY <1>1, <1>3, <1>6, VerdictsKept
<1> QED
  BY <1>1, <1>8, <1>9, <1>10, <1>11 DEF ConversionInv, Coding

LEMMA GiveUpKeepsConversion ==
  ASSUME DecoderInv, EncoderInv, ConversionInv, GiveUpItem
  PROVE  ConversionInv'
<1>1. /\ pc = "encode" /\ k <= Len(record) /\ k' = NextItem(k) /\ encoded' = WithoutItem(k)
      /\ UNCHANGED <<record, described, pc, decoded, decoderLsb, given, built, encoderLsb>>
  BY DEF GiveUpItem, decoderVars, clientVars
<1>2. PICK codes : OutDecoded \notin codes /\ failures' = failures \cup ({k} \X codes)
  <2>1. CASE UNCHANGED failures
    <3>1. failures' = failures \cup ({k} \X {})
      BY <2>1
    <3> QED
      BY <3>1
  <2>2. CASE \E b \in Encodings(record[k], described[k], described[k].lsb[IndexUsed(k) + 1], given[k]) :
               failures' = failures \cup ({k} \X b.codes)
    BY <2>2, CodesOfEncodings
  <2> QED
    BY <2>1, <2>2 DEF GiveUpItem
<1>3. k \in Nat /\ k \in DOMAIN record /\ DOMAIN record = 1 .. Len(record) /\ k' \in k + 1 .. Len(record) + 1
  <2>1. record \in Records /\ k \in Nat \ {0}
    BY <1>1 DEF DecoderInv, EncoderInv
  <2>2. k \in DOMAIN record
    BY <1>1, <2>1, RecordOfElements
  <2> QED
    BY <1>1, <2>1, <2>2, RecordOfElements, NextItemIs
<1>4. \A n, code : <<n, code>> \in failures' <=> <<n, code>> \in failures \/ (n = k /\ code \in codes)
  BY <1>2
<1>5. PICK S : encoded \in [DOMAIN record -> S]
  BY DEF EncoderInv
<1>6. \A n \in DOMAIN record :
        encoded'[n] = IF record[n].item = record[k].item THEN <<>> ELSE encoded[n]
  BY <1>1, <1>5 DEF WithoutItem
<1>7. ASSUME NEW n \in DOMAIN record, n >= k'
      PROVE  encoded'[n] = <<>> /\ ~ Reported(n, OutEncoded)'
  <2>1. n # k /\ n >= k
    BY <1>3, <1>7
  <2>2. encoded[n] = <<>> /\ ~ Reported(n, OutEncoded)
    BY <1>1, <2>1 DEF ConversionInv
  <2> QED
    BY <1>4, <1>6, <2>1, <2>2 DEF Reported
<1>8. ASSUME NEW n \in DOMAIN record, encoded'[n] # <<>>
      PROVE  EncodedFrom(n)'
  <2>1. n # k /\ encoded'[n] = encoded[n]
    BY <1>6, <1>8
  <2>2. Reported(n, OutEncoded)' <=> Reported(n, OutEncoded)
    BY <1>4, <2>1 DEF Reported
  <2>3. EncodedFrom(n)
    BY <1>1, <1>8, <2>1 DEF ConversionInv, Coding
  <2> QED
    BY <1>1, <2>1, <2>2, <2>3 DEF EncodedFrom
<1>9. \A n \in DOMAIN record : GivenFrom(n)'
  <2>1. \A n \in DOMAIN record : GivenFrom(n)
    BY <1>1 DEF ConversionInv, Coding
  <2> QED
    BY <1>1, <2>1, GivenFromKept
<1>10. /\ \A n \in DOMAIN decoded : DecodedFrom(n)'
       /\ \A n \in DOMAIN record \ DOMAIN decoded : ~ Reported(n, OutDecoded)'
  BY <1>1, <1>2, VerdictsKept
<1> QED
  BY <1>1, <1>7, <1>8, <1>9, <1>10 DEF ConversionInv, Coding

LEMMA OthersKeepConversion ==
  ASSUME ConversionInv, DecoderThrows \/ EncoderThrows \/ EndEncoding \/ UNCHANGED vars
  PROVE  ConversionInv'
<1>1. /\ UNCHANGED <<record, described, k, decoded, decoderLsb, given, built, encoded, encoderLsb, failures>>
      /\ \/ pc' \in {"decoderThrew", "encoderThrew"}
         \/ pc = "encode" /\ pc' = "done"
         \/ pc' = pc
  BY DEF DecoderThrows, EncoderThrows, EndEncoding, vars, decoderVars, encoderVars, clientVars
<1>2. \A n, code : Reported(n, code)' <=> Reported(n, code)
  BY <1>1 DEF Reported
<1>3. \A n \in DOMAIN decoded' : DecodedFrom(n)'
  <2>1. ASSUME NEW n \in DOMAIN decoded
        PROVE  DecodedFrom(n)'
    <3>1. DecodedFrom(n) /\ (Reported(n, OutDecoded)' <=> Reported(n, OutDecoded))
      BY <1>1 DEF ConversionInv, Reported
    <3> QED
      BY <1>1, <3>1, DecodedFromKept
  <2> QED
    BY <1>1, <2>1
<1>4. pc' \in Coding => \A n \in DOMAIN record' : GivenFrom(n)'
  <2>1. pc' \in Coding => \A n \in DOMAIN record : GivenFrom(n)
    BY <1>1 DEF ConversionInv, Coding
  <2> QED
    BY <1>1, <2>1, GivenFromKept
<1>5. pc' \in Coding => \A n \in DOMAIN record' : encoded'[n] # <<>> => EncodedFrom(n)'
  <2>1. pc' \in Coding => \A n \in DOMAIN record : encoded[n] # <<>> => EncodedFrom(n)
    BY <1>1 DEF ConversionInv, Coding
  <2>2. \A n : EncodedFrom(n) => EncodedFrom(n)'
    BY <1>1 DEF EncodedFrom, Reported
  <2> QED
    BY <1>1, <2>1, <2>2
<1>6. /\ pc' \in {"load", "decode"} => ~ built'
      /\ \A n \in DOMAIN record' \ DOMAIN decoded' : ~ Reported(n, OutDecoded)'
      /\ pc' \in {"load", "decode"} => \A n \in DOMAIN record' : ~ Reported(n, OutEncoded)'
      /\ pc' = "encode" => \A n \in DOMAIN record' :
           n >= k' => encoded'[n] = <<>> /\ ~ Reported(n, OutEncoded)'
  BY <1>1 DEF ConversionInv, Reported
<1> QED
  BY <1>3, <1>4, <1>5, <1>6 DEF ConversionInv

LEMMA ConversionInvariant == Spec => [](DecoderInv /\ EncoderInv /\ ConversionInv)
<1>1. ASSUME DecoderInv, EncoderInv, ConversionInv, [Next]_vars
      PROVE  ConversionInv'
  BY <1>1, LoadKeepsConversion, DecodeKeepsConversion, HandOverKeepsConversion, EncodeKeepsConversion,
     GiveUpKeepsConversion, OthersKeepConversion DEF Next
<1> QED
  BY <1>1, ConversionInitially, EncoderInvariant, PTL DEF Spec

-----------------------------------------------------------------------------
(* Numbers that are exact come back.                                       *)
LEMMA SignedBounds ==
  ASSUME NEW bits \in Nat \ {0}, NEW i \in Int, Signed(i, bits) = i
  PROVE  -(2 ^ (bits - 1)) <= i /\ i < 2 ^ (bits - 1)
<1> DEFINE h == 2 ^ (bits - 1)
           m == 2 ^ bits
           u == i % m
<1>1. h \in Nat \ {0} /\ m = 2 * h /\ m \in Nat \ {0}
  BY Halves
<1>2. i = IF u >= h THEN u - m ELSE u
  BY DEF Signed
<1> HIDE DEF h, m
<1>3. u \in Nat /\ u < m
  BY <1>1, Division
<1> HIDE DEF u
<1>4. -h <= i /\ i < h
  BY <1>1, <1>2, <1>3
<1> QED
  BY <1>4 DEF h

LEMMA MultipleRounded ==
  ASSUME NEW n \in Int, NEW lsb \in Nat \ {0}
  PROVE  Rounded(n * lsb, lsb) = n
<1> DEFINE p == n * lsb
           twice == 2 * lsb
<1>1. p \in Int /\ twice \in Nat \ {0} /\ lsb < twice
  OBVIOUS
<1>2. \A a, b \in Int : (2 * b) * a = 2 * (a * b) /\ (2 * b) * (-a) = -(2 * (a * b))
  OBVIOUS
<1>3. twice * n = 2 * p /\ twice * (-n) = -(2 * p)
  BY <1>2
<1>4. Rounded(p, lsb) = IF p >= 0 THEN (2 * p + lsb) \div twice ELSE -((lsb - 2 * p) \div twice)
  BY DEF Rounded
<1> HIDE DEF p, twice
<1>5. CASE p >= 0
  <2>1. 2 * p + lsb = twice * n + lsb
    BY <1>1, <1>3
  <2>2. (twice * n + lsb) \div twice = n
    BY <1>1, DivisionIsUnique
  <2> QED
    BY <1>4, <1>5, <2>1, <2>2 DEF p
<1>6. CASE ~ (p >= 0)
  <2> DEFINE minus == -n
  <2>1. minus \in Int /\ -minus = n /\ lsb - 2 * p = twice * minus + lsb
    BY <1>1, <1>3
  <2> HIDE DEF minus
  <2>2. (twice * minus + lsb) \div twice = minus
    BY <1>1, <2>1, DivisionIsUnique
  <2> QED
    BY <1>4, <1>6, <2>1, <2>2 DEF p
<1> QED
  BY <1>5, <1>6

LEMMA MultipleTruncated ==
  ASSUME NEW i \in Int
  PROVE  Truncated(i * Denominator) = i
<1> DEFINE v == i * Denominator
           none == 0
<1>1. Denominator \in Nat \ {0} /\ none \in Nat /\ none < Denominator
  BY ElementAssumption
<1>2. \A a \in Int, b \in Nat \ {0} : a * b \in Int /\ a * b = b * a + 0 /\ -(a * b) = b * (-a) + 0
  OBVIOUS
<1>3. v \in Int /\ v = Denominator * i + none /\ -v = Denominator * (-i) + none
  BY <1>1, <1>2
<1>4. Truncated(v) = IF v >= 0 THEN v \div Denominator ELSE -((-v) \div Denominator)
  BY DEF Truncated
<1> HIDE DEF v, none
<1>5. v \div Denominator = i
  BY <1>1, <1>3, DivisionIsUnique
<1>6. -((-v) \div Denominator) = i
  <2> DEFINE minus == -i
  <2>1. minus \in Int /\ -minus = i /\ -v = Denominator * minus + none
    BY <1>3
  <2> HIDE DEF minus
  <2>2. (Denominator * minus + none) \div Denominator = minus
    BY <1>1, <2>1, DivisionIsUnique
  <2> QED
    BY <2>1, <2>2
<1> QED
  BY <1>4, <1>5, <1>6 DEF v

(* The bits of a number are those it was read from.                        *)
LEMMA MeaningOfBits ==
  ASSUME NEW e, Element(e), ReadAsMeant(e)
  PROVE  /\ Meaning(e) \in Int /\ Signed(Meaning(e), IntBits) = Meaning(e)
         /\ getRawElement(Meaning(e), e.bits) = e.raw
<1> DEFINE n == Meaning(e)
           m == 2 ^ e.bits
           h == 2 ^ (e.bits - 1)
           H == 2 ^ (IntBits - 1)
<1>1. e.bits \in Nat \ {0} /\ IntBits \in Nat \ {0} /\ e.bits < IntBits
  BY Widths DEF Element, ReadAsMeant
<1>2. /\ h \in Nat \ {0} /\ m = 2 * h /\ m \in Nat \ {0} /\ H \in Nat \ {0} /\ m <= H
      /\ e.raw \in Nat /\ e.raw < m
  <2>1. e.bits \in Nat /\ IntBits - 1 \in Nat /\ e.bits <= IntBits - 1
    BY <1>1
  <2>2. m <= H /\ m \in Nat
    BY <2>1, PowerMonotonic, PowerNat
  <2>3. h \in Nat \ {0} /\ m = 2 * h /\ H \in Nat \ {0}
    BY <1>1, Halves
  <2>4. e.raw \in 0 .. m - 1
    BY DEF Element
  <2> HIDE DEF m, h, H
  <2> QED
    BY <2>2, <2>3, <2>4
<1>3. /\ n = IF e.function \in TwosComplement /\ e.raw >= h THEN e.raw - m ELSE e.raw
      /\ getRawElement(n, e.bits) = n % m
  BY DEF Meaning, getRawElement
<1> HIDE DEF n, m, h, H
<1>4. n \in Int /\ -H <= n /\ n < H /\ (n = e.raw \/ n = e.raw - m)
  BY <1>2, <1>3
<1>5. n % m = e.raw
  <2>1. CASE n = e.raw
    BY <1>2, <2>1, SmallRemainder
  <2>2. CASE n = e.raw - m
    <3> DEFINE minus == -1
               r == e.raw
    <3>1. minus \in Int /\ r \in Nat /\ r < m /\ n = m * minus + r
      BY <1>2, <2>2
    <3> HIDE DEF minus, r
    <3>2. n % m = r
      BY <1>2, <3>1, DivisionIsUnique
    <3> QED
      BY <3>2 DEF r
  <2> QED
    BY <1>4, <2>1, <2>2
<1>6. Signed(n, IntBits) = n
  BY <1>1, <1>4, SignedInRange DEF H
<1> QED
  BY <1>3, <1>4, <1>5, <1>6 DEF n

(* A value holds a number of which the LSB is a part: as an int, as a real *)
(* that is no integer, the product that was decoded.                       *)
HoldsNumber(x, v) ==
  \/ x.type \in {"FloatValue", "DoubleValue"} /\ x.value = <<v>>
  \/ x.type \in IntegerTypes \cup {"StringValue"} /\ \E i \in Int :
       /\ Signed(i, IntBits) = i /\ v = i * Denominator
       /\ x.value = <<IF x.type = "StringValue" THEN v ELSE i>>

LEMMA NumberEncoded ==
  ASSUME NEW e, Element(e), ReadAsMeant(e), NEW d, NEW lsb \in Nat \ {0}, NEW x,
         HoldsNumber(x, Meaning(e) * lsb), NEW b \in Encodings(e, d, lsb, x)
  PROVE  b = Bits(e.raw, IF x.type = "StringValue" THEN {}
                         ELSE checkValidityRange(d, Meaning(e) * lsb))
<1> DEFINE n == Meaning(e)
           v == n * lsb
           int == IF x.type = "StringValue" THEN Truncated(x.value[1]) ELSE Signed(x.value[1], IntBits)
           real == x.type \in {"FloatValue", "DoubleValue"}
           scaled == IF real THEN x.value[1] ELSE int * Denominator
           codes == IF x.type = "StringValue" THEN {} ELSE checkValidityRange(d, scaled)
<1>1. n \in Int /\ Signed(n, IntBits) = n /\ getRawElement(n, e.bits) = e.raw
  BY MeaningOfBits
<1>2. scaled = v
  <2> HIDE DEF v
  <2>1. CASE x.type \in {"FloatValue", "DoubleValue"}
    <3>1. x.value = <<v>>
      BY <2>1 DEF HoldsNumber, IntegerTypes, v, n
    <3> QED
      BY <2>1, <3>1
  <2>2. CASE x.type \notin {"FloatValue", "DoubleValue"}
    <3>1. PICK i \in Int : /\ Signed(i, IntBits) = i /\ v = i * Denominator
                           /\ x.value = <<IF x.type = "StringValue" THEN v ELSE i>>
      BY <2>2 DEF HoldsNumber, v, n
    <3>2. int = i
      <4>1. Truncated(v) = i
        BY <3>1, MultipleTruncated
      <4> QED
        BY <3>1, <4>1
    <3> HIDE DEF int
    <3> QED
      BY <2>2, <3>1, <3>2
  <2> QED
    BY <2>1, <2>2
<1>3. b \in {Bits(getRawElement(i, e.bits), codes) : i \in ToInt(Rounded(scaled, lsb))}
  <2>1. b \in encodeDecimal(e, d, lsb, x)
    BY DEF Encodings, encodeDecimalToCA2, ReadAsMeant, Integers, TwosComplement
  <2>2. lsb # 0
    OBVIOUS
  <2> QED
    BY <2>1, <2>2 DEF encodeDecimal
<1> HIDE DEF scaled
<1>4. ToInt(Rounded(scaled, lsb)) = {n}
  BY <1>1, <1>2, MultipleRounded DEF ToInt, v
<1>5. b = Bits(e.raw, codes)
  BY <1>1, <1>3, <1>4
<1> QED
  BY <1>2, <1>5 DEF v

(* An element whose number is exact in its type and LSB.                   *)
ExactNumber(e, type, lsb) ==
  /\ ReadAsMeant(e) /\ lsb > 0
  /\ \/ type \in {"FloatValue", "DoubleValue"}
     \/ /\ type \in {"Signed", "Unsigned", "StringValue"}
        /\ lsb % Denominator = 0
        /\ Signed(Meaning(e) * (lsb \div Denominator), IntBits) = Meaning(e) * (lsb \div Denominator)
        /\ e.function # "CA2toHexadecimal" \/ Meaning(e) >= 0

LEMMA WholeLsb ==
  ASSUME NEW n \in Int, NEW lsb \in Nat, lsb % Denominator = 0
  PROVE  n * (lsb \div Denominator) \in Int
         /\ n * lsb = (n * (lsb \div Denominator)) * Denominator
<1> DEFINE q == lsb \div Denominator
<1>1. Denominator \in Nat \ {0}
  BY ElementAssumption
<1>2. q \in Int /\ lsb = Denominator * q + (lsb % Denominator)
  BY <1>1, Division
<1> HIDE DEF q
<1>3. \A a, b, c \in Int : a * b \in Int /\ a * (c * b) = (a * b) * c
  OBVIOUS
<1>4. lsb = Denominator * q
  BY <1>1, <1>2
<1>5. n * q \in Int /\ n * lsb = (n * q) * Denominator
  BY <1>1, <1>2, <1>3, <1>4
<1> QED
  BY <1>5 DEF q

(* The integer type of such an element holds it, also when the type is     *)
(* only the largest there is.                                              *)
LEMMA ExactTypeHolds ==
  ASSUME NEW e, Element(e), NEW lsb \in ToSet(LsbValues(e)), RepresentationMode(e).type \in IntegerTypes,
         ExactNumber(e, RepresentationMode(e).type, lsb)
  PROVE  /\ RepresentationMode(e).bits \in Nat \ {0}
         /\ Meaning(e) * (lsb \div Denominator) \in TypeRange(RepresentationMode(e))
<1> DEFINE mode == RepresentationMode(e)
           n == Meaning(e)
           i == n * (lsb \div Denominator)
<1>1. /\ ReadAsMeant(e) /\ lsb % Denominator = 0 /\ Signed(i, IntBits) = i
      /\ e.function # "CA2toHexadecimal" \/ n >= 0
      /\ n \in Int /\ lsb \in Nat /\ lsb > 0
  <2>1. mode.type \notin {"FloatValue", "DoubleValue"}
    BY DEF IntegerTypes
  <2> QED
    BY <2>1, MeaningOfBits, LsbIsBelow DEF ExactNumber
<1>2. i \in Int /\ n * lsb = i * Denominator
  BY <1>1, WholeLsb
<1>3. PICK bytes \in Nat \ {0} : (ValueFits(e, bytes) \/ bytes = LongBytes) /\ mode = Type(e, bytes)
  BY OtherRepresentations, IntegerTypeIs
<1>4. mode.type = (IF e.function = "CA2toDecimal" THEN "Signed" ELSE "Unsigned") /\ mode.bits = ByteBits * bytes
  BY <1>3 DEF Type, Class
<1>5. mode.bits \in Nat \ {0}
  <2>1. \A a, b \in Nat \ {0} : a * b \in Nat \ {0}
    OBVIOUS
  <2> QED
    BY <1>4, <2>1, Widths
<1>6. mode.type = "Signed" \/ n >= 0
  <2>1. e.function \in Integers => n >= 0
    BY <1>1, MeaningBounds
  <2> QED
    BY <1>1, <1>4, <2>1 DEF ReadAsMeant, TwosComplement
<1>7. CASE ValueFits(e, bytes)
  <2>1. Truncated(n * lsb) \in TypeRange(mode)
    BY <1>1, <1>3, <1>6, <1>7, TypeOfBytesHolds
  <2>2. Truncated(n * lsb) = i
    BY <1>2, MultipleTruncated
  <2> QED
    BY <1>5, <2>1, <2>2
<1>8. CASE bytes = LongBytes
  <2> DEFINE h == 2 ^ (IntBits - 1)
             H == 2 ^ (LongBits - 1)
             W == 2 ^ LongBits
  <2>1. mode.bits = LongBits
    BY <1>4, <1>8, Widths DEF LongBits
  <2>2. h \in Nat /\ H \in Nat /\ W \in Nat /\ h <= H /\ W = 2 * H
    <3>1. IntBits - 1 \in Nat /\ LongBits - 1 \in Nat /\ IntBits - 1 <= LongBits - 1 /\ LongBits \in Nat \ {0}
      BY Widths
    <3> QED
      BY <3>1, PowerNat, PowerMonotonic, Halves
  <2>3. -h <= i /\ i < h
    BY <1>1, <1>2, Widths, SignedBounds
  <2>4. TypeRange(mode) = IF mode.type = "Signed" THEN -H .. H - 1 ELSE 0 .. W - 1
    BY <2>1 DEF TypeRange
  <2>5. n >= 0 => i >= 0
    <3>1. lsb \div Denominator \in Nat
      BY <1>1, ElementAssumption, DivisionBelow
    <3>2. \A a, b \in Nat : a * b >= 0
      OBVIOUS
    <3> QED
      BY <1>1, <3>1, <3>2
  <2> HIDE DEF h, H, W, i, mode
  <2>6. mode.type = "Signed" => i \in -H .. H - 1
    BY <1>2, <2>2, <2>3
  <2>7. n >= 0 => i \in 0 .. W - 1
    BY <1>2, <2>2, <2>3, <2>5
  <2>8. i \in TypeRange(mode)
    BY <1>6, <2>4, <2>6, <2>7, <1>4
  <2> QED
    BY <1>5, <2>8 DEF mode, i
<1> QED
  BY <1>3, <1>7, <1>8

(* It is decoded to a value that holds it, with the verdict on its         *)
(* product, and given to the encoder as it was decoded.                    *)
LEMMA ExactDecoded ==
  ASSUME NEW e, Element(e), NEW lsb \in ToSet(LsbValues(e)), NEW d, d.mode = RepresentationMode(e),
         ExactNumber(e, d.mode.type, lsb), NEW o \in Decodings(e, d, lsb)
  PROVE  /\ o.value.type = d.mode.type /\ HoldsNumber(o.value, Meaning(e) * lsb)
         /\ OutDecoded \in o.codes <=> ~ InRange(d.range, Meaning(e) * lsb)
         /\ d.mode.type \in IntegerTypes /\ e.function \in Decimals =>
              \E i \in TypeRange(d.mode) :
                /\ Signed(i, IntBits) = i /\ d.mode.bits \in Nat \ {0}
                /\ o.value = setDecodedValue(d.mode, <<i>>, "IntegerValue")
<1> DEFINE n == Meaning(e)
           v == n * lsb
           i == n * (lsb \div Denominator)
<1>1. ReadAsMeant(e) /\ n \in Int /\ lsb \in Nat /\ v \in Int
  <2>1. ReadAsMeant(e) /\ n \in Int /\ lsb \in Nat
    BY MeaningOfBits, LsbIsBelow DEF ExactNumber
  <2> HIDE DEF n
  <2> QED
    BY <2>1
<1>2. PICK representation : /\ ReadNumber(d, v, representation, o)
                            /\ e.function \in Decimals => representation = "IntegerValue"
  BY <1>1, MeaningIsRead
<1>3. PICK x \in Stored(d.mode, v, representation) : o = Outcome(x, InRange(d.range, v))
  BY <1>2 DEF ReadNumber
<1>4. o.value = x /\ (OutDecoded \in o.codes <=> ~ InRange(d.range, v))
  BY <1>3 DEF Outcome, OutDecoded
<1>5. d.mode.type \notin {"FloatValue", "DoubleValue"} =>
        i \in Int /\ v = i * Denominator /\ Signed(i, IntBits) = i
  BY <1>1, WholeLsb DEF ExactNumber
<1>6. CASE d.mode.type \in IntegerTypes
  <2>1. d.mode.bits \in Nat \ {0} /\ i \in TypeRange(d.mode)
    BY <1>6, ExactTypeHolds
  <2>2. i \in Int /\ v = i * Denominator /\ Signed(i, IntBits) = i
    BY <1>5, <1>6 DEF IntegerTypes
  <2>3. Truncated(v) = i
    BY <2>2, MultipleTruncated
  <2> HIDE DEF v, i
  <2>4. x = setDecodedValue(d.mode, <<i>>, representation)
    BY <1>1, <1>2, <1>4, <1>6, <2>1, <2>3, StoredInteger
  <2>5. x.type = d.mode.type /\ x.value = <<i>> /\ x.type # "StringValue"
    BY <1>6, <2>4 DEF setDecodedValue, IntegerTypes
  <2>6. HoldsNumber(x, v)
    BY <1>6, <2>2, <2>5 DEF HoldsNumber
  <2> QED
    BY <1>2, <1>4, <2>1, <2>2, <2>4, <2>5, <2>6 DEF v
<1>7. CASE d.mode.type \notin IntegerTypes
  <2>1. d.mode.type \in {"FloatValue", "DoubleValue", "StringValue"}
    BY <1>7 DEF ExactNumber, IntegerTypes
  <2>2. x = setDecodedValue(d.mode, <<v>>, representation)
    BY <1>3, <2>1 DEF Stored, IntegerTypes
  <2>3. x.type = d.mode.type /\ x.value = <<v>>
    BY <2>2 DEF setDecodedValue
  <2> HIDE DEF v, i
  <2>4. HoldsNumber(x, v)
    <3>1. CASE d.mode.type \in {"FloatValue", "DoubleValue"}
      BY <2>3, <3>1 DEF HoldsNumber
    <3>2. CASE d.mode.type = "StringValue"
      BY <1>5, <2>3, <3>2 DEF HoldsNumber
    <3> QED
      BY <2>1, <3>1, <3>2
  <2> QED
    BY <1>4, <1>7, <2>3, <2>4 DEF v
<1> QED
  BY <1>6, <1>7

LEMMA RebuiltOther ==
  ASSUME NEW n, record[n].function \notin {"toHexadecimal", "toOctal"},
         described[n].mode.type \notin IntegerTypes
  PROVE  Rebuilt(n) = {<<decoded[n]>>}
<1> DEFINE text == getDecodedDataInString(decoded[n])
<1>1. CASE described[n].mode = StringValue
  BY <1>1 DEF Rebuilt
<1>2. CASE described[n].mode # StringValue
  <2>1. TextsFor(record[n], text) = {text} /\ {text} # {}
    BY DEF TextsFor
  <2>2. Rebuilt(n) = {} \cup {<<decoded[n]>>}
    BY <1>2, <2>1 DEF Rebuilt
  <2> QED
    BY <2>2
<1> QED
  BY <1>1, <1>2

(* The element of a record that has been encoded.                          *)
LEMMA CodedElement ==
  ASSUME DecoderInv, EncoderInv, ConversionInv, pc = "done", NEW n \in DOMAIN record,
         encoded[n] # <<>>, Compared(n)
  PROVE  /\ n \in DOMAIN decoded /\ Element(record[n]) /\ DescribedAs(n)
         /\ decoderLsb[n] \in ToSet(LsbValues(record[n])) /\ encoderLsb[n] = decoderLsb[n]
         /\ DecodedFrom(n) /\ GivenFrom(n) /\ EncodedFrom(n)
<1>1. Len(decoded) = Len(record) /\ record \in Records /\ encoderLsb[n] = LsbMeant(n)
  BY DEF DecoderInv, EncoderInv, Coding
<1>2. PICK S : decoded \in Seq(S)
  BY DEF DecoderInv
<1>3. n \in DOMAIN decoded
  BY <1>1, <1>2, LenProperties, RecordOfElements
<1>4. encoderLsb[n] = decoderLsb[n]
  BY <1>1, <1>3 DEF EncoderInv
<1> QED
  BY <1>3, <1>4, DecodedElement DEF ReadElement, ConversionInv, Coding

LEMMA NumberComesBack ==
  ASSUME DecoderInv, EncoderInv, ConversionInv, pc = "done", NEW n \in DOMAIN record,
         encoded[n] # <<>>, Compared(n), built => ReadsBack(n),
         ExactNumber(record[n], described[n].mode.type, decoderLsb[n])
  PROVE  /\ encoded[n] = <<record[n].raw>>
         /\ described[n].mode.type # "StringValue" =>
              (Reported(n, OutDecoded) <=> Reported(n, OutEncoded))
<1> DEFINE e == record[n]
           d == described[n]
           lsb == decoderLsb[n]
           v == Meaning(e) * lsb
<1>1. /\ Element(e) /\ d.mode = RepresentationMode(e) /\ lsb \in ToSet(LsbValues(e)) /\ lsb \in Nat \ {0}
      /\ ReadAsMeant(e) /\ encoderLsb[n] = lsb /\ DecodedFrom(n) /\ GivenFrom(n) /\ EncodedFrom(n)
  <2>1. /\ Element(e) /\ DescribedAs(n) /\ lsb \in ToSet(LsbValues(e))
        /\ encoderLsb[n] = lsb /\ DecodedFrom(n) /\ GivenFrom(n) /\ EncodedFrom(n)
    BY CodedElement
  <2>2. d.mode = RepresentationMode(e)
    BY <2>1 DEF DescribedAs
  <2>3. ReadAsMeant(e) /\ lsb > 0
    BY DEF ExactNumber
  <2>4. lsb \in Nat
    <3> HIDE DEF e, lsb
    <3> QED
      BY <2>1, LsbIsBelow
  <2> QED
    BY <2>1, <2>2, <2>3, <2>4
<1>2. e.function \in Integers \cup TwosComplement
  BY <1>1 DEF ReadAsMeant
<1>3. PICK o \in Decodings(e, d, lsb) :
        decoded[n] = o.value /\ (Reported(n, OutDecoded) <=> OutDecoded \in o.codes)
  BY <1>1, <1>2 DEF DecodedFrom, Known
<1>4. /\ decoded[n].type = d.mode.type /\ HoldsNumber(decoded[n], v)
      /\ Reported(n, OutDecoded) <=> ~ InRange(d.range, v)
      /\ d.mode.type \in IntegerTypes /\ e.function \in Decimals =>
           \E i \in TypeRange(d.mode) :
             /\ Signed(i, IntBits) = i /\ d.mode.bits \in Nat \ {0}
             /\ decoded[n] = setDecodedValue(d.mode, <<i>>, "IntegerValue")
  <2>1. ExactNumber(e, d.mode.type, lsb)
    OBVIOUS
  <2> HIDE DEF e, d, lsb
  <2>2. /\ o.value.type = d.mode.type /\ HoldsNumber(o.value, v)
        /\ OutDecoded \in o.codes <=> ~ InRange(d.range, v)
    BY <1>1, <1>3, <2>1, ExactDecoded
  <2>3. d.mode.type \in IntegerTypes /\ e.function \in Decimals =>
          \E i \in TypeRange(d.mode) :
            /\ Signed(i, IntBits) = i /\ d.mode.bits \in Nat \ {0}
            /\ o.value = setDecodedValue(d.mode, <<i>>, "IntegerValue")
    BY <1>1, <1>3, <2>1, ExactDecoded
  <2> QED
    BY <1>3, <2>2, <2>3
<1>5. given[n] = decoded[n]
  <2>1. CASE ~ built
    BY <1>1, <2>1 DEF GivenFrom
  <2>2. CASE built
    <3>1. ReadsBack(n)
      BY <2>2
    <3>2. Rebuilt(n) = {<<decoded[n]>>}
      <4>1. CASE d.mode.type \in IntegerTypes
        <5>1. e.function \in Decimals
          BY <1>2, <3>1, <4>1 DEF ReadsBack, Integers, TwosComplement, Decimals, IntegerTypes
        <5> QED
          BY <1>4, <4>1, <5>1, RebuiltInteger
      <4>2. CASE d.mode.type \notin IntegerTypes
        BY <3>1, <4>2, RebuiltOther DEF ReadsBack
      <4> QED
        BY <4>1, <4>2
    <3> QED
      BY <1>1, <2>2, <3>2 DEF GivenFrom
  <2> QED
    BY <2>1, <2>2
<1>6. PICK b \in Encodings(e, d, lsb, decoded[n]) :
        encoded[n] = b.raw /\ (Reported(n, OutEncoded) <=> OutEncoded \in b.codes)
  BY <1>1, <1>5 DEF EncodedFrom
<1> HIDE DEF e, d, lsb
<1>7. b = Bits(e.raw, IF decoded[n].type = "StringValue" THEN {} ELSE checkValidityRange(d, v))
  BY <1>1, <1>4, <1>6, NumberEncoded
<1>8. OutEncoded \in checkValidityRange(d, v) <=> ~ InRange(d.range, v)
  BY DEF checkValidityRange, OutEncoded
<1>9. encoded[n] = <<e.raw>>
  BY <1>6, <1>7 DEF Bits
<1>10. d.mode.type # "StringValue" => (Reported(n, OutDecoded) <=> Reported(n, OutEncoded))
  BY <1>4, <1>6, <1>7, <1>8 DEF Bits
<1> QED
  BY <1>9, <1>10 DEF e, d

(* Decoder and encoder agree on whether an exact number is in its range,   *)
(* though one checks the product before it is converted and the other the  *)
(* value it was given (checkRangeOfValue, checkValidityRange).             *)
THEOREM VerdictsAgree == Spec => []RangeVerdictsAgree
<1>1. ASSUME DecoderInv, EncoderInv, ConversionInv
      PROVE  RangeVerdictsAgree
  <2> SUFFICES ASSUME pc = "done", NEW n \in DOMAIN record, Exact(n), ReadAsMeant(record[n]),
                      described[n].mode.type # "StringValue", encoded[n] # <<>>
               PROVE  <<n, "OUT_OF_RANGE_DECODED_ELEMENT">> \in failures
                        <=> <<n, "OUT_OF_RANGE_ENCODED_ELEMENT">> \in failures
    BY DEF RangeVerdictsAgree
  <2>1. ExactNumber(record[n], described[n].mode.type, decoderLsb[n])
    BY DEF Exact, ExactNumber, ReadAsMeant, Integers, TwosComplement
  <2>2. Compared(n) /\ (built => ReadsBack(n))
    BY DEF Exact, Compared
  <2>3. Reported(n, OutDecoded) <=> Reported(n, OutEncoded)
    BY <1>1, <2>1, <2>2, NumberComesBack
  <2> QED
    BY <2>3 DEF Reported, OutDecoded, OutEncoded
<1> QED
  BY <1>1, ConversionInvariant, PTL

-----------------------------------------------------------------------------
(* The digits of a number at its places, however many bits a digit has.    *)
LEMMA DivisionTwice ==
  ASSUME NEW a \in Nat, NEW b \in Nat \ {0}, NEW c \in Nat \ {0}
  PROVE  /\ b * c \in Nat \ {0}
         /\ (a \div b) \div c = a \div (b * c)
         /\ a % (b * c) = b * ((a \div b) % c) + (a % b)
<1> DEFINE q == a \div b
           r == a % b
           p == q \div c
           s == q % c
           m == b * c
           rest == b * s + r
<1>1. q \in Nat /\ r \in Nat /\ r < b /\ a = b * q + r
  BY Division, DivisionBelow
<1> HIDE DEF q, r
<1>2. p \in Nat /\ s \in Nat /\ s < c /\ q = c * p + s
  BY <1>1, Division, DivisionBelow
<1> HIDE DEF p, s
<1>3. \A x, y, z \in Nat : x * (y * z) = (x * y) * z /\ x * (y + z) = x * y + x * z /\ x * y \in Nat
  OBVIOUS
<1>4. b * q = m * p + b * s /\ m * p \in Nat /\ b * s \in Nat
  <2>1. c * p \in Nat /\ b * (c * p + s) = b * (c * p) + b * s /\ b * (c * p) = m * p
    BY <1>2, <1>3
  <2>2. m \in Nat
    BY <1>3
  <2> HIDE DEF m
  <2> QED
    BY <1>2, <1>3, <2>1, <2>2
<1>5. m \in Nat \ {0}
  BY \A x, y \in Nat \ {0} : x * y \in Nat \ {0}
<1>6. rest \in Nat /\ rest < m
  <2>1. s + 1 \in Nat /\ s + 1 <= c
    BY <1>2
  <2>2. b * (s + 1) <= m
    BY <2>1, Products
  <2>3. b * (s + 1) = b * s + b * 1 /\ b * 1 = b
    BY <1>2, <1>3
  <2> HIDE DEF m
  <2> QED
    BY <1>1, <1>4, <1>5, <2>2, <2>3
<1>7. a = m * p + rest
  <2> HIDE DEF m
  <2> QED
    BY <1>1, <1>4
<1> HIDE DEF rest, m
<1>8. a \div m = p /\ a % m = rest
  BY <1>2, <1>5, <1>6, <1>7, DivisionIsUnique
<1> QED
  BY <1>5, <1>8 DEF rest, m, p, q, r, s

(* Its quotient alone, from the same split of the number.                  *)
LEMMA QuotientTwice ==
  ASSUME NEW a \in Nat, NEW b \in Nat \ {0}, NEW c \in Nat \ {0}
  PROVE  (a \div b) \div c = a \div (b * c)
<1> DEFINE q == a \div b
           r == a % b
           p == q \div c
           s == q % c
           m == b * c
           rest == b * s + r
<1>1. q \in Nat /\ r \in Nat /\ r < b /\ a = b * q + r
  BY Division, DivisionBelow
<1> HIDE DEF q, r
<1>2. p \in Nat /\ s \in Nat /\ s < c /\ q = c * p + s
  BY <1>1, Division, DivisionBelow
<1> HIDE DEF p, s
<1>3. \A x, y, z \in Nat : x * (y * z) = (x * y) * z /\ x * (y + z) = x * y + x * z /\ x * y \in Nat
  OBVIOUS
<1>4. b * q = m * p + b * s /\ m * p \in Nat /\ b * s \in Nat
  <2>1. c * p \in Nat /\ b * (c * p + s) = b * (c * p) + b * s /\ b * (c * p) = m * p
    BY <1>2, <1>3
  <2>2. m \in Nat
    BY <1>3
  <2> HIDE DEF m
  <2> QED
    BY <1>2, <1>3, <2>1, <2>2
<1>5. m \in Nat \ {0}
  BY \A x, y \in Nat \ {0} : x * y \in Nat \ {0}
<1>6. rest \in Nat /\ rest < m
  <2>1. s + 1 \in Nat /\ s + 1 <= c
    BY <1>2
  <2>2. b * (s + 1) <= m
    BY <2>1, Products
  <2>3. b * (s + 1) = b * s + b * 1 /\ b * 1 = b
    BY <1>2, <1>3
  <2> HIDE DEF m
  <2> QED
    BY <1>1, <1>4, <1>5, <2>2, <2>3
<1>7. a = m * p + rest
  <2> HIDE DEF m
  <2> QED
    BY <1>1, <1>4
<1> HIDE DEF rest, m
<1>8. a \div m = p /\ a % m = rest
  BY <1>2, <1>5, <1>6, <1>7, DivisionIsUnique
<1> QED
  BY <1>8 DEF m, p, q

Places(raw, bits, n) == [j \in 1 .. n |-> (raw \div 2 ^ (bits * (n - j))) % 2 ^ bits]

LEMMA PlacesNext ==
  ASSUME NEW raw \in Nat, NEW bits \in Nat \ {0}, NEW n \in Nat
  PROVE  /\ Places(raw, bits, n) \in Seq(Nat)
         /\ Places(raw, bits, n + 1) = Append(Places(raw \div 2 ^ bits, bits, n), raw % 2 ^ bits)
<1> DEFINE R == 2 ^ bits
           At(j, m) == 2 ^ (bits * (m - j))
<1>1. R \in Nat \ {0}
  BY PowerNat
<1>2. ASSUME NEW m \in Nat, NEW j \in 1 .. m
      PROVE  At(j, m) \in Nat \ {0} /\ At(j, m + 1) = R * At(j, m)
  <2>1. m - j \in Nat /\ (m + 1) - j = (m - j) + 1
    BY <1>2
  <2>2. \A x, y \in Nat : x * y \in Nat /\ x * (y + 1) = x + x * y
    OBVIOUS
  <2>3. bits * (m - j) \in Nat /\ bits * ((m + 1) - j) = bits + bits * (m - j)
    BY <2>1, <2>2
  <2> QED
    BY <2>3, PowerNat, PowerSum
<1>3. ASSUME NEW x \in Nat, NEW m \in Nat
      PROVE  Places(x, bits, m) = [j \in 1 .. m |-> (x \div At(j, m)) % R]
  BY DEF Places
<1>4. \A x \in Nat, y \in Nat \ {0} : x \div y \in Nat /\ x % y \in Nat
  BY Division, DivisionBelow
<1>5. raw \div R \in Nat /\ raw % R \in Nat
  BY <1>1, <1>4
<1>6. ASSUME NEW x \in Nat, NEW m \in Nat
      PROVE  Places(x, bits, m) \in Seq(Nat) /\ Len(Places(x, bits, m)) = m
  <2>1. \A j \in 1 .. m : (x \div At(j, m)) % R \in Nat
    <3> HIDE DEF At, R
    <3> QED
      BY <1>1, <1>2, <1>4
  <2> HIDE DEF At, R
  <2>2. [j \in 1 .. m |-> (x \div At(j, m)) % R] \in Seq(Nat)
    BY <2>1
  <2>3. Len([j \in 1 .. m |-> (x \div At(j, m)) % R]) = m
    OBVIOUS
  <2> QED
    BY <1>3, <2>2, <2>3
<1> DEFINE shorter == Places(raw \div R, bits, n)
           longer == Places(raw, bits, n + 1)
           added == Append(shorter, raw % R)
<1>7. shorter \in Seq(Nat) /\ Len(shorter) = n /\ longer \in Seq(Nat) /\ Len(longer) = n + 1 /\ n + 1 \in Nat
  <2> DEFINE q == raw \div R
  <2>1. q \in Nat /\ n + 1 \in Nat
    BY <1>5
  <2> HIDE DEF q
  <2>2. Places(q, bits, n) \in Seq(Nat) /\ Len(Places(q, bits, n)) = n
    BY <1>6, <2>1
  <2>3. longer \in Seq(Nat) /\ Len(longer) = n + 1
    BY <1>6, <2>1
  <2> QED
    BY <2>1, <2>2, <2>3 DEF q
<1>8. added \in Seq(Nat) /\ Len(added) = n + 1 /\ added[n + 1] = raw % R /\ \A j \in 1 .. n : added[j] = shorter[j]
  <2> HIDE DEF shorter, R
  <2> QED
    BY <1>5, <1>7, AppendProperties
<1>9. ASSUME NEW j \in 1 .. n + 1
      PROVE  longer[j] = added[j]
  <2>1. longer[j] = (raw \div At(j, n + 1)) % R
    <3> DEFINE m == n + 1
    <3>1. m \in Nat /\ j \in 1 .. m
      OBVIOUS
    <3> HIDE DEF m, At, R
    <3>2. Places(raw, bits, m) = [i \in 1 .. m |-> (raw \div At(i, m)) % R]
      BY <1>3, <3>1
    <3> HIDE DEF longer
    <3>3. longer = Places(raw, bits, m)
      BY DEF longer, m
    <3>4. longer[j] = (raw \div At(j, m)) % R
      BY <3>1, <3>2, <3>3
    <3> QED
      BY <3>4 DEF m
  <2>2. CASE j = n + 1
    <3>1. At(j, n + 1) = 1
      <4>1. bits * ((n + 1) - j) = 0
        BY <2>2
      <4> QED
        BY <4>1, PowerZero
    <3>2. raw \div 1 = raw
      OBVIOUS
    <3> HIDE DEF At, R, longer, added
    <3> QED
      BY <1>8, <2>1, <2>2, <3>1, <3>2
  <2>3. CASE j # n + 1
    <3>1. j \in 1 .. n
      BY <2>3
    <3>2. shorter[j] = ((raw \div R) \div At(j, n)) % R
      <4> DEFINE q == raw \div R
      <4>1. q \in Nat
        BY <1>5
      <4> HIDE DEF q, At
      <4>2. Places(q, bits, n) = [i \in 1 .. n |-> (q \div At(i, n)) % R]
        BY <1>3, <4>1
      <4> QED
        BY <3>1, <4>2 DEF q
    <3>3. At(j, n) \in Nat \ {0} /\ At(j, n + 1) = R * At(j, n)
      BY <1>2, <3>1
    <3> HIDE DEF At, R, longer, added, shorter
    <3>4. (raw \div R) \div At(j, n) = raw \div (R * At(j, n))
      <4> DEFINE c == At(j, n)
      <4>1. c \in Nat \ {0}
        BY <3>3
      <4> HIDE DEF c
      <4>2. (raw \div R) \div c = raw \div (R * c)
        BY ONLY <1>1, <4>1, raw \in Nat, QuotientTwice
      <4> QED
        BY <4>2 DEF c
    <3> QED
      BY <1>8, <2>1, <3>1, <3>2, <3>3, <3>4
  <2> QED
    BY <2>2, <2>3
<1>10. longer = added
  <2> HIDE DEF longer, added
  <2> QED
    BY <1>7, <1>8, <1>9, SeqEqual
<1> QED
  BY <1>6, <1>10

LEMMA NumberOfPlaces ==
  ASSUME NEW bits \in Nat \ {0}, NEW n \in Nat, NEW raw \in Nat
  PROVE  NumberOf(Places(raw, bits, n), 2 ^ bits) = raw % 2 ^ (bits * n)
<1> DEFINE R == 2 ^ bits
           S == {m \in Nat : \A x \in Nat : NumberOf(Places(x, bits, m), R) = x % 2 ^ (bits * m)}
<1>1. R \in Nat \ {0}
  BY PowerNat
<1>2. 0 \in S
  <2>1. ASSUME NEW x \in Nat
        PROVE  NumberOf(Places(x, bits, 0), R) = x % 2 ^ (bits * 0)
    <3>1. Places(x, bits, 0) = <<>>
      BY DEF Places
    <3>2. bits * 0 = 0 /\ x % 1 = 0
      OBVIOUS
    <3>3. x % 2 ^ (bits * 0) = 0
      BY <3>2, PowerZero
    <3> HIDE DEF R
    <3> QED
      BY <1>1, <3>1, <3>3, NumberOfNone
  <2> QED
    BY <2>1
<1>3. ASSUME NEW m \in Nat, m \in S
      PROVE  m + 1 \in S
  <2>1. ASSUME NEW x \in Nat
        PROVE  NumberOf(Places(x, bits, m + 1), R) = x % 2 ^ (bits * (m + 1))
    <3> DEFINE q == x \div R
               r == x % R
               M == 2 ^ (bits * m)
    <3>1. q \in Nat /\ r \in Nat
      <4> HIDE DEF R
      <4> QED
        BY <1>1, Division, DivisionBelow
    <3>2. NumberOf(Places(q, bits, m), R) = q % M
      BY <1>3, <3>1
    <3>3. Places(q, bits, m) \in Seq(Nat) /\ Places(x, bits, m + 1) = Append(Places(q, bits, m), r)
      <4>1. Places(x, bits, m + 1) = Append(Places(q, bits, m), r)
        BY PlacesNext
      <4> HIDE DEF q, r
      <4> QED
        BY <3>1, <4>1, PlacesNext
    <3>4. 2 ^ (bits * (m + 1)) = R * M /\ M \in Nat \ {0}
      <4>1. bits * m \in Nat /\ bits * (m + 1) = bits + bits * m
        BY \A y, z \in Nat : y * z \in Nat /\ y * (z + 1) = y + y * z
      <4> QED
        BY <4>1, PowerSum, PowerNat
    <3>5. x % (R * M) = R * (q % M) + r
      <4> HIDE DEF R, M
      <4> QED
        BY <1>1, <3>4, DivisionTwice
    <3> HIDE DEF q, r, M, R
    <3>6. NumberOf(Append(Places(q, bits, m), r), R) = R * NumberOf(Places(q, bits, m), R) + r
      BY <1>1, <3>1, <3>3, NumberOfLonger
    <3> QED
      BY <3>2, <3>3, <3>4, <3>5, <3>6
  <2> QED
    BY <2>1
<1>4. n \in S
  <2> HIDE DEF S
  <2> QED
    BY <1>2, <1>3, AllNumbers
<1> QED
  BY <1>4

-----------------------------------------------------------------------------
(* Texts that are exact come back.                                         *)
AllSequences(S, ss) == \A i \in 1 .. Len(ss) : ss[i] \in Seq(S)

(* What is flattened begins with the first of the sequences.               *)
LEMMA FlattenStarts ==
  ASSUME NEW S, NEW ss, Len(ss) \in Nat \ {0}, AllSequences(S, ss)
  PROVE  /\ Len(FlattenSeq(ss)) \in Nat /\ Len(ss[1]) <= Len(FlattenSeq(ss))
         /\ \A j \in 1 .. Len(ss[1]) : FlattenSeq(ss)[j] = ss[1][j]
<1> DEFINE l == Len(ss)
           Step(f, i) == IF i = 1 THEN ss[i] ELSE f[i - 1] \o ss[i]
           Is(f, m) == f = [i \in 1 .. m |-> Step(f, i)]
           Done == {m \in Nat : \E f : Is(f, m)}
           flat == CHOOSE f : Is(f, l)
           Starts(t) == /\ t \in Seq(S) /\ Len(ss[1]) <= Len(t)
                        /\ \A j \in 1 .. Len(ss[1]) : t[j] = ss[1][j]
           Good == {m \in Nat : m \in 1 .. l => Starts(flat[m])}
<1>1. l \in Nat /\ l # 0 /\ \A i \in 1 .. l : ss[i] \in Seq(S)
  BY DEF AllSequences
<1>2. 0 \in Done
  <2>1. Is([i \in 1 .. 0 |-> 0], 0)
    OBVIOUS
  <2> HIDE DEF Is
  <2> QED
    BY <2>1
<1>3. ASSUME NEW m \in Nat, m \in Done
      PROVE  m + 1 \in Done
  <2>1. PICK f : Is(f, m)
    BY <1>3
  <2> DEFINE g == [i \in 1 .. m + 1 |-> IF i = m + 1 THEN Step(f, i) ELSE f[i]]
  <2>2. ASSUME NEW i \in 1 .. m + 1
        PROVE  g[i] = Step(g, i)
    <3>1. i # 1 => i - 1 \in 1 .. m + 1 /\ i - 1 # m + 1
      OBVIOUS
    <3>2. i # 1 => g[i - 1] = f[i - 1]
      BY <3>1
    <3>3. i # m + 1 => i \in 1 .. m
      OBVIOUS
    <3>4. g[i] = Step(f, i)
      BY <2>1, <3>3
    <3> HIDE DEF g
    <3> QED
      BY <3>2, <3>4
  <2>3. g = [i \in 1 .. m + 1 |-> g[i]]
    OBVIOUS
  <2>4. Is(g, m + 1)
    <3> HIDE DEF g, Step
    <3> QED
      BY <2>2, <2>3
  <2> HIDE DEF Is
  <2> QED
    BY <2>4
<1>4. l \in Done
  <2> HIDE DEF Done
  <2> QED
    BY <1>1, <1>2, <1>3, AllNumbers
<1>5. Is(flat, l)
  <2> HIDE DEF Is, l
  <2> QED
    BY <1>4
<1>6. FlattenSeq(ss) = flat[l]
  BY <1>1 DEF FlattenSeq
<1>7. \A i \in 1 .. l : flat[i] = IF i = 1 THEN ss[i] ELSE flat[i - 1] \o ss[i]
  <2> HIDE DEF flat
  <2> QED
    BY <1>5
<1> HIDE DEF flat, l
<1>8. Starts(ss[1])
  <2>1. ss[1] \in Seq(S)
    BY <1>1
  <2>2. Len(ss[1]) \in Nat
    BY <2>1, LenProperties
  <2> QED
    BY <2>1, <2>2
<1>9. ASSUME NEW t, Starts(t), NEW u \in Seq(S)
      PROVE  Starts(t \o u)
  <2>1. /\ t \o u \in Seq(S) /\ Len(t \o u) = Len(t) + Len(u)
        /\ \A i \in 1 .. Len(t) + Len(u) : (t \o u)[i] = IF i <= Len(t) THEN t[i] ELSE u[i - Len(t)]
    BY <1>9, ConcatProperties
  <2>2. Len(t) \in Nat /\ Len(u) \in Nat /\ Len(ss[1]) \in Nat
    BY <1>8, <1>9, LenProperties
  <2>3. Len(ss[1]) <= Len(t) + Len(u)
    BY <1>9, <2>2
  <2>4. \A i \in 1 .. Len(ss[1]) : i \in 1 .. Len(t) + Len(u) /\ i <= Len(t)
    BY <1>9, <2>2
  <2> QED
    BY <1>9, <2>1, <2>3, <2>4
<1>10. ASSUME NEW m \in Nat, m \in Good
       PROVE  m + 1 \in Good
  <2>1. CASE m = 0
    <3>1. m + 1 = 1
      BY <2>1
    <3>2. 1 \in 1 .. l => flat[1] = ss[1]
      BY <1>7
    <3> HIDE DEF Starts
    <3>3. 1 \in 1 .. l => Starts(flat[1])
      BY <1>8, <3>2
    <3> QED
      BY <3>1, <3>3
  <2>2. CASE m # 0 /\ m + 1 \in 1 .. l
    <3>1. m \in 1 .. l /\ m + 1 # 1 /\ (m + 1) - 1 = m
      BY <1>1, <2>2
    <3>2. flat[m + 1] = flat[m] \o ss[m + 1] /\ Starts(flat[m]) /\ ss[m + 1] \in Seq(S)
      BY <1>1, <1>7, <1>10, <2>2, <3>1
    <3> HIDE DEF Starts
    <3>3. Starts(flat[m + 1]) /\ m + 1 \in Nat
      BY <1>9, <3>2
    <3> QED
      BY <3>3
  <2>3. CASE m + 1 \notin 1 .. l
    BY <2>3
  <2> HIDE DEF Good
  <2> QED
    BY <2>1, <2>2, <2>3
<1>11. 0 \in Good
  OBVIOUS
<1>12. Starts(flat[l])
  <2>1. l \in Good
    <3> HIDE DEF Good
    <3> QED
      BY <1>1, <1>10, <1>11, AllNumbers
  <2>2. l \in 1 .. l
    BY <1>1
  <2> QED
    BY <2>1, <2>2
<1> QED
  BY <1>6, <1>12, LenProperties

(* A text that begins with the bytes of an element.                        *)
BeginsWith(s, bytes) ==
  Len(s) \in Nat /\ Len(bytes) <= Len(s) /\ \A j \in 1 .. Len(bytes) : s[j] = bytes[j]

Bytes(e) == Places(e.raw, ByteBits, BytesFor(e.bits))

(* With no zero among the bytes, what the decoder appends for the first    *)
(* of them is all of them.                                                 *)
LEMMA AsciiDecoded ==
  ASSUME NEW e, Element(e), e.bits % ByteBits = 0, NEW d,
         \A j \in 1 .. BytesFor(e.bits) : ByteAt(e.raw, e.bits, j) # 0
  PROVE  \E s : toAscii(e, d) = StringOutcome(d, s) /\ BeginsWith(s, Bytes(e))
<1> DEFINE n == BytesFor(e.bits)
           byte == [j \in 1 .. n |-> ByteAt(e.raw, e.bits, j)]
           ends(j) == {i \in j .. Len(byte) : byte[i] = 0}
           CString(j) == SubSeq(byte, j, IF ends(j) = {} THEN Len(byte) ELSE Min(ends(j)) - 1)
           strings == [j \in DOMAIN byte |-> CString(j)]
           s == FlattenSeq(strings)
<1>1. toAscii(e, d) = StringOutcome(d, s)
  BY DEF toAscii
<1>2. n \in Nat \ {0} /\ e.raw \in Nat
  BY WholeBytes DEF Element
<1>3. byte = Bytes(e)
  BY DEF Bytes, Places, ByteAt
<1>4. /\ byte \in Seq(Nat) /\ Len(byte) = n /\ DOMAIN byte = 1 .. n
      /\ \A j \in 1 .. n : byte[j] # 0 /\ byte[j] \in Nat
  <2>1. Bytes(e) \in Seq(Nat)
    BY <1>2, Widths, PlacesNext DEF Bytes
  <2>2. Len(byte) = n /\ DOMAIN byte = 1 .. n
    BY <1>2
  <2>3. byte \in Seq(Nat)
    BY <1>3, <2>1
  <2>4. \A j \in 1 .. n : byte[j] # 0
    OBVIOUS
  <2> HIDE DEF byte
  <2>5. \A j \in 1 .. n : byte[j] \in Nat
    BY <2>2, <2>3, ElementOfSeq
  <2> QED
    BY <2>2, <2>3, <2>4, <2>5
<1> HIDE DEF byte, n
<1>5. ASSUME NEW j \in 1 .. n
      PROVE  strings[j] = SubSeq(byte, j, n) /\ strings[j] \in Seq(Nat)
  <2>1. ends(j) = {}
    <3>1. \A i \in j .. n : i \in 1 .. n
      BY <1>2
    <3> QED
      BY <1>4, <3>1
  <2>2. strings[j] = SubSeq(byte, j, n)
    BY <1>4, <2>1
  <2>3. j \in Int /\ n \in Int /\ \A i \in j .. n : byte[i] \in Nat
    BY <1>2, <1>4
  <2> HIDE DEF strings
  <2> QED
    BY <2>2, <2>3, SubSeqProperties
<1>6. Len(strings) = n
  BY <1>2, <1>4
<1> HIDE DEF strings
<1>7. strings[1] = byte
  BY <1>2, <1>4, <1>5, SubSeqFull
<1>8. AllSequences(Nat, strings)
  BY <1>5, <1>6 DEF AllSequences
<1>9. BeginsWith(s, byte)
  <2>1. Len(strings) \in Nat \ {0}
    BY <1>2, <1>6
  <2>2. /\ Len(s) \in Nat /\ Len(strings[1]) <= Len(s)
        /\ \A j \in 1 .. Len(strings[1]) : s[j] = strings[1][j]
    BY <1>8, <2>1, FlattenStarts
  <2> HIDE DEF s
  <2> QED
    BY <1>7, <2>2 DEF BeginsWith
<1> QED
  BY <1>1, <1>3, <1>9

(* All the places together are the bits of the element.                    *)
LEMMA NumberRestored ==
  ASSUME NEW e, Element(e), NEW bits \in Nat \ {0}, NEW n \in Nat, bits * n = e.bits
  PROVE  NumberOf(Places(e.raw, bits, n), 2 ^ bits) = e.raw
<1> DEFINE m == 2 ^ e.bits
<1>1. m \in Nat \ {0} /\ e.raw \in 0 .. m - 1
  BY PowerNat DEF Element
<1> HIDE DEF m
<1>2. e.raw \in Nat /\ e.raw < m
  BY <1>1
<1>3. e.raw % m = e.raw
  BY <1>1, <1>2, SmallRemainder
<1> QED
  BY <1>2, <1>3, NumberOfPlaces DEF m

LEMMA AsciiEncoded ==
  ASSUME NEW e, Element(e), e.bits % ByteBits = 0, NEW x, x.type = "StringValue",
         BeginsWith(x.value, Bytes(e)), NEW b \in encodeAscii(e, x)
  PROVE  b.raw = <<e.raw>>
<1> DEFINE n == BytesFor(e.bits)
           byte(j, g) == IF j <= Len(x.value) THEN x.value[j] ELSE IF j = Len(x.value) + 1 THEN 0 ELSE g
           all(g) == [j \in 1 .. n |-> byte(j, g)]
<1>1. n \in Nat \ {0} /\ ByteBits * n = e.bits /\ ByteBits \in Nat \ {0} /\ e.raw \in Nat
  BY WholeBytes, Widths DEF Element
<1>2. PICK g : b = Bits(NumberOf(all(g), 2 ^ ByteBits) \div 2 ^ (n * ByteBits - e.bits), {})
  BY DEF encodeAscii
<1>3. all(g) = Bytes(e)
  <2>1. Bytes(e) = [j \in 1 .. n |-> (e.raw \div 2 ^ (ByteBits * (n - j))) % 2 ^ ByteBits]
    BY DEF Bytes, Places
  <2>2. Len(Bytes(e)) = n
    BY <1>1, <2>1
  <2>3. \A j \in 1 .. n : byte(j, g) = Bytes(e)[j]
    <3> HIDE DEF n
    <3> QED
      BY <1>1, <2>2 DEF BeginsWith
  <2> HIDE DEF byte
  <2>4. Bytes(e) = [j \in 1 .. n |-> Bytes(e)[j]]
    BY <2>1
  <2> QED
    BY <2>3, <2>4
<1>4. 2 ^ (n * ByteBits - e.bits) = 1
  <2>1. \A x_, y_ \in Nat : x_ * y_ = y_ * x_
    OBVIOUS
  <2>2. n * ByteBits - e.bits = 0
    <3> DEFINE whole == n * ByteBits
    <3>1. whole = e.bits /\ e.bits \in Nat
      BY <1>1, <2>1 DEF Element
    <3> HIDE DEF whole
    <3>2. whole - e.bits = 0
      BY <3>1
    <3> QED
      BY <3>2 DEF whole
  <2> QED
    BY <2>2, PowerZero
<1>5. NumberOf(Bytes(e), 2 ^ ByteBits) = e.raw
  BY <1>1, NumberRestored DEF Bytes
<1>6. e.raw \div 1 = e.raw
  BY <1>1
<1> QED
  BY <1>2, <1>3, <1>4, <1>5, <1>6 DEF Bits

(* The characters of a target identification, each of which the alphabet   *)
(* holds once.                                                             *)
Characters(e) ==
  LET chars == e.bits \div CharBits
  IN [i \in 1 .. chars |-> IcaoAlphabet[Places(e.raw, CharBits, chars)[i] + 1]]

Unambiguous(s) ==
  \A i \in DOMAIN s : Cardinality({a \in DOMAIN IcaoAlphabet : IcaoAlphabet[a] = s[i]}) = 1

LEMMA TargetIdDecoded ==
  ASSUME NEW e, NEW d
  PROVE  toTargetId(e, d) = StringOutcome(d, Characters(e))
<1> DEFINE chars == e.bits \div CharBits
<1>1. \A i \in 1 .. chars : Places(e.raw, CharBits, chars)[i]
                              = (e.raw \div 2 ^ (CharBits * (chars - i))) % 2 ^ CharBits
  BY DEF Places
<1> HIDE DEF chars
<1>2. [i \in 1 .. chars |-> IcaoAlphabet[Places(e.raw, CharBits, chars)[i] + 1]]
        = [i \in 1 .. chars |-> IcaoAlphabet[((e.raw \div 2 ^ (CharBits * (chars - i))) % 2 ^ CharBits) + 1]]
  BY <1>1
<1> QED
  BY <1>2 DEF toTargetId, Characters, chars

LEMMA IndexOfCharacter ==
  ASSUME NEW a \in DOMAIN IcaoAlphabet, Unambiguous(<<IcaoAlphabet[a]>>)
  PROVE  IndexInAlphabet(IcaoAlphabet[a]) = a - 1
<1> DEFINE c == IcaoAlphabet[a]
           S == {i \in DOMAIN IcaoAlphabet : IcaoAlphabet[i] = c}
<1>1. a \in Int /\ IsFiniteSet(DOMAIN IcaoAlphabet)
  <2>1. DOMAIN IcaoAlphabet = 1 .. 2 ^ CharBits /\ CharBits \in 1 .. ByteBits
    BY AlphabetAssumption
  <2>2. 2 ^ CharBits \in Nat
    BY <2>1, Widths, PowerNat
  <2> HIDE DEF c
  <2> QED
    BY <2>1, <2>2, FS_Interval
<1>2. Cardinality(S) = 1
  <2>1. 1 \in DOMAIN <<c>> /\ <<c>>[1] = c
    OBVIOUS
  <2> HIDE DEF c
  <2> QED
    BY <2>1 DEF Unambiguous, c
<1>3. IsFiniteSet(S) /\ a \in S
  <2>1. S \subseteq DOMAIN IcaoAlphabet
    OBVIOUS
  <2> QED
    BY <1>1, <2>1, FS_Subset
<1> HIDE DEF S
<1>4. S = {a}
  <2>1. PICK z : S = {z}
    BY <1>2, <1>3, FS_Singleton
  <2> QED
    BY <1>3, <2>1
<1>5. Min(S) = a
  <2>1. \E m \in S : \A y \in S : m <= y
    BY <1>1, <1>4
  <2> QED
    BY <1>1, <1>4, <2>1 DEF Min
<1> QED
  BY <1>5 DEF IndexInAlphabet, S, c

LEMMA TargetIdEncoded ==
  ASSUME NEW e, Element(e), e.bits % CharBits = 0, NEW x, x.type = "StringValue",
         x.value = Characters(e), Unambiguous(x.value), NEW b \in encodeTargetId(e, x)
  PROVE  b.raw = <<e.raw>>
<1> DEFINE chars == e.bits \div CharBits
           places == Places(e.raw, CharBits, chars)
           indices == [i \in DOMAIN x.value |-> IndexInAlphabet(x.value[i])]
<1>1. /\ CharBits \in Nat \ {0} /\ e.raw \in Nat /\ e.bits \in Nat
      /\ DOMAIN IcaoAlphabet = 1 .. 2 ^ CharBits
  BY AlphabetAssumption, Widths DEF Element
<1>2. chars \in Nat /\ CharBits * chars = e.bits
  <2>1. chars \in Nat /\ e.bits = CharBits * chars + (e.bits % CharBits)
    <3>1. \A y \in Nat, z \in Nat \ {0} : y \div z \in Nat /\ y = z * (y \div z) + (y % z)
      BY Division, DivisionBelow
    <3> QED
      BY <1>1, <3>1
  <2> HIDE DEF chars
  <2> DEFINE whole == CharBits * chars
  <2>2. whole \in Nat /\ e.bits = whole + 0
    BY <1>1, <2>1
  <2> HIDE DEF whole
  <2>3. whole = e.bits
    BY <2>2
  <2> QED
    BY <2>1, <2>3 DEF whole
<1> HIDE DEF chars
<1>3. b.raw = <<NumberOf(indices, 2 ^ CharBits)>>
  BY DEF encodeTargetId, Bits
<1>4. DOMAIN x.value = 1 .. chars /\ \A i \in 1 .. chars : x.value[i] = IcaoAlphabet[places[i] + 1]
  BY DEF Characters, chars
<1>5. ASSUME NEW i \in 1 .. chars
      PROVE  IndexInAlphabet(x.value[i]) = places[i]
  <2> DEFINE R == 2 ^ CharBits
             p == places[i]
             q == e.raw \div 2 ^ (CharBits * (chars - i))
  <2>1. R \in Nat \ {0}
    BY <1>1, PowerNat
  <2>2. q \in Nat
    <3>1. chars - i \in Nat
      BY <1>2
    <3>2. CharBits * (chars - i) \in Nat
      BY <1>1, <3>1, \A y, z \in Nat : y * z \in Nat
    <3>3. 2 ^ (CharBits * (chars - i)) \in Nat \ {0}
      BY <3>2, PowerNat
    <3> QED
      BY <1>1, <3>3, DivisionBelow
  <2>3. p = q % R
    BY DEF Places
  <2> HIDE DEF R, p, q
  <2>4. p \in Nat /\ p < R
    BY <2>1, <2>2, <2>3, Division
  <2>5. p + 1 \in DOMAIN IcaoAlphabet /\ (p + 1) - 1 = p
    BY <1>1, <2>1, <2>4 DEF R
  <2>6. x.value[i] = IcaoAlphabet[p + 1]
    BY <1>4 DEF p
  <2>7. Unambiguous(<<IcaoAlphabet[p + 1]>>)
    <3>1. Cardinality({a \in DOMAIN IcaoAlphabet : IcaoAlphabet[a] = x.value[i]}) = 1
      BY <1>4 DEF Unambiguous
    <3> DEFINE c == IcaoAlphabet[p + 1]
    <3>2. Cardinality({a \in DOMAIN IcaoAlphabet : IcaoAlphabet[a] = c}) = 1
      BY <2>6, <3>1
    <3> HIDE DEF c
    <3>3. \A i_ \in DOMAIN <<c>> : <<c>>[i_] = c
      OBVIOUS
    <3>4. Unambiguous(<<c>>)
      BY <3>2, <3>3 DEF Unambiguous
    <3> QED
      BY <3>4 DEF c
  <2> QED
    BY <2>5, <2>6, <2>7, IndexOfCharacter DEF p
<1>6. indices = places
  <2>1. places = [i \in 1 .. chars |-> places[i]]
    BY DEF Places
  <2> HIDE DEF places
  <2> QED
    BY <1>4, <1>5, <2>1
<1>7. NumberOf(places, 2 ^ CharBits) = e.raw
  BY <1>1, <1>2, NumberRestored
<1> QED
  BY <1>3, <1>6, <1>7

(* A number narrower than a long is written as it was read.                *)
LEMMA MBDataEncoded ==
  ASSUME NEW e, Element(e), e.bits < LongBits, NEW x, x.type = "StringValue",
         x.value = <<e.raw>>, NEW b \in encodeMBData(e, x)
  PROVE  b.raw = <<e.raw>>
<1> DEFINE m == 2 ^ e.bits
           M == 2 ^ (LongBits - 1)
           S == {e.raw, M - 1}
<1>1. e.bits \in Nat /\ LongBits - 1 \in Nat /\ e.bits <= LongBits - 1
  BY Widths DEF Element
<1>2. m \in Nat \ {0} /\ M \in Nat \ {0} /\ m <= M
  BY <1>1, PowerMonotonic, PowerNat
<1>3. e.raw \in 0 .. m - 1
  BY DEF Element
<1>4. b.raw = <<getRawElement(Min(S), e.bits)>>
  <2>1. x.value[1] = e.raw
    OBVIOUS
  <2> QED
    BY <2>1 DEF encodeMBData, Bits
<1>5. getRawElement(e.raw, e.bits) = e.raw % m
  BY DEF getRawElement
<1> HIDE DEF m, M
<1>6. e.raw \in Nat /\ e.raw < m /\ e.raw <= M - 1 /\ M - 1 \in Nat
  BY <1>2, <1>3
<1>7. Min(S) = e.raw
  <2>1. \A y \in S : y \in Nat /\ e.raw <= y
    BY <1>6
  <2>2. e.raw \in S
    OBVIOUS
  <2> HIDE DEF S
  <2>3. Min(S) \in S /\ \A y \in S : Min(S) <= y
    <3>1. \E z \in S : \A y \in S : z <= y
      BY <2>1, <2>2
    <3> QED
      BY <3>1 DEF Min
  <2> QED
    BY <1>6, <2>1, <2>2, <2>3
<1>8. e.raw % m = e.raw
  BY <1>2, <1>6, SmallRemainder
<1> QED
  BY <1>4, <1>5, <1>7, <1>8

(* What the encoder makes bits of is the text that was decoded, also when  *)
(* a client built the record: a number is given no bits by the function of *)
(* a text.                                                                 *)
LEMMA TextEncoded ==
  ASSUME DecoderInv, EncoderInv, ConversionInv, pc = "done", NEW n \in DOMAIN record,
         encoded[n] # <<>>, Compared(n), record[n].function \in Strings, NEW s,
         Decodings(record[n], described[n], decoderLsb[n]) = StringOutcome(described[n], s)
  PROVE  /\ given[n].type = "StringValue" /\ given[n].value = s
         /\ decoded[n].type = "StringValue" => decoded[n].value = s
         /\ \E b \in Encodings(record[n], described[n], encoderLsb[n], given[n]) : encoded[n] = b.raw
<1> DEFINE e == record[n]
           d == described[n]
           class == described[n].mode
<1>1. DecodedFrom(n) /\ GivenFrom(n) /\ EncodedFrom(n)
  BY CodedElement
<1>2. PICK b \in Encodings(e, d, encoderLsb[n], given[n]) : encoded[n] = b.raw
  BY <1>1 DEF EncodedFrom
<1>3. given[n].type = "StringValue"
  <2> SUFFICES ASSUME given[n].type # "StringValue" PROVE FALSE
    OBVIOUS
  <2>1. \/ b \in encodeAscii(e, given[n]) \/ b \in encodeTargetId(e, given[n])
        \/ b \in encodeMBData(e, given[n])
    BY <1>2 DEF Encodings, Strings, Integers, TwosComplement
  <2>2. b = NotAString
    BY <2>1 DEF encodeAscii, encodeTargetId, encodeMBData
  <2>3. b.raw = <<>>
    BY <2>2 DEF NotAString, NoBits
  <2> QED
    BY <1>2, <2>3
<1>4. PICK o \in StringOutcome(d, s) : decoded[n] = o.value
  BY <1>1 DEF DecodedFrom, Known
<1>5. decoded[n] = setDecodedValue(StringValue, s, "StringValue") \/ decoded[n] = Null
  BY <1>4 DEF StringOutcome, Outcome
<1>6. decoded[n].type = "StringValue" => decoded[n].value = s
  BY <1>5 DEF setDecodedValue, Null
<1>7. given[n] = decoded[n]
  <2>1. CASE ~ built
    BY <1>1, <2>1 DEF GivenFrom
  <2>2. CASE built
    <3>1. PICK v \in Rebuilt(n) : v # <<>> /\ given[n] = v[1]
      BY <1>1, <2>2 DEF GivenFrom
    <3>2. record[n].function \notin {"toHexadecimal", "toOctal"}
      BY DEF Strings
    <3>3. class.type \notin IntegerTypes
      <4> SUFFICES ASSUME class.type \in IntegerTypes PROVE FALSE
        OBVIOUS
      <4> DEFINE text == getDecodedDataInString(decoded[n])
      <4>1. class # StringValue /\ class.type # "StringValue"
        BY DEF StringValue, Class, IntegerTypes
      <4>2. TextsFor(record[n], text) = {text} /\ {text} # {}
        BY <3>2 DEF TextsFor
      <4>3. Rebuilt(n) = {} \cup {ValueOfText(class, t) : t \in {text}}
        BY <4>1, <4>2 DEF Rebuilt
      <4>4. v = ValueOfText(class, text)
        BY <3>1, <4>3
      <4>5. given[n].type = class.type
        BY <3>1, <4>4 DEF ValueOfText, setDecodedValue
      <4> QED
        BY <1>3, <4>1, <4>5
    <3>4. Rebuilt(n) = {<<decoded[n]>>}
      BY <3>2, <3>3, RebuiltOther
    <3> QED
      BY <3>1, <3>4
  <2> QED
    BY <2>1, <2>2
<1> QED
  BY <1>2, <1>3, <1>6, <1>7

(* What was decoded exactly is encoded to the bits it came from, whatever  *)
(* comes before it in the record, also when a client reads the texts of    *)
(* the values and builds a new record of them (DecodingUtils.cpp,          *)
(* ElementEncodingUtils.cpp).                                              *)
THEOREM EncodedAsItWas == Spec => []RoundTrip
<1>1. ASSUME DecoderInv, EncoderInv, ConversionInv, pc = "done", NEW n \in DOMAIN record,
             Exact(n), encoded[n] # <<>>
      PROVE  encoded[n] = <<record[n].raw>>
  <2> DEFINE e == record[n]
             d == described[n]
             lsb == decoderLsb[n]
             Text(s) == /\ given[n].type = "StringValue" /\ given[n].value = s
                        /\ decoded[n].type = "StringValue" => decoded[n].value = s
                        /\ \E b \in Encodings(e, d, encoderLsb[n], given[n]) : encoded[n] = b.raw
  <2>1. Compared(n) /\ (built => ReadsBack(n))
    BY <1>1 DEF Exact, Compared
  <2>2. Element(e) /\ record \in Records /\ e \in ToSet(record)
    <3>1. n \in DOMAIN decoded
      BY <1>1, <2>1, CodedElement
    <3> QED
      BY <1>1, <3>1, DecodedElement DEF DecoderInv
  <2>3. ASSUME e.function \in Strings, NEW s, Decodings(e, d, lsb) = StringOutcome(d, s)
        PROVE  Text(s)
    BY <1>1, <2>1, <2>3, TextEncoded
  <2>4. CASE ExactNumber(e, d.mode.type, lsb)
    BY <1>1, <2>1, <2>4, NumberComesBack
  <2>5. CASE /\ e.function = "toASCII" /\ e.bits % ByteBits = 0
             /\ \A j \in 1 .. BytesFor(e.bits) : ByteAt(e.raw, e.bits, j) # 0
    <3>1. PICK s : toAscii(e, d) = StringOutcome(d, s) /\ BeginsWith(s, Bytes(e))
      BY <2>2, <2>5, AsciiDecoded
    <3>2. Decodings(e, d, lsb) = toAscii(e, d) /\ e.function \in Strings
      BY <2>5 DEF Decodings, Strings
    <3>3. Text(s)
      BY <2>3, <3>1, <3>2
    <3>4. PICK b \in encodeAscii(e, given[n]) : encoded[n] = b.raw
      BY <2>5, <3>3 DEF Encodings, Integers, TwosComplement
    <3> QED
      BY <2>2, <2>5, <3>1, <3>3, <3>4, AsciiEncoded
  <2>6. CASE e.function = "toMBData" /\ e.bits < LongBits
    <3>1. Decodings(e, d, lsb) = StringOutcome(d, <<e.raw>>) /\ e.function \in Strings
      BY <2>6 DEF Decodings, Strings, toMBData
    <3>2. Text(<<e.raw>>)
      BY <2>3, <3>1
    <3>3. PICK b \in encodeMBData(e, given[n]) : encoded[n] = b.raw
      BY <2>6, <3>2 DEF Encodings, Integers, TwosComplement
    <3> QED
      BY <2>2, <2>6, <3>2, <3>3, MBDataEncoded
  <2>7. CASE /\ e.function = "toTargetId" /\ decoded[n].type = "StringValue"
             /\ Unambiguous(decoded[n].value)
    <3>1. e.bits % CharBits = 0
      BY <2>2, <2>7, AlphabetAssumption
    <3>2. Decodings(e, d, lsb) = toTargetId(e, d) /\ e.function \in Strings
      BY <2>7 DEF Decodings, Strings
    <3>3. Text(Characters(e))
      BY <2>3, <3>2, TargetIdDecoded
    <3>4. PICK b \in encodeTargetId(e, given[n]) : encoded[n] = b.raw
      BY <2>7, <3>3 DEF Encodings, Integers, TwosComplement
    <3> QED
      BY <2>2, <2>7, <3>1, <3>3, <3>4, TargetIdEncoded
  <2> QED
    BY <1>1, <2>4, <2>5, <2>6, <2>7 DEF Exact, ExactNumber, Unambiguous
<1>2. ASSUME DecoderInv, EncoderInv, ConversionInv
      PROVE  RoundTrip
  BY <1>1, <1>2 DEF RoundTrip
<1> QED
  BY <1>2, ConversionInvariant, PTL
================================================================================

--------------------------- MODULE TransmitProofs ---------------------------
(* Proofs about Frame and Transmit, for every value the sensors may measure, *)
(* every identity, and every burst of up to 8 bits.                          *)
(*                                                                          *)
(* First the checksum: a byte's bits, the linearity of the eight shifts, and *)
(* the recursion over the bytes of a frame; then what is sent and received;  *)
(* then the invariants.                                                      *)
EXTENDS Transmit, SequenceTheorems, WellFoundedInduction, TLAPS

-----------------------------------------------------------------------------
(* Induction over a set of numbers. *)

\* A nonempty set of numbers has a least one.
LEMMA LeastNumber ==
  ASSUME NEW T, T \subseteq Nat, T # {}
  PROVE  \E m \in T : \A k \in T : m <= k
<1>1. PICK m \in T : \A k \in T : <<k, m>> \notin OpToRel(<, Nat)
  BY WFMin, NatLessThanWellFounded, Zenon
<1>2. \A k \in T : ~(k < m)
  BY <1>1, Zenon DEF OpToRel
<1> QED
  BY <1>2

LEMMA Induction ==
  ASSUME NEW S, S \subseteq Nat, 0 \in S, \A n \in S : n + 1 \in S
  PROVE  S = Nat
<1> DEFINE T == Nat \ S
<1>1. ASSUME T # {} PROVE FALSE
  <2>1. PICK m \in T : \A k \in T : m <= k
    BY <1>1, LeastNumber
  <2>2. m \in Nat /\ m \notin S
    BY Zenon
  <2>3. m - 1 \in Nat /\ ~(m <= m - 1) /\ (m - 1) + 1 = m
    BY <2>2
  <2>4. m - 1 \in S
    BY <2>1, <2>3, Zenon
  <2>5. (m - 1) + 1 \in S
    BY <2>4, Zenon
  <2> QED
    BY <2>2, <2>3, <2>5, Zenon
<1> QED
  BY <1>1

-----------------------------------------------------------------------------
(* A byte and its bits. *)

Reg == SUBSET (0 .. 7)

\* Two sets of exponents are equal if they agree on the eight of them.
LEMMA RegEqual ==
  ASSUME NEW x \in Reg, NEW y \in Reg,
         0 \in x <=> 0 \in y, 1 \in x <=> 1 \in y, 2 \in x <=> 2 \in y, 3 \in x <=> 3 \in y,
         4 \in x <=> 4 \in y, 5 \in x <=> 5 \in y, 6 \in x <=> 6 \in y, 7 \in x <=> 7 \in y
  PROVE  x = y
<1> SUFFICES ASSUME NEW k \in 0 .. 7 PROVE k \in x <=> k \in y
  BY DEF Reg
<1>1. k \in {0, 1, 2, 3, 4, 5, 6, 7}
  OBVIOUS
<1> QED
  BY <1>1

LEMMA NumberType == ASSUME NEW x \in Reg PROVE Number(x) \in 0 .. 255
BY DEF Reg, Number

LEMMA NumberInjective ==
  ASSUME NEW x \in Reg, NEW y \in Reg, Number(x) = Number(y) PROVE x = y
BY RegEqual DEF Number

LEMMA BitsExist == ASSUME NEW v \in 0 .. 255 PROVE \E x \in Reg : Number(x) = v
<1> DEFINE x == {k \in 0 .. 7 : \/ k = 0 /\ v % 2 = 1
                                \/ k = 1 /\ (v \div 2) % 2 = 1
                                \/ k = 2 /\ (v \div 4) % 2 = 1
                                \/ k = 3 /\ (v \div 8) % 2 = 1
                                \/ k = 4 /\ (v \div 16) % 2 = 1
                                \/ k = 5 /\ (v \div 32) % 2 = 1
                                \/ k = 6 /\ (v \div 64) % 2 = 1
                                \/ k = 7 /\ (v \div 128) % 2 = 1}
<1>1. x \in Reg
  BY DEF Reg
<1>2. Number(x) = v
  BY DEF Number
<1> QED
  BY <1>1, <1>2

\* The bits of a byte are those whose number it is.
LEMMA BitsOfType ==
  ASSUME NEW v \in Byte
  PROVE  BitsOf[v] \in Reg /\ Number(BitsOf[v]) = v
BY BitsExist DEF BitsOf, Byte, Reg

LEMMA BitsOfNumber == ASSUME NEW x \in Reg PROVE BitsOf[Number(x)] = x
BY NumberType, NumberInjective, BitsOfType DEF Byte

LEMMA XorBits ==
  ASSUME NEW x \in Reg, NEW y \in Reg
  PROVE  /\ Xor(x, y) \in Reg
         /\ \A k \in 0 .. 7 : k \in Xor(x, y) <=> ~(k \in x <=> k \in y)
BY DEF Xor, Reg

LEMMA ExponentsType == ASSUME NEW bits, NEW j PROVE Exponents(bits, j) \in Reg
BY DEF Reg, Exponents

-----------------------------------------------------------------------------
(* The eight shifts. *)

LEMMA ShiftBits ==
  ASSUME NEW x \in Reg
  PROVE  /\ CrcShift(x) \in Reg
         /\ 0 \in CrcShift(x) <=> 7 \in x
         /\ 1 \in CrcShift(x) <=> 0 \in x
         /\ 2 \in CrcShift(x) <=> 1 \in x
         /\ 3 \in CrcShift(x) <=> 2 \in x
         /\ 4 \in CrcShift(x) <=> ~(3 \in x <=> 7 \in x)
         /\ 5 \in CrcShift(x) <=> ~(4 \in x <=> 7 \in x)
         /\ 6 \in CrcShift(x) <=> 5 \in x
         /\ 7 \in CrcShift(x) <=> 6 \in x
<1>1. CrcShift(x) \in Reg
  BY DEF Reg, CrcShift, Xor
<1> QED
  BY <1>1 DEF Reg, CrcShift, Xor

Twice(x) == CrcShift(CrcShift(x))

FourTimes(x) == Twice(Twice(x))

LEMMA TwiceBits ==
  ASSUME NEW x \in Reg
  PROVE  /\ Twice(x) \in Reg
         /\ 0 \in Twice(x) <=> 6 \in x
         /\ 1 \in Twice(x) <=> 7 \in x
         /\ 2 \in Twice(x) <=> 0 \in x
         /\ 3 \in Twice(x) <=> 1 \in x
         /\ 4 \in Twice(x) <=> ~(2 \in x <=> 6 \in x)
         /\ 5 \in Twice(x) <=> ~(~(3 \in x <=> 7 \in x) <=> 6 \in x)
         /\ 6 \in Twice(x) <=> ~(4 \in x <=> 7 \in x)
         /\ 7 \in Twice(x) <=> 5 \in x
<1>1. CrcShift(x) \in Reg /\ CrcShift(CrcShift(x)) \in Reg
  BY ShiftBits
<1> QED
  BY <1>1, ShiftBits DEF Twice

LEMMA FourTimesBits ==
  ASSUME NEW x \in Reg
  PROVE  /\ FourTimes(x) \in Reg
         /\ 0 \in FourTimes(x) <=> ~(4 \in x <=> 7 \in x)
         /\ 1 \in FourTimes(x) <=> 5 \in x
         /\ 2 \in FourTimes(x) <=> 6 \in x
         /\ 3 \in FourTimes(x) <=> 7 \in x
         /\ 4 \in FourTimes(x) <=> ~(0 \in x <=> ~(4 \in x <=> 7 \in x))
         /\ 5 \in FourTimes(x) <=> ~(~(1 \in x <=> 5 \in x) <=> ~(4 \in x <=> 7 \in x))
         /\ 6 \in FourTimes(x) <=> ~(~(2 \in x <=> 6 \in x) <=> 5 \in x)
         /\ 7 \in FourTimes(x) <=> ~(~(3 \in x <=> 7 \in x) <=> 6 \in x)
<1>1. Twice(x) \in Reg /\ Twice(Twice(x)) \in Reg
  BY TwiceBits
<1> QED
  BY <1>1, TwiceBits DEF FourTimes

\* Each bit of the checksum's next value is a sum of bits of the last.
LEMMA ByteBits ==
  ASSUME NEW x \in Reg
  PROVE  /\ CrcByte[x] \in Reg
         /\ 0 \in CrcByte[x] <=> (0 \in x <=> ~(3 \in x <=> (4 \in x <=> 6 \in x)))
         /\ 1 \in CrcByte[x] <=> (1 \in x <=> ~(4 \in x <=> (5 \in x <=> 7 \in x)))
         /\ 2 \in CrcByte[x] <=> (2 \in x <=> (5 \in x <=> 6 \in x))
         /\ 3 \in CrcByte[x] <=> (3 \in x <=> (6 \in x <=> 7 \in x))
         /\ 4 \in CrcByte[x] <=> (0 \in x <=> ~(3 \in x <=> (6 \in x <=> 7 \in x)))
         /\ 5 \in CrcByte[x] <=> (0 \in x <=> (1 \in x <=> (3 \in x <=> (6 \in x <=> 7 \in x))))
         /\ 6 \in CrcByte[x] <=> (1 \in x <=> ~(2 \in x <=> (4 \in x <=> 7 \in x)))
         /\ 7 \in CrcByte[x] <=> (2 \in x <=> (3 \in x <=> 5 \in x))
<1>1. FourTimes(x) \in Reg /\ FourTimes(FourTimes(x)) \in Reg
  BY FourTimesBits
<1>2. CrcByte[x] = FourTimes(FourTimes(x))
  BY DEF CrcByte, Twice, FourTimes, Reg
<1> QED
  BY <1>1, <1>2, FourTimesBits, SMTT(30)

\* Hence what a disturbance does to the checksum does not depend on the frame,
LEMMA ByteLinear ==
  ASSUME NEW x \in Reg, NEW y \in Reg
  PROVE  CrcByte[Xor(x, y)] = Xor(CrcByte[x], CrcByte[y])
<1> DEFINE u == CrcByte[Xor(x, y)]
           v == Xor(CrcByte[x], CrcByte[y])
<1>1. Xor(x, y) \in Reg /\ u \in Reg /\ CrcByte[x] \in Reg /\ CrcByte[y] \in Reg /\ v \in Reg
  BY XorBits, ByteBits
<1>2. /\ 0 \in u <=> 0 \in v
      /\ 1 \in u <=> 1 \in v
      /\ 2 \in u <=> 2 \in v
      /\ 3 \in u <=> 3 \in v
      /\ 4 \in u <=> 4 \in v
      /\ 5 \in u <=> 5 \in v
      /\ 6 \in u <=> 6 \in v
      /\ 7 \in u <=> 7 \in v
   BY <1>1, XorBits, ByteBits, SMTT(60)
<1> QED
  BY <1>1, <1>2, RegEqual

\* a difference never vanishes by itself,
LEMMA ByteZero == ASSUME NEW x \in Reg, CrcByte[x] = {} PROVE x = {}
<1>1. {} \in Reg
  BY DEF Reg
<1> QED
  BY <1>1, RegEqual, ByteBits, SMTT(30)

LEMMA ZeroByte == CrcByte[{}] = {}
<1>1. {} \in Reg
  BY DEF Reg
<1> QED
  BY <1>1, RegEqual, ByteBits, SMTT(30)

\* and a burst that begins in one byte with the bits d and ends in the next with
\* the bits e, 8 bits apart at most, does not cancel itself.
LEMMA BurstKey ==
  ASSUME NEW d \in Reg, NEW e \in Reg, \A k \in d, l \in e : k < l, CrcByte[d] = e
  PROVE  d = {}
<1>1. {} \in Reg
  BY DEF Reg
<1>2. \A k, l \in {0, 1, 2, 3, 4, 5, 6, 7} : k \in d /\ l \in e => k < l
  OBVIOUS
<1>3. /\ 0 \notin d /\ 1 \notin d /\ 2 \notin d /\ 3 \notin d
      /\ 4 \notin d /\ 5 \notin d /\ 6 \notin d /\ 7 \notin d
  BY <1>2, ByteBits, SMTT(60)
<1> QED
  BY <1>1, <1>3, RegEqual

-----------------------------------------------------------------------------
(* The checksum of the SHT31. *)

Crc2(x, y) == CrcByte[Xor(CrcByte[Xor(0 .. 7, x)], y)]

\* The one byte that is its own checksum when sent twice, and the one that has
\* the checksum 0xff in front of 0xff.
LEMMA Echo == ASSUME NEW x \in Reg, Crc2(x, x) = x PROVE x = {0, 1, 3, 5}
<1>1. {0, 1, 3, 5} \in Reg /\ (0 .. 7) \in Reg
  BY DEF Reg
<1>2. Xor(0 .. 7, x) \in Reg /\ CrcByte[Xor(0 .. 7, x)] \in Reg /\ Xor(CrcByte[Xor(0 .. 7, x)], x) \in Reg
  BY <1>1, XorBits, ByteBits
<1>3. 0 \in x /\ 1 \in x /\ 2 \notin x /\ 3 \in x /\ 4 \notin x /\ 5 \in x /\ 6 \notin x /\ 7 \notin x
  BY <1>1, <1>2, XorBits, ByteBits, SMTT(60) DEF Crc2
<1> QED
  BY <1>1, <1>3, RegEqual

LEMMA Floating == ASSUME NEW x \in Reg, Crc2(x, 0 .. 7) = 0 .. 7 PROVE x = {0, 1, 5, 7}
<1>1. {0, 1, 5, 7} \in Reg /\ (0 .. 7) \in Reg
  BY DEF Reg
<1>2. Xor(0 .. 7, x) \in Reg /\ CrcByte[Xor(0 .. 7, x)] \in Reg /\ Xor(CrcByte[Xor(0 .. 7, x)], 0 .. 7) \in Reg
  BY <1>1, XorBits, ByteBits
<1>3. 0 \in x /\ 1 \in x /\ 2 \notin x /\ 3 \notin x /\ 4 \notin x /\ 5 \in x /\ 6 \notin x /\ 7 \in x
  BY <1>1, <1>2, XorBits, ByteBits, SMTT(60) DEF Crc2
<1> QED
  BY <1>1, <1>3, RegEqual

LEMMA Sht3xCrcNumber ==
  ASSUME NEW a \in Byte, NEW b \in Byte
  PROVE  /\ Sht3xCrc(a, b) \in Byte
         /\ a = b /\ Sht3xCrc(a, b) = b => a = 43
         /\ b = 255 /\ Sht3xCrc(a, b) = b => a = 163
<1>1. /\ BitsOf[a] \in Reg /\ Number(BitsOf[a]) = a
      /\ BitsOf[b] \in Reg /\ Number(BitsOf[b]) = b
  BY BitsOfType
<1>2. (0 .. 7) \in Reg /\ Number(0 .. 7) = 255 /\ 255 \in Byte
  BY DEF Reg, Number, Byte
<1>3. Crc2(BitsOf[a], BitsOf[b]) \in Reg
  BY <1>1, <1>2, XorBits, ByteBits DEF Crc2
<1>4. Sht3xCrc(a, b) = Number(Crc2(BitsOf[a], BitsOf[b]))
  BY DEF Sht3xCrc, Crc2
<1>5. Sht3xCrc(a, b) = b => Crc2(BitsOf[a], BitsOf[b]) = BitsOf[b]
  BY <1>1, <1>3, <1>4, NumberInjective
<1>6. a = b /\ Sht3xCrc(a, b) = b => a = 43
  <2>1. Number({0, 1, 3, 5}) = 43
    BY DEF Number
  <2> QED
    BY <1>1, <1>5, <2>1, Echo
<1>7. b = 255 /\ Sht3xCrc(a, b) = b => a = 163
  <2>1. Number({0, 1, 5, 7}) = 163
    BY DEF Number
  <2> SUFFICES ASSUME b = 255, Sht3xCrc(a, b) = b PROVE a = 163
    OBVIOUS
  <2>2. BitsOf[b] = 0 .. 7
    BY <1>1, <1>2, NumberInjective
  <2>3. BitsOf[a] = {0, 1, 5, 7}
    BY <1>1, <1>5, <2>2, Floating
  <2> QED
    BY <1>1, <2>1, <2>3
<1>8. Sht3xCrc(a, b) \in Byte
  BY <1>3, <1>4, NumberType DEF Byte
<1> QED
  BY <1>6, <1>7, <1>8

-----------------------------------------------------------------------------
(* The checksum of a frame. *)

\* f is the checksum byte by byte.
Stepwise(bits, f, len) ==
  f[0] = {} /\ \A j \in 0 .. len - 1 : f[j + 1] = CrcByte[Xor(f[j], Exponents(bits, j))]

LEMMA StatesExist ==
  ASSUME NEW bits, NEW len \in Nat
  PROVE  \E f \in [0 .. len -> Reg] : Stepwise(bits, f, len)
<1> DEFINE S == {n \in Nat : \E f \in [0 .. n -> Reg] : Stepwise(bits, f, n)}
<1>1. 0 \in S
  <2>1. [j \in 0 .. 0 |-> {}] \in [0 .. 0 -> Reg]
    BY DEF Reg
  <2>2. Stepwise(bits, [j \in 0 .. 0 |-> {}], 0)
    BY DEF Stepwise
  <2> QED
    BY <2>1, <2>2
<1>2. ASSUME NEW n \in S PROVE n + 1 \in S
  <2>1. PICK f \in [0 .. n -> Reg] : Stepwise(bits, f, n)
    OBVIOUS
  <2> DEFINE c == CrcByte[Xor(f[n], Exponents(bits, n))]
             g == [j \in 0 .. n + 1 |-> IF j = n + 1 THEN c ELSE f[j]]
  <2>2. c \in Reg
    BY ExponentsType, XorBits, ByteBits
  <2>3. g \in [0 .. n + 1 -> Reg]
    BY <2>2
  <2>4. g[0] = {} 
    BY <2>1 DEF Stepwise
  <2>5. ASSUME NEW j \in 0 .. n PROVE g[j + 1] = CrcByte[Xor(g[j], Exponents(bits, j))]
    <3>1. CASE j = n
      BY <3>1
    <3>2. CASE j # n
      BY <2>1, <3>2 DEF Stepwise
    <3> QED
      BY <3>1, <3>2
  <2>6. Stepwise(bits, g, n + 1)
    <3> HIDE DEF g
    <3>1. n \in Nat /\ 0 .. (n + 1) - 1 = 0 .. n
      OBVIOUS
    <3> QED
      BY <2>4, <2>5, <3>1 DEF Stepwise
  <2> QED
    BY <2>3, <2>6
<1>3. S = Nat
  <2> HIDE DEF S
  <2>1. S \subseteq Nat
    BY DEF S
  <2> QED
    BY <1>1, <1>2, <2>1, Induction
<1> QED
  BY <1>3

\* The function that CalculateCrc() computes by recursion exists, and is it.
LEMMA CrcStates ==
  ASSUME NEW bits, NEW len \in Nat
  PROVE  \E f \in [0 .. len -> Reg] : Stepwise(bits, f, len) /\ CalculateCrc(bits, len) = f[len]
<1> DEFINE rec(f) == [j \in 0 .. len |-> IF j = 0 THEN {} ELSE CrcByte[Xor(f[j - 1], Exponents(bits, j - 1))]]
           res == CHOOSE f : f = rec(f)
<1>1. CalculateCrc(bits, len) = res[len]
  BY DEF CalculateCrc
<1>2. PICK f \in [0 .. len -> Reg] : Stepwise(bits, f, len)
  BY StatesExist
<1>3. f = rec(f)
  <2>1. ASSUME NEW j \in 0 .. len PROVE f[j] = rec(f)[j]
    <3>1. CASE j = 0
      BY <1>2, <3>1 DEF Stepwise
    <3>2. CASE j # 0
      <4>1. j - 1 \in 0 .. len - 1 /\ (j - 1) + 1 = j
        BY <3>2
      <4> QED
        BY <1>2, <3>2, <4>1 DEF Stepwise
    <3> QED
      BY <3>1, <3>2
  <2> QED
    BY <2>1
<1>4. res = rec(res)
  BY <1>3
<1>5. ASSUME NEW j \in 0 .. len
      PROVE  res[j] = IF j = 0 THEN {} ELSE CrcByte[Xor(res[j - 1], Exponents(bits, j - 1))]
  <2> HIDE DEF res
  <2>1. res[j] = rec(res)[j]
    BY <1>4, Zenon
  <2> QED
    BY <2>1
<1>6. DOMAIN res = 0 .. len /\ res = [j \in 0 .. len |-> res[j]]
  <2> HIDE DEF res
  <2>1. DOMAIN rec(res) = 0 .. len
    OBVIOUS
  <2>2. DOMAIN res = 0 .. len
    BY <1>4, <2>1, Zenon
  <2>3. rec(res) = [j \in 0 .. len |-> rec(res)[j]]
    OBVIOUS
  <2> QED
    BY <1>4, <2>2, <2>3, Zenon
<1> DEFINE T == {n \in Nat : n <= len => res[n] \in Reg}
<1>7. T = Nat
  <2> HIDE DEF res
  <2>1. 0 \in T
    BY <1>5 DEF Reg
  <2>2. ASSUME NEW n \in T PROVE n + 1 \in T
    <3> SUFFICES ASSUME n + 1 <= len PROVE res[n + 1] \in Reg
      OBVIOUS
    <3>1. res[n] \in Reg /\ n \in Nat
      OBVIOUS
    <3>2. n + 1 \in 0 .. len /\ n + 1 # 0 /\ (n + 1) - 1 = n
      BY <3>1
    <3>3. res[n + 1] = CrcByte[Xor(res[n], Exponents(bits, n))]
      BY <1>5, <3>2
    <3> QED
      BY <3>1, <3>3, ExponentsType, XorBits, ByteBits
  <2>3. T \subseteq Nat
    OBVIOUS
  <2> HIDE DEF T
  <2> QED
    BY <2>1, <2>2, <2>3, Induction
<1>8. res \in [0 .. len -> Reg]
  <2> HIDE DEF res
  <2>1. \A j \in 0 .. len : res[j] \in Reg
    BY <1>7
  <2> QED
    BY <1>6, <2>1
<1>9. Stepwise(bits, res, len)
  <2> HIDE DEF res
  <2>1. res[0] = {}
    BY <1>5
  <2>2. ASSUME NEW j \in 0 .. len - 1 PROVE res[j + 1] = CrcByte[Xor(res[j], Exponents(bits, j))]
    <3>1. j + 1 \in 0 .. len /\ j + 1 # 0 /\ (j + 1) - 1 = j
      OBVIOUS
    <3> QED
      BY <1>5, <3>1
  <2> QED
    BY <2>1, <2>2 DEF Stepwise
<1> QED
  BY <1>1, <1>8, <1>9

LEMMA ExponentsXor ==
  ASSUME NEW a, NEW b, NEW j
  PROVE  Exponents(Xor(a, b), j) = Xor(Exponents(a, j), Exponents(b, j))
BY DEF Exponents, Xor

\* A checksum depends on the bytes it is of.
LEMMA CrcEqual ==
  ASSUME NEW a, NEW b, NEW len \in Nat, \A j \in 0 .. len - 1 : Exponents(a, j) = Exponents(b, j)
  PROVE  CalculateCrc(a, len) = CalculateCrc(b, len)
<1>1. PICK f \in [0 .. len -> Reg] : Stepwise(a, f, len) /\ CalculateCrc(a, len) = f[len]
  BY CrcStates
<1>2. PICK g \in [0 .. len -> Reg] : Stepwise(b, g, len) /\ CalculateCrc(b, len) = g[len]
  BY CrcStates
<1> DEFINE S == {n \in Nat : n <= len => f[n] = g[n]}
<1>3. 0 \in S
  BY <1>1, <1>2 DEF Stepwise
<1>4. ASSUME NEW n \in S PROVE n + 1 \in S
  BY <1>1, <1>2 DEF Stepwise
<1>5. S = Nat
  <2>1. S \subseteq Nat
    OBVIOUS
  <2> HIDE DEF S
  <2> QED
    BY <1>3, <1>4, <2>1, Induction
<1>6. f[len] = g[len]
  BY <1>5
<1> QED
  BY <1>1, <1>2, <1>6

-----------------------------------------------------------------------------
(* A burst that spans up to 8 bits changes the checksum. *)

Burst(b) == b \subseteq Nat /\ \A p, q \in b : p - q < 8

\* It touches one byte, or two neighbouring ones.
LEMMA BurstBytes ==
  ASSUME NEW b, Burst(b), NEW a \in Nat, Exponents(b, a) # {}
  PROVE  /\ \A k \in Exponents(b, a), l \in Exponents(b, a + 1) : k < l
         /\ \A j \in Nat : j > a + 1 => Exponents(b, j) = {}
<1>1. PICK i \in 0 .. 7 : 8 * a + 7 - i \in b
  BY DEF Exponents
<1>2. ASSUME NEW k \in Exponents(b, a), NEW l \in Exponents(b, a + 1) PROVE k < l
  <2>1. k \in 0 .. 7 /\ l \in 0 .. 7 /\ 8 * a + 7 - k \in b /\ 8 * (a + 1) + 7 - l \in b
    BY DEF Exponents
  <2>2. (8 * (a + 1) + 7 - l) - (8 * a + 7 - k) < 8
    BY <2>1 DEF Burst
  <2> QED
    BY <2>1, <2>2
<1>3. ASSUME NEW j \in Nat, j > a + 1, NEW k \in Exponents(b, j) PROVE FALSE
  <2>1. k \in 0 .. 7 /\ 8 * j + 7 - k \in b
    BY DEF Exponents
  <2>2. (8 * j + 7 - k) - (8 * a + 7 - i) < 8
    BY <1>1, <2>1 DEF Burst
  <2> QED
    BY <1>1, <1>3, <2>1, <2>2
<1> QED
  BY <1>2, <1>3

\* If what is sent and what is received both carry their checksum, no bit of
\* either was turned over.  The difference of the two checksums appears with
\* the first byte the burst touches, survives the second, and never vanishes.
LEMMA BurstNoticed ==
  ASSUME NEW sent, NEW b, Burst(b), NEW len \in Nat,
         CalculateCrc(sent, len) = Exponents(sent, len),
         CalculateCrc(Xor(sent, b), len) = Exponents(Xor(sent, b), len)
  PROVE  \A j \in 0 .. len : Exponents(b, j) = {}
<1>1. PICK f \in [0 .. len -> Reg] : Stepwise(sent, f, len) /\ CalculateCrc(sent, len) = f[len]
  BY CrcStates
<1>2. PICK g \in [0 .. len -> Reg] : Stepwise(Xor(sent, b), g, len) /\ CalculateCrc(Xor(sent, b), len) = g[len]
  BY CrcStates
<1> DEFINE D(j) == Exponents(b, j)
           E(j) == Xor(f[j], g[j])
<1>3. \A j \in 0 .. len : D(j) \in Reg /\ E(j) \in Reg
  BY XorBits, ExponentsType
<1>4. E(0) = {}
  BY <1>1, <1>2 DEF Stepwise, Xor
<1>5. ASSUME NEW j \in 0 .. len - 1 PROVE E(j + 1) = CrcByte[Xor(E(j), D(j))]
  <2> DEFINE s == Exponents(sent, j)
  <2>1. f[j] \in Reg /\ g[j] \in Reg /\ s \in Reg /\ D(j) \in Reg
    BY ExponentsType
  <2>2. f[j + 1] = CrcByte[Xor(f[j], s)] /\ g[j + 1] = CrcByte[Xor(g[j], Xor(s, D(j)))]
    BY <1>1, <1>2, ExponentsXor DEF Stepwise
  <2>3. Xor(f[j], s) \in Reg /\ Xor(g[j], Xor(s, D(j))) \in Reg
    BY <2>1, XorBits
  <2>4. E(j + 1) = CrcByte[Xor(Xor(f[j], s), Xor(g[j], Xor(s, D(j))))]
    BY <2>2, <2>3, ByteLinear
  <2>5. Xor(Xor(f[j], s), Xor(g[j], Xor(s, D(j)))) = Xor(E(j), D(j))
    BY DEF Xor
  <2> QED
    BY <2>4, <2>5
<1>6. E(len) = D(len)
  <2> DEFINE s == Exponents(sent, len)
  <2>1. f[len] = s /\ g[len] = Exponents(Xor(sent, b), len)
    BY <1>1, <1>2, Zenon
  <2>2. Exponents(Xor(sent, b), len) = Xor(s, D(len))
    BY ExponentsXor
  <2>3. Xor(s, Xor(s, D(len))) = D(len)
    BY DEF Xor
  <2> QED
    BY <2>1, <2>2, <2>3, Zenon
<1> SUFFICES ASSUME \E j \in 0 .. len : D(j) # {} PROVE FALSE
  OBVIOUS
<1> DEFINE T == {j \in 0 .. len : D(j) # {}}
<1>7. PICK a \in T : \A j \in T : a <= j
  <2>1. T \subseteq Nat /\ T # {}
    OBVIOUS
  <2> HIDE DEF T
  <2> QED
    BY <2>1, LeastNumber
<1>8. a \in 0 .. len /\ D(a) # {} /\ \A j \in 0 .. a - 1 : D(j) = {}
  BY <1>7
<1> HIDE DEF D, E, T
<1>9. \A k \in D(a), l \in D(a + 1) : k < l
  BY <1>8, BurstBytes DEF D
<1>10. \A j \in 0 .. len : j > a + 1 => D(j) = {}
  BY <1>8, BurstBytes DEF D
<1>11. Xor({}, {}) = {} /\ \A x : Xor({}, x) = x
  BY DEF Xor
<1>12. E(a) = {}
  <2> DEFINE S == {n \in Nat : n <= a => E(n) = {}}
  <2>1. 0 \in S
    BY <1>4
  <2>2. ASSUME NEW n \in S PROVE n + 1 \in S
    <3> SUFFICES ASSUME n + 1 <= a PROVE E(n + 1) = {}
      OBVIOUS
    <3>1. n \in 0 .. len - 1 /\ E(n) = {} /\ D(n) = {}
      BY <1>8
    <3> QED
      BY <1>5, <1>11, <3>1, ZeroByte
  <2>3. S = Nat
    <3>1. S \subseteq Nat
      OBVIOUS
    <3> HIDE DEF S
    <3> QED
      BY <2>1, <2>2, <3>1, Induction
  <2> QED
    BY <1>8, <2>3
<1>13. a < len
  BY <1>6, <1>8, <1>12
<1>14. E(a + 1) = CrcByte[D(a)]
  <2>1. a \in 0 .. len - 1
    BY <1>8, <1>13
  <2>2. E(a + 1) = CrcByte[Xor(E(a), D(a))]
    BY <1>5, <2>1
  <2>3. Xor(E(a), D(a)) = D(a)
    BY <1>11, <1>12
  <2> QED
    BY <2>2, <2>3
<1>15. E(a + 1) # D(a + 1)
  <2>1. a + 1 \in 0 .. len /\ a \in 0 .. len
    BY <1>8, <1>13
  <2> QED
    BY <1>3, <1>8, <1>9, <1>14, <2>1, BurstKey
<1>16. a + 1 < len
  BY <1>6, <1>8, <1>13, <1>15
<1>17. E(a + 2) # {}
  <2>1. a + 1 \in 0 .. len - 1 /\ (a + 1) + 1 = a + 2 /\ a + 1 \in 0 .. len
    BY <1>8, <1>16
  <2>2. E(a + 2) = CrcByte[Xor(E(a + 1), D(a + 1))]
    BY <1>5, <2>1
  <2>3. Xor(E(a + 1), D(a + 1)) # {}
    BY <1>15 DEF Xor
  <2>4. Xor(E(a + 1), D(a + 1)) \in Reg
    BY <1>3, <2>1, XorBits
  <2> QED
    BY <2>2, <2>3, <2>4, ByteZero
<1>18. E(len) # {}
  <2> DEFINE S == {n \in Nat : a + 2 + n <= len => E(a + 2 + n) # {}}
  <2>1. 0 \in S
    BY <1>8, <1>17
  <2>2. ASSUME NEW n \in S PROVE n + 1 \in S
    <3> SUFFICES ASSUME a + 2 + (n + 1) <= len PROVE E(a + 2 + (n + 1)) # {}
      OBVIOUS
    <3> DEFINE j == a + 2 + n
    <3>1. /\ j \in 0 .. len - 1 /\ j \in 0 .. len /\ j > a + 1
          /\ j + 1 = a + 2 + (n + 1) /\ E(j) # {}
      BY <1>8
    <3> HIDE DEF j
    <3>2. D(j) = {} /\ E(j) \in Reg
      BY <1>3, <1>10, <3>1
    <3>3. Xor(E(j), D(j)) = E(j)
      BY <3>2 DEF Xor
    <3>4. E(j + 1) = CrcByte[E(j)]
      BY <1>5, <3>1, <3>3
    <3> QED
      BY <3>1, <3>2, <3>4, ByteZero
  <2>3. S = Nat
    <3>1. S \subseteq Nat
      OBVIOUS
    <3> HIDE DEF S
    <3> QED
      BY <2>1, <2>2, <3>1, Induction
  <2>4. len - (a + 2) \in Nat /\ a + 2 + (len - (a + 2)) = len
    BY <1>8, <1>16
  <2> QED
    BY <2>3, <2>4
<1>19. D(len) = {}
  BY <1>8, <1>10, <1>16
<1> QED
  BY <1>6, <1>18, <1>19

-----------------------------------------------------------------------------
(* What is sent and what is received. *)

\* What the fields of a frame may hold.
Values == [sensorid : Byte, pressure : Raw24, temperature : Word, humidity : Word,
           pm2_5 : Word, pm10 : Word, batvolt : Byte]

LEMMA FieldsAre ==
  ASSUME NEW v
  PROVE  /\ Fields(v)[1] = 204 /\ Fields(v)[2] = v.sensorid /\ Fields(v)[3] = 13 /\ Fields(v)[4] = 245
         /\ Fields(v)[5] = (v.pressure \div 65536) % 256
         /\ Fields(v)[6] = (v.pressure \div 256) % 256
         /\ Fields(v)[7] = (v.pressure \div 1) % 256
         /\ Fields(v)[8] = (v.temperature \div 256) % 256
         /\ Fields(v)[9] = (v.temperature \div 1) % 256
         /\ Fields(v)[10] = (v.humidity \div 256) % 256
         /\ Fields(v)[11] = (v.humidity \div 1) % 256
         /\ Fields(v)[12] = (v.pm2_5 \div 256) % 256
         /\ Fields(v)[13] = (v.pm2_5 \div 1) % 256
         /\ Fields(v)[14] = (v.pm10 \div 256) % 256
         /\ Fields(v)[15] = (v.pm10 \div 1) % 256
         /\ Fields(v)[16] = v.batvolt
BY SMT DEF Fields

LEMMA FieldsType ==
  ASSUME NEW v \in Values
  PROVE  \A i \in 1 .. 16 : Fields(v)[i] \in Byte
<1>1. \A n \in Nat : n % 256 \in Byte /\ (n \div 65536) % 256 \in Byte /\ (n \div 256) % 256 \in Byte /\ (n \div 1) % 256 \in Byte
  BY DEF Byte
<1>2. /\ v.sensorid \in Byte /\ v.pressure \in Nat /\ v.temperature \in Nat
      /\ v.humidity \in Nat /\ v.pm2_5 \in Nat /\ v.pm10 \in Nat /\ v.batvolt \in Byte
  <2>1. Raw24 \subseteq Nat /\ Word \subseteq Nat
    BY DEF Raw24, Word
  <2> QED
    BY <2>1 DEF Values
<1>3. /\ Fields(v)[1] \in Byte /\ Fields(v)[2] \in Byte /\ Fields(v)[3] \in Byte /\ Fields(v)[4] \in Byte /\ Fields(v)[16] \in Byte
  BY <1>2, FieldsAre, SMT DEF Byte
<1>4. Fields(v)[5] \in Byte /\ Fields(v)[6] \in Byte /\ Fields(v)[7] \in Byte
  BY <1>1, <1>2, FieldsAre, SMT
<1>5. Fields(v)[8] \in Byte /\ Fields(v)[9] \in Byte /\ Fields(v)[10] \in Byte /\ Fields(v)[11] \in Byte
  BY <1>1, <1>2, FieldsAre, SMT
<1>6. Fields(v)[12] \in Byte /\ Fields(v)[13] \in Byte /\ Fields(v)[14] \in Byte /\ Fields(v)[15] \in Byte
  BY <1>1, <1>2, FieldsAre, SMT
<1>7. ASSUME NEW i \in 1 .. 16 PROVE Fields(v)[i] \in Byte
  <2>1. i \in {1, 2, 3, 4, 5, 6, 7, 8, 9, 10, 11, 12, 13, 14, 15, 16}
    OBVIOUS
  <2> QED
    BY <1>3, <1>4, <1>5, <1>6, <2>1, SMT
<1> QED
  BY <1>7

LEMMA PositionsExponents ==
  ASSUME NEW x \in Reg, NEW i \in Nat, NEW j \in Nat
  PROVE  Exponents(Positions(x, i), j) = IF i = j THEN x ELSE {}
<1>1. ASSUME NEW k \in 0 .. 7 PROVE k \in Exponents(Positions(x, i), j) <=> i = j /\ k \in x
  <2>1. k \in Exponents(Positions(x, i), j) <=> \E l \in x : 8 * j + 7 - k = 8 * i + 7 - l
    BY DEF Exponents, Positions
  <2>2. ASSUME NEW l \in x, 8 * j + 7 - k = 8 * i + 7 - l PROVE i = j /\ k = l
    BY <2>2 DEF Reg
  <2> QED
    BY <2>1, <2>2
<1> QED
  BY <1>1, ExponentsType DEF Reg

\* The first 16 bytes of what is sent are the fields, the next their checksum;
\* what follows does not matter.
LEMMA FrameBytes ==
  ASSUME NEW v \in Values, NEW tail, \A j \in 0 .. 16 : Exponents(tail, j) = {}
  PROVE  LET onair == PrepareFrame(v) \cup tail
         IN  /\ \A j \in 0 .. 15 : Exponents(onair, j) = BitsOf[Fields(v)[j + 1]]
             /\ Exponents(onair, 16) = CalculateCrc(onair, 16)
<1> DEFINE part(i) == Positions(BitsOf[Fields(v)[i]], i - 1)
           data == UNION {part(i) : i \in 1 .. 16}
           crc == Positions(CalculateCrc(data, 16), 16)
           onair == PrepareFrame(v) \cup tail
<1>1. onair = data \cup crc \cup tail
  BY DEF PrepareFrame
<1>2. CalculateCrc(data, 16) \in Reg
  BY CrcStates
<1>3. \A i \in 1 .. 16 : BitsOf[Fields(v)[i]] \in Reg
  BY FieldsType, BitsOfType
<1>4. ASSUME NEW j \in 0 .. 16
      PROVE  Exponents(data, j) = IF j = 16 THEN {} ELSE BitsOf[Fields(v)[j + 1]]
  <2>1. Exponents(data, j) = UNION {Exponents(part(i), j) : i \in 1 .. 16}
    BY DEF Exponents
  <2>2. ASSUME NEW i \in 1 .. 16
        PROVE  Exponents(part(i), j) = IF i - 1 = j THEN BitsOf[Fields(v)[i]] ELSE {}
    <3>1. i - 1 \in Nat /\ j \in Nat
      OBVIOUS
    <3> QED
      BY <1>3, <3>1, PositionsExponents
  <2> HIDE DEF part, data
  <2> QED
    BY <2>1, <2>2
<1>5. ASSUME NEW j \in 0 .. 16
      PROVE  Exponents(onair, j) = Exponents(data, j) \cup Exponents(crc, j)
  <2>1. Exponents(onair, j) = Exponents(data, j) \cup Exponents(crc, j) \cup Exponents(tail, j)
    BY <1>1 DEF Exponents
  <2> QED
    BY <2>1
<1>6. \A j \in 0 .. 16 : Exponents(crc, j) = IF j = 16 THEN CalculateCrc(data, 16) ELSE {}
  BY <1>2, PositionsExponents
<1> HIDE DEF part, data, crc, onair
<1>7. ASSUME NEW j \in 0 .. 15
      PROVE  Exponents(onair, j) = Exponents(data, j) /\ Exponents(data, j) = BitsOf[Fields(v)[j + 1]]
  <2>1. j \in 0 .. 16 /\ j # 16
    OBVIOUS
  <2> QED
    BY <1>4, <1>5, <1>6, <2>1
<1>8. Exponents(onair, 16) = CalculateCrc(data, 16)
  BY <1>4, <1>5, <1>6
<1>9. CalculateCrc(onair, 16) = CalculateCrc(data, 16)
  BY <1>7, CrcEqual
<1> QED
  BY <1>7, <1>8, <1>9 DEF onair

LEMMA OneAndRest ==
  ASSUME NEW S, NEW n \in Nat, NEW s \in Seq(S), NEW t \in Seq(S), Len(s) = 1, Len(t) = n
  PROVE  Len(s \o t) = n + 1 /\ s \o t = [i \in 1 .. n + 1 |-> IF i = 1 THEN s[1] ELSE t[i - 1]]
<1>1. Len(s \o t) = n + 1 /\ s \o t \in Seq(S)
  <2>1. Len(s \o t) = Len(s) + Len(t) /\ s \o t \in Seq(S)
    BY ConcatProperties, Zenon
  <2> QED
    BY <2>1
<1>2. s \o t \in [1 .. Len(s \o t) -> S]
  BY <1>1, LenProperties
<1>3. ASSUME NEW i \in 1 .. n + 1 PROVE (s \o t)[i] = IF i = 1 THEN s[1] ELSE t[i - 1]
  <2>1. i \in 1 .. Len(s) + Len(t)
    OBVIOUS
  <2>2. (s \o t)[i] = IF i <= Len(s) THEN s[i] ELSE t[i - Len(s)]
    BY <2>1, ConcatProperties, Zenon
  <2>3. (s \o t)[i] = IF i <= 1 THEN s[i] ELSE t[i - 1]
    BY <2>2, Zenon
  <2>4. CASE i = 1
    BY <2>3, <2>4
  <2>5. CASE i # 1
    BY <2>3, <2>5
  <2> QED
    BY <2>4, <2>5
<1> QED
  BY <1>1, <1>2, <1>3

LEMMA MessageIs ==
  ASSUME NEW bits
  PROVE  LET n == ByteAt(bits, 2)
         IN  /\ n \in Byte
             /\ Len(Message(bits)) = n + 1
             /\ Message(bits) = [i \in 1 .. n + 1 |-> IF i = 1 THEN ByteAt(bits, 1) ELSE ByteAt(bits, i + 1)]
<1> DEFINE n == ByteAt(bits, 2)
           rest == [i \in 1 .. n |-> ByteAt(bits, i + 2)]
<1>1. \A j : ByteAt(bits, j) \in Byte
  BY ExponentsType, NumberType DEF ByteAt, Byte
<1>2. n \in Nat /\ n \in Byte
  BY <1>1 DEF Byte
<1> HIDE DEF n
<1>3. rest \in Seq(Byte) /\ Len(rest) = n
  BY <1>1, <1>2
<1>4. <<ByteAt(bits, 1)>> \in Seq(Byte) /\ Len(<<ByteAt(bits, 1)>>) = 1
  BY <1>1
<1>5. Message(bits) = <<ByteAt(bits, 1)>> \o rest
  BY DEF Message, n
<1>6. /\ Len(Message(bits)) = n + 1
      /\ Message(bits) = [i \in 1 .. n + 1 |-> IF i = 1 THEN ByteAt(bits, 1) ELSE rest[i - 1]]
  <2> HIDE DEF rest
  <2> DEFINE s == <<ByteAt(bits, 1)>>
  <2>1. s[1] = ByteAt(bits, 1)
    OBVIOUS
  <2>2. s \in Seq(Byte) /\ Len(s) = 1 /\ Message(bits) = s \o rest
    BY <1>4, <1>5
  <2> HIDE DEF s
  <2>3. Len(s \o rest) = n + 1 /\ s \o rest = [i \in 1 .. n + 1 |-> IF i = 1 THEN s[1] ELSE rest[i - 1]]
    BY <1>2, <1>3, <2>2, OneAndRest
  <2> QED
    BY <2>1, <2>2, <2>3, Zenon
<1>7. \A i \in 1 .. n + 1 : i # 1 => rest[i - 1] = ByteAt(bits, i + 1)
  BY <1>2
<1> HIDE DEF rest
<1>8. Message(bits) = [i \in 1 .. n + 1 |-> IF i = 1 THEN ByteAt(bits, 1) ELSE ByteAt(bits, i + 1)]
  BY <1>6, <1>7
<1> QED
  BY <1>2, <1>6, <1>8 DEF n

\* A frame of another length is not a message of the station's.
LEMMA AcceptedLength ==
  ASSUME NEW bits, Accepts(bits, 18), Matches(Message(bits))
  PROVE  ByteAt(bits, 2) = 13 /\ CalculateCrc(bits, 16) = Exponents(bits, 16)
<1>1. ByteAt(bits, 2) \in Byte /\ Len(Message(bits)) = ByteAt(bits, 2) + 1
  BY MessageIs
<1>2. ByteAt(bits, 2) = 13
  <2>1. Len(Message(bits)) = 14
    BY DEF Matches
  <2>2. ByteAt(bits, 2) + 1 = 14
    BY <1>1, <2>1, Zenon
  <2>3. \A n \in Byte : n + 1 = 14 => n = 13
    BY DEF Byte
  <2> QED
    BY <1>1, <2>2, <2>3, Zenon
<1> QED
  BY <1>2 DEF Accepts

\* The message that is received when no bit was turned over.
Sent(v) == [i \in 1 .. 14 |-> Fields(v)[IF i = 1 THEN 2 ELSE i + 2]]

\* What is accepted was not disturbed, and is what was sent.
LEMMA Delivered ==
  ASSUME NEW v \in Values, NEW tail, \A j \in 0 .. 16 : Exponents(tail, j) = {}, NEW b, Burst(b),
         Accepts(Xor(PrepareFrame(v) \cup tail, b), 18),
         Matches(Message(Xor(PrepareFrame(v) \cup tail, b)))
  PROVE  /\ \A j \in 0 .. 16 : Exponents(b, j) = {}
         /\ Message(Xor(PrepareFrame(v) \cup tail, b)) = Sent(v)
<1> DEFINE onair == PrepareFrame(v) \cup tail
           bits == Xor(onair, b)
<1>1. ByteAt(bits, 2) = 13 /\ CalculateCrc(bits, 16) = Exponents(bits, 16)
  BY AcceptedLength
<1>2. /\ \A j \in 0 .. 15 : Exponents(onair, j) = BitsOf[Fields(v)[j + 1]]
      /\ CalculateCrc(onair, 16) = Exponents(onair, 16)
  BY FrameBytes
<1> HIDE DEF onair
<1>3. \A j \in 0 .. 16 : Exponents(b, j) = {}
  BY <1>1, <1>2, BurstNoticed
<1>4. ASSUME NEW j \in 0 .. 15 PROVE ByteAt(bits, j) = Fields(v)[j + 1]
  <2>1. Exponents(bits, j) = Xor(Exponents(onair, j), Exponents(b, j)) /\ Exponents(b, j) = {}
    BY <1>3, ExponentsXor
  <2>2. Exponents(bits, j) = Exponents(onair, j)
    BY <2>1 DEF Xor
  <2>3. Fields(v)[j + 1] \in Byte
    BY FieldsType
  <2> QED
    BY <1>2, <2>2, <2>3, BitsOfType DEF ByteAt
<1>5. Message(bits) = Sent(v)
  <2>1. 13 + 1 = 14
    OBVIOUS
  <2>2. Message(bits) = [i \in 1 .. 14 |-> IF i = 1 THEN ByteAt(bits, 1) ELSE ByteAt(bits, i + 1)]
    <3> HIDE DEF bits
    <3>1. Message(bits) = [i \in 1 .. 13 + 1 |-> IF i = 1 THEN ByteAt(bits, 1) ELSE ByteAt(bits, i + 1)]
      BY <1>1, MessageIs, Zenon
    <3> QED
      BY <2>1, <3>1, Zenon
  <2>3. /\ ByteAt(bits, 1) = Fields(v)[2]
        /\ \A i \in 2 .. 14 : ByteAt(bits, i + 1) = Fields(v)[i + 2]
    BY <1>4
  <2> HIDE DEF bits
  <2> QED
    BY <2>2, <2>3 DEF Sent
<1> QED
  BY <1>3, <1>5 DEF onair
-----------------------------------------------------------------------------
(* What main() makes of the bytes that a transaction returns. *)

LEMMA WordBytes ==
  ASSUME NEW w \in Word
  PROVE  w \div 256 \in Byte /\ w % 256 \in Byte /\ 256 * (w \div 256) + (w % 256) = w
<1>1. w \div 256 \in Byte
  BY DEF Word, Byte
<1>2. w % 256 \in Byte
  BY DEF Word, Byte
<1>3. 256 * (w \div 256) + (w % 256) = w
  BY DEF Word
<1> QED
  BY <1>1, <1>2, <1>3

LEMMA ClimateBytes ==
  ASSUME NEW c \in Word \X Word
  PROVE  LET b == Sht3xBytes(c)
         IN  /\ Len(b) = 6 /\ \A i \in 1 .. 6 : b[i] \in Byte
             /\ b[1] = c[1] \div 256 /\ b[2] = c[1] % 256 /\ 256 * b[1] + b[2] = c[1]
             /\ b[4] = c[2] \div 256 /\ b[5] = c[2] % 256 /\ 256 * b[4] + b[5] = c[2]
             /\ b[3] = Sht3xCrc(b[1], b[2]) /\ b[6] = Sht3xCrc(b[4], b[5])
<1> DEFINE b == Sht3xBytes(c)
<1>1. c[1] \in Word /\ c[2] \in Word
  OBVIOUS
<1>2. /\ c[1] \div 256 \in Byte /\ c[1] % 256 \in Byte /\ 256 * (c[1] \div 256) + (c[1] % 256) = c[1]
      /\ c[2] \div 256 \in Byte /\ c[2] % 256 \in Byte /\ 256 * (c[2] \div 256) + (c[2] % 256) = c[2]
  BY <1>1, WordBytes
<1>3. /\ Len(b) = 6
      /\ b[1] = c[1] \div 256 /\ b[2] = c[1] % 256 /\ b[3] = Sht3xCrc(c[1] \div 256, c[1] % 256)
      /\ b[4] = c[2] \div 256 /\ b[5] = c[2] % 256 /\ b[6] = Sht3xCrc(c[2] \div 256, c[2] % 256)
  BY DEF Sht3xBytes
<1> HIDE DEF b
<1>4. b[1] \in Byte /\ b[2] \in Byte /\ b[4] \in Byte /\ b[5] \in Byte
  BY <1>2, <1>3
<1>5. b[3] = Sht3xCrc(b[1], b[2]) /\ b[6] = Sht3xCrc(b[4], b[5])
  BY <1>3
<1>6. b[3] \in Byte /\ b[6] \in Byte
  BY <1>4, <1>5, Sht3xCrcNumber
<1>7. 256 * b[1] + b[2] = c[1] /\ 256 * b[4] + b[5] = c[2]
  BY <1>2, <1>3
<1>8. ASSUME NEW i \in 1 .. 6 PROVE b[i] \in Byte
  <2>1. i \in {1, 2, 3, 4, 5, 6}
    OBVIOUS
  <2> QED
    BY <1>4, <1>6, <2>1
<1> QED
  BY <1>3, <1>5, <1>7, <1>8 DEF b

LEMMA OwnChecksum ==
  /\ \A x \in Byte : Sht3xCrc(x, x) = x => x = 43
  /\ \A x \in Byte : Sht3xCrc(x, 255) = 255 => x = 163
  /\ 255 \in Byte /\ 137 \in Byte /\ Sht3xCrc(255, 255) # 255 /\ Sht3xCrc(137, 137) # 137
<1>1. 255 \in Byte /\ 137 \in Byte /\ 255 # 43 /\ 137 # 43
  BY DEF Byte
<1>2. ASSUME NEW x \in Byte, Sht3xCrc(x, x) = x PROVE x = 43
  BY <1>2, Sht3xCrcNumber
<1>3. ASSUME NEW x \in Byte, Sht3xCrc(x, 255) = 255 PROVE x = 163
  BY <1>1, <1>3, Sht3xCrcNumber
<1>4. Sht3xCrc(255, 255) # 255 /\ Sht3xCrc(137, 137) # 137
  BY <1>1, <1>2
<1> QED
  BY <1>1, <1>2, <1>3, <1>4

\* The bytes of a measurement that were cut at any of them, if the checksums
\* do not tell.
LEMMA CutClimate ==
  ASSUME NEW c \in Word \X Word, NEW n \in 0 .. 5, NEW floats \in BOOLEAN
  PROVE  LET b == Cut(Sht3xBytes(c), n, SHT3X_READ, floats)
             t == 256 * b[1] + b[2]
             h == 256 * b[4] + b[5]
         IN  /\ \A i \in 1 .. 6 : b[i] \in Byte
             /\ Sht3xValid(b) => (t = c[1] /\ h = c[2]) \/ Misread(c, t, h)
<1> DEFINE g == Sht3xBytes(c)
           b == Cut(g, n, SHT3X_READ, floats)
           t == 256 * b[1] + b[2]
           h == 256 * b[4] + b[5]
<1>1. /\ Len(g) = 6 /\ \A i \in 1 .. 6 : g[i] \in Byte
      /\ g[1] = c[1] \div 256 /\ g[2] = c[1] % 256 /\ 256 * g[1] + g[2] = c[1]
      /\ g[4] = c[2] \div 256 /\ g[5] = c[2] % 256 /\ 256 * g[4] + g[5] = c[2]
      /\ g[3] = Sht3xCrc(g[1], g[2]) /\ g[6] = Sht3xCrc(g[4], g[5])
  BY ClimateBytes
<1> HIDE DEF g
<1>2. \A i \in 1 .. 6 : b[i] = IF i <= n THEN g[i] ELSE IF floats THEN 255 ELSE IF n = 0 THEN 137 ELSE g[n]
  <2>1. \A i \in 1 .. 6 : b[i] = IF i <= n THEN g[i] ELSE IF floats THEN 255 ELSE IF n = 0 THEN SHT3X_READ ELSE g[n]
    BY <1>1 DEF Cut
  <2> QED
    BY <2>1 DEF SHT3X_READ
<1> HIDE DEF b
<1>3. \A i \in 1 .. 6 : b[i] \in Byte
  BY <1>1, <1>2, OwnChecksum
<1>4. Misread(c, t, h) <=> \/ t = c[1] /\ h = 11051 /\ (g[3] = 43 \/ g[4] = 43)
                           \/ t = 11051 /\ h = 11051 /\ g[1] = 43
                           \/ t = c[1] /\ h = 41983 /\ g[4] = 163
  BY <1>1 DEF Misread
<1> SUFFICES ASSUME Sht3xCrc(b[1], b[2]) = b[3], Sht3xCrc(b[4], b[5]) = b[6]
             PROVE  (t = c[1] /\ h = c[2]) \/ Misread(c, t, h)
  BY <1>3 DEF Sht3xValid, b, g
<1>5. CASE n = 0
  <2>1. CASE floats
    <3>1. b[1] = 255 /\ b[2] = 255 /\ b[3] = 255
      BY <1>2, <1>5, <2>1
    <3> QED
      BY <3>1, OwnChecksum
  <2>2. CASE ~floats
    <3>1. b[1] = 137 /\ b[2] = 137 /\ b[3] = 137
      BY <1>2, <1>5, <2>2
    <3> QED
      BY <3>1, OwnChecksum
  <2> QED
    BY <2>1, <2>2
<1>6. CASE n = 1
  <2>1. CASE floats
    <3>1. b[4] = 255 /\ b[5] = 255 /\ b[6] = 255
      BY <1>2, <1>6, <2>1
    <3> QED
      BY <3>1, OwnChecksum
  <2>2. CASE ~floats
    <3>1. b[1] = g[1] /\ b[2] = g[1] /\ b[3] = g[1] /\ b[4] = g[1] /\ b[5] = g[1]
      BY <1>2, <1>6, <2>2
    <3>2. g[1] \in Byte
      BY <1>1
    <3>3. g[1] = 43
      BY <3>1, <3>2, OwnChecksum
    <3> QED
      BY <1>4, <3>1, <3>3
  <2> QED
    BY <2>1, <2>2
<1>7. CASE n = 2
  <2>1. CASE floats
    <3>1. b[4] = 255 /\ b[5] = 255 /\ b[6] = 255
      BY <1>2, <1>7, <2>1
    <3> QED
      BY <3>1, OwnChecksum
  <2>2. CASE ~floats
    <3>1. b[1] = g[1] /\ b[2] = g[2] /\ b[3] = g[2] /\ b[4] = g[2] /\ b[5] = g[2] /\ b[6] = g[2]
      BY <1>2, <1>7, <2>2
    <3>2. g[2] \in Byte
      BY <1>1
    <3>3. g[2] = 43
      BY <3>1, <3>2, OwnChecksum
    <3>4. g[3] = 43
      BY <1>1, <3>1, <3>3
    <3>5. t = c[1]
      BY <1>1, <3>1, Zenon
    <3>6. h = 11051
      BY <3>1, <3>3
    <3> QED
      BY <1>4, <3>4, <3>5, <3>6
  <2> QED
    BY <2>1, <2>2
<1>8. CASE n = 3
  <2>1. CASE floats
    <3>1. b[4] = 255 /\ b[5] = 255 /\ b[6] = 255
      BY <1>2, <1>8, <2>1
    <3> QED
      BY <3>1, OwnChecksum
  <2>2. CASE ~floats
    <3>1. b[1] = g[1] /\ b[2] = g[2] /\ b[4] = g[3] /\ b[5] = g[3] /\ b[6] = g[3]
      BY <1>2, <1>8, <2>2
    <3>2. g[3] \in Byte
      BY <1>1
    <3>3. g[3] = 43
      BY <3>1, <3>2, OwnChecksum
    <3>4. t = c[1]
      BY <1>1, <3>1, Zenon
    <3>5. h = 11051
      BY <3>1, <3>3
    <3> QED
      BY <1>4, <3>3, <3>4, <3>5
  <2> QED
    BY <2>1, <2>2
<1>9. CASE n = 4
  <2>1. b[1] = g[1] /\ b[2] = g[2] /\ b[4] = g[4] /\ g[4] \in Byte
    BY <1>1, <1>2, <1>9
  <2>2. t = c[1]
    BY <1>1, <2>1, Zenon
  <2>3. CASE floats
    <3>1. b[5] = 255 /\ b[6] = 255
      BY <1>2, <1>9, <2>3
    <3>2. g[4] = 163
      BY <2>1, <3>1, OwnChecksum
    <3>3. h = 41983
      BY <2>1, <3>1, <3>2
    <3> QED
      BY <1>4, <2>2, <3>2, <3>3
  <2>4. CASE ~floats
    <3>1. b[5] = g[4] /\ b[6] = g[4]
      BY <1>2, <1>9, <2>4
    <3>2. g[4] = 43
      BY <2>1, <3>1, OwnChecksum
    <3>3. h = 11051
      BY <2>1, <3>1, <3>2
    <3> QED
      BY <1>4, <2>2, <3>2, <3>3
  <2> QED
    BY <2>3, <2>4
<1>10. CASE n = 5
  <2>1. b[1] = g[1] /\ b[2] = g[2] /\ b[4] = g[4] /\ b[5] = g[5]
    BY <1>2, <1>10
  <2> QED
    BY <1>1, <2>1
<1> QED
  BY <1>5, <1>6, <1>7, <1>8, <1>9, <1>10

\* Without a result the sensor does not answer at all.
LEMMA CutNothing ==
  ASSUME NEW floats \in BOOLEAN
  PROVE  LET b == Cut(<<0, 0, 0, 0, 0, 0>>, 0, SHT3X_READ, floats)
         IN  (\A i \in 1 .. 6 : b[i] \in Byte) /\ ~Sht3xValid(b)
<1> DEFINE b == Cut(<<0, 0, 0, 0, 0, 0>>, 0, SHT3X_READ, floats)
<1>1. \A i \in 1 .. 6 : b[i] = IF floats THEN 255 ELSE 137
  BY DEF Cut, SHT3X_READ
<1> HIDE DEF b
<1>2. \A i \in 1 .. 6 : b[i] \in Byte
  BY <1>1, OwnChecksum
<1>3. b[1] = b[2] /\ b[2] = b[3] /\ (b[1] = 255 \/ b[1] = 137)
  BY <1>1
<1>4. ~Sht3xValid(b)
  BY <1>3, OwnChecksum DEF Sht3xValid
<1> QED
  BY <1>2, <1>4 DEF b

LEMMA PressureBytes ==
  ASSUME NEW l \in [value : Raw24, new : BOOLEAN]
  PROVE  LET b == Lps25hbBytes(l)
         IN  /\ Len(b) = 4 /\ \A i \in 1 .. 4 : b[i] \in Byte
             /\ 65536 * b[4] + 256 * b[3] + b[2] = l.value
             /\ Lps25hbValid(b) <=> l.new
<1> DEFINE b == Lps25hbBytes(l)
<1>1. l.value \in Raw24 /\ l.new \in BOOLEAN
  OBVIOUS
<1>2. /\ Len(b) = 4 /\ b[1] = IF l.new THEN 2 ELSE 0
      /\ b[2] = l.value % 256 /\ b[3] = (l.value \div 256) % 256 /\ b[4] = l.value \div 65536
  BY DEF Lps25hbBytes
<1> HIDE DEF b
<1>3. b[1] \in Byte /\ b[2] \in Byte /\ b[3] \in Byte /\ b[4] \in Byte
  BY <1>1, <1>2, SMT DEF Raw24, Byte
<1>4. 65536 * b[4] + 256 * b[3] + b[2] = l.value
  BY <1>1, <1>2, SMT DEF Raw24
<1>5. Lps25hbValid(b) <=> l.new
  BY <1>1, <1>2 DEF Lps25hbValid
<1>6. \A i \in 1 .. 4 : i = 1 \/ i = 2 \/ i = 3 \/ i = 4
  OBVIOUS
<1> QED
  BY <1>2, <1>3, <1>4, <1>5, <1>6 DEF b

\* A sensor that does not answer gives an invalid pressure.
LEMMA CutPressure ==
  ASSUME NEW l \in [value : Raw24, new : BOOLEAN], NEW n \in 0 .. 3, NEW floats \in BOOLEAN
  PROVE  LET b == Cut(Lps25hbBytes(l), n, LPS25HB_READ, floats)
         IN  /\ \A i \in 1 .. 4 : b[i] \in Byte
             /\ n = 0 /\ Lps25hbValid(b) => 65536 * b[4] + 256 * b[3] + b[2] = 16777215
<1> DEFINE g == Lps25hbBytes(l)
           b == Cut(g, n, LPS25HB_READ, floats)
<1>1. Len(g) = 4 /\ \A i \in 1 .. 4 : g[i] \in Byte
  BY PressureBytes
<1> HIDE DEF g
<1>2. \A i \in 1 .. 4 : b[i] = IF i <= n THEN g[i] ELSE IF floats THEN 255 ELSE IF n = 0 THEN 185 ELSE g[n]
  <2>1. \A i \in 1 .. 4 : b[i] = IF i <= n THEN g[i] ELSE IF floats THEN 255 ELSE IF n = 0 THEN LPS25HB_READ ELSE g[n]
    BY <1>1 DEF Cut
  <2> QED
    BY <2>1 DEF LPS25HB_READ
<1> HIDE DEF b
<1>3. 255 \in Byte /\ 185 \in Byte
  BY DEF Byte
<1>4. \A i \in 1 .. 4 : b[i] \in Byte
  BY <1>1, <1>2, <1>3
<1>5. ASSUME n = 0, Lps25hbValid(b) PROVE b[2] = 255 /\ b[3] = 255 /\ b[4] = 255
  <2>1. b[1] = IF floats THEN 255 ELSE 185
    BY <1>2, <1>5
  <2>2. floats
    BY <1>5, <2>1 DEF Lps25hbValid
  <2> QED
    BY <1>2, <1>5, <2>2
<1>6. n = 0 /\ Lps25hbValid(b) => 65536 * b[4] + 256 * b[3] + b[2] = 16777215
  BY <1>5, SMT
<1> QED
  BY <1>4, <1>6, SMT DEF b, g
-----------------------------------------------------------------------------
(* The invariants of one pass after the other. *)

TypeInv ==
  /\ pc \in {"climate", "pressure", "dust", "startclimate", "startpressure", "wake", "send", "sleep"}
  /\ sht \in Climates \cup {None}
  /\ lps \in [value : Raw24, new : BOOLEAN]
  /\ last \in Values
  /\ climateTaken \in Climates \cup {None}
  /\ pressureTaken \in Pressures \cup {None}
  /\ undisturbed \in BOOLEAN

\* From its start to its end, a measurement is that of the pass: it waits in
\* the sensor's registers, a restart in between included, and then in last.
FreshInv ==
  /\ climateTaken # None =>
       /\ pc \in {"startpressure", "wake", "send", "sleep", "climate"} => sht = climateTaken
       /\ pc \in {"pressure", "dust", "startclimate"} /\ undisturbed =>
            <<last.temperature, last.humidity>> = climateTaken
  /\ pressureTaken # None =>
       /\ pc \in {"wake", "send", "sleep", "climate", "pressure"} =>
            lps = [value |-> pressureTaken, new |-> TRUE]
       /\ pc \in {"dust", "startclimate"} /\ undisturbed => last.pressure = pressureTaken

ClimateMeasured ==
  \/ last.temperature = 65535 /\ last.humidity = 65535
  \/ last.temperature = 11051 /\ last.humidity = 11051 /\ 43 \in Held
  \/ \E c \in Climates : \/ <<last.temperature, last.humidity>> = c
                         \/ Misread(c, last.temperature, last.humidity)

PressureOfNobody == last.pressure \in Echoes \cup {16777215}

\* No sensor has been silent before the pass reads it.
MeasuredInv ==
  /\ pc \in {"pressure", "dust", "startclimate"} => ClimateMeasured
  /\ pc \notin {"dust", "startclimate"} => "lps" \notin silent
  /\ pc \in {"dust", "startclimate"} /\ "lps" \in silent => PressureOfNobody

\* While a frame is on the air, and until the interval is over, main() still
\* holds the values it was made of.
LinkInv ==
  /\ air # None =>
       /\ pc = "sleep"
       /\ \E byte \in Byte : air = PrepareFrame(last) \cup Positions(BitsOf[byte], 17)
  /\ msg # None => pc = "sleep" /\ msg = Sent(last) /\ readings = Parse(msg)

-----------------------------------------------------------------------------
(* The steps that read a sensor, on last. *)

LEMMA ClimateStored ==
  ASSUME TypeInv, NEW b, \A i \in 1 .. 6 : b[i] \in Byte, StoreClimate(b)
  PROVE  /\ last' \in Values /\ last'.pressure = last.pressure
         /\ Sht3xValid(b) => last'.temperature = 256 * b[1] + b[2] /\ last'.humidity = 256 * b[4] + b[5]
         /\ ~Sht3xValid(b) => last'.temperature = 65535 /\ last'.humidity = 65535
<1> DEFINE t == IF Sht3xValid(b) THEN 256 * b[1] + b[2] ELSE 65535
           h == IF Sht3xValid(b) THEN 256 * b[4] + b[5] ELSE 65535
<1>1. b[1] \in Byte /\ b[2] \in Byte /\ b[4] \in Byte /\ b[5] \in Byte
  OBVIOUS
<1>2. \A x, y \in Byte : 256 * x + y \in Word
  BY DEF Byte, Word
<1>3. 65535 \in Word
  BY DEF Word
<1>4. t \in Word /\ h \in Word
  BY <1>1, <1>2, <1>3
<1>5. last' = [last EXCEPT !.temperature = t, !.humidity = h]
  <2>1. CASE Sht3xValid(b)
    BY <2>1 DEF StoreClimate
  <2>2. CASE ~Sht3xValid(b)
    BY <2>2 DEF StoreClimate
  <2> QED
    BY <2>1, <2>2
<1> HIDE DEF t, h
<1>6. last' \in Values /\ last'.pressure = last.pressure /\ last'.temperature = t /\ last'.humidity = h
  BY <1>4, <1>5 DEF TypeInv, Values
<1> QED
  BY <1>6 DEF t, h

LEMMA PressureStored ==
  ASSUME TypeInv, NEW b, \A i \in 1 .. 4 : b[i] \in Byte, StorePressure(b)
  PROVE  /\ last' \in Values /\ last'.temperature = last.temperature /\ last'.humidity = last.humidity
         /\ Lps25hbValid(b) => last'.pressure = 65536 * b[4] + 256 * b[3] + b[2]
         /\ ~Lps25hbValid(b) => last'.pressure = 16777215
<1> DEFINE p == IF Lps25hbValid(b) THEN 65536 * b[4] + 256 * b[3] + b[2] ELSE 16777215
<1>1. b[2] \in Byte /\ b[3] \in Byte /\ b[4] \in Byte
  OBVIOUS
<1>2. 65536 * b[4] + 256 * b[3] + b[2] \in Raw24
  <2>1. ASSUME NEW x \in Byte, NEW y \in Byte, NEW z \in Byte PROVE 65536 * x + 256 * y + z \in Raw24
    BY SMT DEF Byte, Raw24
  <2> QED
    BY <1>1, <2>1
<1>3. 16777215 \in Raw24
  BY SMT DEF Raw24
<1>4. p \in Raw24
  BY <1>2, <1>3, SMT
<1>5. last' = [last EXCEPT !.pressure = p]
  BY SMT DEF StorePressure
<1> HIDE DEF p
<1>6. /\ last' \in Values /\ last'.temperature = last.temperature /\ last'.humidity = last.humidity
      /\ last'.pressure = p
  BY <1>4, <1>5 DEF TypeInv, Values
<1> QED
  BY <1>6, SMT DEF p

\* What ReadClimate and ReadClimateCut store.
LEMMA ClimateRead ==
  ASSUME TypeInv, ReadClimate
  PROVE  last' \in Values /\ last'.pressure = last.pressure /\ <<last'.temperature, last'.humidity>> = sht
<1>1. sht \in Word \X Word /\ sht = <<sht[1], sht[2]>>
  BY SensorValues DEF TypeInv, ReadClimate
<1> DEFINE b == Sht3xBytes(sht)
<1>2. /\ \A i \in 1 .. 6 : b[i] \in Byte
      /\ 256 * b[1] + b[2] = sht[1] /\ 256 * b[4] + b[5] = sht[2]
      /\ b[3] = Sht3xCrc(b[1], b[2]) /\ b[6] = Sht3xCrc(b[4], b[5])
  BY <1>1, ClimateBytes
<1>3. StoreClimate(b)
  BY DEF ReadClimate
<1> HIDE DEF b
<1>4. Sht3xValid(b)
  BY <1>2 DEF Sht3xValid
<1>5. /\ last' \in Values /\ last'.pressure = last.pressure
      /\ last'.temperature = 256 * b[1] + b[2] /\ last'.humidity = 256 * b[4] + b[5]
  BY <1>2, <1>3, <1>4, ClimateStored
<1> QED
  BY <1>1, <1>2, <1>5

LEMMA ClimateReadCut ==
  ASSUME TypeInv, NEW n \in 0 .. 5, NEW floats \in BOOLEAN, NEW keeps \in BOOLEAN, ReadClimateCut(n, floats, keeps)
  PROVE  last' \in Values /\ last'.pressure = last.pressure /\ ClimateMeasured'
<1>1. CASE sht = None
  <2> DEFINE b == Cut(<<0, 0, 0, 0, 0, 0>>, 0, SHT3X_READ, floats)
  <2>1. n = 0 /\ StoreClimate(b)
    BY <1>1 DEF ReadClimateCut
  <2>2. (\A i \in 1 .. 6 : b[i] \in Byte) /\ ~Sht3xValid(b)
    BY CutNothing
  <2> HIDE DEF b
  <2> QED
    BY <2>1, <2>2, ClimateStored DEF ClimateMeasured
<1>2. CASE sht # None
  <2> DEFINE b == Cut(Sht3xBytes(sht), n, SHT3X_READ, floats)
  <2>1. sht \in Climates /\ sht \in Word \X Word /\ sht = <<sht[1], sht[2]>>
    BY <1>2, SensorValues DEF TypeInv
  <2>2. StoreClimate(b)
    BY <1>2 DEF ReadClimateCut
  <2> DEFINE t == 256 * b[1] + b[2]
             h == 256 * b[4] + b[5]
  <2>3. /\ \A i \in 1 .. 6 : b[i] \in Byte
        /\ Sht3xValid(b) => (t = sht[1] /\ h = sht[2]) \/ Misread(sht, t, h)
    BY <2>1, CutClimate
  <2> HIDE DEF b
  <2>4. /\ last' \in Values /\ last'.pressure = last.pressure
        /\ Sht3xValid(b) => last'.temperature = t /\ last'.humidity = h
        /\ ~Sht3xValid(b) => last'.temperature = 65535 /\ last'.humidity = 65535
    BY <2>2, <2>3, ClimateStored
  <2> HIDE DEF t, h
  <2>5. CASE Sht3xValid(b)
    <3>1. <<last'.temperature, last'.humidity>> = sht \/ Misread(sht, last'.temperature, last'.humidity)
      BY <2>1, <2>3, <2>4, <2>5
    <3> QED
      BY <2>1, <2>4, <3>1 DEF ClimateMeasured
  <2>6. CASE ~Sht3xValid(b)
    BY <2>4, <2>6 DEF ClimateMeasured
  <2> QED
    BY <2>5, <2>6
<1> QED
  BY <1>1, <1>2

\* What ReadPressure and ReadPressureCut store.
LEMMA PressureRead ==
  ASSUME TypeInv, ReadPressure
  PROVE  /\ last' \in Values /\ last'.temperature = last.temperature /\ last'.humidity = last.humidity
         /\ lps.new => last'.pressure = lps.value
<1> DEFINE b == Lps25hbBytes(lps)
<1>1. /\ \A i \in 1 .. 4 : b[i] \in Byte
      /\ 65536 * b[4] + 256 * b[3] + b[2] = lps.value /\ (Lps25hbValid(b) <=> lps.new)
  BY PressureBytes DEF TypeInv
<1>2. StorePressure(b)
  BY DEF ReadPressure
<1> HIDE DEF b
<1> QED
  BY <1>1, <1>2, PressureStored, SMT

LEMMA PressureReadCut ==
  ASSUME TypeInv, NEW n \in 0 .. 3, NEW floats \in BOOLEAN, NEW keeps \in BOOLEAN, ReadPressureCut(n, floats, keeps)
  PROVE  /\ last' \in Values /\ last'.temperature = last.temperature /\ last'.humidity = last.humidity
         /\ n = 0 => last'.pressure = 16777215
<1> DEFINE b == Cut(Lps25hbBytes(lps), n, LPS25HB_READ, floats)
<1>1. /\ \A i \in 1 .. 4 : b[i] \in Byte
      /\ n = 0 /\ Lps25hbValid(b) => 65536 * b[4] + 256 * b[3] + b[2] = 16777215
  BY CutPressure, SMT DEF TypeInv
<1>2. StorePressure(b)
  BY DEF ReadPressureCut
<1> HIDE DEF b
<1> QED
  BY <1>1, <1>2, PressureStored, SMT

LEMMA PressureReadWrong ==
  ASSUME TypeInv, NEW b \in Registers, NEW keeps \in BOOLEAN, ReadPressureWrongRegister(b, keeps)
  PROVE  /\ last' \in Values /\ last'.temperature = last.temperature /\ last'.humidity = last.humidity
<1>1. \A i \in 1 .. 4 : b[i] \in Byte
  <2>1. b[1] \in Byte /\ b[2] \in Byte /\ b[3] \in Byte /\ b[4] \in Byte
    BY BusBytes
  <2>2. \A i \in 1 .. 4 : i = 1 \/ i = 2 \/ i = 3 \/ i = 4
    OBVIOUS
  <2> QED
    BY <2>1, <2>2
<1>2. StorePressure(b)
  BY DEF ReadPressureWrongRegister
<1> QED
  BY <1>1, <1>2, PressureStored, SMT

\* What a transaction stores that did not begin: of the bytes that TWDR may
\* hold only 0x2b is the checksum of itself twice.
LEMMA ClimateUnread ==
  ASSUME TypeInv, NEW byte \in Held, ReadClimateUnstarted(byte)
  PROVE  last' \in Values /\ last'.pressure = last.pressure /\ ClimateMeasured'
<1> DEFINE b == Unstarted(6, byte)
<1>1. byte \in Byte
  BY BusBytes
<1>2. \A i \in 1 .. 6 : b[i] = byte
  BY DEF Unstarted
<1>3. StoreClimate(b)
  BY DEF ReadClimateUnstarted
<1> HIDE DEF b
<1>4. \A i \in 1 .. 6 : b[i] \in Byte
  BY <1>1, <1>2
<1>5. /\ last' \in Values /\ last'.pressure = last.pressure
      /\ Sht3xValid(b) => last'.temperature = 256 * b[1] + b[2] /\ last'.humidity = 256 * b[4] + b[5]
      /\ ~Sht3xValid(b) => last'.temperature = 65535 /\ last'.humidity = 65535
  BY <1>3, <1>4, ClimateStored
<1>6. CASE Sht3xValid(b)
  <2>1. b[1] = byte /\ b[2] = byte /\ b[3] = byte /\ b[4] = byte /\ b[5] = byte
    BY <1>2
  <2>2. Sht3xCrc(byte, byte) = byte
    BY <1>6, <2>1 DEF Sht3xValid
  <2>3. byte = 43
    BY <1>1, <2>2, OwnChecksum
  <2>4. 256 * b[1] + b[2] = 11051 /\ 256 * b[4] + b[5] = 11051
    BY <2>1, <2>3
  <2> QED
    BY <1>5, <1>6, <2>3, <2>4 DEF ClimateMeasured
<1>7. CASE ~Sht3xValid(b)
  BY <1>5, <1>7 DEF ClimateMeasured
<1> QED
  BY <1>5, <1>6, <1>7

LEMMA PressureUnread ==
  ASSUME TypeInv, NEW byte \in Held \cup {STATUS_REG}, ReadPressureUnstarted(byte)
  PROVE  /\ last' \in Values /\ last'.temperature = last.temperature /\ last'.humidity = last.humidity
         /\ PressureOfNobody'
<1> DEFINE b == Unstarted(4, byte)
<1>1. byte \in Byte
  <2>1. 167 \in Byte
    BY DEF Byte
  <2> QED
    BY <2>1, BusBytes DEF STATUS_REG
<1>2. b[1] = byte /\ b[2] = byte /\ b[3] = byte /\ b[4] = byte
  BY DEF Unstarted
<1>3. StorePressure(b)
  BY DEF ReadPressureUnstarted
<1>4. \A i \in 1 .. 4 : b[i] \in Byte
  BY <1>1 DEF Unstarted
<1> HIDE DEF b
<1>5. /\ last' \in Values /\ last'.temperature = last.temperature /\ last'.humidity = last.humidity
      /\ Lps25hbValid(b) => last'.pressure = 65536 * b[4] + 256 * b[3] + b[2]
      /\ ~Lps25hbValid(b) => last'.pressure = 16777215
  BY <1>3, <1>4, PressureStored, SMT
<1>6. 65536 * b[4] + 256 * b[3] + b[2] = 65793 * byte
  BY <1>1, <1>2 DEF Byte
<1>7. ASSUME Lps25hbValid(b) PROVE last'.pressure \in Echoes
  <2>1. (byte \div 2) % 2 = 1
    BY <1>2, <1>7 DEF Lps25hbValid
  <2>2. 65793 * byte \in Echoes
    BY <2>1, SMT DEF Echoes
  <2>3. last'.pressure = 65793 * byte
    BY <1>5, <1>6, <1>7, SMT
  <2> QED
    BY <2>2, <2>3, SMT
<1>8. ASSUME ~Lps25hbValid(b) PROVE last'.pressure \in {16777215}
  BY <1>5, <1>8, SMT
<1>9. PressureOfNobody'
  BY <1>7, <1>8, SMT DEF PressureOfNobody, Echoes
<1> QED
  BY <1>5, <1>9, SMT

LEMMA BootValues == ASSUME NEW e \in Byte \X Byte PROVE Boot(e) \in Values
<1>1. LoadSettings(e[1], e[2]) \in Byte
  BY DEF LoadSettings, Byte
<1>2. 0 \in Byte /\ 0 \in Word /\ 65535 \in Word
  BY DEF Byte, Word
<1>3. 0 \in Raw24
  BY SMT DEF Raw24
<1> QED
  BY <1>1, <1>2, <1>3 DEF Boot, Values

\* Every variable keeps its type, whatever the bus does.  In particular the
\* values main() sends fit the bytes of their fields (main.c:103).
THEOREM TypeCorrect == Spec => []TypeInv
<1>1. Init => TypeInv
  <2> SUFFICES ASSUME Init PROVE TypeInv
    OBVIOUS
  <2>1. last \in Values
    BY BootValues, OtherBytes DEF Init
  <2>2. 0 \in Raw24
    BY SMT DEF Raw24
  <2> QED
    BY <2>1, <2>2 DEF Init, TypeInv
<1>2. TypeInv /\ [Next]_vars => TypeInv'
  <2> SUFFICES ASSUME TypeInv, [Next]_vars PROVE TypeInv'
    OBVIOUS
  <2> USE DEF history, link, chips
  <2>1. CASE ReadClimate
    BY <2>1, ClimateRead DEF ReadClimate, TypeInv
  <2>2. ASSUME NEW n \in 0 .. 5, NEW floats \in BOOLEAN, NEW keeps \in BOOLEAN, ReadClimateCut(n, floats, keeps)
        PROVE  TypeInv'
    BY <2>2, ClimateReadCut DEF ReadClimateCut, TypeInv
  <2>3. CASE ReadPressure
    BY <2>3, PressureRead DEF ReadPressure, TypeInv
  <2>4. ASSUME NEW n \in 0 .. 3, NEW floats \in BOOLEAN, NEW keeps \in BOOLEAN, ReadPressureCut(n, floats, keeps)
        PROVE  TypeInv'
    <3>1. last' \in Values
      BY <2>4, PressureReadCut, SMT
    <3> QED
      BY <2>4, <3>1 DEF ReadPressureCut, TypeInv
  <2>5. ASSUME NEW b \in Registers, NEW keeps \in BOOLEAN, ReadPressureWrongRegister(b, keeps) PROVE TypeInv'
    BY <2>5, PressureReadWrong DEF ReadPressureWrongRegister, TypeInv
  <2>17. ASSUME NEW byte \in Held, ReadClimateUnstarted(byte) PROVE TypeInv'
    BY <2>17, ClimateUnread DEF ReadClimateUnstarted, TypeInv
  <2>18. ASSUME NEW byte \in Held \cup {STATUS_REG}, ReadPressureUnstarted(byte) PROVE TypeInv'
    BY <2>18, PressureUnread DEF ReadPressureUnstarted, TypeInv
  <2>6. ASSUME NEW d \in Dusts, NEW bat \in Batteries, ReadDust(d, bat) PROVE TypeInv'
    <3>1. d[1] \in Word /\ d[2] \in Word /\ bat \in Byte
      BY SensorValues, OtherBytes
    <3>2. last' \in Values
      BY <2>6, <3>1 DEF ReadDust, TypeInv, Values
    <3> QED
      BY <2>6, <3>2 DEF ReadDust, TypeInv
  <2>7. ASSUME NEW c \in Climates \cup {None}, StartClimate(c) PROVE TypeInv'
    BY <2>7 DEF StartClimate, TypeInv
  <2>8. ASSUME NEW p \in Pressures \cup {None}, StartPressure(p) PROVE TypeInv'
    <3>1. p = None \/ p \in Raw24
      BY SensorValues
    <3> QED
      BY <2>8, <3>1 DEF StartPressure, TypeInv
  <2>9. CASE Wake
    BY <2>9 DEF Wake, TypeInv
  <2>10. CASE HangAndRestart
    <3>1. last.sensorid \in Byte /\ Boot(<<0, 0>>) \in Values
      <4>1. <<0, 0>> \in Byte \X Byte
        BY DEF Byte
      <4> QED
        BY <4>1, BootValues DEF TypeInv, Values
    <3>2. last' \in Values
      BY <2>10, <3>1 DEF HangAndRestart, Values
    <3> QED
      BY <2>10, <3>2 DEF HangAndRestart, TypeInv
  <2>11. ASSUME NEW byte \in Beyond, SendArray(byte) PROVE TypeInv'
    BY <2>11 DEF SendArray, TypeInv
  <2>12. CASE SendTimedOut
    BY <2>12 DEF SendTimedOut, TypeInv
  <2>13. ASSUME NEW burst \in Bursts, Receive(burst) PROVE TypeInv'
    BY <2>13 DEF Receive, TypeInv
  <2>14. CASE Lost
    BY <2>14 DEF Lost, TypeInv
  <2>15. CASE RadioSleep
    BY <2>15 DEF RadioSleep, TypeInv
  <2>16. CASE UNCHANGED vars
    BY <2>16 DEF vars, TypeInv
  <2> QED
    BY <2>1, <2>2, <2>3, <2>4, <2>5, <2>6, <2>7, <2>8, <2>9, <2>10, <2>11, <2>12, <2>13, <2>14, <2>15, <2>16, <2>17, <2>18 DEF Next
<1> QED
  BY <1>1, <1>2, PTL DEF Spec

-----------------------------------------------------------------------------
(* The freshness of what is sent. *)

LEMMA FreshStep == TypeInv /\ FreshInv /\ [Next]_vars => FreshInv'
<1> SUFFICES ASSUME TypeInv, FreshInv, [Next]_vars PROVE FreshInv'
  OBVIOUS
<1> USE DEF history, link, chips
<1>1. CASE ReadClimate
  BY <1>1, ClimateRead DEF ReadClimate, FreshInv
<1>2. ASSUME NEW n \in 0 .. 5, NEW floats \in BOOLEAN, NEW keeps \in BOOLEAN, ReadClimateCut(n, floats, keeps)
      PROVE  FreshInv'
  BY <1>2, ClimateReadCut DEF ReadClimateCut, FreshInv
<1>3. CASE ReadPressure
  BY <1>3, PressureRead DEF ReadPressure, FreshInv
<1>4. ASSUME NEW n \in 0 .. 3, NEW floats \in BOOLEAN, NEW keeps \in BOOLEAN, ReadPressureCut(n, floats, keeps)
      PROVE  FreshInv'
  BY <1>4 DEF ReadPressureCut, FreshInv
<1>5. ASSUME NEW b \in Registers, NEW keeps \in BOOLEAN, ReadPressureWrongRegister(b, keeps) PROVE FreshInv'
  BY <1>5 DEF ReadPressureWrongRegister, FreshInv
<1>17. ASSUME NEW byte \in Held, ReadClimateUnstarted(byte) PROVE FreshInv'
  BY <1>17 DEF ReadClimateUnstarted, FreshInv
<1>18. ASSUME NEW byte \in Held \cup {STATUS_REG}, ReadPressureUnstarted(byte) PROVE FreshInv'
  BY <1>18 DEF ReadPressureUnstarted, FreshInv
<1>6. ASSUME NEW d \in Dusts, NEW bat \in Batteries, ReadDust(d, bat) PROVE FreshInv'
  <2>1. last'.temperature = last.temperature /\ last'.humidity = last.humidity /\ last'.pressure = last.pressure
    BY <1>6 DEF ReadDust, TypeInv, Values
  <2> QED
    BY <1>6, <2>1 DEF ReadDust, FreshInv
<1>7. ASSUME NEW c \in Climates \cup {None}, StartClimate(c) PROVE FreshInv'
  BY <1>7 DEF StartClimate, FreshInv
<1>8. ASSUME NEW p \in Pressures \cup {None}, StartPressure(p) PROVE FreshInv'
  BY <1>8 DEF StartPressure, FreshInv
<1>9. CASE Wake
  BY <1>9 DEF Wake, FreshInv
<1>10. CASE HangAndRestart
  BY <1>10 DEF HangAndRestart, FreshInv
<1>11. ASSUME NEW byte \in Beyond, SendArray(byte) PROVE FreshInv'
  BY <1>11 DEF SendArray, FreshInv
<1>12. CASE SendTimedOut
  BY <1>12 DEF SendTimedOut, FreshInv
<1>13. ASSUME NEW burst \in Bursts, Receive(burst) PROVE FreshInv'
  BY <1>13 DEF Receive, FreshInv
<1>14. CASE Lost
  BY <1>14 DEF Lost, FreshInv
<1>15. CASE RadioSleep
  BY <1>15 DEF RadioSleep, FreshInv
<1>16. CASE UNCHANGED vars
  BY <1>16 DEF vars, FreshInv
<1> QED
  BY <1>1, <1>2, <1>3, <1>4, <1>5, <1>6, <1>7, <1>8, <1>9, <1>10, <1>11, <1>12, <1>13, <1>14, <1>15, <1>16, <1>17, <1>18 DEF Next

\* If no reading transaction of the pass was cut, the values main() holds
\* are those whose measurement was started in the pass before, if its start
\* command got through, also after a restart in between (main.c:203, 212, 222).
THEOREM Freshness == Spec => []FreshValues
<1>1. Init => FreshInv
  BY DEF Init, FreshInv
<1>2. FreshInv => FreshValues
  BY DEF FreshInv, FreshValues, Sampled
<1> QED
  BY <1>1, <1>2, TypeCorrect, FreshStep, PTL DEF Spec

-----------------------------------------------------------------------------
(* What is taken for a measurement. *)

LEMMA MeasuredStep == TypeInv /\ MeasuredInv /\ [Next]_vars => MeasuredInv'
<1> SUFFICES ASSUME TypeInv, MeasuredInv, [Next]_vars PROVE MeasuredInv'
  OBVIOUS
<1> USE DEF history, link, chips
<1>1. CASE ReadClimate
  <2>1. sht \in Climates
    BY <1>1 DEF ReadClimate, TypeInv
  <2>2. ClimateMeasured'
    BY <1>1, <2>1, ClimateRead DEF ClimateMeasured
  <2> QED
    BY <1>1, <2>2, SMT DEF ReadClimate, MeasuredInv
<1>2. ASSUME NEW n \in 0 .. 5, NEW floats \in BOOLEAN, NEW keeps \in BOOLEAN, ReadClimateCut(n, floats, keeps)
      PROVE  MeasuredInv'
  <2>1. ClimateMeasured'
    BY <1>2, ClimateReadCut
  <2> QED
    BY <1>2, <2>1, SMT DEF ReadClimateCut, MeasuredInv
<1>3. CASE ReadPressure
  <2>1. ClimateMeasured'
    BY <1>3, PressureRead, SMT DEF ReadPressure, MeasuredInv, ClimateMeasured
  <2> QED
    BY <1>3, <2>1, SMT DEF ReadPressure, MeasuredInv
<1>4. ASSUME NEW n \in 0 .. 3, NEW floats \in BOOLEAN, NEW keeps \in BOOLEAN, ReadPressureCut(n, floats, keeps)
      PROVE  MeasuredInv'
  <2>1. ClimateMeasured /\ "lps" \notin silent
    BY <1>4, SMT DEF ReadPressureCut, MeasuredInv
  <2>2. last'.temperature = last.temperature /\ last'.humidity = last.humidity
    BY <1>4, PressureReadCut, SMT
  <2>3. ClimateMeasured'
    BY <2>1, <2>2 DEF ClimateMeasured
  <2>4. pc' = "dust" /\ ("lps" \in silent' => n = 0)
    BY <1>4, <2>1 DEF ReadPressureCut
  <2>5. n = 0 => PressureOfNobody'
    <3>1. n = 0 => last'.pressure \in {16777215}
      BY <1>4, PressureReadCut, SMT
    <3> QED
      BY <3>1, SMT DEF PressureOfNobody, Echoes
  <2> QED
    BY <2>3, <2>4, <2>5, SMT DEF MeasuredInv
<1>5. ASSUME NEW b \in Registers, NEW keeps \in BOOLEAN, ReadPressureWrongRegister(b, keeps) PROVE MeasuredInv'
  <2>1. ClimateMeasured /\ "lps" \notin silent
    BY <1>5, SMT DEF ReadPressureWrongRegister, MeasuredInv
  <2>2. ClimateMeasured'
    BY <1>5, <2>1, PressureReadWrong DEF ClimateMeasured
  <2>3. pc' = "dust" /\ silent' = silent
    BY <1>5 DEF ReadPressureWrongRegister
  <2> QED
    BY <2>1, <2>2, <2>3, SMT DEF MeasuredInv
<1>6. ASSUME NEW d \in Dusts, NEW bat \in Batteries, ReadDust(d, bat) PROVE MeasuredInv'
  <2>1. last'.temperature = last.temperature /\ last'.humidity = last.humidity /\ last'.pressure = last.pressure
    BY <1>6 DEF ReadDust, TypeInv, Values
  <2>2. ClimateMeasured'
    BY <1>6, <2>1, SMT DEF ReadDust, MeasuredInv, ClimateMeasured
  <2> QED
    BY <1>6, <2>1, <2>2, SMT DEF ReadDust, MeasuredInv, PressureOfNobody
<1>7. ASSUME NEW c \in Climates \cup {None}, StartClimate(c) PROVE MeasuredInv'
  BY <1>7, SMT DEF StartClimate, MeasuredInv
<1>8. ASSUME NEW p \in Pressures \cup {None}, StartPressure(p) PROVE MeasuredInv'
  BY <1>8, SMT DEF StartPressure, MeasuredInv
<1>9. CASE Wake
  BY <1>9, SMT DEF Wake, MeasuredInv
<1>10. CASE HangAndRestart
  BY <1>10, SMT DEF HangAndRestart, MeasuredInv
<1>11. ASSUME NEW byte \in Beyond, SendArray(byte) PROVE MeasuredInv'
  BY <1>11, SMT DEF SendArray, MeasuredInv
<1>12. CASE SendTimedOut
  BY <1>12, SMT DEF SendTimedOut, MeasuredInv
<1>13. CASE \E burst \in Bursts : Receive(burst)
  <2>1. UNCHANGED <<pc, last, silent>>
    BY <1>13 DEF Receive
  <2> QED
    BY <2>1, SMT DEF MeasuredInv, ClimateMeasured, PressureOfNobody
<1>14. CASE Lost \/ UNCHANGED vars
  <2>1. UNCHANGED <<pc, last, silent>>
    BY <1>14 DEF Lost, vars
  <2> QED
    BY <2>1, SMT DEF MeasuredInv, ClimateMeasured, PressureOfNobody
<1>15. CASE RadioSleep
  BY <1>15, SMT DEF RadioSleep, MeasuredInv
<1>16. ASSUME NEW byte \in Held, ReadClimateUnstarted(byte) PROVE MeasuredInv'
  <2>1. ClimateMeasured'
    BY <1>16, ClimateUnread
  <2> QED
    BY <1>16, <2>1, SMT DEF ReadClimateUnstarted, MeasuredInv
<1>17. ASSUME NEW byte \in Held \cup {STATUS_REG}, ReadPressureUnstarted(byte) PROVE MeasuredInv'
  <2>1. ClimateMeasured
    BY <1>17, SMT DEF ReadPressureUnstarted, MeasuredInv
  <2>2. last'.temperature = last.temperature /\ last'.humidity = last.humidity /\ PressureOfNobody'
    BY <1>17, PressureUnread
  <2>3. ClimateMeasured'
    BY <2>1, <2>2 DEF ClimateMeasured
  <2>4. pc' = "dust"
    BY <1>17 DEF ReadPressureUnstarted
  <2> QED
    BY <2>2, <2>3, <2>4, SMT DEF MeasuredInv
<1> QED
  BY <1>1, <1>2, <1>3, <1>4, <1>5, <1>6, <1>7, <1>8, <1>9, <1>10, <1>11, <1>12, <1>13, <1>14, <1>15, <1>16, <1>17 DEF Next

\* Whatever byte a transaction is cut at, and if it does not even begin,
\* temperature and humidity are one measurement of the SHT31 or both marked
\* invalid, but for the bytes that are their own checksum; a LPS25HB that sends
\* nothing leaves the pressure marked invalid or, if START did not come about,
\* one byte three times over (twi.c:28, 38-40, sht3x.c:85, lps25hb.c:55-59).
THEOREM Measured == Spec => []OnlyMeasured
<1>1. Init => MeasuredInv
  BY SMT DEF Init, MeasuredInv
<1>2. MeasuredInv => OnlyMeasured
  BY SMT DEF MeasuredInv, ClimateMeasured, PressureOfNobody, OnlyMeasured, Sampled
<1> QED
  BY <1>1, <1>2, TypeCorrect, MeasuredStep, PTL DEF Spec
-----------------------------------------------------------------------------
(* What arrives. *)

LEMMA Behind ==
  ASSUME NEW byte \in Byte
  PROVE  \A j \in 0 .. 16 : Exponents(Positions(BitsOf[byte], 17), j) = {}
<1>1. BitsOf[byte] \in Reg
  BY BitsOfType
<1> QED
  BY <1>1, PositionsExponents

LEMMA LinkStep == TypeInv /\ LinkInv /\ [Next]_vars => LinkInv'
<1> SUFFICES ASSUME TypeInv, LinkInv, [Next]_vars PROVE LinkInv'
  OBVIOUS
<1> USE DEF history, link, chips
<1>1. CASE pc # "sleep" /\ UNCHANGED <<air, msg>>
  BY <1>1 DEF LinkInv
<1>2. ASSUME NEW byte \in Beyond, SendArray(byte) PROVE LinkInv'
  <2>1. byte \in Byte
    BY OtherBytes
  <2>2. msg' = None
    BY <1>2 DEF SendArray, LinkInv
  <2> QED
    BY <1>2, <2>1, <2>2 DEF SendArray, LinkInv
<1>3. ASSUME NEW burst \in Bursts, Receive(burst) PROVE LinkInv'
  <2> DEFINE bits == Xor(air, burst)
  <2>1. PICK byte \in Byte : air = PrepareFrame(last) \cup Positions(BitsOf[byte], 17)
    BY <1>3 DEF Receive, LinkInv
  <2>2. last \in Values /\ Burst(burst)
    BY BurstAssumption DEF TypeInv, Burst
  <2>3. Accepts(bits, 18) /\ Matches(Message(bits)) => Message(bits) = Sent(last)
    BY <2>1, <2>2, Behind, Delivered
  <2>4. /\ air' = None /\ pc' = pc /\ last' = last /\ pc = "sleep"
        /\ \/ Accepts(bits, 18) /\ Matches(Message(bits)) /\ msg' = Message(bits) /\ readings' = Parse(Message(bits))
           \/ msg' = msg /\ readings' = readings
    BY <1>3 DEF Receive, LinkInv
  <2> HIDE DEF bits
  <2> QED
    BY <2>3, <2>4 DEF LinkInv
<1>4. CASE Lost
  BY <1>4 DEF Lost, LinkInv
<1>5. CASE RadioSleep
  BY <1>5 DEF RadioSleep, LinkInv
<1>6. CASE UNCHANGED vars
  BY <1>6 DEF vars, LinkInv
<1>7. ASSUME Next, ~(pc # "sleep" /\ UNCHANGED <<air, msg>>)
      PROVE  \/ \E byte \in Beyond : SendArray(byte)
             \/ \E burst \in Bursts : Receive(burst)
             \/ Lost
             \/ RadioSleep
  BY <1>7, Zenon DEF Next, ReadClimate, ReadClimateCut, ReadPressure, ReadPressureCut, ReadPressureWrongRegister,
     ReadClimateUnstarted, ReadPressureUnstarted, ReadDust, StartClimate, StartPressure, Wake, HangAndRestart, SendTimedOut
<1> QED
  BY <1>1, <1>2, <1>3, <1>4, <1>5, <1>6, <1>7

\* The readings in terms of the values.
PressureOf(p) == IF p # 16777215 THEN (p * 125 + 256) \div 512 ELSE 0
TemperatureOf(t) == IF t # 65535 THEN (7000 * t + 13107) \div 26214 - 4500 ELSE -10100
HumidityOf(t, h) == IF t # 65535 THEN (400 * h + 13107) \div 26214 ELSE -10

LEMMA PressureReading ==
  ASSUME NEW p \in Raw24
  PROVE  /\ PressureOf(p) > 100000 <=> p > 409602 /\ p # 16777215
         /\ PressureOf(p) > 100000 => Near(PressureOf(p), 0, p, 125, 512)
BY SMT DEF PressureOf, Raw24, Near

LEMMA TemperatureReading ==
  ASSUME NEW t \in Word
  PROVE  /\ TemperatureOf(t) > -10000 /\ TemperatureOf(t) < 10000 <=> t < 54299
         /\ TemperatureOf(t) > -10000 => Near(TemperatureOf(t), -4500, t, 3500, 13107)
<1>1. CASE t = 65535
  BY <1>1, SMT DEF TemperatureOf
<1>2. CASE t # 65535
  <2> DEFINE x == (7000 * t + 13107) \div 26214
  <2>1. t \in Nat /\ t < 65536 /\ x \in Int /\ 26214 * x <= 7000 * t + 13107 /\ 7000 * t + 13107 < 26214 * x + 26214
    BY SMT DEF Word
  <2>2. TemperatureOf(t) = x - 4500
    BY <1>2, SMT DEF TemperatureOf
  <2> HIDE DEF x
  <2>3. x - 4500 > -10000
    BY <2>1, SMT
  <2>4. x - 4500 < 10000 <=> t < 54299
    BY <2>1, SMT
  <2>5. Near(x - 4500, -4500, t, 3500, 13107)
    BY <2>1, SMT DEF Near
  <2> QED
    BY <2>2, <2>3, <2>4, <2>5, SMT
<1> QED
  BY <1>1, <1>2, SMT

LEMMA HumidityReading ==
  ASSUME NEW t \in Word, NEW h \in Word
  PROVE  /\ HumidityOf(t, h) >= 0 /\ HumidityOf(t, h) <= 1000 <=> t # 65535
         /\ HumidityOf(t, h) >= 0 => Near(HumidityOf(t, h), 0, h, 200, 13107)
<1>1. CASE t = 65535
  BY <1>1, SMT DEF HumidityOf
<1>2. CASE t # 65535
  <2> DEFINE x == (400 * h + 13107) \div 26214
  <2>1. h \in Nat /\ h < 65536 /\ x \in Int /\ 26214 * x <= 400 * h + 13107 /\ 400 * h + 13107 < 26214 * x + 26214
    BY SMT DEF Word
  <2>2. HumidityOf(t, h) = x
    BY <1>2, SMT DEF HumidityOf
  <2> HIDE DEF x
  <2>3. x >= 0 /\ x <= 1000
    BY <2>1, SMT
  <2>4. Near(x, 0, h, 200, 13107)
    BY <2>1, SMT DEF Near
  <2> QED
    BY <1>2, <2>2, <2>3, <2>4, SMT
<1> QED
  BY <1>1, <1>2, SMT

LEMMA SentBytes ==
  ASSUME NEW v \in Values
  PROVE  LET m == Sent(v)
         IN  /\ m[1] = v.sensorid
             /\ 65536 * m[3] + 256 * m[4] + m[5] = v.pressure
             /\ 256 * m[6] + m[7] = v.temperature
             /\ 256 * m[8] + m[9] = v.humidity
             /\ 256 * m[10] + m[11] = v.pm2_5
             /\ 256 * m[12] + m[13] = v.pm10
             /\ m[14] = v.batvolt
<1> DEFINE m == Sent(v)
<1>1. /\ v.pressure \in Raw24 /\ v.temperature \in Word /\ v.humidity \in Word
      /\ v.pm2_5 \in Word /\ v.pm10 \in Word
  BY DEF Values
<1>2. m[1] = Fields(v)[2] /\ \A i \in 3 .. 14 : m[i] = Fields(v)[i + 2]
  BY DEF Sent
<1> HIDE DEF m
<1>3. ASSUME NEW w \in Word PROVE 256 * ((w \div 256) % 256) + ((w \div 1) % 256) = w
  BY SMT DEF Word
<1>4. ASSUME NEW p \in Raw24
      PROVE  65536 * ((p \div 65536) % 256) + 256 * ((p \div 256) % 256) + ((p \div 1) % 256) = p
  BY SMT DEF Raw24
<1>5. /\ m[3] = Fields(v)[5] /\ m[4] = Fields(v)[6] /\ m[5] = Fields(v)[7] /\ m[6] = Fields(v)[8]
      /\ m[7] = Fields(v)[9] /\ m[8] = Fields(v)[10] /\ m[9] = Fields(v)[11] /\ m[10] = Fields(v)[12]
      /\ m[11] = Fields(v)[13] /\ m[12] = Fields(v)[14] /\ m[13] = Fields(v)[15] /\ m[14] = Fields(v)[16]
  BY <1>2
<1>6. m[1] = v.sensorid /\ m[14] = v.batvolt
  BY <1>2, <1>5, FieldsAre, SMT
<1>7. 65536 * m[3] + 256 * m[4] + m[5] = v.pressure
  BY <1>1, <1>4, <1>5, FieldsAre, SMT
<1>8. 256 * m[6] + m[7] = v.temperature
  BY <1>1, <1>3, <1>5, FieldsAre, SMT
<1>9. 256 * m[8] + m[9] = v.humidity
  BY <1>1, <1>3, <1>5, FieldsAre, SMT
<1>10. 256 * m[10] + m[11] = v.pm2_5
  BY <1>1, <1>3, <1>5, FieldsAre, SMT
<1>11. 256 * m[12] + m[13] = v.pm10
  BY <1>1, <1>3, <1>5, FieldsAre, SMT
<1> QED
  BY <1>6, <1>7, <1>8, <1>9, <1>10, <1>11, SMT DEF m

\* The readings of a message.
LEMMA ParseSent ==
  ASSUME NEW v \in Values
  PROVE  Parse(Sent(v)) =
           LET pressure == PressureOf(v.pressure)
               temperature == TemperatureOf(v.temperature)
               relhum == HumidityOf(v.temperature, v.humidity)
           IN  UNION {Reading("pressure", pressure, pressure > 100000),
                      Reading("temperature", temperature, temperature > -10000 /\ temperature < 10000),
                      Reading("humidity", relhum, relhum >= 0 /\ relhum <= 1000),
                      Reading("pm2_5", v.pm2_5, v.pm2_5 < 10000),
                      Reading("pm10", v.pm10, v.pm10 < 10000),
                      Reading("batvolt", 11 * v.batvolt, 11 * v.batvolt > 0 /\ 11 * v.batvolt < 2500)}
<1> DEFINE m == Sent(v)
<1>1. /\ 65536 * m[2 + 1] + 256 * m[3 + 1] + m[4 + 1] = v.pressure
      /\ 256 * m[5 + 1] + m[6 + 1] = v.temperature
      /\ 256 * m[7 + 1] + m[8 + 1] = v.humidity
      /\ 256 * m[9 + 1] + m[10 + 1] = v.pm2_5
      /\ 256 * m[11 + 1] + m[12 + 1] = v.pm10
      /\ m[13 + 1] = v.batvolt
  BY SentBytes, SMT
<1> HIDE DEF m
<1>2. Parse(m) =
           LET pressure == PressureOf(v.pressure)
               temperature == TemperatureOf(v.temperature)
               relhum == HumidityOf(v.temperature, v.humidity)
           IN  UNION {Reading("pressure", pressure, pressure > 100000),
                      Reading("temperature", temperature, temperature > -10000 /\ temperature < 10000),
                      Reading("humidity", relhum, relhum >= 0 /\ relhum <= 1000),
                      Reading("pm2_5", v.pm2_5, v.pm2_5 < 10000),
                      Reading("pm10", v.pm10, v.pm10 < 10000),
                      Reading("batvolt", 11 * v.batvolt, 11 * v.batvolt > 0 /\ 11 * v.batvolt < 2500)}
  BY <1>1, SMT DEF Parse, PressureOf, TemperatureOf, HumidityOf
<1> QED
  BY <1>2, SMT DEF m
LEMMA ReadingsMember ==
  ASSUME NEW v \in Values, NEW r
  PROVE  LET pressure == PressureOf(v.pressure)
             temperature == TemperatureOf(v.temperature)
             relhum == HumidityOf(v.temperature, v.humidity)
         IN  r \in Parse(Sent(v)) <=>
               \/ r = <<"pressure", pressure>> /\ pressure > 100000
               \/ r = <<"temperature", temperature>> /\ temperature > -10000 /\ temperature < 10000
               \/ r = <<"humidity", relhum>> /\ relhum >= 0 /\ relhum <= 1000
               \/ r = <<"pm2_5", v.pm2_5>> /\ v.pm2_5 < 10000
               \/ r = <<"pm10", v.pm10>> /\ v.pm10 < 10000
               \/ r = <<"batvolt", 11 * v.batvolt>> /\ 11 * v.batvolt > 0 /\ 11 * v.batvolt < 2500
<1> DEFINE pressure == PressureOf(v.pressure)
           temperature == TemperatureOf(v.temperature)
           relhum == HumidityOf(v.temperature, v.humidity)
           bat == 11 * v.batvolt
           ok1 == pressure > 100000
           ok2 == temperature > -10000 /\ temperature < 10000
           ok3 == relhum >= 0 /\ relhum <= 1000
           ok4 == v.pm2_5 < 10000
           ok5 == v.pm10 < 10000
           ok6 == bat > 0 /\ bat < 2500
<1>1. Parse(Sent(v)) = UNION {Reading("pressure", pressure, ok1), Reading("temperature", temperature, ok2),
                              Reading("humidity", relhum, ok3), Reading("pm2_5", v.pm2_5, ok4),
                              Reading("pm10", v.pm10, ok5), Reading("batvolt", bat, ok6)}
  BY ParseSent, SMT
<1> HIDE DEF pressure, temperature, relhum, bat, ok1, ok2, ok3, ok4, ok5, ok6
<1>2. r \in Parse(Sent(v)) <=>
        \/ r \in Reading("pressure", pressure, ok1) \/ r \in Reading("temperature", temperature, ok2)
        \/ r \in Reading("humidity", relhum, ok3) \/ r \in Reading("pm2_5", v.pm2_5, ok4)
        \/ r \in Reading("pm10", v.pm10, ok5) \/ r \in Reading("batvolt", bat, ok6)
  BY <1>1, Zenon
<1>3. r \in Parse(Sent(v)) <=>
        \/ r = <<"pressure", pressure>> /\ ok1
        \/ r = <<"temperature", temperature>> /\ ok2
        \/ r = <<"humidity", relhum>> /\ ok3
        \/ r = <<"pm2_5", v.pm2_5>> /\ ok4
        \/ r = <<"pm10", v.pm10>> /\ ok5
        \/ r = <<"batvolt", bat>> /\ ok6
  BY <1>2, Zenon DEF Reading
<1> QED
  BY <1>3, SMT DEF pressure, temperature, relhum, bat, ok1, ok2, ok3, ok4, ok5, ok6

LEMMA ReadingsOfValues ==
  ASSUME last \in Values, readings = Parse(Sent(last))
  PROVE  {r[1] : r \in readings} = Valid /\ \A r \in readings : ReadingTrue(r[1], r[2])
<1> DEFINE pressure == PressureOf(last.pressure)
           temperature == TemperatureOf(last.temperature)
           relhum == HumidityOf(last.temperature, last.humidity)
           bat == 11 * last.batvolt
<1>1. /\ last.pressure \in Raw24 /\ last.temperature \in Word /\ last.humidity \in Word
      /\ last.batvolt \in Byte
  BY DEF Values
<1>2. /\ pressure > 100000 <=> last.pressure > 409602 /\ last.pressure # 16777215
      /\ pressure > 100000 => Near(pressure, 0, last.pressure, 125, 512)
  BY <1>1, PressureReading, SMT
<1>3. /\ temperature > -10000 /\ temperature < 10000 <=> last.temperature < 54299
      /\ temperature > -10000 => Near(temperature, -4500, last.temperature, 3500, 13107)
  BY <1>1, TemperatureReading, SMT
<1>4. /\ relhum >= 0 /\ relhum <= 1000 <=> last.temperature # 65535
      /\ relhum >= 0 => Near(relhum, 0, last.humidity, 200, 13107)
  BY <1>1, HumidityReading, SMT
<1>5. bat > 0 /\ bat < 2500 <=> last.batvolt \in 1 .. 227
  BY <1>1, SMT DEF Byte
<1>6. ASSUME NEW r
      PROVE  r \in readings <=>
               \/ r = <<"pressure", pressure>> /\ pressure > 100000
               \/ r = <<"temperature", temperature>> /\ temperature > -10000 /\ temperature < 10000
               \/ r = <<"humidity", relhum>> /\ relhum >= 0 /\ relhum <= 1000
               \/ r = <<"pm2_5", last.pm2_5>> /\ last.pm2_5 < 10000
               \/ r = <<"pm10", last.pm10>> /\ last.pm10 < 10000
               \/ r = <<"batvolt", bat>> /\ bat > 0 /\ bat < 2500
  BY ReadingsMember, SMT
<1> HIDE DEF pressure, temperature, relhum, bat
<1>7. ASSUME NEW n
      PROVE  (\E r \in readings : n = r[1]) <=>
               \/ n = "pressure" /\ pressure > 100000
               \/ n = "temperature" /\ temperature > -10000 /\ temperature < 10000
               \/ n = "humidity" /\ relhum >= 0 /\ relhum <= 1000
               \/ n = "pm2_5" /\ last.pm2_5 < 10000
               \/ n = "pm10" /\ last.pm10 < 10000
               \/ n = "batvolt" /\ bat > 0 /\ bat < 2500
  <2>1. ASSUME NEW r \in readings, n = r[1]
        PROVE  \/ n = "pressure" /\ pressure > 100000
               \/ n = "temperature" /\ temperature > -10000 /\ temperature < 10000
               \/ n = "humidity" /\ relhum >= 0 /\ relhum <= 1000
               \/ n = "pm2_5" /\ last.pm2_5 < 10000
               \/ n = "pm10" /\ last.pm10 < 10000
               \/ n = "batvolt" /\ bat > 0 /\ bat < 2500
    BY <1>6, <2>1, SMT
  <2>2. /\ pressure > 100000 => <<"pressure", pressure>> \in readings
        /\ temperature > -10000 /\ temperature < 10000 => <<"temperature", temperature>> \in readings
        /\ relhum >= 0 /\ relhum <= 1000 => <<"humidity", relhum>> \in readings
        /\ last.pm2_5 < 10000 => <<"pm2_5", last.pm2_5>> \in readings
        /\ last.pm10 < 10000 => <<"pm10", last.pm10>> \in readings
        /\ bat > 0 /\ bat < 2500 => <<"batvolt", bat>> \in readings
    BY <1>6, SMT
  <2>3. \A x, y : <<x, y>>[1] = x
    BY SMT
  <2> QED
    BY <2>1, <2>2, <2>3, SMT
<1>8. ASSUME NEW n
      PROVE  n \in Valid <=>
               \/ n = "pressure" /\ last.pressure > 409602 /\ last.pressure # 16777215
               \/ n = "temperature" /\ last.temperature < 54299
               \/ n = "humidity" /\ last.temperature # 65535
               \/ n = "pm2_5" /\ last.pm2_5 < 10000
               \/ n = "pm10" /\ last.pm10 < 10000
               \/ n = "batvolt" /\ last.batvolt \in 1 .. 227
  BY SMT DEF Valid
<1>9. {r[1] : r \in readings} = Valid
  <2>1. ASSUME NEW n PROVE (\E r \in readings : n = r[1]) <=> n \in Valid
    BY <1>2, <1>3, <1>4, <1>5, <1>7, <1>8, SMT
  <2> QED
    BY <2>1, Zenon
<1>10. ASSUME NEW r \in readings PROVE ReadingTrue(r[1], r[2])
  <2>1. CASE r = <<"pressure", pressure>> /\ pressure > 100000
    BY <1>2, <2>1, SMT DEF ReadingTrue
  <2>2. CASE r = <<"temperature", temperature>> /\ temperature > -10000 /\ temperature < 10000
    BY <1>3, <2>2, SMT DEF ReadingTrue
  <2>3. CASE r = <<"humidity", relhum>> /\ relhum >= 0 /\ relhum <= 1000
    BY <1>4, <2>3, SMT DEF ReadingTrue
  <2>4. CASE r = <<"pm2_5", last.pm2_5>>
    BY <2>4, SMT DEF ReadingTrue
  <2>5. CASE r = <<"pm10", last.pm10>>
    BY <2>5, SMT DEF ReadingTrue
  <2>6. CASE r = <<"batvolt", bat>>
    <3>1. r[1] = "batvolt" /\ r[2] = 11 * last.batvolt
      BY <2>6, SMT DEF bat
    <3> QED
      BY <3>1, SMT DEF ReadingTrue
  <2> QED
    BY <1>6, <2>1, <2>2, <2>3, <2>4, <2>5, <2>6, SMT
<1> QED
  BY <1>9, <1>10, SMT

\* Whatever the air does to a frame, a message the receiver takes carries
\* the identity and the values main() sent, with every invalid value left
\* out and every valid one in its own unit (main.c:103, 36_...pm:160-249).
THEOREM Truthful == Spec => []ReadingsTrue
<1>1. Init => LinkInv
  BY DEF Init, LinkInv
<1>2. TypeInv /\ LinkInv => ReadingsTrue
  <2> SUFFICES ASSUME TypeInv, LinkInv, msg # None
               PROVE  /\ msg[1] = last.sensorid
                      /\ {r[1] : r \in readings} = Valid
                      /\ \A r \in readings : ReadingTrue(r[1], r[2])
    BY DEF ReadingsTrue
  <2>1. last \in Values /\ msg = Sent(last) /\ readings = Parse(Sent(last))
    BY DEF TypeInv, LinkInv
  <2>2. msg[1] = last.sensorid
    BY <2>1, SentBytes, SMT
  <2> QED
    BY <2>1, <2>2, ReadingsOfValues, Zenon
<1> QED
  BY <1>1, <1>2, TypeCorrect, LinkStep, PTL DEF Spec

-----------------------------------------------------------------------------
(* The checksum detects every short burst. *)

\* Whatever values a frame carries and whatever byte follows it: if any bits of
\* it are turned over, all within 8 neighbouring ones, it is refused.  So the
\* one frame that BurstsDetected looks at stands for all of them (main.c:61).
THEOREM EveryFrame ==
  ASSUME NEW v \in Values, NEW byte \in Byte, NEW b, Burst(b), \E q \in b : q < 136
  PROVE  LET bits == Xor(PrepareFrame(v) \cup Positions(BitsOf[byte], 17), b)
         IN  ~(Accepts(bits, 18) /\ Matches(Message(bits)))
<1> DEFINE tail == Positions(BitsOf[byte], 17)
           bits == Xor(PrepareFrame(v) \cup tail, b)
<1> SUFFICES ASSUME Accepts(bits, 18), Matches(Message(bits)) PROVE FALSE
  OBVIOUS
<1>1. \A j \in 0 .. 16 : Exponents(tail, j) = {}
  BY Behind
<1> HIDE DEF tail
<1>2. \A j \in 0 .. 16 : Exponents(b, j) = {}
  BY <1>1, Delivered
<1>3. PICK q \in b : q < 136
  OBVIOUS
<1>4. q \in Nat
  BY DEF Burst
<1>5. q \div 8 \in 0 .. 16 /\ 7 - (q % 8) \in 0 .. 7 /\ 8 * (q \div 8) + 7 - (7 - (q % 8)) = q
  BY <1>3, <1>4
<1>6. 7 - (q % 8) \in Exponents(b, q \div 8)
  BY <1>3, <1>5 DEF Exponents
<1> QED
  BY <1>2, <1>5, <1>6

\* Every disturbance of up to 8 neighbouring bits, anywhere in the frame, is
\* noticed: by the start byte, the length, the checksum, or by FHEM's
\* regular expression (main.c:61, 36_...pm:20).
THEOREM BurstsNoticed == Spec => []BurstsDetected
<1> DEFINE v == [sensorid |-> 71, pressure |-> 4144100, temperature |-> 25000, humidity |-> 33000,
                 pm2_5 |-> 123, pm10 |-> 4567, batvolt |-> 112]
<1>1. v \in Values
  <2>1. 71 \in Byte /\ 112 \in Byte
    BY DEF Byte
  <2>2. 25000 \in Word /\ 33000 \in Word /\ 123 \in Word /\ 4567 \in Word
    BY SMT DEF Word
  <2>3. 4144100 \in Raw24
    BY SMT DEF Raw24
  <2> QED
    BY <2>1, <2>2, <2>3, SMT DEF Values
<1>2. Sample = PrepareFrame(v)
  BY SMT DEF Sample
<1> HIDE DEF v
<1>3. ASSUME NEW at \in 0 .. 135, NEW tail \in SUBSET (1 .. 7)
      PROVE  LET bits == Xor(Sample, {at} \cup {q \in {at + k : k \in tail} : q < 136})
             IN  ~(Accepts(bits, 18) /\ Matches(Message(bits)))
  <2> DEFINE b == {at} \cup {q \in {at + k : k \in tail} : q < 136}
  <2>1. Burst(b) /\ \E q \in b : q < 136
    BY DEF Burst
  <2>2. 0 \in Byte
    BY DEF Byte
  <2>3. Positions(BitsOf[0], 17) = {}
    <3>1. {} \in Reg /\ Number({}) = 0
      BY DEF Reg, Number
    <3>2. BitsOf[0] = {}
      BY <3>1, BitsOfNumber
    <3> QED
      BY <3>2 DEF Positions
  <2>4. Sample = PrepareFrame(v) \cup Positions(BitsOf[0], 17)
    BY <1>2, <2>3
  <2> HIDE DEF b
  <2>5. ~(Accepts(Xor(Sample, b), 18) /\ Matches(Message(Xor(Sample, b))))
    BY <1>1, <2>1, <2>2, <2>4, EveryFrame
  <2> QED
    BY <2>5 DEF b
<1>4. BurstsDetected
  BY <1>3 DEF BurstsDetected
<1> QED
  BY <1>4, PTL DEF Spec
=============================================================================

------------------------------- MODULE Frame -------------------------------
(* The 17 bytes the station sends, their checksum and that of the SHT31,    *)
(* and what becomes of them at the receiving end: prepareframe() and        *)
(* calculatecrc() of main.c, sht3x_crc() of sht3x.c, the Jeelink's          *)
(* CustomSensor and Foxstaub2018viaJeelink_Parse().                         *)
(*                                                                          *)
(* A byte is a number, or the set of the exponents of its bits that are 1.  *)
(* What is on the air is the set of the positions whose bit is 1; position  *)
(* 0 is the most significant bit of the first byte.                         *)
EXTENDS Integers, Sequences

\* The number with the bits x.
Number(x) ==
  LET bit(k) == IF k \in x THEN 1 ELSE 0
  IN  bit(0) + 2 * bit(1) + 4 * bit(2) + 8 * bit(3) + 16 * bit(4) + 32 * bit(5) + 64 * bit(6) + 128 * bit(7)

\* The bits of each number.
BitsOf == [v \in 0 .. 255 |-> CHOOSE x \in SUBSET (0 .. 7) : Number(x) = v]

Xor(a, b) == (a \ b) \cup (b \ a)

\* The positions of a byte with the bits x, sent at index i (from 0).
Positions(x, i) == {8 * i + 7 - k : k \in x}

\* The bits of the byte at index i.
Exponents(bits, i) == {k \in 0 .. 7 : 8 * i + 7 - k \in bits}

-----------------------------------------------------------------------------
\* Faulty: 0x30 is added instead of 0x31.
Bug_CrcShift(x) == Xor({k + 1 : k \in x \ {7}}, IF 7 \in x THEN {4, 5} ELSE {})

\* The inner loop of calculatecrc() on res ^ val, which are shifted together:
\* 0x31 is added when the bit shifted out is 1.  The two loops of sht3x_crc()
\* do the same; their 0x131 only clears the bit that is shifted out.
CrcShift(x) == Xor({k + 1 : k \in x \ {7}}, IF 7 \in x THEN {0, 4, 5} ELSE {})

\* The checksum so far, exclusive-ored with a byte, to the one behind it:
\* eight shifts.
CrcByte ==
  LET twice(x) == CrcShift(CrcShift(x))
  IN  [x \in SUBSET (0 .. 7) |-> twice(twice(twice(twice(x))))]

\* calculatecrc() of the first len bytes.
CalculateCrc(bits, len) ==
  LET res[j \in 0 .. len] == IF j = 0 THEN {} ELSE CrcByte[Xor(res[j - 1], Exponents(bits, j - 1))]
  IN  res[len]

\* sht3x_crc(): the register starts as 0xff.
Sht3xCrc(b1, b2) == Number(CrcByte[Xor(CrcByte[Xor(0 .. 7, BitsOf[b1])], BitsOf[b2])])

-----------------------------------------------------------------------------
\* The bytes of a frame before its checksum.
Fields(v) ==
  LET byte(n, shift) == (n \div shift) % 256
  IN  <<204, v.sensorid, 13, 245,
        byte(v.pressure, 65536), byte(v.pressure, 256), byte(v.pressure, 1),
        byte(v.temperature, 256), byte(v.temperature, 1), byte(v.humidity, 256), byte(v.humidity, 1),
        byte(v.pm2_5, 256), byte(v.pm2_5, 1), byte(v.pm10, 256), byte(v.pm10, 1), v.batvolt>>

\* prepareframe().
PrepareFrame(v) ==
  LET data == UNION {Positions(BitsOf[Fields(v)[i]], i - 1) : i \in 1 .. 16}
  IN  data \cup Positions(CalculateCrc(data, 16), 16)

\* loadsettingsfromeeprom(): the identity, if its complement is stored too.
LoadSettings(e1, e2) == IF e1 + e2 = 255 THEN e1 ELSE 3

-----------------------------------------------------------------------------
\* The byte at index i (from 0) of what was received.
ByteAt(bits, i) == Number(Exponents(bits, i))

\* Faulty: the checksum is not compared.
Bug_Accepts(bits, len) == ByteAt(bits, 0) = 204 /\ ByteAt(bits, 2) + 4 <= len

\* The Jeelink takes len received bytes for a CustomSensor's frame if the
\* first is 0xCC, the third says how many follow, and the checksum is right.
Accepts(bits, len) ==
  LET n == ByteAt(bits, 2)
  IN  /\ ByteAt(bits, 0) = 204
      /\ n + 4 <= len
      /\ Exponents(bits, n + 3) = CalculateCrc(bits, n + 3)

\* The numbers it prints after "OK CC": the identity and the n bytes.
Message(bits) == <<ByteAt(bits, 1)>> \o [i \in 1 .. ByteAt(bits, 2) |-> ByteAt(bits, i + 2)]

\* The regular expression FHEM matches, and the tests at the top of Parse().
Matches(msg) == Len(msg) = 14 /\ msg[2] = 245

\* The reading r written as the name of a value, or no reading.
Reading(name, r, ok) == IF ok THEN {<<name, r>>} ELSE {}

\* Foxstaub2018viaJeelink_Parse(): the readings a message updates.  Pressure
\* in 1/1000 hPa, temperature in 1/100 degree, humidity in 1/10 percent,
\* dust in 1/10 ug/m^3, each rounded to the nearest as sprintf() does.
Parse(msg) ==
  LET b(i)        == msg[i + 1]
      pressraw    == 65536 * b(2) + 256 * b(3) + b(4)
      tempraw     == 256 * b(5) + b(6)
      humraw      == 256 * b(7) + b(8)
      pressure    == IF pressraw # 16777215 THEN (pressraw * 125 + 256) \div 512 ELSE 0
      temperature == IF tempraw # 65535 THEN (7000 * tempraw + 13107) \div 26214 - 4500 ELSE -10100
      relhum      == IF tempraw # 65535 THEN (400 * humraw + 13107) \div 26214 ELSE -10
      pm2_5       == 256 * b(9) + b(10)
      pm10        == 256 * b(11) + b(12)
      batvolt     == 11 * b(13)
  IN  UNION {Reading("pressure", pressure, pressure > 100000),
             Reading("temperature", temperature, temperature > -10000 /\ temperature < 10000),
             Reading("humidity", relhum, relhum >= 0 /\ relhum <= 1000),
             Reading("pm2_5", pm2_5, pm2_5 < 10000),
             Reading("pm10", pm10, pm10 < 10000),
             Reading("batvolt", batvolt, batvolt > 0 /\ batvolt < 2500)}
=============================================================================

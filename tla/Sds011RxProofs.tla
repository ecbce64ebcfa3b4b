--------------------------- MODULE Sds011RxProofs ---------------------------
(***************************************************************************)
(* What TLAPS proves of Sds011Rx for every set of packets and noise bytes  *)
(* and any number of faults.                                               *)
(***************************************************************************)
EXTENDS Sds011Rx, TLAPS

\* The bytes on the wire are bytes.
LEMMA WireType ==
  ASSUME NEW p \in Packets, NEW k \in 0 .. PACKETLEN - 1
  PROVE  Wire(p)[k] \in Byte
<1>1. p \in [cmd : Byte, data : [1 .. 6 -> Byte]]
  BY PacketsAssumption
<1>2. ASSUME NEW a \in Nat PROVE a % 256 \in Byte
  BY DEF Byte
<1>3. Sum(p.data[1], p.data[2], p.data[3], p.data[4], p.data[5], p.data[6])
        \in Byte
  <2>1. p.data[1] + p.data[2] + p.data[3] + p.data[4] + p.data[5] + p.data[6]
          \in Nat
    <3>1. \A i \in 1 .. 6 : p.data[i] \in Nat
      BY <1>1 DEF Byte
    <3>2. /\ p.data[1] \in Nat /\ p.data[2] \in Nat /\ p.data[3] \in Nat
          /\ p.data[4] \in Nat /\ p.data[5] \in Nat /\ p.data[6] \in Nat
      BY <3>1
    <3> QED
      BY <3>2
  <2> QED
    BY <1>2, <2>1 DEF Sum
<1>4. k \in 2 .. 7 => p.data[k - 1] \in Byte
  BY <1>1
<1>5. p.cmd \in Byte
  BY <1>1
<1>6. k = 8 => Wire(p)[k] \in Byte
  BY <1>3 DEF Wire, PACKETLEN
<1>7. k # 8 => Wire(p)[k] \in Byte
  BY <1>4, <1>5 DEF Wire, PACKETLEN, HEAD, TAIL, Byte
<1> QED
  BY <1>6, <1>7

\* A word read half, and the words the program starts with.
LEMMA Words ==
  /\ Invalid \in Word
  /\ \A w \in Word : <<w[1], 255>> \in Word
<1>1. 255 \in Byte
  BY DEF Byte
<1> QED
  BY <1>1 DEF Word, Invalid

\* What the handler does with any byte keeps its variables in their types.
LEMMA ReceiveType ==
  ASSUME TypeOK, NEW b \in Byte, Receive(b)
  PROVE  /\ inputbuf' \in [0 .. INPUTBUFSIZE - 1 -> Byte]
         /\ inputpos' \in 0 .. PACKETLEN - 1
         /\ pm2_5' \in Word /\ pm10' \in Word
<1> USE DEF TypeOK, PACKETLEN, INPUTBUFSIZE
<1>1. inputbuf' \in [0 .. INPUTBUFSIZE - 1 -> Byte]
  BY DEF Receive, Start, Collect, Finish
<1>2. inputpos' \in 0 .. PACKETLEN - 1
  BY DEF Receive, Start, Collect, Finish
<1>3. pm2_5' \in Word /\ pm10' \in Word
  <2>1. CASE UNCHANGED <<pm2_5, pm10>>
    BY <2>1
  <2>2. CASE Process(inputbuf')
    BY <1>1, <2>2 DEF Process, Word
  <2> QED
    BY <2>1, <2>2 DEF Receive, Start, Collect, Finish
<1> QED
  BY <1>1, <1>2, <1>3

\* The sensor's side keeps its types.
LEMMA AdvanceType ==
  ASSUME TypeOK, NEW ok \in BOOLEAN, Advance(ok)
  PROVE  /\ packet' \in Packets /\ sent' \in 0 .. PACKETLEN - 1
         /\ damaged' \in BOOLEAN /\ intact' \in 0 .. 2
<1>1. packet' \in Packets /\ sent' \in 0 .. PACKETLEN - 1
  BY DEF TypeOK, Advance, PACKETLEN
<1>2. damaged' \in BOOLEAN
  BY Zenon DEF Advance
<1>3. intact' \in 0 .. 2
  BY DEF TypeOK, Advance
<1> QED
  BY <1>1, <1>2, <1>3

\* Types, and no byte is ever stored past the end of a packet.
THEOREM RxTypeCorrect == Spec => []TypeOK
<1>1. Init => TypeOK
  <2> SUFFICES ASSUME Init PROVE TypeOK
    OBVIOUS
  <2>1. irq \in BOOLEAN /\ damaged \in BOOLEAN
    BY Zenon DEF Init
  <2>2. 0 \in Byte
    BY DEF Byte
  <2>3. inputbuf \in [0 .. INPUTBUFSIZE - 1 -> Byte]
    BY <2>2 DEF Init
  <2>4. /\ inputpos \in 0 .. PACKETLEN - 1 /\ sent \in 0 .. PACKETLEN - 1
        /\ reader \in 0 .. 4 /\ intact \in 0 .. 2 /\ faults \in 0 .. MaxFaults
    BY FaultsAssumption DEF Init, PACKETLEN
  <2> QED
    BY <2>1, <2>3, <2>4, Words DEF Init, TypeOK
<1>2. TypeOK /\ [Next]_vars => TypeOK'
  <2> SUFFICES ASSUME TypeOK, [Next]_vars PROVE TypeOK'
    OBVIOUS
  <2>1. CASE ByteReceived
    <3>1. Wire(packet)[sent] \in Byte
      BY WireType DEF TypeOK
    <3> QED
      BY <2>1, <3>1, ReceiveType, AdvanceType
      DEF ByteReceived, TypeOK, main
  <2>2. CASE ByteLost
    <3>1. FALSE \in BOOLEAN
      OBVIOUS
    <3>2. /\ packet' \in Packets /\ sent' \in 0 .. PACKETLEN - 1
          /\ damaged' \in BOOLEAN /\ intact' \in 0 .. 2
      BY <2>2, <3>1, AdvanceType DEF ByteLost
    <3>3. faults' \in 0 .. MaxFaults
      BY <2>2, FaultsAssumption DEF ByteLost, TypeOK
    <3> QED
      BY <2>2, <3>2, <3>3 DEF ByteLost, TypeOK, parser, main
  <2>3. CASE ByteSpurious
    <3> PICK b \in Noise : Receive(b)
      BY <2>3 DEF ByteSpurious
    <3>1. b \in Byte
      BY NoiseAssumption
    <3>2. /\ inputbuf' \in [0 .. INPUTBUFSIZE - 1 -> Byte]
          /\ inputpos' \in 0 .. PACKETLEN - 1
          /\ pm2_5' \in Word /\ pm10' \in Word
      BY <3>1, ReceiveType
    <3>3. faults' \in 0 .. MaxFaults /\ intact' \in 0 .. 2
      BY <2>3, FaultsAssumption DEF ByteSpurious, TypeOK
    <3> QED
      BY <2>3, <3>2, <3>3 DEF ByteSpurious, TypeOK, main
  <2>4. CASE ReadLow2_5
    <3>1. got2_5' \in Word /\ snap' \in Word
      BY <2>4, Words DEF ReadLow2_5, TypeOK
    <3>2. irq' \in BOOLEAN
      BY <2>4, Zenon DEF ReadLow2_5
    <3>3. reader' \in 0 .. 4
      BY <2>4 DEF ReadLow2_5
    <3> QED
      BY <2>4, <3>1, <3>2, <3>3 DEF ReadLow2_5, TypeOK, parser, line
  <2>5. CASE ReadHigh2_5
    BY <2>5 DEF ReadHigh2_5, TypeOK, parser, line, Word
  <2>6. CASE ReadLow10
    <3>1. got10' \in Word /\ snap' \in Word
      BY <2>6, Words DEF ReadLow10, TypeOK
    <3>2. irq' \in BOOLEAN
      BY <2>6, Zenon DEF ReadLow10
    <3>3. reader' \in 0 .. 4
      BY <2>6 DEF ReadLow10
    <3> QED
      BY <2>6, <3>1, <3>2, <3>3 DEF ReadLow10, TypeOK, parser, line
  <2>7. CASE ReadHigh10
    BY <2>7 DEF ReadHigh10, TypeOK, parser, line, Word
  <2>8. CASE ReadDone
    BY <2>8, Words DEF ReadDone, TypeOK, parser, line
  <2>9. CASE UNCHANGED vars
    BY <2>9 DEF vars, parser, main, line, TypeOK
  <2> QED
    BY <2>1, <2>2, <2>3, <2>4, <2>5, <2>6, <2>7, <2>8, <2>9 DEF Next
<1> QED
  BY <1>1, <1>2, PTL DEF Spec
-----------------------------------------------------------------------------
(* Whole readings *)

(***************************************************************************)
(* While half a word has been read interrupts are off, so the word is still*)
(* the one it was at cli().                                                *)
(***************************************************************************)
ReaderInv ==
  /\ reader = 1 => ~irq /\ snap = pm2_5 /\ got2_5 = <<pm2_5[1], 255>>
  /\ reader = 3 => ~irq /\ snap = pm10 /\ got10 = <<pm10[1], 255>>
  /\ WholeReading

\* The main loop never gets the low byte of one reading with the high byte of
\* another, though the handler may run between any two of its steps.
THEOREM WholeReadingCorrect == Spec => []WholeReading
<1>1. Init => ReaderInv
  BY DEF Init, ReaderInv, WholeReading
<1>2. TypeOK /\ ReaderInv /\ [Next]_vars => ReaderInv'
  <2> SUFFICES ASSUME TypeOK, ReaderInv, [Next]_vars PROVE ReaderInv'
    OBVIOUS
  <2> USE DEF ReaderInv, WholeReading
  <2>1. ASSUME NEW w \in Word PROVE [<<w[1], 255>> EXCEPT ![2] = w[2]] = w
    BY <2>1 DEF Word
  <2>2. CASE reader \notin {1, 3} /\ UNCHANGED main
    BY <2>2 DEF main
  <2>3. CASE ByteReceived
    BY <2>2, <2>3, Zenon DEF ByteReceived, Receive
  <2>4. CASE ByteLost
    BY <2>4 DEF ByteLost, parser, main
  <2>5. CASE ByteSpurious
    BY <2>2, <2>5, Zenon DEF ByteSpurious, Receive
  <2>6. CASE ReadLow2_5
    BY <2>6 DEF ReadLow2_5, parser
  <2>7. CASE ReadHigh2_5
    BY <2>1, <2>7 DEF ReadHigh2_5, parser, TypeOK
  <2>8. CASE ReadLow10
    BY <2>8 DEF ReadLow10, parser
  <2>9. CASE ReadHigh10
    BY <2>1, <2>9 DEF ReadHigh10, parser, TypeOK
  <2>10. CASE ReadDone
    BY <2>10 DEF ReadDone, parser
  <2>11. CASE UNCHANGED vars
    BY <2>11 DEF vars, parser, main
  <2> QED
    BY <2>3, <2>4, <2>5, <2>6, <2>7, <2>8, <2>9, <2>10, <2>11 DEF Next
<1>3. ReaderInv => WholeReading
  BY DEF ReaderInv
<1> QED
  BY <1>1, <1>2, <1>3, RxTypeCorrect, PTL DEF Spec

-----------------------------------------------------------------------------
(* Falling back into step *)

(***************************************************************************)
(* While the sensor sends an undamaged packet, a parser out of step either *)
(* waits for a header, and none comes before the packet ends, or is so far *)
(* ahead in its stale packet that it will end it first.  After one such    *)
(* packet it is in step, and collects exactly what is sent.                *)
(***************************************************************************)
InStep == /\ inputpos = sent
          /\ \A i \in 0 .. PACKETLEN - 1 : i < sent => inputbuf[i] = Wire(packet)[i]
StepInv == ~damaged => /\ inputpos = 0 \/ inputpos >= sent
                       /\ intact >= 1 => InStep

\* How the parser moves on a byte.
LEMMA ReceivePos ==
  ASSUME TypeOK, NEW b \in Byte, Receive(b)
  PROVE  /\ inputpos = 0 /\ b # HEAD => inputpos' = 0
         /\ inputpos = 0 /\ b = HEAD => inputpos' = 1 /\ inputbuf'[0] = b
         /\ inputpos > 0 => /\ inputbuf' = [inputbuf EXCEPT ![inputpos] = b]
                            /\ inputpos' = IF inputpos + 1 = PACKETLEN
                                            THEN 0 ELSE inputpos + 1
BY DEF TypeOK, Receive, Start, Collect, Finish, PACKETLEN, INPUTBUFSIZE

\* In step, the parser follows the sensor byte by byte.
LEMMA StepKept ==
  ASSUME TypeOK, HeaderFree, StepInv, ByteReceived
  PROVE  StepInv'
<1> USE DEF PACKETLEN
<1>0. Receive(Wire(packet)[sent]) /\ Advance(TRUE)
  BY Zenon DEF ByteReceived
<1>1. /\ inputpos \in 0 .. 9 /\ sent \in 0 .. 9 /\ packet \in Packets
      /\ inputbuf \in [0 .. 10 -> Byte]
  BY DEF TypeOK, INPUTBUFSIZE
<1>2. Wire(packet)[sent] \in Byte
  BY <1>1, WireType
<1>3. Wire(packet)[0] = HEAD /\ (sent > 0 => Wire(packet)[sent] # HEAD)
  BY <1>1 DEF Wire, HeaderFree
<1>4. /\ inputpos = 0 /\ sent > 0 => inputpos' = 0
      /\ inputpos = 0 /\ sent = 0 => /\ inputpos' = 1
                                     /\ inputbuf'[0] = Wire(packet)[0]
      /\ inputpos > 0 =>
           /\ inputbuf' = [inputbuf EXCEPT ![inputpos] = Wire(packet)[sent]]
           /\ inputpos' = IF inputpos + 1 = PACKETLEN THEN 0 ELSE inputpos + 1
  BY <1>0, <1>2, <1>3, ReceivePos
<1>5. CASE sent + 1 < PACKETLEN
  <2>1. sent' = sent + 1 /\ packet' = packet /\ intact' = intact
        /\ (~damaged' => ~damaged)
    BY <1>0, <1>1, <1>5 DEF Advance
  <2>2. ~damaged => inputpos' = 0 \/ inputpos' >= sent'
    BY <1>1, <1>4, <1>5, <2>1 DEF StepInv
  <2>3. ASSUME ~damaged, intact >= 1 PROVE InStep'
    <3>1. InStep
      BY <2>3 DEF StepInv
    <3>2. inputpos' = sent'
      BY <1>1, <1>4, <1>5, <2>1, <3>1 DEF InStep
    <3>3. ASSUME NEW i \in 0 .. 9, i < sent + 1
          PROVE  inputbuf'[i] = Wire(packet)[i]
      <4>1. CASE inputpos = 0
        BY <1>1, <1>4, <3>1, <3>3, <4>1 DEF InStep
      <4>2. CASE inputpos > 0 /\ i = inputpos
        BY <1>1, <1>4, <3>1, <4>2 DEF InStep
      <4>3. CASE inputpos > 0 /\ i # inputpos
        <5>1. i < sent
          BY <1>1, <3>1, <3>3, <4>3 DEF InStep
        <5>2. inputbuf'[i] = inputbuf[i]
          BY <1>1, <1>4, <4>3
        <5> QED
          BY <3>1, <5>1, <5>2 DEF InStep
      <4> QED
        BY <1>1, <4>1, <4>2, <4>3
    <3> QED
      BY <2>1, <3>2, <3>3 DEF InStep
  <2> QED
    BY <2>1, <2>2, <2>3 DEF StepInv
<1>6. CASE ~(sent + 1 < PACKETLEN)
  <2>1. sent = 9 /\ sent' = 0
    BY <1>0, <1>1, <1>6 DEF Advance
  <2>2. damaged => intact' = 0
    BY <1>0, <1>1, <1>6 DEF Advance
  <2>3. ~damaged => inputpos' = 0
    BY <1>1, <1>4, <2>1 DEF StepInv
  <2>4. inputpos' \in 0 .. 9
    BY <1>1, <1>4, <2>1
  <2> QED
    BY <2>1, <2>2, <2>3, <2>4 DEF StepInv, InStep
<1> QED
  BY <1>5, <1>6

LEMMA StepCorrect == ASSUME HeaderFree PROVE Spec => []StepInv
<1>1. Init => StepInv
  BY DEF Init, StepInv, InStep
<1>2. TypeOK /\ StepInv /\ [Next]_vars => StepInv'
  <2> SUFFICES ASSUME TypeOK, StepInv, [Next]_vars PROVE StepInv'
    OBVIOUS
  <2>1. CASE ByteReceived
    BY <2>1, StepKept
  <2>2. CASE ByteLost
    <3>1. inputpos' = inputpos /\ inputpos \in 0 .. 9
      BY <2>2 DEF ByteLost, parser, TypeOK, PACKETLEN
    <3>a. Advance(FALSE)
      BY <2>2, Zenon DEF ByteLost
    <3>2. CASE sent + 1 < PACKETLEN
      BY <3>1, <3>a, <3>2 DEF Advance, StepInv
    <3>3. CASE ~(sent + 1 < PACKETLEN)
      <4>1. sent' = 0 /\ intact' = 0 /\ inputpos' \in 0 .. 9
        BY <3>1, <3>a, <3>3 DEF Advance
      <4> QED
        BY <4>1 DEF StepInv
    <3> QED
      BY <3>2, <3>3
  <2>3. CASE ByteSpurious
    BY <2>3, Zenon DEF ByteSpurious, StepInv
  <2>4. CASE UNCHANGED <<parser, line>>
    BY <2>4 DEF parser, line, StepInv, InStep, Wire
  <2> QED
    BY <2>1, <2>2, <2>3, <2>4
    DEF Next, ReadLow2_5, ReadHigh2_5, ReadLow10, ReadHigh10, ReadDone, vars
<1> QED
  BY <1>1, <1>2, RxTypeCorrect, PTL DEF Spec

\* After any number of lost and spurious bytes, one undamaged packet is all
\* it takes for the parser to fall back into step with the sensor.
THEOREM ResyncCorrect == ASSUME HeaderFree PROVE Spec => []Resync
<1>1. StepInv => Resync
  BY DEF StepInv, InStep, Resync
<1> QED
  BY <1>1, StepCorrect, PTL

\* And from then on every data packet received whole is stored.
THEOREM StoredCorrect == ASSUME HeaderFree PROVE Spec => Stored
<1> USE DEF PACKETLEN
<1>1. ASSUME TypeOK, StepInv, [Next]_vars,
             sent = PACKETLEN - 1, sent' = 0, intact' = 2, packet.cmd = DATA
      PROVE  /\ pm2_5' = <<packet.data[1], packet.data[2]>>
             /\ pm10' = <<packet.data[3], packet.data[4]>>
  <2>1. ByteReceived
    <3>1. ~ByteLost
      <4> SUFFICES ASSUME ByteLost PROVE FALSE
        OBVIOUS
      <4>1. Advance(FALSE)
        BY Zenon DEF ByteLost
      <4> QED
        BY <1>1, <4>1 DEF Advance
    <3>2. sent' # sent
      BY <1>1
    <3> QED
      BY <1>1, <3>1, <3>2
      DEF Next, ByteSpurious, ReadLow2_5, ReadHigh2_5, ReadLow10, ReadHigh10,
          ReadDone, line, vars
  <2>2. ~damaged /\ intact >= 1
    <3>1. Advance(TRUE)
      BY <2>1, Zenon DEF ByteReceived
    <3> QED
      BY <1>1, <3>1 DEF Advance, TypeOK
  <2>3. InStep
    BY <1>1, <2>2 DEF StepInv
  <2>4. inputpos = 9 /\ packet \in Packets /\ inputbuf \in [0 .. 10 -> Byte]
    BY <1>1, <2>3 DEF InStep, TypeOK, INPUTBUFSIZE
  <2>5. Finish(Wire(packet)[9])
    <3>1. Receive(Wire(packet)[sent])
      BY <2>1, Zenon DEF ByteReceived
    <3> QED
      BY <1>1, <2>4, <3>1 DEF Receive, Start, Collect
  <2>6. inputbuf' = [inputbuf EXCEPT ![9] = Wire(packet)[9]]
    BY <2>4, <2>5 DEF Finish
  <2>7. \A i \in 0 .. 8 : inputbuf'[i] = Wire(packet)[i]
    BY <1>1, <2>3, <2>4, <2>6 DEF InStep
  <2>8. /\ inputbuf'[1] = packet.cmd
        /\ inputbuf'[2] = packet.data[1] /\ inputbuf'[3] = packet.data[2]
        /\ inputbuf'[4] = packet.data[3] /\ inputbuf'[5] = packet.data[4]
        /\ inputbuf'[6] = packet.data[5] /\ inputbuf'[7] = packet.data[6]
    BY <2>7 DEF Wire
  <2>9. /\ inputbuf'[8] = Sum(packet.data[1], packet.data[2], packet.data[3],
                              packet.data[4], packet.data[5], packet.data[6])
        /\ Wire(packet)[9] = TAIL
    BY <2>7 DEF Wire
  <2>10. ChecksumOk(inputbuf')
    BY <2>8, <2>9 DEF ChecksumOk
  <2>11. Process(inputbuf')
    BY <2>5, <2>9, <2>10 DEF Finish
  <2> QED
    BY <1>1, <2>8, <2>11 DEF Process
<1>2. TypeOK /\ StepInv /\ [Next]_vars =>
        [ /\ sent = PACKETLEN - 1 /\ sent' = 0 /\ intact' = 2
          /\ packet.cmd = DATA
          => pm2_5' = <<packet.data[1], packet.data[2]>>
             /\ pm10' = <<packet.data[3], packet.data[4]>> ]_vars
  BY <1>1
<1> QED
  BY <1>2, RxTypeCorrect, StepCorrect, PTL DEF Spec, Stored

-----------------------------------------------------------------------------
(* Readings that were sent *)

\* The packets whose sum is not the tail marker.
NoTailSum == \A p \in Packets : Wire(p)[PACKETLEN - 2] # TAIL

(***************************************************************************)
(* One fault leaves the parser in step or in one of three other places:    *)
(* waiting for the packet in which it has lost the header, or the rest of  *)
(* one it has given up; one byte behind the sensor, so that it will end on *)
(* the header of the next packet; or one byte ahead, so that it will end   *)
(* on the sum.  Neither is the tail marker.                                *)
(***************************************************************************)
Waiting == inputpos = 0 /\ sent > 0
Behind  == inputpos > 0 /\ sent = IF inputpos + 1 = PACKETLEN THEN 0 ELSE inputpos + 1
Ahead   == inputpos = sent + 1
AuthInv == (InStep \/ Waiting \/ Behind \/ Ahead) /\ Authentic

\* The readings change only with a byte that ends a packet.
LEMMA ReceiveStores ==
  ASSUME TypeOK, NEW b \in Byte, Receive(b)
  PROVE  \/ UNCHANGED <<pm2_5, pm10>>
         \/ inputpos = 9 /\ b = TAIL /\ Process(inputbuf')
BY DEF TypeOK, Receive, Start, Collect, Finish, PACKETLEN

\* A packet that was collected in step is one the sensor sends.
LEMMA StoredAuthentic ==
  ASSUME TypeOK, InStep, Authentic, sent = 9, NEW b \in Byte, Receive(b), Process(inputbuf')
  PROVE  Authentic'
<1> USE DEF PACKETLEN
<1>1. inputpos = 9 /\ packet \in Packets /\ inputbuf \in [0 .. 10 -> Byte]
  BY DEF InStep, TypeOK, INPUTBUFSIZE
<1>2. inputbuf' = [inputbuf EXCEPT ![9] = b]
  BY <1>1, ReceivePos
<1>3. \A i \in 0 .. 8 : inputbuf'[i] = Wire(packet)[i]
  BY <1>1, <1>2 DEF InStep
<1>4. /\ inputbuf'[1] = packet.cmd
      /\ inputbuf'[2] = packet.data[1] /\ inputbuf'[3] = packet.data[2]
      /\ inputbuf'[4] = packet.data[3] /\ inputbuf'[5] = packet.data[4]
  BY <1>3 DEF Wire
<1>5. CASE packet.cmd = DATA
  <2>1. pm2_5' = <<packet.data[1], packet.data[2]>> /\ pm10' = <<packet.data[3], packet.data[4]>>
    BY <1>4, <1>5 DEF Process
  <2> QED
    BY <1>1, <1>5, <2>1 DEF Authentic
<1>6. CASE packet.cmd # DATA
  BY <1>4, <1>6 DEF Process, Authentic
<1> QED
  BY <1>5, <1>6

\* In step, the parser follows the sensor byte by byte.
LEMMA InStepKept ==
  ASSUME TypeOK, InStep, ByteReceived
  PROVE  InStep'
<1> USE DEF PACKETLEN
<1>0. Receive(Wire(packet)[sent]) /\ Advance(TRUE)
  BY Zenon DEF ByteReceived
<1>1. /\ inputpos = sent /\ sent \in 0 .. 9 /\ packet \in Packets
      /\ inputbuf \in [0 .. 10 -> Byte]
  BY DEF TypeOK, INPUTBUFSIZE, InStep
<1>2. Wire(packet)[sent] \in Byte /\ Wire(packet)[0] = HEAD
  BY <1>1, WireType DEF Wire
<1>3. /\ sent = 0 => inputpos' = 1 /\ inputbuf'[0] = Wire(packet)[0]
      /\ sent > 0 =>
           /\ inputbuf' = [inputbuf EXCEPT ![sent] = Wire(packet)[sent]]
           /\ inputpos' = IF sent + 1 = PACKETLEN THEN 0 ELSE sent + 1
  BY <1>0, <1>1, <1>2, ReceivePos
<1>4. CASE sent = 9
  <2>1. inputpos' = 0 /\ sent' = 0
    BY <1>0, <1>3, <1>4 DEF Advance
  <2> QED
    BY <2>1 DEF InStep
<1>5. CASE sent < 9
  <2>1. sent' = sent + 1 /\ packet' = packet /\ inputpos' = sent + 1
    BY <1>0, <1>1, <1>3, <1>5 DEF Advance
  <2>2. ASSUME NEW i \in 0 .. 9, i < sent + 1
        PROVE  inputbuf'[i] = Wire(packet)[i]
    <3>1. CASE i = sent
      BY <1>1, <1>3, <3>1
    <3>2. CASE i # sent
      <4>1. i < sent /\ inputbuf'[i] = inputbuf[i]
        BY <1>1, <1>3, <2>2, <3>2
      <4> QED
        BY <4>1 DEF InStep
    <3> QED
      BY <3>1, <3>2
  <2> QED
    BY <2>1, <2>2 DEF InStep
<1> QED
  BY <1>1, <1>4, <1>5

\* The next byte of the sensor.
LEMMA AuthReceived ==
  ASSUME TypeOK, HeaderFree, NoTailSum, AuthInv, ByteReceived
  PROVE  AuthInv'
<1> USE DEF PACKETLEN
<1>0. Receive(Wire(packet)[sent]) /\ Advance(TRUE)
  BY Zenon DEF ByteReceived
<1>1. /\ inputpos \in 0 .. 9 /\ sent \in 0 .. 9 /\ packet \in Packets
      /\ inputbuf \in [0 .. 10 -> Byte]
  BY DEF TypeOK, INPUTBUFSIZE
<1>2. Wire(packet)[sent] \in Byte
  BY <1>1, WireType
<1>3. Wire(packet)[0] = HEAD /\ (sent > 0 => Wire(packet)[sent] # HEAD)
  BY <1>1 DEF Wire, HeaderFree
<1>4. Wire(packet)[0] # TAIL /\ Wire(packet)[8] # TAIL
  BY <1>1, <1>3 DEF NoTailSum, HEAD, TAIL
<1>5. /\ inputpos = 0 /\ sent > 0 => inputpos' = 0
      /\ inputpos = 0 /\ sent = 0 => /\ inputpos' = 1
                                     /\ inputbuf'[0] = Wire(packet)[0]
      /\ inputpos > 0 =>
           /\ inputbuf' = [inputbuf EXCEPT ![inputpos] = Wire(packet)[sent]]
           /\ inputpos' = IF inputpos + 1 = PACKETLEN THEN 0 ELSE inputpos + 1
  BY <1>0, <1>2, <1>3, ReceivePos
<1>6. /\ sent < 9 => sent' = sent + 1 /\ packet' = packet
      /\ sent = 9 => sent' = 0 /\ packet' \in Packets
  BY <1>0, <1>1 DEF Advance
<1>7. \/ UNCHANGED <<pm2_5, pm10>>
      \/ inputpos = 9 /\ Wire(packet)[sent] = TAIL /\ Process(inputbuf')
  BY <1>0, <1>2, ReceiveStores
<1>8. UNCHANGED <<pm2_5, pm10>> => Authentic'
  BY DEF AuthInv, Authentic
<1>9. CASE InStep
  <2>1. Authentic'
    <3>1. CASE UNCHANGED <<pm2_5, pm10>>
      BY <1>8, <3>1
    <3>2. CASE inputpos = 9 /\ Process(inputbuf')
      BY <1>0, <1>1, <1>2, <1>9, <3>2, StoredAuthentic DEF InStep, AuthInv
    <3> QED
      BY <1>7, <3>1, <3>2
  <2> QED
    BY <1>9, <2>1, InStepKept DEF AuthInv
<1>10. CASE Waiting
  <2>1. Authentic'
    BY <1>7, <1>8, <1>10 DEF Waiting
  <2>2. CASE sent = 9
    BY <1>1, <1>5, <1>6, <1>10, <2>1, <2>2 DEF Waiting, InStep, AuthInv
  <2>3. CASE sent < 9
    BY <1>1, <1>5, <1>6, <1>10, <2>1, <2>3 DEF Waiting, AuthInv
  <2> QED
    BY <1>1, <2>2, <2>3
<1>11. CASE Behind
  <2>1. Authentic'
    BY <1>1, <1>4, <1>7, <1>8, <1>11 DEF Behind
  <2>2. Waiting' \/ Behind'
    BY <1>1, <1>5, <1>6, <1>11 DEF Behind, Waiting
  <2> QED
    BY <2>1, <2>2 DEF AuthInv
<1>12. CASE Ahead
  <2>1. Authentic'
    BY <1>1, <1>4, <1>7, <1>8, <1>12 DEF Ahead
  <2>2. Waiting' \/ Ahead'
    BY <1>1, <1>5, <1>6, <1>12 DEF Ahead, Waiting
  <2> QED
    BY <2>1, <2>2 DEF AuthInv
<1> QED
  BY <1>9, <1>10, <1>11, <1>12 DEF AuthInv

LEMMA FaultCounted ==
  ASSUME TypeOK, ByteLost \/ ByteSpurious
  PROVE  faults \in Nat /\ faults < MaxFaults /\ faults' = faults + 1
<1>1. faults \in Nat
  BY FaultsAssumption DEF TypeOK
<1>2. faults < MaxFaults /\ faults' = faults + 1
  BY Zenon DEF ByteLost, ByteSpurious
<1> QED
  BY <1>1, <1>2

\* A fault that hits in step.
LEMMA AuthFault ==
  ASSUME TypeOK, InStep, Authentic, ByteLost \/ ByteSpurious
  PROVE  AuthInv'
<1> USE DEF PACKETLEN
<1>1. /\ inputpos = sent /\ sent \in 0 .. 9 /\ inputbuf \in [0 .. 10 -> Byte]
  BY DEF TypeOK, INPUTBUFSIZE, InStep
<1>2. CASE ByteLost
  <2>1. UNCHANGED parser /\ sent' = IF sent < 9 THEN sent + 1 ELSE 0
    <3>1. Advance(FALSE)
      BY <1>2, Zenon DEF ByteLost
    <3> QED
      BY <1>1, <1>2, <3>1 DEF Advance, ByteLost
  <2>2. Authentic'
    BY <2>1 DEF parser, Authentic
  <2>3. Waiting' \/ Behind'
    BY <1>1, <2>1 DEF parser, Waiting, Behind
  <2> QED
    BY <2>2, <2>3 DEF AuthInv
<1>3. CASE ByteSpurious
  <2>1. PICK b \in Noise : Receive(b)
    BY <1>3 DEF ByteSpurious
  <2>2. b \in Byte /\ UNCHANGED <<packet, sent>>
    BY <1>3, NoiseAssumption DEF ByteSpurious
  <2>3. Authentic'
    <3>1. CASE UNCHANGED <<pm2_5, pm10>>
      BY <3>1 DEF Authentic
    <3>2. CASE inputpos = 9 /\ Process(inputbuf')
      BY <1>1, <2>1, <2>2, <3>2, StoredAuthentic
    <3> QED
      BY <2>1, <2>2, <3>1, <3>2, ReceiveStores
  <2>4. /\ inputpos = 0 /\ b # HEAD => inputpos' = 0
        /\ inputpos = 0 /\ b = HEAD => inputpos' = 1
        /\ inputpos > 0 => inputpos' = IF inputpos + 1 = PACKETLEN THEN 0 ELSE inputpos + 1
    BY <2>1, <2>2, ReceivePos
  <2>5. InStep' \/ Waiting' \/ Ahead'
    <3>1. CASE inputpos = 0 /\ b # HEAD
      BY <1>1, <2>2, <2>4, <3>1 DEF InStep
    <3>2. CASE inputpos > 0 \/ b = HEAD
      BY <1>1, <2>2, <2>4, <3>2 DEF Waiting, Ahead
    <3> QED
      BY <1>1, <3>1, <3>2
  <2> QED
    BY <2>3, <2>5 DEF AuthInv
<1> QED
  BY <1>2, <1>3

LEMMA AuthStep ==
  ASSUME HeaderFree, NoTailSum, TypeOK, AuthInv, [Next]_vars, faults' # faults => InStep
  PROVE  AuthInv'
<1>1. CASE ByteReceived
  BY <1>1, AuthReceived
<1>2. CASE ByteLost \/ ByteSpurious
  <2>1. faults' # faults
    BY <1>2, FaultCounted
  <2> QED
    BY <1>2, <2>1, AuthFault DEF AuthInv
<1>3. CASE UNCHANGED <<parser, line>>
  BY <1>3 DEF parser, line, AuthInv, InStep, Waiting, Behind, Ahead, Authentic, Wire
<1> QED
  BY <1>1, <1>2, <1>3 DEF Next, ReadLow2_5, ReadHigh2_5, ReadLow10, ReadHigh10, ReadDone, vars

LEMMA AuthInit == Init => AuthInv
BY DEF Init, AuthInv, InStep, Authentic

\* However many bytes are lost or spurious, if none hits before the parser is
\* back in step, the stored readings are those of one packet the sensor sends
\* (sds011.c:126, for packets with no header byte inside whose sum is not the
\* tail marker).
THEOREM FaultsApart ==
  ASSUME HeaderFree, NoTailSum
  PROVE  Spec /\ [][faults' # faults => InStep]_vars => []Authentic
<1>1. TypeOK /\ AuthInv /\ [Next]_vars /\ [faults' # faults => InStep]_vars => AuthInv'
  <2> SUFFICES ASSUME TypeOK, AuthInv, [Next]_vars, [faults' # faults => InStep]_vars PROVE AuthInv'
    OBVIOUS
  <2>1. faults' # faults => InStep
    BY DEF vars, line
  <2> QED
    BY <2>1, AuthStep
<1>2. AuthInv => Authentic
  BY DEF AuthInv
<1> QED
  BY <1>1, <1>2, AuthInit, RxTypeCorrect, PTL DEF Spec

\* The stored readings are those of one data packet the sensor sends: one
\* lost or spurious byte, wherever it hits, never makes the parser accept a
\* packet pieced together from two.
THEOREM AuthenticCorrect ==
  ASSUME HeaderFree, NoTailSum, MaxFaults <= 1
  PROVE  Spec => []Authentic
<1> DEFINE OneInv == AuthInv /\ (faults = 0 => InStep)
<1>1. Init => OneInv
  BY AuthInit DEF Init, InStep
<1>2. TypeOK /\ OneInv /\ [Next]_vars => OneInv'
  <2> SUFFICES ASSUME TypeOK, OneInv, [Next]_vars PROVE OneInv'
    OBVIOUS
  <2>1. faults' # faults => faults = 0 /\ faults' # 0
    <3>1. CASE ByteLost \/ ByteSpurious
      BY <3>1, FaultsAssumption, FaultCounted
    <3>2. CASE UNCHANGED faults
      BY <3>2
    <3> QED
      BY <3>1, <3>2
      DEF Next, ByteReceived, ReadLow2_5, ReadHigh2_5, ReadLow10, ReadHigh10, ReadDone, line, vars
  <2>2. AuthInv'
    BY <2>1, AuthStep
  <2>3. faults' = 0 => InStep'
    <3> SUFFICES ASSUME faults' = 0 PROVE InStep'
      OBVIOUS
    <3>1. faults' = faults /\ InStep
      BY <2>1
    <3>2. CASE ByteReceived
      BY <3>1, <3>2, InStepKept
    <3>3. CASE UNCHANGED <<parser, line>>
      BY <3>1, <3>3 DEF parser, line, InStep, Wire
    <3>4. ~ByteLost /\ ~ByteSpurious
      BY <3>1, FaultCounted
    <3> QED
      BY <3>2, <3>3, <3>4 DEF Next, ReadLow2_5, ReadHigh2_5, ReadLow10, ReadHigh10, ReadDone, vars
  <2> QED
    BY <2>2, <2>3
<1>3. OneInv => Authentic
  BY DEF AuthInv
<1> QED
  BY <1>1, <1>2, <1>3, RxTypeCorrect, PTL DEF Spec
=============================================================================

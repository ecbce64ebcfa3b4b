------------------------------- MODULE Sds011Rx -------------------------------
(***************************************************************************)
(* The receive half of sds011.c: the "receive complete" interrupt collects *)
(* the sensor's 10 byte packets from the serial line and stores the two    *)
(* readings of a good one; the main loop fetches them, each under its own  *)
(* cli()/sei(), low byte before high byte.                                 *)
(*                                                                         *)
(* The line may lose a byte (the UART overruns while interrupts are off    *)
(* too long) or show one the sensor never sent, at most MaxFaults times.   *)
(***************************************************************************)
EXTENDS Naturals, Sequences

CONSTANTS Packets,    \* what the sensor may send: records of a command byte
                      \* (192 data, 197 reply) and six data bytes
          Noise,      \* the bytes a disturbance may produce
          MaxFaults   \* bound on lost and spurious bytes

HEAD == 170   \* 0xAA
TAIL == 171   \* 0xAB
DATA == 192   \* 0xC0
INPUTBUFSIZE == 11
PACKETLEN == 10
Invalid == <<255, 255>>

Byte == 0 .. 255
Word == Byte \X Byte        \* low byte, high byte

ASSUME PacketsAssumption == Packets \subseteq [cmd : Byte, data : [1 .. 6 -> Byte]]
ASSUME NoiseAssumption == Noise \subseteq Byte
ASSUME FaultsAssumption == MaxFaults \in Nat

VARIABLES
  inputbuf, inputpos, pm2_5, pm10,  \* the statics of sds011.c
  irq,         \* the global interrupt flag
  reader,      \* where the main loop is: 0 idle, 1 low byte of pm2_5 read,
               \* 2 pm2_5 read, 3 low byte of pm10 read, 4 both read
  got2_5, got10,  \* what it has read so far
  snap,        \* history: the value being read, as it was at cli()
  packet,      \* the packet the sensor is sending
  sent,        \* how many of its bytes are past
  damaged,     \* history: has this packet met a fault?
  intact,      \* history: undamaged packets since the last fault (up to 2)
  faults       \* faults so far

parser == <<inputbuf, inputpos, pm2_5, pm10>>
main == <<irq, reader, got2_5, got10, snap>>
line == <<packet, sent, damaged, intact, faults>>
vars == <<parser, main, line>>

\* Sum of the six data bytes, all of the packet the sensor's "CRC" covers.
Sum(a, b, c, d, e, f) == (a + b + c + d + e + f) % 256

\* The ten bytes of a packet, numbered from 0 as in the code.
Wire(p) == [i \in 0 .. PACKETLEN - 1 |->
              CASE i = 0 -> HEAD
                [] i = 1 -> p.cmd
                [] i \in 2 .. 7 -> p.data[i - 1]
                [] i = 8 -> Sum(p.data[1], p.data[2], p.data[3], p.data[4],
                                p.data[5], p.data[6])
                [] i = 9 -> TAIL]

Init == /\ inputbuf = [i \in 0 .. INPUTBUFSIZE - 1 |-> 0]
        /\ inputpos = 0
        /\ pm2_5 = Invalid /\ pm10 = Invalid
        /\ irq = TRUE /\ reader = 0
        /\ got2_5 = Invalid /\ got10 = Invalid /\ snap = Invalid
        /\ packet \in Packets /\ sent = 0
        /\ damaged = FALSE /\ intact = 0 /\ faults = 0

-----------------------------------------------------------------------------
(* ISR(USART1_RX_vect), given the byte read from UDR1 *)

Bug_ChecksumOk(buf) == Sum(buf[1], buf[2], buf[3], buf[4], buf[5], buf[6]) = buf[8]
\* calcsds011crc() over the received data bytes, and the byte it must equal.
ChecksumOk(buf) == Sum(buf[2], buf[3], buf[4], buf[5], buf[6], buf[7]) = buf[8]

\* processsdsdata(): only sensor data packets carry readings.
Process(buf) == IF buf[1] = DATA
                  THEN pm2_5' = <<buf[2], buf[3]>> /\ pm10' = <<buf[4], buf[5]>>
                  ELSE UNCHANGED <<pm2_5, pm10>>

\* Between packets only a header byte is taken.
Start(b) == /\ inputpos = 0
            /\ IF b = HEAD
                 THEN inputbuf' = [inputbuf EXCEPT ![0] = b] /\ inputpos' = 1
                 ELSE UNCHANGED <<inputbuf, inputpos>>
            /\ UNCHANGED <<pm2_5, pm10>>

Collect(b) == /\ inputpos > 0 /\ inputpos + 1 # PACKETLEN
              /\ inputbuf' = [inputbuf EXCEPT ![inputpos] = b]
              /\ inputpos' = inputpos + 1
              /\ UNCHANGED <<pm2_5, pm10>>

Bug_FinishNoChecksum(b) ==
  /\ inputpos + 1 = PACKETLEN
  /\ inputbuf' = [inputbuf EXCEPT ![inputpos] = b]
  /\ inputpos' = 0
  /\ IF b = TAIL THEN Process(inputbuf') ELSE UNCHANGED <<pm2_5, pm10>>
Bug_FinishStuck(b) ==
  /\ inputpos + 1 = PACKETLEN
  /\ inputbuf' = [inputbuf EXCEPT ![inputpos] = b]
  /\ inputpos' = IF b = TAIL THEN 0 ELSE 1
  /\ IF b = TAIL /\ ChecksumOk(inputbuf')
       THEN Process(inputbuf') ELSE UNCHANGED <<pm2_5, pm10>>
Bug_FinishLate(b) ==
  /\ inputpos + 1 = PACKETLEN
  /\ inputbuf' = [inputbuf EXCEPT ![inputpos] = b]
  /\ inputpos' = IF b = TAIL THEN 0 ELSE inputpos + 1
  /\ IF b = TAIL /\ ChecksumOk(inputbuf')
       THEN Process(inputbuf') ELSE UNCHANGED <<pm2_5, pm10>>
\* The tenth byte ends a packet, good or bad.
Finish(b) == /\ inputpos + 1 = PACKETLEN
             /\ inputbuf' = [inputbuf EXCEPT ![inputpos] = b]
             /\ inputpos' = 0
             /\ IF b = TAIL /\ ChecksumOk(inputbuf')
                  THEN Process(inputbuf')
                  ELSE UNCHANGED <<pm2_5, pm10>>

\* ISR(USART1_RX_vect).
Receive(b) ==
  /\ irq
  /\ Start(b) \/ Collect(b) \/ Finish(b)

-----------------------------------------------------------------------------
(* The sensor and the line *)

\* The sensor goes on to the next byte, or to another packet.
Advance(ok) ==
  IF sent + 1 < PACKETLEN
    THEN /\ sent' = sent + 1
         /\ damaged' = (damaged \/ ~ok)
         /\ intact' = IF ok THEN intact ELSE 0
         /\ UNCHANGED packet
    ELSE /\ sent' = 0
         /\ packet' \in Packets
         /\ damaged' = FALSE
         /\ intact' = IF damaged \/ ~ok THEN 0
                      ELSE IF intact < 2 THEN intact + 1 ELSE 2

ByteReceived == /\ Receive(Wire(packet)[sent])
                /\ Advance(TRUE)
                /\ UNCHANGED <<main, faults>>

ByteLost == /\ faults < MaxFaults
            /\ faults' = faults + 1
            /\ Advance(FALSE)
            /\ UNCHANGED <<parser, main>>

ByteSpurious == /\ faults < MaxFaults
                /\ \E b \in Noise : Receive(b)
                /\ faults' = faults + 1
                /\ damaged' = TRUE /\ intact' = 0
                /\ UNCHANGED <<main, packet, sent>>

-----------------------------------------------------------------------------
(* The main loop: sds011_getlastpm2_5(), then sds011_getlastpm10() *)

Bug_ReadLow2_5NoCli ==
  /\ reader = 0
  /\ got2_5' = <<pm2_5[1], 255>> /\ snap' = pm2_5
  /\ reader' = 1
  /\ UNCHANGED <<parser, line, irq, got10>>
ReadLow2_5 == /\ reader = 0
              /\ irq' = FALSE
              /\ got2_5' = <<pm2_5[1], 255>> /\ snap' = pm2_5
              /\ reader' = 1
              /\ UNCHANGED <<parser, line, got10>>

ReadHigh2_5 == /\ reader = 1
               /\ got2_5' = [got2_5 EXCEPT ![2] = pm2_5[2]]
               /\ irq' = TRUE
               /\ reader' = 2
               /\ UNCHANGED <<parser, line, got10, snap>>

ReadLow10 == /\ reader = 2
             /\ irq' = FALSE
             /\ got10' = <<pm10[1], 255>> /\ snap' = pm10
             /\ reader' = 3
             /\ UNCHANGED <<parser, line, got2_5>>

ReadHigh10 == /\ reader = 3
              /\ got10' = [got10 EXCEPT ![2] = pm10[2]]
              /\ irq' = TRUE
              /\ reader' = 4
              /\ UNCHANGED <<parser, line, got2_5, snap>>

\* The frame has been sent; nothing is kept for the next one.
ReadDone == /\ reader = 4
            /\ reader' = 0
            /\ got2_5' = Invalid /\ got10' = Invalid /\ snap' = Invalid
            /\ UNCHANGED <<parser, line, irq>>

Next == \/ ByteReceived \/ ByteLost \/ ByteSpurious
        \/ ReadLow2_5 \/ ReadHigh2_5 \/ ReadLow10 \/ ReadHigh10 \/ ReadDone

Spec == Init /\ [][Next]_vars

-----------------------------------------------------------------------------
(* Properties *)

\* Types; between interrupts inputpos is a place for the next byte of a
\* packet, so that no byte is ever stored past the packet.
TypeOK == /\ inputbuf \in [0 .. INPUTBUFSIZE - 1 -> Byte]
          /\ inputpos \in 0 .. PACKETLEN - 1
          /\ pm2_5 \in Word /\ pm10 \in Word
          /\ irq \in BOOLEAN /\ reader \in 0 .. 4
          /\ got2_5 \in Word /\ got10 \in Word /\ snap \in Word
          /\ packet \in Packets /\ sent \in 0 .. PACKETLEN - 1
          /\ damaged \in BOOLEAN /\ intact \in 0 .. 2
          /\ faults \in 0 .. MaxFaults

\* A reading handed to the main loop is one the interrupt handler stored as a
\* whole, never the low byte of one packet and the high byte of the next.
WholeReading == /\ reader = 2 => got2_5 = snap
                /\ reader = 4 => got10 = snap

\* The stored readings are those of one data packet the sensor sends: one
\* lost or spurious byte, wherever it hits and however the parser falls out
\* of step, never makes it accept a packet pieced together from two.  (Two
\* faults can, and so can one spurious byte of just the right value in a
\* packet whose sum is the tail marker: the sum is too weak to tell.)
Authentic ==
  \/ pm2_5 = Invalid /\ pm10 = Invalid
  \/ \E p \in Packets : /\ p.cmd = DATA
                        /\ pm2_5 = <<p.data[1], p.data[2]>>
                        /\ pm10 = <<p.data[3], p.data[4]>>

\* A fault costs the damaged packet and at most the one after it: when an
\* undamaged packet has gone by, the parser again waits for a header where
\* the sensor starts one (for packets without a header byte inside).
Resync == sent = 0 /\ intact >= 1 /\ ~damaged => inputpos = 0

\* The packets with no header byte after the first.
HeaderFree == \A p \in Packets : \A i \in 1 .. PACKETLEN - 1 : Wire(p)[i] # HEAD

\* Once back in step, a data packet received whole is stored (checked just
\* after its last byte).
Stored == [][ /\ sent = PACKETLEN - 1 /\ sent' = 0 /\ intact' = 2
              /\ packet.cmd = DATA
              => pm2_5' = <<packet.data[1], packet.data[2]>>
                 /\ pm10' = <<packet.data[3], packet.data[4]>> ]_vars

=============================================================================

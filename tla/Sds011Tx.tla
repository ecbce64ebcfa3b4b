------------------------------- MODULE Sds011Tx -------------------------------
(***************************************************************************)
(* The transmit half of sds011.c: commands for the SDS011 dust sensor are  *)
(* put byte by byte into a ring buffer by the main loop and drained by the *)
(* "transmit complete" interrupt of USART1.                                *)
(*                                                                         *)
(* appendchar() is cut into its three memory effects, so that the model    *)
(* sees what the hardware and the interrupt could do between them:         *)
(*   "store"  compare the next tail with outputhead, store the byte        *)
(*   "kick"   test opinprog and, if idle, write the byte to UDR1           *)
(*   "mark"   advance outputhead past that byte and set opinprog           *)
(* A byte is a pair of the command it belongs to and its place in it.      *)
(***************************************************************************)
EXTENDS Naturals, Sequences

CONSTANTS OUTPUTBUFSIZE,  \* slots of the ring; 60 in the code
          CMDLEN,         \* bytes of one command; 19 in the code
          Requests,       \* the commands the main loop issues
          MaxBacklog,     \* callers queue a command only behind at most this
                          \* many unsent bytes (a bound on the environment)
          BootIrq         \* are interrupts already enabled when main() calls
                          \* sds011_init()?  A TWI timeout in lps25hb_init()
                          \* prints to the console, and that ends in sei()

ASSUME SizeAssumption == OUTPUTBUFSIZE \in Nat /\ OUTPUTBUFSIZE >= 2
ASSUME CmdAssumption == CMDLEN \in Nat /\ CMDLEN >= 2
ASSUME BacklogAssumption == MaxBacklog \in Nat
ASSUME BootIrqAssumption == BootIrq \in BOOLEAN

VARIABLES
  outputbuf, outputhead, outputtail, opinprog,  \* the statics of sds011.c
  usart,      \* bytes in the transmitter: UDR1 and the shift register
  txc,        \* TXC1, the pending transmit-complete interrupt
  irq,        \* the global interrupt flag
  pc,         \* where the main program stands in appendchar(), or "idle"
  cmd, pos,   \* sendsds011cmd(): the command and the byte being appended
  booted,     \* commands sent by sds011_init() so far; 3 after sei()
  last,       \* history: the last byte written to UDR1
  lost        \* history: has appendchar() dropped a byte?

ring == <<outputbuf, outputhead, outputtail>>
vars == <<outputbuf, outputhead, outputtail, opinprog, usart, txc, irq,
          pc, cmd, pos, booted, last, lost>>

InitCommands == <<"setdatareporting", "sensoroff">>
Commands == Requests \cup {"setdatareporting", "sensoroff", "none"}
Slots == 0 .. OUTPUTBUFSIZE - 1
Bytes == [of : Commands, at : 1 .. CMDLEN]

\* The line between two commands, as it is after reset.
NoByte == [of |-> "none", at |-> CMDLEN]
What == [of |-> cmd, at |-> pos]

(***************************************************************************)
(* The index arithmetic of the ring.                                       *)
(* (A Bug_ operator is a faulty variant of the definition that follows; it *)
(* is used only to show that the properties would notice the fault.)       *)
(***************************************************************************)
Bug_SuccEarly(i) == IF i + 1 >= OUTPUTBUFSIZE - 1 THEN 0 ELSE i + 1
Bug_SuccLate(i) == IF i + 1 > OUTPUTBUFSIZE THEN 0 ELSE i + 1
Succ(i) == IF i + 1 >= OUTPUTBUFSIZE THEN 0 ELSE i + 1
Slot(i) == IF i >= OUTPUTBUFSIZE THEN i - OUTPUTBUFSIZE ELSE i
Dist(h, t) == IF t >= h THEN t - h ELSE t + OUTPUTBUFSIZE - h

\* The first byte of the ring that UDR1 has not been given: between "kick"
\* and "mark" outputhead still points at the byte that already was.
FirstUnsent == IF pc = "mark" THEN Succ(outputhead) ELSE outputhead
Waiting == Dist(FirstUnsent, outputtail)
Unsent == [i \in 1 .. Waiting |-> outputbuf[Slot(FirstUnsent + i - 1)]]

\* All that has been accepted and is not yet on the wire, oldest first.
Outgoing == usart \o Unsent
Backlog == Len(usart) + Waiting

Init == /\ outputbuf = [i \in Slots |-> NoByte]
        /\ outputhead = 0 /\ outputtail = 0
        /\ opinprog = FALSE
        /\ usart = << >> /\ txc = FALSE
        /\ irq = BootIrq
        /\ pc = "idle" /\ cmd = "none" /\ pos = CMDLEN
        /\ booted = 0
        /\ last = NoByte /\ lost = FALSE

\* Writing UDR1: the transmitter holds one byte in UDR1 and one in the
\* shift register, and ignores a write when both are taken.
WriteUDR1(b) == /\ usart' = IF Len(usart) < 2 THEN Append(usart, b) ELSE usart
                /\ last' = b

-----------------------------------------------------------------------------
(* The main program. *)

Call(c) == pc' = "store" /\ cmd' = c /\ pos' = 1

\* sds011_init() calls sendsds011cmd() twice, before main() enables
\* interrupts.
InitCommand == /\ pc = "idle" /\ booted < 2
               /\ Call(InitCommands[booted + 1])
               /\ booted' = booted + 1
               /\ UNCHANGED <<ring, opinprog, usart, txc, irq, last, lost>>

\* sei() at the end of main()'s initialisation.
EnableInterrupts == /\ pc = "idle" /\ booted = 2
                    /\ booted' = 3 /\ irq' = TRUE
                    /\ UNCHANGED <<ring, opinprog, usart, txc, pc, cmd, pos,
                                   last, lost>>

Bug_RequestNoCli(c) ==
  /\ pc = "idle" /\ booted = 3 /\ Backlog <= MaxBacklog
  /\ Call(c)
  /\ UNCHANGED <<ring, opinprog, usart, txc, irq, booted, last, lost>>
\* sds011_requestresult(), sds011_setmeasurements(): cli(), then the command.
Request(c) == /\ pc = "idle" /\ booted = 3 /\ Backlog <= MaxBacklog
              /\ irq' = FALSE
              /\ Call(c)
              /\ UNCHANGED <<ring, opinprog, usart, txc, booted, last, lost>>

Bug_StoreOverwrites ==
  /\ pc = "store"
  /\ outputbuf' = [outputbuf EXCEPT ![outputtail] = What]
  /\ outputtail' = Succ(outputtail)
  /\ pc' = "kick"
  /\ UNCHANGED <<outputhead, opinprog, usart, txc, irq, cmd, pos, booted,
                 last, lost>>
\* appendchar(): store the byte unless the ring is full.
Store == /\ pc = "store"
         /\ \/ /\ Succ(outputtail) # outputhead
               /\ outputbuf' = [outputbuf EXCEPT ![outputtail] = What]
               /\ outputtail' = Succ(outputtail)
               /\ UNCHANGED lost
            \/ /\ Succ(outputtail) = outputhead
               /\ lost' = TRUE
               /\ UNCHANGED <<outputbuf, outputtail>>
         /\ pc' = "kick"
         /\ UNCHANGED <<outputhead, opinprog, usart, txc, irq, cmd, pos,
                        booted, last>>

Bug_NextByteNoSei ==
  IF pos < CMDLEN
    THEN pc' = "store" /\ pos' = pos + 1 /\ UNCHANGED <<cmd, irq>>
    ELSE pc' = "idle" /\ UNCHANGED <<cmd, pos, irq>>
\* The next byte of the command, or the end of the call: the functions that
\* used cli() end in sei(), sds011_init() leaves the interrupts alone.
NextByte == IF pos < CMDLEN
              THEN pc' = "store" /\ pos' = pos + 1 /\ UNCHANGED <<cmd, irq>>
              ELSE /\ pc' = "idle" /\ irq' = IF booted = 3 THEN TRUE ELSE irq
                   /\ UNCHANGED <<cmd, pos>>

\* appendchar(): start the output if none is in progress.
Kick == /\ pc = "kick"
        /\ \/ /\ ~opinprog
              /\ WriteUDR1(What)
              /\ pc' = "mark"
              /\ UNCHANGED <<cmd, pos, irq>>
           \/ /\ opinprog
              /\ NextByte
              /\ UNCHANGED <<usart, last>>
        /\ UNCHANGED <<ring, opinprog, txc, booted, lost>>

Bug_MarkNotBusy == /\ pc = "mark"
                   /\ outputhead' = Succ(outputhead)
                   /\ NextByte
                   /\ UNCHANGED <<outputbuf, outputtail, opinprog, usart, txc,
                                  booted, last, lost>>
\* appendchar(): the byte just written is no longer in the ring.
Mark == /\ pc = "mark"
        /\ outputhead' = Succ(outputhead)
        /\ opinprog' = TRUE
        /\ NextByte
        /\ UNCHANGED <<outputbuf, outputtail, usart, txc, booted, last, lost>>

-----------------------------------------------------------------------------
(* The hardware and the interrupt handler. *)

\* A byte leaves the shift register; TXC1 is set when none follows it.
ByteSent == /\ usart # << >>
            /\ usart' = Tail(usart)
            /\ txc' = (txc \/ Tail(usart) = << >>)
            /\ UNCHANGED <<ring, opinprog, irq, pc, cmd, pos, booted, last,
                           lost>>

\* ISR(USART1_TX_vect); entering it clears TXC1.
TxIsr == /\ irq /\ txc
         /\ txc' = FALSE
         /\ \/ /\ outputhead = outputtail
               /\ opinprog' = FALSE
               /\ UNCHANGED <<outputhead, usart, last>>
            \/ /\ outputhead # outputtail
               /\ WriteUDR1(outputbuf[outputhead])
               /\ outputhead' = Succ(outputhead)
               /\ UNCHANGED opinprog
         /\ UNCHANGED <<outputbuf, outputtail, irq, pc, cmd, pos, booted, lost>>

\* The watchdog restarts the controller: RAM and USART as after power-on.
WatchdogReset == /\ outputbuf' = [i \in Slots |-> NoByte]
                 /\ outputhead' = 0 /\ outputtail' = 0
                 /\ opinprog' = FALSE
                 /\ usart' = << >> /\ txc' = FALSE
                 /\ irq' = BootIrq
                 /\ pc' = "idle" /\ cmd' = "none" /\ pos' = CMDLEN
                 /\ booted' = 0
                 /\ last' = NoByte /\ lost' = FALSE

Program == \/ InitCommand
           \/ EnableInterrupts
           \/ \E c \in Requests : Request(c)
           \/ Store
           \/ Kick
           \/ Mark

Next == Program \/ ByteSent \/ TxIsr \/ WatchdogReset

Spec == Init /\ [][Next]_vars

(***************************************************************************)
(* Fairness: a call once begun is finished, the UART keeps shifting, and   *)
(* an interrupt that is pending again and again while interrupts are       *)
(* enabled is taken (the flag stays set until then).  Nothing obliges the  *)
(* main loop to issue commands, nor the watchdog to bite.                  *)
(***************************************************************************)
FairSpec == /\ Spec
            /\ WF_vars(InitCommand) /\ WF_vars(EnableInterrupts)
            /\ WF_vars(Store) /\ WF_vars(Kick) /\ WF_vars(Mark)
            /\ WF_vars(ByteSent)
            /\ SF_vars(TxIsr)

-----------------------------------------------------------------------------
(* Properties *)

\* The variables have their types, with the transmitter never holding more
\* than the two bytes it has room for.
TypeOK == /\ outputbuf \in [Slots -> Bytes]
          /\ outputhead \in Slots /\ outputtail \in Slots
          /\ opinprog \in BOOLEAN
          /\ usart \in Seq(Bytes) /\ Len(usart) <= 2
          /\ txc \in BOOLEAN /\ irq \in BOOLEAN
          /\ pc \in {"idle", "store", "kick", "mark"}
          /\ cmd \in Commands /\ pos \in 1 .. CMDLEN
          /\ booted \in 0 .. 3
          /\ last \in Bytes /\ lost \in BOOLEAN

\* opinprog tells the truth: when it is off the transmitter is silent and
\* nothing waits in the ring (but the byte appendchar() is about to start);
\* when it is on, exactly one byte is on its way or one interrupt is pending
\* that will send the next.  Otherwise output would stall for ever, or a byte
\* would be written to UDR1 twice or past the ring's end.
OneUnderWay == Len(usart) = IF txc THEN 0 ELSE 1
OutputInProgress ==
  CASE pc = "mark" -> ~opinprog /\ Waiting = 0 /\ OneUnderWay
    [] pc # "mark" /\ opinprog -> OneUnderWay
    [] OTHER -> /\ usart = << >> /\ ~txc
                /\ Waiting = IF pc = "kick" THEN 1 ELSE 0

\* b may follow a on the wire: the next byte of the same command, or the
\* first byte of one after the last byte of another.
Follows(a, b) == \/ b.at = 1 /\ a.at = CMDLEN
                 \/ b.of = a.of /\ b.at = a.at + 1

\* The sensor is sent whole commands: UDR1 never gets a byte that does not
\* continue the command begun, however commands, the interrupt and the
\* transmitter interleave (as long as callers respect MaxBacklog).
WholeCommands == [][last' # last => Follows(last, last') \/ last' = NoByte]_vars

\* "Enough to buffer 3 commands": with at most two commands waiting when
\* another is queued, no byte is dropped.
NothingLost == ~lost

\* "This can only be called safely with interrupts disabled!", says the
\* comment on appendchar().  It is, unless interrupts came on during set-up
\* (BootIrq), which nothing in sds011_init() would notice.
AppendSafely == pc \in {"store", "kick", "mark"} => ~irq

\* Every byte accepted into the ring is sent, although interrupts are
\* disabled again and again by the callers, unless the station restarts.
EveryByteSent ==
  \A b \in Bytes :
    (\E i \in 1 .. Waiting : Unsent[i] = b) ~> (last = b \/ booted = 0)

\* The transmit path is a lossy FIFO of what was accepted: refused only when
\* the ring is full, sent in order, each byte once.
Fifo == INSTANCE LossyFifo
          WITH Values <- Bytes, Capacity <- OUTPUTBUFSIZE,
               NoDropBelow <- OUTPUTBUFSIZE - 1,
               fifo <- Outgoing, lost <- lost
ImplementsFifo == Fifo!FifoSpec
=============================================================================

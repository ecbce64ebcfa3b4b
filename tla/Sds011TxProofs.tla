--------------------------- MODULE Sds011TxProofs ---------------------------
(***************************************************************************)
(* What TLAPS proves of Sds011Tx for every ring size, command length and   *)
(* backlog.                                                                *)
(***************************************************************************)
EXTENDS Sds011Tx, SequenceTheorems, TLAPS

-----------------------------------------------------------------------------
(* The index arithmetic of the ring. *)

\* Indices stay inside the ring.
LEMMA SuccType == ASSUME NEW i \in Slots PROVE Succ(i) \in Slots
  BY SizeAssumption DEF Slots, Succ

\* A distance counts fewer slots than the ring has.
LEMMA DistType ==
  ASSUME NEW h \in Slots, NEW t \in Slots
  PROVE  /\ Dist(h, t) \in 0 .. OUTPUTBUFSIZE - 1
         /\ Dist(h, t) = 0 <=> h = t
  BY SizeAssumption DEF Slots, Dist

\* Storing a byte brings the tail one slot further from the head.
LEMMA DistStore ==
  ASSUME NEW h \in Slots, NEW t \in Slots, Succ(t) # h
  PROVE  Dist(h, Succ(t)) = Dist(h, t) + 1
  BY SizeAssumption DEF Slots, Dist, Succ

\* Taking a byte brings the head one slot closer to the tail.
LEMMA DistTake ==
  ASSUME NEW h \in Slots, NEW t \in Slots, h # t
  PROVE  Dist(Succ(h), t) = Dist(h, t) - 1
  BY SizeAssumption DEF Slots, Dist, Succ

\* The ring is full when the distance has its largest value.
LEMMA DistFull ==
  ASSUME NEW h \in Slots, NEW t \in Slots
  PROVE  Succ(t) = h <=> Dist(h, t) = OUTPUTBUFSIZE - 1
  BY SizeAssumption DEF Slots, Dist, Succ

-----------------------------------------------------------------------------
(* Types *)

\* Every variable of the transmit path has its type in every reachable state,
\* with at most the two bytes in the transmitter that it has room for.
THEOREM TypeCorrect == Spec => []TypeOK
<1>1. Init => TypeOK
  <2> SUFFICES ASSUME Init PROVE TypeOK
    OBVIOUS
  <2>1. irq \in BOOLEAN
    BY BootIrqAssumption, Zenon DEF Init
  <2>2. NoByte \in Bytes
    BY CmdAssumption DEF NoByte, Bytes, Commands
  <2>3. usart \in Seq(Bytes) /\ Len(usart) <= 2
    BY DEF Init
  <2>4. outputbuf \in [Slots -> Bytes]
    BY <2>2 DEF Init
  <2>5. outputhead \in Slots /\ outputtail \in Slots /\ pos \in 1 .. CMDLEN
    BY SizeAssumption, CmdAssumption DEF Init, Slots
  <2>6. cmd \in Commands /\ last \in Bytes
    BY <2>2 DEF Init, Commands
  <2>7. opinprog \in BOOLEAN /\ txc \in BOOLEAN /\ lost \in BOOLEAN
    BY Zenon DEF Init
  <2>8. pc = "idle" /\ booted \in 0 .. 3
    BY DEF Init
  <2> QED
    BY <2>1, <2>3, <2>4, <2>5, <2>6, <2>7, <2>8 DEF TypeOK
<1>2. TypeOK /\ [Next]_vars => TypeOK'
  <2> SUFFICES ASSUME TypeOK, [Next]_vars PROVE TypeOK'
    OBVIOUS
  <2> USE DEF TypeOK
  <2>1. NoByte \in Bytes /\ What \in Bytes
    BY CmdAssumption DEF NoByte, What, Bytes, Commands
  <2>2. ASSUME NEW b \in Bytes, WriteUDR1(b)
        PROVE  usart' \in Seq(Bytes) /\ Len(usart') <= 2 /\ last' \in Bytes
    <3>1. Append(usart, b) \in Seq(Bytes)
      OBVIOUS
    <3>2. Len(Append(usart, b)) = Len(usart) + 1
      OBVIOUS
    <3> QED
      BY <2>2, <3>1, <3>2 DEF WriteUDR1
  <2>3. ASSUME NextByte, pc \in {"kick", "mark"}
        PROVE  /\ pc' \in {"idle", "store", "kick", "mark"}
               /\ cmd' \in Commands /\ pos' \in 1 .. CMDLEN /\ irq' \in BOOLEAN
    <3>1. CASE pos < CMDLEN
      BY <2>3, <3>1, CmdAssumption DEF NextByte
    <3>2. CASE ~(pos < CMDLEN)
      <4>1. pc' = "idle" /\ cmd' = cmd /\ pos' = pos
        BY <2>3, <3>2 DEF NextByte
      <4>2. irq' = TRUE \/ irq' = irq
        BY <2>3, <3>2, Zenon DEF NextByte
      <4> QED
        BY <4>1, <4>2
    <3> QED
      BY <3>1, <3>2
  <2>4. CASE InitCommand
    BY <2>4, CmdAssumption DEF InitCommand, Call, InitCommands, Commands, ring
  <2>5. CASE EnableInterrupts
    BY <2>5 DEF EnableInterrupts, ring
  <2>6. ASSUME NEW c \in Requests, Request(c) PROVE TypeOK'
    <3>1. cmd' \in Commands /\ pos' \in 1 .. CMDLEN
      BY <2>6, CmdAssumption DEF Request, Call, Commands
    <3>2. irq' \in BOOLEAN /\ pc' = "store"
      BY <2>6 DEF Request, Call
    <3>3. UNCHANGED <<ring, opinprog, usart, txc, booted, last, lost>>
      BY <2>6 DEF Request
    <3> QED
      BY <3>1, <3>2, <3>3 DEF ring
  <2>7. CASE Store
    BY <2>7, <2>1, SuccType DEF Store
  <2>8. CASE Kick
    BY <2>8, <2>1, <2>2, <2>3 DEF Kick, ring
  <2>9. CASE Mark
    BY <2>9, <2>3, SuccType DEF Mark
  <2>10. CASE ByteSent
    <3>1. Tail(usart) \in Seq(Bytes) /\ Len(Tail(usart)) = Len(usart) - 1
      BY <2>10 DEF ByteSent
    <3> QED
      BY <2>10, <3>1 DEF ByteSent, ring
  <2>11. CASE TxIsr
    BY <2>11, <2>2, SuccType DEF TxIsr
  <2>12. CASE WatchdogReset
    <3>1. irq' \in BOOLEAN
      BY <2>12, BootIrqAssumption, Zenon DEF WatchdogReset
    <3> QED
      BY <2>12, <3>1, <2>1, SizeAssumption, CmdAssumption
      DEF WatchdogReset, Slots, Commands
  <2>13. CASE UNCHANGED vars
    BY <2>13 DEF vars
  <2> QED
    BY <2>4, <2>5, <2>6, <2>7, <2>8, <2>9, <2>10, <2>11, <2>12, <2>13
    DEF Next, Program
<1> QED
  BY <1>1, <1>2, PTL DEF Spec

-----------------------------------------------------------------------------
(* opinprog tells the truth *)

(***************************************************************************)
(* OutputInProgress is kept only because the interrupt cannot come between *)
(* "kick" and "mark": the strengthening says when interrupts are off.      *)
(***************************************************************************)
InterruptsOff == pc # "idle" \/ booted < 3 => ~irq
BusyInv == /\ OutputInProgress
           /\ InterruptsOff

\* When interrupts are off during boot, they are off in every appendchar(),
\* and opinprog is set exactly while a byte or an interrupt is under way.
THEOREM BusyCorrect == ASSUME ~BootIrq PROVE Spec => []BusyInv
<1>1. Init => BusyInv
  <2> SUFFICES ASSUME Init PROVE BusyInv
    OBVIOUS
  <2>1. ~irq
    BY Zenon DEF Init
  <2>2. Waiting = 0
    BY DEF Init, Waiting, FirstUnsent, Dist
  <2> QED
    BY <2>1, <2>2 DEF Init, BusyInv, OutputInProgress, InterruptsOff
<1>2. TypeOK /\ TypeOK' /\ BusyInv /\ [Next]_vars => BusyInv'
  <2> SUFFICES ASSUME TypeOK, TypeOK', BusyInv, [Next]_vars PROVE BusyInv'
    OBVIOUS
  <2> USE DEF TypeOK, BusyInv, OneUnderWay
  <2>a. InterruptsOff'
    <3>1. CASE irq' = FALSE
      BY <3>1 DEF InterruptsOff
    <3>2. CASE UNCHANGED <<pc, booted, irq>>
      BY <3>2 DEF InterruptsOff
    <3>3. CASE InitCommand
      BY <3>3 DEF InitCommand, Call, InterruptsOff
    <3>4. CASE EnableInterrupts
      BY <3>4 DEF EnableInterrupts, InterruptsOff
    <3>5. CASE Store
      BY <3>5 DEF Store, InterruptsOff
    <3>6. ASSUME pc # "idle", NextByte, booted' = booted
          PROVE  InterruptsOff'
      <4>1. CASE booted = 3 /\ ~(pos < CMDLEN)
        BY <3>6, <4>1 DEF NextByte, InterruptsOff
      <4>2. CASE booted # 3 \/ pos < CMDLEN
        <5>1. irq' = irq
          BY <3>6, <4>2, Zenon DEF NextByte
        <5> QED
          BY <3>6, <5>1 DEF InterruptsOff
      <4> QED
        BY <4>1, <4>2
    <3>7. CASE Kick
      BY <3>7, <3>6 DEF Kick, InterruptsOff
    <3>8. CASE WatchdogReset
      BY <3>8, <3>1, Zenon DEF WatchdogReset
    <3> QED
      BY <3>1, <3>2, <3>3, <3>4, <3>5, <3>6, <3>7, <3>8
      DEF Next, Program, Request, Mark, ByteSent, TxIsr, vars
  <2>0. /\ Len(usart) = 0 <=> usart = << >>
        /\ Len(usart) = 1 => Tail(usart) = << >>
    <3>1. Len(usart) = 0 <=> usart = << >>
      BY EmptySeq, LenProperties
    <3>2. ASSUME Len(usart) = 1 PROVE Tail(usart) = << >>
      <4>1. Tail(usart) \in Seq(Bytes) /\ Len(Tail(usart)) = 0
        BY <3>1, <3>2, HeadTailProperties
      <4> QED
        BY <4>1, EmptySeq
    <3> QED
      BY <3>1, <3>2
  <2>1. ASSUME UNCHANGED <<ring, pc>> PROVE Waiting' = Waiting
    BY <2>1 DEF ring, Waiting, FirstUnsent, Dist
  <2>2. /\ outputhead \in Slots /\ outputtail \in Slots
        /\ (Waiting = 0 <=> FirstUnsent = outputtail)
    BY DistType, SuccType DEF Waiting, FirstUnsent
  <2>3. CASE InitCommand
    <3>1. Waiting' = Waiting
      BY <2>3 DEF InitCommand, Call, ring, Waiting, FirstUnsent, Dist
    <3> QED
      BY <2>a, <2>3, <3>1 DEF InitCommand, Call, ring, OutputInProgress
  <2>4. CASE EnableInterrupts
    BY <2>a, <2>4, <2>1 DEF EnableInterrupts, ring, OutputInProgress
  <2>5. ASSUME NEW c \in Requests, Request(c) PROVE BusyInv'
    <3>1. Waiting' = Waiting
      BY <2>5 DEF Request, Call, ring, Waiting, FirstUnsent, Dist
    <3> QED
      BY <2>a, <2>5, <3>1 DEF Request, Call, ring, OutputInProgress
  <2>6. CASE Store
    <3>1. /\ pc = "store" /\ pc' = "kick"
          /\ UNCHANGED <<opinprog, usart, txc>>
      BY <2>6 DEF Store
    <3>2. CASE opinprog
      BY <2>a, <3>1, <3>2 DEF OutputInProgress
    <3>3. CASE ~opinprog
      <4>1. outputhead = outputtail
        BY <2>2, <2>6, <3>3 DEF OutputInProgress, Store, FirstUnsent
      <4>2. Succ(outputtail) # outputhead
        BY <4>1, SizeAssumption DEF Succ, Slots
      <4>3. Waiting' = 1
        BY <2>6, <4>1, <4>2, DistStore, DistType
        DEF Store, Waiting, FirstUnsent
      <4> QED
        BY <2>a, <3>1, <3>3, <4>3 DEF OutputInProgress
    <3> QED
      BY <3>2, <3>3
  <2>7. CASE Kick
    <3>1. CASE opinprog
      <4>1. Waiting' = Waiting /\ pc' # "mark" /\ pc' # "kick"
        BY <2>7, <3>1 DEF Kick, NextByte, ring, Waiting, FirstUnsent, Dist
      <4> QED
        BY <2>a, <2>7, <3>1, <4>1 DEF Kick, OutputInProgress
    <3>2. CASE ~opinprog
      <4>1. Waiting = 1 /\ usart = << >> /\ ~txc
        BY <2>7, <3>2 DEF Kick, OutputInProgress
      <4>2. Waiting' = 0
        <5>1. outputhead # outputtail
          BY <2>2, <2>7, <4>1 DEF Kick, FirstUnsent
        <5>2. Waiting' = Dist(Succ(outputhead), outputtail)
          BY <2>7, <3>2 DEF Kick, Waiting, FirstUnsent, Dist, Succ, ring
        <5>3. Waiting = Dist(outputhead, outputtail)
          BY <2>7 DEF Kick, Waiting, FirstUnsent
        <5> QED
          BY <4>1, <5>1, <5>2, <5>3, DistTake, 1 - 1 = 0
      <4>3. usart' = <<What>> /\ pc' = "mark" /\ ~txc' /\ ~opinprog'
        BY <2>7, <3>2, <4>1 DEF Kick, WriteUDR1
      <4>4. Len(usart') = 1
        BY <4>3
      <4> QED
        BY <2>a, <3>2, <4>2, <4>3, <4>4 DEF Kick, OutputInProgress
    <3> QED
      BY <3>1, <3>2
  <2>8. CASE Mark
    <3>1. OneUnderWay /\ opinprog'
      BY <2>8 DEF Mark, OutputInProgress
    <3>2. pc' # "mark" /\ UNCHANGED <<usart, txc>>
      BY <2>8 DEF Mark, NextByte
    <3> QED
      BY <2>a, <3>1, <3>2 DEF OutputInProgress
  <2>9. CASE ByteSent
    <3>1. Len(usart) = 1 /\ ~txc
      BY <2>0, <2>9 DEF ByteSent, OutputInProgress
    <3>2. usart' = << >> /\ txc'
      BY <2>0, <2>9, <3>1 DEF ByteSent
    <3>3. Waiting' = Waiting
      BY <2>1, <2>9 DEF ByteSent
    <3> QED
      BY <2>a, <2>9, <3>1, <3>2, <3>3 DEF ByteSent, ring, OutputInProgress
  <2>10. CASE TxIsr
    <3>1. pc = "idle" /\ opinprog /\ usart = << >> /\ irq /\ txc
      BY <2>0, <2>10 DEF TxIsr, OutputInProgress, InterruptsOff
    <3>2. ~txc' /\ UNCHANGED <<pc, irq, booted>>
      BY <2>10 DEF TxIsr
    <3>3. CASE outputhead = outputtail
      <4>1. Waiting' = 0
        BY <2>10, <3>1, <3>3, <2>2 DEF TxIsr, Waiting, FirstUnsent, Dist
      <4> QED
        BY <2>a, <2>10, <3>1, <3>2, <3>3, <4>1 DEF TxIsr, OutputInProgress
    <3>4. CASE outputhead # outputtail
      <4>1. opinprog'
        BY <2>10, <3>1, <3>4 DEF TxIsr
      <4>2. WriteUDR1(outputbuf[outputhead])
        BY <2>10, <3>4 DEF TxIsr
      <4>3. Len(usart') = 1
        BY <3>1, <4>2 DEF WriteUDR1
      <4> QED
        BY <2>a, <3>1, <3>2, <4>1, <4>3 DEF OutputInProgress
    <3> QED
      BY <3>3, <3>4
  <2>11. CASE WatchdogReset
    <3>1. ~irq' /\ ~opinprog' /\ ~txc'
      BY <2>11, Zenon DEF WatchdogReset
    <3>2. Waiting' = 0
      BY <2>11 DEF WatchdogReset, Waiting, FirstUnsent, Dist
    <3> QED
      BY <2>a, <2>11, <3>1, <3>2 DEF WatchdogReset, OutputInProgress
  <2>12. CASE UNCHANGED vars
    <3>1. Waiting' = Waiting
      BY <2>1, <2>12 DEF vars, ring
    <3> QED
      BY <2>a, <2>12, <3>1 DEF vars, OutputInProgress
  <2> QED
    BY <2>3, <2>4, <2>5, <2>6, <2>7, <2>8, <2>9, <2>10, <2>11, <2>12
    DEF Next, Program
<1> QED
  BY <1>1, <1>2, TypeCorrect, PTL DEF Spec

\* opinprog is set exactly while a byte or its interrupt is under way.
THEOREM OutputCorrect == ASSUME ~BootIrq PROVE Spec => []OutputInProgress
<1>1. BusyInv => OutputInProgress
  BY DEF BusyInv
<1> QED
  BY <1>1, BusyCorrect, PTL

-----------------------------------------------------------------------------
(* What each step does to the unsent bytes. *)

\* FirstUnsent is a slot, and Waiting counts from it to the tail.
LEMMA UnsentType ==
  ASSUME TypeOK
  PROVE  /\ FirstUnsent \in Slots
         /\ Waiting \in 0 .. OUTPUTBUFSIZE - 1
         /\ Waiting = 0 <=> FirstUnsent = outputtail
  BY SuccType, DistType DEF TypeOK, FirstUnsent, Waiting

\* A byte stored in a ring that is not full joins at its end.
LEMMA StoreEffect ==
  ASSUME TypeOK, Store, Succ(outputtail) # outputhead
  PROVE  /\ FirstUnsent' = FirstUnsent /\ Waiting' = Waiting + 1
         /\ outputtail' = Succ(outputtail)
         /\ outputbuf' = [outputbuf EXCEPT ![outputtail] = What]
         /\ UNCHANGED <<lost, last, usart>>
  <1>1. FirstUnsent = outputhead /\ FirstUnsent' = outputhead
    BY DEF Store, FirstUnsent
  <1> QED
    BY <1>1, DistStore DEF TypeOK, Store, Waiting

\* Starting the output takes the only unsent byte out of the ring.
LEMMA KickEffect ==
  ASSUME TypeOK, OutputInProgress, Kick, ~opinprog
  PROVE  /\ Waiting = 1 /\ Waiting' = 0
         /\ FirstUnsent = outputhead /\ outputtail = Succ(outputhead)
         /\ usart = << >> /\ usart' = <<What>> /\ last' = What
         /\ pc' = "mark" /\ UNCHANGED <<outputbuf, outputtail, lost, cmd, pos>>
  <1>1. Waiting = 1 /\ usart = << >>
    BY DEF Kick, OutputInProgress
  <1>2. FirstUnsent = outputhead /\ FirstUnsent' = Succ(outputhead)
    BY DEF Kick, FirstUnsent, Succ, ring
  <1>3. outputhead # outputtail
    BY <1>1, <1>2, UnsentType
  <1>4. Waiting' = Dist(Succ(outputhead), outputtail)
    BY <1>2 DEF Kick, Waiting, Dist, ring
  <1>5. Waiting' = 0
    BY <1>1, <1>2, <1>3, <1>4, DistTake, 1 - 1 = 0 DEF TypeOK, Waiting
  <1>6. outputtail = Succ(outputhead)
    BY <1>4, <1>5, DistType, SuccType DEF TypeOK
  <1>7. usart' = <<What>> /\ last' = What
    BY <1>1 DEF Kick, WriteUDR1
  <1> QED
    BY <1>1, <1>2, <1>5, <1>6, <1>7 DEF Kick, ring

\* The interrupt handler moves the oldest unsent byte to the transmitter.
LEMMA TakeEffect ==
  ASSUME TypeOK, BusyInv, TxIsr, outputhead # outputtail
  PROVE  /\ pc = "idle" /\ pc' = "idle"
         /\ FirstUnsent = outputhead /\ FirstUnsent' = Succ(outputhead)
         /\ Waiting # 0 /\ Waiting' = Waiting - 1
         /\ usart = << >> /\ usart' = <<outputbuf[outputhead]>>
         /\ last' = outputbuf[outputhead]
         /\ UNCHANGED <<outputbuf, outputtail, lost, cmd, pos, booted>>
  <1>1. pc = "idle" /\ Len(usart) = 0
    BY DEF TypeOK, TxIsr, BusyInv, InterruptsOff, OutputInProgress, OneUnderWay
  <1>2. usart = << >>
    BY <1>1, EmptySeq DEF TypeOK
  <1>3. WriteUDR1(outputbuf[outputhead])
    BY DEF TxIsr
  <1>4. usart' = <<outputbuf[outputhead]>> /\ last' = outputbuf[outputhead]
    BY <1>2, <1>3 DEF WriteUDR1
  <1>5. FirstUnsent = outputhead /\ FirstUnsent' = Succ(outputhead)
    BY <1>1 DEF TxIsr, FirstUnsent
  <1>6. Waiting' = Waiting - 1 /\ Waiting # 0
    BY <1>5, DistTake, DistType DEF TypeOK, TxIsr, Waiting
  <1> QED
    BY <1>1, <1>2, <1>4, <1>5, <1>6 DEF TxIsr

\* Every other step of the program and the hardware leaves them alone.
Quiet == \/ InitCommand \/ EnableInterrupts
         \/ \E c \in Requests : Request(c)
         \/ Store /\ Succ(outputtail) = outputhead
         \/ Kick /\ opinprog
         \/ Mark \/ ByteSent
         \/ TxIsr /\ outputhead = outputtail
         \/ UNCHANGED vars

LEMMA QuietEffect ==
  ASSUME TypeOK, Quiet
  PROVE  /\ FirstUnsent' = FirstUnsent /\ Waiting' = Waiting
         /\ UNCHANGED <<outputbuf, outputtail, last>>
  <1>1. UNCHANGED <<outputbuf, outputtail, last>>
    BY DEF Quiet, InitCommand, EnableInterrupts, Request, Store, Kick, Mark,
           ByteSent, TxIsr, vars, ring
  <1>2. FirstUnsent' = FirstUnsent
    <2>1. CASE UNCHANGED <<outputhead, pc>>
      BY <2>1 DEF FirstUnsent, Succ
    <2>2. CASE outputhead' = outputhead /\ pc # "mark" /\ pc' # "mark"
      BY <2>2 DEF FirstUnsent
    <2>3. CASE InitCommand
      BY <2>2, <2>3 DEF InitCommand, Call, ring
    <2>4. ASSUME NEW c \in Requests, Request(c)
          PROVE  FirstUnsent' = FirstUnsent
      BY <2>2, <2>4 DEF Request, Call, ring
    <2>5. CASE Store
      BY <2>2, <2>5 DEF Store
    <2>6. CASE Kick /\ opinprog
      BY <2>2, <2>6 DEF Kick, NextByte, ring
    <2>7. CASE Mark
      BY <2>7 DEF Mark, NextByte, FirstUnsent
    <2>8. CASE TxIsr /\ outputhead = outputtail
      BY <2>1, <2>8 DEF TxIsr
    <2> QED
      BY <2>1, <2>3, <2>4, <2>5, <2>6, <2>7, <2>8
      DEF Quiet, EnableInterrupts, ByteSent, vars, ring
  <1> QED
    BY <1>1, <1>2 DEF Waiting, Dist

\* The steps, by what they do to the unsent bytes.
LEMMA NextCases ==
  ASSUME [Next]_vars
  PROVE  \/ Store /\ Succ(outputtail) # outputhead
         \/ Kick /\ ~opinprog
         \/ TxIsr /\ outputhead # outputtail
         \/ Quiet
         \/ WatchdogReset
  BY DEF Next, Program, Quiet
-----------------------------------------------------------------------------
(* No byte is lost *)

\* How many unsent bytes a command may find before it.
Before == IF booted = 1 THEN 0 ELSE MaxBacklog
RoomInv == /\ ~lost
           /\ pc = "store" => Backlog <= Before + pos - 1
           /\ pc \in {"kick", "mark"} => Backlog <= Before + pos
           /\ pc = "idle" /\ booted = 0 => Backlog = 0
           /\ pc = "idle" /\ booted = 1 => Backlog <= CMDLEN
           /\ pc # "idle" => booted > 0

\* "Enough to buffer 3 commands": a ring with room for MaxBacklog bytes and
\* one more command never drops a byte of callers who keep to MaxBacklog.
THEOREM NothingLostCorrect ==
  ASSUME ~BootIrq, CMDLEN <= MaxBacklog, MaxBacklog + CMDLEN < OUTPUTBUFSIZE
  PROVE  Spec => []NothingLost
<1> USE CmdAssumption, BacklogAssumption, SizeAssumption
<1>1. Init => RoomInv
  <2> SUFFICES ASSUME Init PROVE RoomInv
    OBVIOUS
  <2>1. ~lost
    BY Zenon DEF Init
  <2>2. Backlog = 0
    BY DEF Init, Backlog, Waiting, FirstUnsent, Dist
  <2> QED
    BY <2>1, <2>2 DEF Init, RoomInv
<1>2. TypeOK /\ BusyInv /\ RoomInv /\ [Next]_vars => RoomInv'
  <2> SUFFICES ASSUME TypeOK, BusyInv, RoomInv, [Next]_vars PROVE RoomInv'
    OBVIOUS
  <2>1. /\ Waiting \in 0 .. OUTPUTBUFSIZE - 1 /\ Len(usart) \in Nat
        /\ pos \in 1 .. CMDLEN /\ booted \in 0 .. 3
        /\ Backlog \in Nat
    BY UnsentType, LenProperties DEF TypeOK, Backlog
  <2>2. ASSUME NextByte, UNCHANGED <<booted, lost>>, Backlog' = Backlog,
               pc \in {"kick", "mark"}
        PROVE  RoomInv'
    <3>1. CASE pos < CMDLEN
      BY <2>1, <2>2, <3>1 DEF NextByte, RoomInv, Before
    <3>2. CASE ~(pos < CMDLEN)
      <4>1. pc' = "idle"
        BY <2>2, <3>2 DEF NextByte
      <4>2. booted = 1 => Backlog <= CMDLEN
        BY <2>1, <2>2 DEF RoomInv, Before
      <4> QED
        BY <2>2, <4>1, <4>2 DEF RoomInv
    <3> QED
      BY <3>1, <3>2
  <2>3. CASE Store /\ Succ(outputtail) # outputhead
    <3>1. Backlog' = Backlog + 1
      BY <2>1, <2>3, StoreEffect DEF Backlog
    <3>2. /\ pc = "store" /\ pc' = "kick"
          /\ UNCHANGED <<pos, booted, lost>>
      BY <2>3, StoreEffect DEF Store
    <3> QED
      BY <2>1, <3>1, <3>2 DEF RoomInv, Before
  <2>4. CASE Kick /\ ~opinprog
    <3>1. Backlog = 1 /\ Len(usart) = 0
      BY <2>4, KickEffect DEF BusyInv, Backlog
    <3>2. Len(usart') = 1 /\ Backlog' = 1
      BY <2>4, KickEffect DEF BusyInv, Backlog
    <3> QED
      BY <2>4, <3>1, <3>2, KickEffect DEF BusyInv, Kick, RoomInv, Before
  <2>5. CASE TxIsr /\ outputhead # outputtail
    <3>1. Len(usart) = 0 /\ Len(usart') = 1
      BY <2>5, TakeEffect
    <3>2. Backlog' = Backlog
      BY <2>1, <2>5, <3>1, TakeEffect DEF Backlog
    <3> QED
      BY <2>5, <3>2, TakeEffect DEF RoomInv
  <2>6. CASE Quiet
    <3>1. Waiting' = Waiting
      BY <2>6, QuietEffect
    <3>2. CASE InitCommand
      BY <2>1, <3>1, <3>2 DEF InitCommand, Call, RoomInv, Before, Backlog
    <3>3. CASE EnableInterrupts
      BY <3>3 DEF EnableInterrupts, RoomInv
    <3>4. ASSUME NEW c \in Requests, Request(c) PROVE RoomInv'
      BY <3>1, <3>4 DEF Request, Call, RoomInv, Before, Backlog
    <3>5. CASE Store /\ Succ(outputtail) = outputhead
      <4>1. Waiting = OUTPUTBUFSIZE - 1
        BY <3>5, DistFull DEF Store, Waiting, FirstUnsent, TypeOK
      <4>2. Backlog <= MaxBacklog + CMDLEN - 1
        BY <2>1, <3>5 DEF Store, RoomInv, Before, Backlog
      <4> QED
        BY <2>1, <4>1, <4>2 DEF Backlog
    <3>6. CASE Kick /\ opinprog
      BY <2>2, <3>1, <3>6 DEF Kick, Backlog
    <3>7. CASE Mark
      BY <2>2, <3>1, <3>7 DEF Mark, Backlog
    <3>8. CASE ByteSent
      <4>1. Len(usart') = Len(usart) - 1
        BY <3>8 DEF ByteSent, TypeOK
      <4>2. Backlog' = Backlog - 1 /\ Backlog \in Int
        BY <2>1, <3>1, <4>1 DEF Backlog
      <4>3. Backlog # 0
        BY <2>1, <4>1, <3>8, EmptySeq DEF ByteSent, TypeOK, Backlog
      <4> QED
        BY <2>1, <3>8, <4>2, <4>3 DEF ByteSent, RoomInv, Before
    <3>9. CASE TxIsr /\ outputhead = outputtail
      BY <3>1, <3>9 DEF TxIsr, RoomInv, Before, Backlog
    <3>10. CASE UNCHANGED vars
      BY <3>1, <3>10 DEF vars, RoomInv, Before, Backlog
    <3> QED
      BY <2>6, <3>2, <3>3, <3>4, <3>5, <3>6, <3>7, <3>8, <3>9, <3>10 DEF Quiet
  <2>7. CASE WatchdogReset
    <3>1. ~lost'
      BY <2>7, Zenon DEF WatchdogReset
    <3>2. Backlog' = 0
      BY <2>7 DEF WatchdogReset, Backlog, Waiting, FirstUnsent, Dist
    <3> QED
      BY <2>7, <3>1, <3>2 DEF WatchdogReset, RoomInv
  <2> QED
    BY <2>3, <2>4, <2>5, <2>6, <2>7, NextCases
<1>3. RoomInv => NothingLost
  BY DEF RoomInv, NothingLost
<1> QED
  BY <1>1, <1>2, <1>3, TypeCorrect, BusyCorrect, PTL DEF Spec
-----------------------------------------------------------------------------
(* The sensor is sent whole commands *)

\* The slot before i.
Pred(i) == IF i = 0 THEN OUTPUTBUFSIZE - 1 ELSE i - 1

LEMMA PredSucc ==
  ASSUME NEW i \in Slots
  PROVE  Pred(i) \in Slots /\ Pred(Succ(i)) = i /\ Succ(Pred(i)) = i
  BY SizeAssumption DEF Slots, Pred, Succ

\* Does slot i hold an unsent byte?
Live(i) == Dist(FirstUnsent, i) < Waiting

\* The youngest byte accepted: in the ring, or else already handed over.
LastQueued == IF Waiting = 0 THEN last ELSE outputbuf[Pred(outputtail)]

\* The slots with unsent bytes, around the ring.
LEMMA LiveStore ==
  ASSUME NEW h \in Slots, NEW t \in Slots, NEW i \in Slots, Succ(t) # h
  PROVE  /\ Dist(h, i) < Dist(h, Succ(t)) <=> Dist(h, i) < Dist(h, t) \/ i = t
         /\ ~(Dist(h, t) < Dist(h, t))
         /\ h # t => Dist(h, Pred(t)) < Dist(h, t)
         /\ i # h /\ Dist(h, i) < Dist(h, t) => Pred(i) # t
  BY SizeAssumption DEF Slots, Dist, Succ, Pred

LEMMA LiveTake ==
  ASSUME NEW h \in Slots, NEW t \in Slots, NEW i \in Slots, h # t
  PROVE  /\ Dist(Succ(h), i) < Dist(Succ(h), t) => Dist(h, i) < Dist(h, t)
         /\ Dist(Succ(h), h) < Dist(Succ(h), t) => FALSE
         /\ Succ(h) # t => Dist(h, Succ(h)) < Dist(h, t) /\ Succ(h) # h
  BY SizeAssumption DEF Slots, Dist, Succ

(***************************************************************************)
(* The bytes last, unsent and about to be appended form one chain in which *)
(* each follows the one before it.                                         *)
(***************************************************************************)
ChainInv ==
  /\ Waiting > 0 => Follows(last, outputbuf[FirstUnsent])
  /\ \A i \in Slots : Live(i) /\ i # FirstUnsent
                       => Follows(outputbuf[Pred(i)], outputbuf[i])
  /\ pc = "idle" => LastQueued.at = CMDLEN
  /\ pc = "store" => Follows(LastQueued, What)
  /\ pc \in {"kick", "mark"} => LastQueued = What

\* The sensor is sent whole commands, whatever the interleaving of the main
\* loop, the interrupt and the transmitter.
THEOREM WholeCommandsCorrect ==
  ASSUME ~BootIrq, CMDLEN <= MaxBacklog, MaxBacklog + CMDLEN < OUTPUTBUFSIZE
  PROVE  Spec => WholeCommands
<1> USE CmdAssumption, SizeAssumption
<1>1. Init => ChainInv
  <2> SUFFICES ASSUME Init PROVE ChainInv
    OBVIOUS
  <2>1. Waiting = 0
    BY DEF Init, Waiting, FirstUnsent, Dist
  <2>2. \A i \in Slots : Dist(FirstUnsent, i) \in Nat
    BY DEF Init, Slots, FirstUnsent, Dist
  <2> QED
    BY <2>1, <2>2 DEF Init, ChainInv, LastQueued, Live, NoByte
<1>2. TypeOK /\ BusyInv /\ ~lost' /\ ChainInv /\ [Next]_vars => ChainInv'
  <2> SUFFICES ASSUME TypeOK, BusyInv, ~lost', ChainInv, [Next]_vars
               PROVE  ChainInv'
    OBVIOUS
  <2>1. /\ FirstUnsent \in Slots /\ outputtail \in Slots /\ outputhead \in Slots
        /\ Waiting \in 0 .. OUTPUTBUFSIZE - 1 /\ (Waiting = 0 <=> FirstUnsent = outputtail)
        /\ pos \in 1 .. CMDLEN /\ Waiting = Dist(FirstUnsent, outputtail)
    BY UnsentType DEF TypeOK, Waiting
  <2>2. ASSUME NextByte, LastQueued' = LastQueued, LastQueued = What
        PROVE  /\ pc' = "idle" => LastQueued'.at = CMDLEN
               /\ pc' = "store" => Follows(LastQueued', What')
               /\ pc' \in {"idle", "store"}
    <3>1. What.of = cmd /\ What.at = pos
      BY DEF What
    <3>2. CASE pos < CMDLEN
      <4>1. What'.of = cmd /\ What'.at = pos + 1 /\ pc' = "store"
        BY <2>2, <3>2 DEF NextByte, What
      <4> QED
        BY <2>2, <3>1, <4>1 DEF Follows
    <3>3. CASE ~(pos < CMDLEN)
      <4>1. pc' = "idle" /\ pos = CMDLEN
        BY <2>1, <2>2, <3>3 DEF NextByte
      <4> QED
        BY <2>2, <3>1, <4>1
    <3> QED
      BY <3>2, <3>3
  <2>3. CASE Store /\ Succ(outputtail) # outputhead
    <3>1. /\ FirstUnsent = outputhead /\ FirstUnsent' = outputhead
          /\ pc = "store" /\ pc' = "kick" /\ What' = What
      BY <2>3, StoreEffect DEF Store, FirstUnsent, What
    <3>2. outputbuf' = [outputbuf EXCEPT ![outputtail] = What]
          /\ outputtail' = Succ(outputtail) /\ last' = last
          /\ Waiting' = Waiting + 1
      BY <2>3, StoreEffect
    <3>3. /\ outputbuf'[outputtail] = What
          /\ \A i \in Slots : i # outputtail => outputbuf'[i] = outputbuf[i]
      BY <2>1, <3>2 DEF TypeOK
    <3>4. LastQueued' = What'
      BY <2>1, <3>1, <3>2, <3>3, PredSucc DEF LastQueued
    <3>5. Follows(LastQueued, What)
      BY <3>1 DEF ChainInv
    <3>6. Follows(last', outputbuf'[FirstUnsent'])
      BY <2>1, <3>1, <3>2, <3>3, <3>5 DEF ChainInv, LastQueued
    <3>7. ASSUME NEW i \in Slots, Live(i)', i # FirstUnsent'
          PROVE  Follows(outputbuf'[Pred(i)], outputbuf'[i])
      <4>1. Waiting' = Dist(outputhead, Succ(outputtail))
        BY <3>1, <3>2 DEF Waiting
      <4>2. Dist(FirstUnsent', i) = Dist(outputhead, i)
        BY <3>1 DEF Dist
      <4>3. Live(i) \/ i = outputtail
        BY <2>1, <2>3, <3>1, <3>7, <4>1, <4>2, LiveStore DEF Live
      <4>4. CASE i = outputtail
        <5>1. Waiting # 0
          BY <2>1, <3>1, <3>7, <4>4
        <5>2. outputbuf'[Pred(i)] = LastQueued
          <6>1. Pred(outputtail) # outputtail
            BY <2>1 DEF Pred, Slots
          <6> QED
            BY <2>1, <3>3, <4>4, <5>1, <6>1, PredSucc DEF LastQueued
        <5> QED
          BY <3>3, <3>5, <4>4, <5>2
      <4>5. CASE i # outputtail
        <5>1. Pred(i) # outputtail
          BY <2>1, <2>3, <3>1, <3>7, <4>3, <4>5, LiveStore DEF Live
        <5> QED
          BY <3>1, <3>3, <3>7, <4>3, <4>5, <5>1, PredSucc DEF ChainInv
      <4> QED
        BY <4>4, <4>5
    <3> QED
      BY <3>1, <3>4, <3>6, <3>7 DEF ChainInv
  <2>4. CASE Kick /\ ~opinprog
    <3>1. /\ Waiting' = 0 /\ last' = What /\ pc' = "mark" /\ What' = What
          /\ FirstUnsent' \in Slots
      BY <2>4, KickEffect, SuccType DEF BusyInv, What, FirstUnsent, TypeOK, Kick, ring, Succ, Slots
    <3>2. \A i \in Slots : Dist(FirstUnsent', i) \in Nat
      BY <3>1, DistType
    <3>3. \A i \in Slots : ~Live(i)'
      BY <3>1, <3>2 DEF Live, Dist
    <3> QED
      BY <3>1, <3>3 DEF ChainInv, LastQueued
  <2>5. CASE TxIsr /\ outputhead # outputtail
    <3>1. /\ FirstUnsent = outputhead /\ FirstUnsent' = Succ(outputhead)
          /\ Waiting' = Waiting - 1 /\ last' = outputbuf[outputhead]
          /\ pc = "idle" /\ pc' = "idle" /\ Waiting # 0
          /\ UNCHANGED <<outputbuf, outputtail>>
      BY <2>5, TakeEffect
    <3>2. Waiting' = Dist(Succ(outputhead), outputtail)
      BY <2>1, <2>5, <3>1, DistTake
    <3>3. LastQueued'.at = CMDLEN
      <4>1. CASE Waiting' = 0
        <5>1. outputtail = Succ(outputhead)
          BY <2>1, <3>2, <4>1, DistType, SuccType
        <5> QED
          BY <2>1, <3>1, <4>1, <5>1, PredSucc DEF LastQueued, ChainInv
      <4>2. CASE Waiting' # 0
        BY <3>1, <4>2 DEF LastQueued, ChainInv, Pred
      <4> QED
        BY <4>1, <4>2
    <3>4. ASSUME Waiting' > 0
          PROVE  Follows(last', outputbuf'[FirstUnsent'])
      <4>1. Succ(outputhead) # outputtail
        BY <2>1, <3>2, <3>4, DistType, SuccType
      <4>2. Live(Succ(outputhead)) /\ Succ(outputhead) # outputhead
        BY <2>1, <2>5, <3>1, <4>1, LiveTake DEF Live
      <4> QED
        BY <2>1, <3>1, <4>2, SuccType, PredSucc DEF ChainInv
    <3>5. ASSUME NEW i \in Slots, Live(i)', i # FirstUnsent'
          PROVE  Follows(outputbuf'[Pred(i)], outputbuf'[i])
      <4>1. Dist(Succ(outputhead), i) < Dist(Succ(outputhead), outputtail)
        BY <3>1, <3>2, <3>5 DEF Live, Dist
      <4>2. Live(i) /\ i # outputhead
        BY <2>1, <2>5, <3>1, <4>1, LiveTake DEF Live
      <4> QED
        BY <3>1, <4>2 DEF ChainInv
    <3> QED
      BY <3>1, <3>3, <3>4, <3>5 DEF ChainInv
  <2>6. CASE Quiet
    <3>1. /\ FirstUnsent' = FirstUnsent /\ Waiting' = Waiting
          /\ UNCHANGED <<outputbuf, outputtail, last>>
      BY <2>6, QuietEffect
    <3>2. LastQueued' = LastQueued
      BY <3>1 DEF LastQueued, Pred
    <3>3. /\ Waiting' > 0 => Follows(last', outputbuf'[FirstUnsent'])
          /\ \A i \in Slots : Live(i)' /\ i # FirstUnsent'
                               => Follows(outputbuf'[Pred(i)], outputbuf'[i])
      BY <3>1 DEF ChainInv, Live, Dist
    <3>4. /\ pc' = "idle" => LastQueued'.at = CMDLEN
          /\ pc' = "store" => Follows(LastQueued', What')
          /\ pc' \in {"kick", "mark"} => LastQueued' = What'
      <4>1. CASE UNCHANGED <<pc, cmd, pos>>
        BY <3>2, <4>1 DEF ChainInv, What
      <4>2. ASSUME pc = "idle", NEW c, Call(c)
            PROVE  pc' = "store" /\ Follows(LastQueued', What')
        BY <3>2, <4>2 DEF ChainInv, Call, Follows, What
      <4>3. CASE InitCommand
        BY <4>2, <4>3 DEF InitCommand
      <4>4. ASSUME NEW c \in Requests, Request(c)
            PROVE  pc' = "store" /\ Follows(LastQueued', What')
        BY <4>2, <4>4 DEF Request
      <4>5. CASE Store /\ Succ(outputtail) = outputhead
        BY <4>5, Zenon DEF Store
      <4>6. CASE Kick /\ opinprog
        BY <2>2, <3>2, <4>6 DEF Kick, ChainInv
      <4>7. CASE Mark
        BY <2>2, <3>2, <4>7 DEF Mark, ChainInv
      <4> QED
        BY <2>6, <4>1, <4>3, <4>4, <4>5, <4>6, <4>7
        DEF Quiet, EnableInterrupts, ByteSent, TxIsr, vars
    <3> QED
      BY <3>3, <3>4 DEF ChainInv
  <2>7. CASE WatchdogReset
    <3>1. /\ Waiting' = 0 /\ FirstUnsent' = 0 /\ pc' = "idle"
          /\ last' = NoByte
      BY <2>7 DEF WatchdogReset, Waiting, FirstUnsent, Dist
    <3>2. \A i \in Slots : ~Live(i)'
      BY <3>1 DEF Live, Dist, Slots
    <3> QED
      BY <3>1, <3>2 DEF ChainInv, LastQueued, NoByte
  <2> QED
    BY <2>3, <2>4, <2>5, <2>6, <2>7, NextCases
<1>3. TypeOK /\ BusyInv /\ ChainInv /\ [Next]_vars
      => [last' # last => Follows(last, last') \/ last' = NoByte]_vars
  <2> SUFFICES ASSUME TypeOK, BusyInv, ChainInv, [Next]_vars, last' # last
               PROVE  Follows(last, last') \/ last' = NoByte
    OBVIOUS
  <2>1. CASE Store /\ Succ(outputtail) # outputhead
    BY <2>1, StoreEffect
  <2>2. CASE Kick /\ ~opinprog
    <3>1. last' = What /\ Waiting = 1 /\ FirstUnsent = outputhead
          /\ outputtail = Succ(outputhead)
      BY <2>2, KickEffect DEF BusyInv
    <3>2. LastQueued = outputbuf[outputhead]
      BY <3>1, PredSucc DEF LastQueued, TypeOK
    <3> QED
      BY <2>2, <3>1, <3>2 DEF ChainInv, Kick
  <2>3. CASE TxIsr /\ outputhead # outputtail
    <3>1. Waiting > 0
      BY <2>3, TakeEffect, UnsentType
    <3> QED
      BY <2>3, <3>1, TakeEffect DEF ChainInv
  <2>4. CASE Quiet
    BY <2>4, QuietEffect
  <2>5. CASE WatchdogReset
    BY <2>5 DEF WatchdogReset
  <2> QED
    BY <2>1, <2>2, <2>3, <2>4, <2>5, NextCases
<1>4. Spec => []~lost
  <2>1. NothingLost => ~lost
    BY DEF NothingLost
  <2> QED
    BY <2>1, NothingLostCorrect, PTL
<1> QED
  BY <1>1, <1>2, <1>3, <1>4, TypeCorrect, BusyCorrect, PTL
  DEF Spec, WholeCommands
-----------------------------------------------------------------------------
(* The transmit path implements a lossy FIFO *)

\* Walking round the ring, by slot number.
LEMMA SlotType ==
  ASSUME NEW h \in Slots, NEW n \in 0 .. OUTPUTBUFSIZE
  PROVE  Slot(h + n) \in Slots
  BY SizeAssumption DEF Slots, Slot

LEMMA SlotSteps ==
  ASSUME NEW h \in Slots, NEW t \in Slots
  PROVE  /\ Slot(h) = h
         /\ Slot(h + Dist(h, t)) = t
         /\ \A n \in 0 .. Dist(h, t) - 1 : Slot(h + n) # t
         /\ \A n \in 0 .. OUTPUTBUFSIZE - 2 : Slot(Succ(h) + n) = Slot(h + n + 1)
  BY SizeAssumption DEF Slots, Slot, Dist, Succ

\* The unsent bytes are a sequence, and so is all that is outgoing.
LEMMA UnsentSeq ==
  TypeOK =>
    /\ Unsent \in Seq(Bytes) /\ Len(Unsent) = Waiting
    /\ \A i \in 1 .. Waiting : Unsent[i] = outputbuf[Slot(FirstUnsent + i - 1)]
<1> SUFFICES ASSUME TypeOK
             PROVE  /\ Unsent \in Seq(Bytes) /\ Len(Unsent) = Waiting
                    /\ \A i \in 1 .. Waiting :
                         Unsent[i] = outputbuf[Slot(FirstUnsent + i - 1)]
  OBVIOUS
<1>1. Waiting \in Nat /\ Waiting < OUTPUTBUFSIZE
  BY UnsentType, SizeAssumption
  <1>2. \A i \in 1 .. Waiting : outputbuf[Slot(FirstUnsent + i - 1)] \in Bytes
    <2> SUFFICES ASSUME NEW i \in 1 .. Waiting
                 PROVE  outputbuf[Slot(FirstUnsent + i - 1)] \in Bytes
      OBVIOUS
    <2>1. i - 1 \in 0 .. OUTPUTBUFSIZE /\ FirstUnsent \in Nat
      BY <1>1, UnsentType, SizeAssumption DEF Slots
    <2>2. Slot(FirstUnsent + (i - 1)) \in Slots
      BY <2>1, SlotType, UnsentType
    <2>3. FirstUnsent + (i - 1) = FirstUnsent + i - 1
      BY <2>1
    <2> QED
      BY <2>2, <2>3 DEF TypeOK
  <1> QED
    BY <1>1, <1>2 DEF Unsent

\* The same of the next state.
LEMMA UnsentSeqNext ==
  TypeOK' => Unsent' \in Seq(Bytes) /\ Len(Unsent') = Waiting'
<1>1. TypeOK => Unsent \in Seq(Bytes) /\ Len(Unsent) = Waiting
  BY UnsentSeq
<1>2. (TypeOK => Unsent \in Seq(Bytes) /\ Len(Unsent) = Waiting)'
  BY <1>1, PTL
<1> QED
  BY <1>2

\* What is outgoing, byte by byte.
LEMMA OutgoingSeq ==
  ASSUME TypeOK
  PROVE  /\ Outgoing \in Seq(Bytes) /\ Len(Outgoing) = Len(usart) + Waiting
         /\ usart = << >> => Outgoing = Unsent
  BY UnsentSeq, ConcatProperties, ConcatEmptySeq DEF Outgoing, TypeOK

\* Unchanged parts make an unchanged whole.
LEMMA UnsentStill ==
  ASSUME TypeOK, FirstUnsent' = FirstUnsent, Waiting' = Waiting,
         outputbuf' = outputbuf
  PROVE  Unsent' = Unsent
  BY DEF Unsent, Slot

(***************************************************************************)
(* The byte that "kick" hands to UDR1 is the one "store" put at the head.  *)
(***************************************************************************)
KickInv == pc = "kick" /\ ~opinprog => outputbuf[outputhead] = What

LEMMA KickCorrect == ASSUME ~BootIrq PROVE Spec => []KickInv
<1>1. Init => KickInv
  BY DEF Init, KickInv
<1>2. TypeOK /\ BusyInv /\ KickInv /\ [Next]_vars => KickInv'
  <2> SUFFICES ASSUME TypeOK, BusyInv, KickInv, [Next]_vars,
                      pc' = "kick", ~opinprog'
               PROVE  outputbuf'[outputhead'] = What'
    BY DEF KickInv
  <2>1. CASE Store
    <3>1. ~opinprog /\ pc = "store" /\ outputhead' = outputhead /\ What' = What
      BY <2>1 DEF Store, What
    <3>2. outputhead = outputtail
      BY <3>1, UnsentType DEF BusyInv, OutputInProgress, FirstUnsent
    <3>3. Succ(outputtail) # outputhead
      BY <3>2, SizeAssumption DEF TypeOK, Slots, Succ
    <3> QED
      BY <2>1, <3>1, <3>2, <3>3, StoreEffect DEF TypeOK
  <2>2. CASE ByteSent
    BY <2>2 DEF ByteSent, ring, KickInv, What
  <2>3. CASE TxIsr
    BY <2>3 DEF TxIsr, BusyInv, InterruptsOff
  <2>4. CASE UNCHANGED vars
    BY <2>4 DEF vars, KickInv, What
  <2> QED
    BY <2>1, <2>2, <2>3, <2>4
    DEF Next, Program, InitCommand, EnableInterrupts, Request, Call,
        Kick, Mark, NextByte, WatchdogReset
<1> QED
  BY <1>1, <1>2, TypeCorrect, BusyCorrect, PTL DEF Spec

\* The driver's transmit path, interrupt, ring and UART together, is a lossy
\* FIFO: bytes leave in the order accepted, once each, and one is refused
\* only when the ring is full.
THEOREM FifoCorrect == ASSUME ~BootIrq PROVE Spec => ImplementsFifo
<1>1. Init => Fifo!FifoInit
  <2> SUFFICES ASSUME Init PROVE Outgoing = << >> /\ lost = FALSE
    BY DEF Fifo!FifoInit
  <2>1. Waiting = 0 /\ usart = << >>
    BY DEF Init, Waiting, FirstUnsent, Dist
  <2>2. Unsent = << >>
    BY <2>1 DEF Unsent
  <2>3. Outgoing = << >>
    BY <2>1, <2>2, EmptySeq, ConcatEmptySeq DEF Outgoing
  <2>4. lost = FALSE
    BY Zenon DEF Init
  <2> QED
    BY <2>3, <2>4
<1>2. TypeOK /\ TypeOK' /\ BusyInv /\ KickInv /\ [Next]_vars
      => [Fifo!FifoNext]_<<Outgoing, lost>>
  <2> SUFFICES ASSUME TypeOK, TypeOK', BusyInv, KickInv, [Next]_vars
               PROVE  Fifo!FifoNext \/ UNCHANGED <<Outgoing, lost>>
    OBVIOUS
  <2>1. /\ FirstUnsent \in Slots /\ outputtail \in Slots /\ outputhead \in Slots
        /\ Waiting \in 0 .. OUTPUTBUFSIZE - 1
        /\ Waiting = Dist(FirstUnsent, outputtail) /\ OUTPUTBUFSIZE \in Nat
    BY UnsentType, SizeAssumption DEF TypeOK, Waiting
  <2>2. Len(usart) \in 0 .. 1
    BY LenProperties, EmptySeq
    DEF TypeOK, BusyInv, OutputInProgress, OneUnderWay
  <2>3. What \in Bytes
    BY DEF What, Bytes, TypeOK
  <2>4. CASE Store /\ Succ(outputtail) # outputhead
    <3>1. FirstUnsent = outputhead /\ Waiting # OUTPUTBUFSIZE - 1
      BY <2>1, <2>4, DistFull DEF Store, FirstUnsent
    <3>2. Waiting' = Waiting + 1 /\ FirstUnsent' = FirstUnsent
          /\ outputbuf' = [outputbuf EXCEPT ![outputtail] = What]
          /\ UNCHANGED <<usart, lost>>
      BY <2>4, StoreEffect
    <3>3. ASSUME NEW i \in 1 .. Waiting' PROVE Unsent'[i] = Append(Unsent, What)[i]
      <4>1. Unsent'[i] = outputbuf'[Slot(FirstUnsent + (i - 1))]
        BY <2>1, <3>2, <3>3 DEF Unsent, Slot, Slots
      <4>2. CASE i = Waiting + 1
        <5>1. Slot(FirstUnsent + (i - 1)) = outputtail
          BY <2>1, <4>2, SlotSteps
        <5>2. Unsent'[i] = What
          BY <2>1, <3>2, <4>1, <5>1 DEF TypeOK
        <5> QED
          BY <4>2, <5>2, UnsentSeq
      <4>3. CASE i # Waiting + 1
        <5>1. i \in 1 .. Waiting /\ i - 1 \in 0 .. Waiting - 1
          BY <2>1, <3>2, <3>3, <4>3
        <5>2. Slot(FirstUnsent + (i - 1)) # outputtail
          BY <2>1, <5>1, SlotSteps
        <5>3. Slot(FirstUnsent + (i - 1)) \in Slots
          BY <2>1, <5>1, SlotType
        <5>4. Unsent'[i] = outputbuf[Slot(FirstUnsent + (i - 1))]
          BY <3>2, <4>1, <5>2, <5>3 DEF TypeOK
        <5>5. FirstUnsent + (i - 1) = FirstUnsent + i - 1
          BY <2>1, <5>1 DEF Slots
        <5>6. Unsent'[i] = Unsent[i]
          BY <5>1, <5>4, <5>5, UnsentSeq
        <5> QED
          BY <5>1, <5>6, UnsentSeq
      <4> QED
        BY <4>2, <4>3
    <3>4. Unsent' = Append(Unsent, What)
      <4>1. Unsent' \in Seq(Bytes) /\ Len(Unsent') = Waiting'
        BY UnsentSeqNext
      <4>2. Append(Unsent, What) \in Seq(Bytes)
            /\ Len(Append(Unsent, What)) = Waiting + 1
        BY <2>3, UnsentSeq
      <4> QED
        BY <3>2, <3>3, <4>1, <4>2, SeqEqual
    <3>5. Outgoing' = Append(Outgoing, What)
      BY <2>3, <3>2, <3>4, UnsentSeq DEF Outgoing, TypeOK
    <3>6. Len(Outgoing) < OUTPUTBUFSIZE
      <4>1. Len(usart) + Waiting < OUTPUTBUFSIZE
        <5>1. Waiting \in 0 .. OUTPUTBUFSIZE - 2
          BY <2>1, <3>1
        <5>2. \A m \in 0 .. 1, n \in 0 .. OUTPUTBUFSIZE - 2 : m + n < OUTPUTBUFSIZE
          BY SizeAssumption
        <5> QED
          BY <2>2, <5>1, <5>2
      <4> QED
        BY <4>1, OutgoingSeq
    <3>7. Fifo!Put(What)
      BY <3>2, <3>5, <3>6 DEF Fifo!Put
    <3> QED
      BY <2>3, <3>7 DEF Fifo!FifoNext
  <2>5. CASE Kick /\ ~opinprog
    <3>1. /\ Waiting = 1 /\ Waiting' = 0 /\ usart = << >> /\ usart' = <<What>>
          /\ FirstUnsent = outputhead /\ lost' = lost
      BY <2>5, KickEffect DEF BusyInv
    <3>2. Unsent[1] = What
      BY <2>1, <2>5, <3>1, UnsentSeq, SlotSteps DEF KickInv, Kick, Slots
    <3>3. Unsent = <<What>>
      BY <3>1, <3>2, <2>3, UnsentSeq
    <3>4. Unsent' = << >>
      BY <3>1 DEF Unsent
    <3> QED
      BY <3>1, <3>3, <3>4 DEF Outgoing
  <2>6. CASE TxIsr /\ outputhead # outputtail
    <3> DEFINE b == outputbuf[outputhead]
    <3>1. /\ FirstUnsent = outputhead /\ FirstUnsent' = Succ(outputhead)
          /\ Waiting # 0 /\ Waiting' = Waiting - 1
          /\ usart = << >> /\ usart' = <<b>> /\ UNCHANGED <<outputbuf, lost>>
      BY <2>6, TakeEffect
    <3>2. b \in Bytes /\ <<b>> \in Seq(Bytes) /\ Len(<<b>>) = 1 /\ <<b>>[1] = b
      BY <2>1 DEF TypeOK
    <3>3. Unsent' \in Seq(Bytes) /\ Len(Unsent') = Waiting'
      BY UnsentSeqNext
    <3>4. /\ <<b>> \o Unsent' \in Seq(Bytes)
          /\ Len(<<b>> \o Unsent') = Waiting
          /\ \A i \in 1 .. Waiting :
                (<<b>> \o Unsent')[i] = IF i = 1 THEN b ELSE Unsent'[i - 1]
      BY <2>1, <3>1, <3>2, <3>3, ConcatProperties
    <3>5. ASSUME NEW i \in 1 .. Waiting PROVE Unsent[i] = (<<b>> \o Unsent')[i]
      <4>1. CASE i = 1
        <5>1. Unsent[1] = outputbuf[Slot(outputhead + 1 - 1)]
          BY <2>1, <3>1, UnsentSeq
        <5>2. outputhead + 1 - 1 = outputhead
          BY <2>1 DEF Slots
        <5>3. Unsent[1] = b
          BY <2>1, <5>1, <5>2, SlotSteps
        <5> QED
          BY <3>4, <4>1, <5>3
      <4>2. CASE i # 1
        <5>1. i - 1 \in 1 .. Waiting' /\ i - 2 \in 0 .. OUTPUTBUFSIZE - 2
          BY <2>1, <3>1, <4>2
        <5>2. Unsent'[i - 1] = outputbuf[Slot(Succ(outputhead) + (i - 2))]
          <6>1. Succ(outputhead) + (i - 1) - 1 = Succ(outputhead) + (i - 2)
            BY <2>1, SuccType DEF Slots
          <6> QED
            BY <3>1, <5>1, <6>1 DEF Unsent, Slot
        <5>3. Slot(Succ(outputhead) + (i - 2)) = Slot(outputhead + (i - 2) + 1)
          BY <2>1, <5>1, SlotSteps
        <5>4. outputhead + (i - 2) + 1 = FirstUnsent + i - 1
          BY <2>1, <3>1 DEF Slots
        <5> QED
          BY <3>4, <4>2, <5>2, <5>3, <5>4, UnsentSeq
      <4> QED
        BY <4>1, <4>2
    <3>6. Unsent = <<b>> \o Unsent'
      BY <3>4, <3>5, UnsentSeq, SeqEqual
    <3> QED
      BY <3>1, <3>6, OutgoingSeq DEF Outgoing
  <2>7. CASE Quiet
    <3>1. Unsent' = Unsent
      BY <2>7, QuietEffect, UnsentStill
    <3>2. CASE ByteSent
      <4>1. usart # << >> /\ usart' = Tail(usart) /\ lost' = lost
        BY <3>2 DEF ByteSent
      <4>2. Outgoing # << >> /\ Outgoing' = Tail(Outgoing)
        <5>1. /\ usart \in Seq(Bytes) /\ Len(usart) = 1 /\ Tail(usart) = << >>
              /\ Unsent \in Seq(Bytes)
          <6>1. usart \in Seq(Bytes) /\ Unsent \in Seq(Bytes)
            BY UnsentSeq DEF TypeOK
          <6>2. Len(usart) = 1
            BY <2>2, <4>1, <6>1, EmptySeq
          <6>3. Tail(usart) \in Seq(Bytes) /\ Len(Tail(usart)) = 0
            BY <4>1, <6>1, <6>2, HeadTailProperties
          <6> QED
            BY <6>1, <6>2, <6>3, EmptySeq
        <5>2. Outgoing' = Unsent
          BY <3>1, <4>1, <5>1, ConcatEmptySeq DEF Outgoing
        <5>3. /\ Outgoing \in Seq(Bytes) /\ Len(Outgoing) = 1 + Len(Unsent)
              /\ \A i \in 1 .. 1 + Len(Unsent) :
                   Outgoing[i] = IF i <= 1 THEN usart[i] ELSE Unsent[i - 1]
          <6>1. /\ Outgoing \in Seq(Bytes)
                /\ Len(Outgoing) = Len(usart) + Len(Unsent)
                /\ \A i \in 1 .. Len(usart) + Len(Unsent) :
                     Outgoing[i] = IF i <= Len(usart)
                                     THEN usart[i] ELSE Unsent[i - Len(usart)]
            BY <5>1, ConcatProperties DEF Outgoing
          <6> QED
            BY <5>1, <6>1
        <5>4. Outgoing # << >>
          BY <5>1, <5>3, EmptySeq, LenProperties
        <5>5. /\ Tail(Outgoing) \in Seq(Bytes)
              /\ Len(Tail(Outgoing)) = Len(Unsent)
              /\ \A i \in 1 .. Len(Unsent) : Tail(Outgoing)[i] = Outgoing[i + 1]
          BY <5>1, <5>3, <5>4, HeadTailProperties, LenProperties
        <5>6. \A i \in 1 .. Len(Unsent) : Tail(Outgoing)[i] = Unsent[i]
          BY <5>1, <5>3, <5>5, LenProperties
        <5>7. Tail(Outgoing) = Unsent
          BY <5>1, <5>5, <5>6, SeqEqual
        <5> QED
          BY <5>2, <5>4, <5>7
      <4> QED
        BY <4>1, <4>2 DEF Fifo!FifoNext, Fifo!Get
    <3>3. CASE Store /\ Succ(outputtail) = outputhead
      <4>1. Waiting = OUTPUTBUFSIZE - 1
        BY <2>1, <3>3, DistFull DEF Store, FirstUnsent
      <4>2. lost' = TRUE /\ usart' = usart
        BY <3>3, Zenon DEF Store
      <4>3. Len(Outgoing) >= OUTPUTBUFSIZE - 1
        BY <2>1, <2>2, <4>1, OutgoingSeq
      <4>4. Outgoing' = Outgoing
        BY <3>1, <4>2 DEF Outgoing
      <4> QED
        BY <4>2, <4>3, <4>4, Zenon DEF Fifo!FifoNext, Fifo!Refuse
    <3>4. CASE UNCHANGED <<usart, lost>>
      BY <3>1, <3>4 DEF Outgoing
    <3>5. CASE TxIsr /\ outputhead = outputtail
      BY <3>4, <3>5 DEF TxIsr
    <3> QED
      BY <2>7, <3>2, <3>3, <3>4, <3>5
      DEF Quiet, InitCommand, EnableInterrupts, Request, Kick, Mark, vars
  <2>8. CASE WatchdogReset
    <3>1. Waiting' = 0 /\ usart' = << >>
      BY <2>8 DEF WatchdogReset, Waiting, FirstUnsent, Dist
    <3>2. Outgoing' = << >>
      BY <3>1 DEF Outgoing, Unsent
    <3>3. lost' = FALSE
      BY <2>8, Zenon DEF WatchdogReset
    <3> QED
      BY <3>2, <3>3, Zenon DEF Fifo!FifoNext, Fifo!Clear
  <2> QED
    BY <2>4, <2>5, <2>6, <2>7, <2>8, NextCases
<1> QED
  BY <1>1, <1>2, TypeCorrect, BusyCorrect, KickCorrect, PTL
  DEF Spec, ImplementsFifo, Fifo!FifoSpec, Fifo!fifoVars
=============================================================================

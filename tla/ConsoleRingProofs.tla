-------------------------- MODULE ConsoleRingProofs --------------------------
(***************************************************************************)
(* What TLAPS proves of ConsoleRing for every ring and packet size, every  *)
(* set of texts and any number of USB sessions.                            *)
(***************************************************************************)
EXTENDS ConsoleRing, SequenceTheorems, TLAPS

-----------------------------------------------------------------------------
(* The ring as a sequence. *)

\* How many slots lie between the head h and the tail t.
Dist(h, t) == IF t >= h THEN t - h ELSE t + OUTPUTBUFSIZE - h

\* The contents of the buffer b between h and t.
Content(b, h, t) == [i \in 1 .. Dist(h, t) |-> b[Slot(h + i - 1)]]

LEMMA BufferedIsContent ==
  /\ Waiting = Dist(outputhead, outputtail)
  /\ Buffered = Content(outputbuf, outputhead, outputtail)
BY DEF Waiting, Buffered, Dist, Content

LEMMA BufferedIsContentNext ==
  /\ Waiting' = Dist(outputhead', outputtail')
  /\ Buffered' = Content(outputbuf', outputhead', outputtail')
BY DEF Waiting, Buffered, Dist, Content

LEMMA SuccType == ASSUME NEW i \in Slots PROVE Succ(i) \in Slots
BY SizeAssumption DEF Slots, Succ

LEMMA DistType ==
  ASSUME NEW h \in Slots, NEW t \in Slots
  PROVE  /\ Dist(h, t) \in 0 .. OUTPUTBUFSIZE - 1
         /\ Dist(h, t) = 0 <=> h = t
BY SizeAssumption DEF Slots, Dist

LEMMA DistStore ==
  ASSUME NEW h \in Slots, NEW t \in Slots
  PROVE  /\ Succ(t) # h => Dist(h, Succ(t)) = Dist(h, t) + 1 /\ Dist(h, t) < OUTPUTBUFSIZE - 1
         /\ Succ(t) = h => Dist(h, t) = OUTPUTBUFSIZE - 1
BY SizeAssumption DEF Slots, Dist, Succ

LEMMA DistTake ==
  ASSUME NEW h \in Slots, NEW t \in Slots, h # t
  PROVE  Dist(Succ(h), t) = Dist(h, t) - 1
BY SizeAssumption DEF Slots, Dist, Succ

\* The slot of each position, as seen from the head and from the next one.
LEMMA SlotSteps ==
  ASSUME NEW h \in Slots, NEW t \in Slots
  PROVE  /\ \A i \in 1 .. Dist(h, t) : Slot(h + i - 1) \in Slots /\ Slot(h + i - 1) # t
         /\ Slot(h + (Dist(h, t) + 1) - 1) = t
         /\ Slot(h + 1 - 1) = h
         /\ \A i \in 1 .. OUTPUTBUFSIZE - 1 : Slot(Succ(h) + i - 1) = Slot(h + (i + 1) - 1)
BY SizeAssumption DEF Slots, Dist, Slot, Succ

LEMMA ContentType ==
  ASSUME NEW b \in [Slots -> Values], NEW h \in Slots, NEW t \in Slots
  PROVE  /\ Content(b, h, t) \in Seq(Values)
         /\ Len(Content(b, h, t)) = Dist(h, t)
         /\ \A i \in 1 .. Dist(h, t) : Content(b, h, t)[i] = b[Slot(h + i - 1)]
<1>1. Dist(h, t) \in Nat
  BY DistType, SizeAssumption
<1>2. \A i \in 1 .. Dist(h, t) : b[Slot(h + i - 1)] \in Values
  BY SlotSteps
<1>3. Content(b, h, t) \in [1 .. Dist(h, t) -> Values]
  BY <1>2 DEF Content
<1>4. Content(b, h, t) \in Seq(Values)
  BY <1>1, <1>3, SeqDef
<1>5. Len(Content(b, h, t)) = Dist(h, t)
  BY <1>1, <1>3, <1>4, LenProperties DEF Content
<1> QED
  BY <1>4, <1>5 DEF Content

\* A character stored behind the tail is not yet in the ring.
LEMMA ContentStore ==
  ASSUME NEW b \in [Slots -> Values], NEW h \in Slots, NEW t \in Slots, NEW v
  PROVE  Content([b EXCEPT ![t] = v], h, t) = Content(b, h, t)
<1>1. \A i \in 1 .. Dist(h, t) : [b EXCEPT ![t] = v][Slot(h + i - 1)] = b[Slot(h + i - 1)]
  BY SlotSteps
<1> QED
  BY <1>1 DEF Content

\* Moving the tail past it appends it.
LEMMA ContentAppend ==
  ASSUME NEW b \in [Slots -> Values], NEW h \in Slots, NEW t \in Slots, Succ(t) # h
  PROVE  Content(b, h, Succ(t)) = Append(Content(b, h, t), b[t])
<1> DEFINE old == Content(b, h, t)
           new == Content(b, h, Succ(t))
           n == Dist(h, t)
<1>1. /\ old \in Seq(Values) /\ Len(old) = n
      /\ \A i \in 1 .. n : old[i] = b[Slot(h + i - 1)]
  BY ContentType
<1>2. /\ new \in Seq(Values) /\ Len(new) = n + 1
      /\ \A i \in 1 .. n + 1 : new[i] = b[Slot(h + i - 1)]
  <2>1. Succ(t) \in Slots /\ Dist(h, Succ(t)) = n + 1
    BY SuccType, DistStore
  <2> HIDE DEF n
  <2> QED
    BY <2>1, ContentType
<1>3. n \in Nat /\ b[t] \in Values
  BY DistType, SizeAssumption
<1>4. new[n + 1] = b[t]
  BY <1>2, <1>3, SlotSteps
<1> HIDE DEF old, new, n
<1>5. /\ Append(old, b[t]) \in Seq(Values)
      /\ Len(Append(old, b[t])) = n + 1
      /\ \A i \in 1 .. n : Append(old, b[t])[i] = old[i]
      /\ Append(old, b[t])[n + 1] = b[t]
  BY <1>1, <1>3, AppendProperties
<1>6. \A i \in 1 .. n + 1 : new[i] = Append(old, b[t])[i]
  <2> TAKE i \in 1 .. n + 1
  <2>1. CASE i = n + 1
    BY <1>4, <1>5, <2>1
  <2>2. CASE i # n + 1
    <3>1. i \in 1 .. n
      BY <1>3, <2>2
    <3> QED
      BY <1>1, <1>2, <1>5, <3>1
  <2> QED
    BY <2>1, <2>2
<1>7. new = Append(old, b[t])
  BY <1>2, <1>5, <1>6, SeqEqual
<1> QED
  BY <1>7 DEF old, new

\* Moving the head on takes the first character.
LEMMA ContentTake ==
  ASSUME NEW b \in [Slots -> Values], NEW h \in Slots, NEW t \in Slots, h # t
  PROVE  /\ Content(b, h, t) # << >>
         /\ Content(b, h, t)[1] = b[h]
         /\ Content(b, Succ(h), t) = Tail(Content(b, h, t))
<1> DEFINE old == Content(b, h, t)
           new == Content(b, Succ(h), t)
           n == Dist(h, t)
<1>1. /\ old \in Seq(Values) /\ Len(old) = n
      /\ \A i \in 1 .. n : old[i] = b[Slot(h + i - 1)]
  BY ContentType
<1>2. /\ new \in Seq(Values) /\ Len(new) = n - 1
      /\ \A i \in 1 .. n - 1 : new[i] = b[Slot(Succ(h) + i - 1)]
  <2>1. Succ(h) \in Slots /\ Dist(Succ(h), t) = n - 1
    BY SuccType, DistTake
  <2>2. \A s \in Slots : /\ Content(b, s, t) \in Seq(Values)
                         /\ Len(Content(b, s, t)) = Dist(s, t)
                         /\ \A i \in 1 .. Dist(s, t) : Content(b, s, t)[i] = b[Slot(s + i - 1)]
    BY ContentType
  <2> HIDE DEF n
  <2> QED
    BY <2>1, <2>2
<1>3. n \in 1 .. OUTPUTBUFSIZE - 1
  BY DistType, SizeAssumption
<1>4. \A i \in 1 .. OUTPUTBUFSIZE - 1 : Slot(Succ(h) + i - 1) = Slot(h + (i + 1) - 1)
  BY SlotSteps
<1>5. old[1] = b[h]
  BY <1>1, <1>3, SlotSteps
<1> HIDE DEF old, new, n
<1>6. old # << >>
  BY <1>1, <1>3, EmptySeq
<1>7. /\ Tail(old) \in Seq(Values) /\ Len(Tail(old)) = n - 1
      /\ \A i \in 1 .. n - 1 : Tail(old)[i] = old[i + 1]
  BY <1>1, <1>6, HeadTailProperties
<1>8. \A i \in 1 .. n - 1 : new[i] = Tail(old)[i]
  <2> TAKE i \in 1 .. n - 1
  <2>1. i \in 1 .. OUTPUTBUFSIZE - 1 /\ i + 1 \in 1 .. n
    BY <1>3, SizeAssumption
  <2> QED
    BY <1>1, <1>2, <1>4, <1>7, <2>1
<1>9. new = Tail(old)
  BY <1>2, <1>7, <1>8, SeqEqual
<1> QED
  BY <1>5, <1>6, <1>9 DEF old, new

-----------------------------------------------------------------------------
(* Types *)

FlagsOK ==
  /\ configured \in BOOLEAN /\ inready \in BOOLEAN /\ irq \in BOOLEAN /\ lost \in BOOLEAN
  /\ pc \in {"idle", "store", "advance", "collect"}

DataOK ==
  /\ outputbuf \in [Slots -> Values]
  /\ outputhead \in Slots /\ outputtail \in Slots /\ newpos \in Slots
  /\ todo \in Seq(Chars)
  /\ whattosend \in Seq(Values) /\ Len(whattosend) < CDC_TXRX_EPSIZE
  /\ session \in 0 .. MaxSessions
  /\ received \in Seq(Values)

LEMMA TypeSplit == TypeOK <=> FlagsOK /\ DataOK
BY Zenon DEF TypeOK, FlagsOK, DataOK

Printing == pc \in {"store", "advance"}

\* While appendchar() runs there is a character to append, and the tail it is
\* about to set lies one slot on.
PrintInv ==
  /\ Printing => todo # << >>
  /\ pc = "advance" => newpos = Succ(outputtail) /\ newpos # outputhead

\* The main program is interrupted only between its calls.
IrqInv == irq => pc = "idle"

LEMMA IrqStep == IrqInv /\ [Next]_vars => IrqInv'
BY Zenon DEF IrqInv, Next, PrintText, Store, Advance, NextChar, Work, Collect, Transmit, ErrorPrinted, Configure,
   Disconnect, HostReads, vars

LEMMA FlagsStep == FlagsOK /\ [Next]_vars => FlagsOK'
<1> SUFFICES ASSUME FlagsOK, [Next]_vars PROVE FlagsOK'
  OBVIOUS
<1>1. configured' \in BOOLEAN /\ inready' \in BOOLEAN /\ irq' \in BOOLEAN /\ lost' \in BOOLEAN
  BY Zenon DEF FlagsOK, Next, PrintText, Store, Advance, NextChar, Work, Collect, Transmit, ErrorPrinted, Configure,
     Disconnect, HostReads, vars, usb
<1>2. pc' \in {"idle", "store", "advance", "collect"}
  BY Zenon DEF FlagsOK, Next, PrintText, Store, Advance, NextChar, Work, Collect, Transmit, ErrorPrinted, Configure,
     Disconnect, HostReads, vars
<1> QED
  BY <1>1, <1>2 DEF FlagsOK

LEMMA InitType == Init => FlagsOK /\ DataOK /\ PrintInv
<1> SUFFICES ASSUME Init PROVE FlagsOK /\ DataOK /\ PrintInv
  OBVIOUS
<1>1. FlagsOK
  BY Zenon DEF Init, FlagsOK
<1>2. todo \in Seq(Chars) /\ todo # << >>
  BY TextsAssumption DEF Init
<1>3. Head(todo) \in Chars
  BY <1>2
<1>4. outputbuf \in [Slots -> Values]
  BY <1>3, SessionsAssumption DEF Init, Said, Values
<1>5. DataOK
  <2>1. << >> \in Seq(Values) /\ Len(<< >>) = 0
    BY EmptySeq
  <2>2. /\ outputhead = 0 /\ outputtail = 0 /\ newpos = 0 /\ session = 0
        /\ whattosend = << >> /\ received = << >>
    BY Zenon DEF Init
  <2>3. 0 \in Slots
    BY SizeAssumption DEF Slots
  <2>4. session \in 0 .. MaxSessions
    BY <2>2, SessionsAssumption
  <2>5. Len(whattosend) < CDC_TXRX_EPSIZE
    BY <2>1, <2>2, PacketAssumption
  <2> QED
    BY <1>2, <1>4, <2>1, <2>2, <2>3, <2>4, <2>5, Zenon DEF DataOK
<1>6. PrintInv
  BY <1>2 DEF Init, PrintInv, Printing
<1> QED
  BY <1>1, <1>5, <1>6

LEMMA SaidType == ASSUME DataOK, NEW c \in Chars PROVE Said(c) \in Values
BY DEF DataOK, Said, Values

LEMMA TypeStep == IrqInv /\ DataOK /\ PrintInv /\ [Next]_vars => DataOK' /\ PrintInv'
<1> SUFFICES ASSUME IrqInv, DataOK, PrintInv, [Next]_vars
             PROVE  DataOK' /\ PrintInv'
  OBVIOUS
<1> USE DEF DataOK, PrintInv, Printing
<1>1. CASE UNCHANGED vars
  BY <1>1 DEF vars, ring, usb
<1>2. ASSUME NEW t \in Texts, PrintText(t) PROVE DataOK' /\ PrintInv'
  BY <1>2, TextsAssumption DEF PrintText, ring, usb
<1>3. CASE Store
  <2>1. Said(Head(todo)) \in Values /\ Succ(outputtail) \in Slots
    BY <1>3, SaidType, SuccType DEF Store
  <2>2. CASE Succ(outputtail) # outputhead
    <3>1. /\ outputbuf' = [outputbuf EXCEPT ![outputtail] = Said(Head(todo))]
          /\ pc' = "advance" /\ newpos' = Succ(outputtail)
          /\ UNCHANGED <<outputhead, outputtail, todo, whattosend, session, received>>
      BY <1>3, <2>2, Zenon DEF Store
    <3> QED
      BY <1>3, <2>1, <2>2, <3>1 DEF Store
  <2>3. CASE Succ(outputtail) = outputhead
    <3>1. /\ NextChar /\ newpos' = Succ(outputtail)
          /\ UNCHANGED <<outputbuf, outputhead, outputtail, whattosend, session, received>>
      BY <1>3, <2>3, Zenon DEF Store
    <3>2. todo # << >>
      BY <1>3 DEF Store
    <3>3. todo' = Tail(todo) /\ ((pc' = "store" /\ Len(todo) > 1) \/ pc' = "idle")
      BY <3>1 DEF NextChar
    <3>4. todo' \in Seq(Chars) /\ (Len(todo) > 1 => todo' # << >>)
      BY <3>2, <3>3
    <3>5. UNCHANGED <<outputbuf, outputhead, outputtail, whattosend, session, received>> /\ newpos' = Succ(outputtail)
      BY <3>1
    <3> QED
      BY <2>1, <3>3, <3>4, <3>5
  <2> QED
    BY <2>2, <2>3
<1>4. CASE Advance
  <2>1. outputtail' \in Slots /\ todo # << >>
    BY <1>4 DEF Advance
  <2>2. todo' = Tail(todo) /\ ((pc' = "store" /\ Len(todo) > 1) \/ pc' = "idle")
    BY <1>4 DEF Advance, NextChar
  <2> QED
    BY <1>4, <2>1, <2>2 DEF Advance, usb
<1>5. CASE Work
  BY <1>5, PacketAssumption DEF Work, ring, usb
<1>6. CASE Collect
  <2>1. outputbuf[outputhead] \in Values /\ Succ(outputhead) \in Slots
    BY SuccType
  <2>2. Len(whattosend) < CDC_TXRX_EPSIZE - 1
    BY <1>6, PacketAssumption DEF Collect, PacketFull
  <2> QED
    BY <1>6, <2>1, <2>2, PacketAssumption DEF Collect, usb
<1>7. CASE Transmit
  BY <1>7, PacketAssumption DEF Transmit, ring
<1>8. ASSUME NEW e \in Errors, ErrorPrinted(e) PROVE DataOK' /\ PrintInv'
  <2>1. e \in Chars
    BY DEF Chars
  <2>2. Said(e) \in Values /\ Succ(outputtail) \in Slots
    BY <2>1, SaidType, SuccType
  <2>3. pc = "idle"
    BY <1>8, Zenon DEF ErrorPrinted, IrqInv
  <2> QED
    BY <1>8, <2>2, <2>3 DEF ErrorPrinted, usb
<1>9. CASE Configure
  BY <1>9 DEF Configure, ring
<1>10. CASE Disconnect
  <2>1. pc = "idle"
    BY <1>10, Zenon DEF Disconnect, IrqInv
  <2> QED
    BY <1>10, <2>1, SizeAssumption, SessionsAssumption DEF Disconnect, Slots
<1>11. CASE HostReads
  BY <1>11 DEF HostReads, ring
<1> QED
  BY <1>1, <1>2, <1>3, <1>4, <1>5, <1>6, <1>7, <1>8, <1>9, <1>10, <1>11 DEF Next

LEMMA IrqInit == Init => IrqInv
BY Zenon DEF Init, IrqInv

\* The character at the tail is the one that is being printed.
SaidInv == pc = "advance" => outputbuf[outputtail] = Said(Head(todo))

LEMMA SaidStep == DataOK /\ IrqInv /\ SaidInv /\ [Next]_vars => SaidInv'
<1> SUFFICES ASSUME DataOK, IrqInv, SaidInv, [Next]_vars, pc' = "advance"
             PROVE  outputbuf'[outputtail'] = Said(Head(todo))'
  BY DEF SaidInv
<1>1. CASE Store
  <2>1. /\ Succ(outputtail) # outputhead
        /\ outputbuf' = [outputbuf EXCEPT ![outputtail] = Said(Head(todo))]
        /\ UNCHANGED <<outputtail, todo, session>>
    BY <1>1 DEF Store, NextChar
  <2> QED
    BY <2>1 DEF Said, DataOK
<1>2. CASE HostReads \/ UNCHANGED vars
  <2>1. UNCHANGED <<outputbuf, outputtail, pc, todo, session>>
    BY <1>2 DEF HostReads, vars, ring
  <2> QED
    BY <2>1 DEF SaidInv, Said
<1>3. CASE (\E t \in Texts : PrintText(t)) \/ Advance \/ Work \/ Collect \/ Transmit
  BY <1>3 DEF PrintText, Advance, NextChar, Work, Collect, Transmit
<1>4. CASE (\E e \in Errors : ErrorPrinted(e)) \/ Configure \/ Disconnect
  <2>1. pc = "idle" /\ pc' = pc
    BY <1>4, Zenon DEF ErrorPrinted, Configure, Disconnect, IrqInv
  <2> QED
    BY <2>1
<1> QED
  BY <1>1, <1>2, <1>3, <1>4, Zenon DEF Next

StateInv == FlagsOK /\ DataOK /\ IrqInv /\ PrintInv /\ SaidInv

LEMMA StateCorrect == Spec => []StateInv
<1>1. Init => StateInv
  <2>1. Init => SaidInv
    BY DEF Init, SaidInv
  <2> QED
    BY <2>1, InitType, IrqInit DEF StateInv
<1>2. StateInv /\ [Next]_vars => StateInv'
  BY FlagsStep, TypeStep, IrqStep, SaidStep DEF StateInv
<1> QED
  BY <1>1, <1>2, PTL DEF Spec

\* Whatever is printed, sent and thrown away, the indices stay inside the ring
\* and a packet stays shorter than its endpoint.
THEOREM TypeCorrect == Spec => []TypeOK
<1>1. StateInv => TypeOK
  BY TypeSplit DEF StateInv
<1> QED
  BY <1>1, StateCorrect, PTL

-----------------------------------------------------------------------------
(* What each step does to the contents of the ring. *)

LEMMA BufferedType ==
  ASSUME StateInv
  PROVE  /\ Buffered \in Seq(Values) /\ Len(Buffered) = Waiting
         /\ Waiting \in 0 .. OUTPUTBUFSIZE - 1
BY BufferedIsContent, ContentType, DistType DEF StateInv, DataOK

LEMMA AdvanceEffect ==
  ASSUME StateInv, Advance
  PROVE  /\ Buffered' = Append(Buffered, Said(Head(todo)))
         /\ Waiting < OUTPUTBUFSIZE - 1
         /\ Said(Head(todo)) \in Values
<1>1. /\ pc = "advance" /\ outputtail' = Succ(outputtail) /\ Succ(outputtail) # outputhead
      /\ UNCHANGED <<outputbuf, outputhead>>
  BY DEF Advance, StateInv, PrintInv
<1>2. outputbuf[outputtail] = Said(Head(todo))
  BY <1>1 DEF StateInv, SaidInv
<1>3. outputbuf \in [Slots -> Values] /\ outputhead \in Slots /\ outputtail \in Slots
  BY DEF StateInv, DataOK
<1>4. Content(outputbuf, outputhead, Succ(outputtail)) = Append(Buffered, Said(Head(todo)))
  BY <1>1, <1>2, <1>3, ContentAppend, BufferedIsContent
<1>5. Dist(outputhead, outputtail) < OUTPUTBUFSIZE - 1
  BY <1>1, <1>3, DistStore
<1> QED
  BY <1>1, <1>2, <1>3, <1>4, <1>5, BufferedIsContent, BufferedIsContentNext

LEMMA ErrorEffect ==
  ASSUME StateInv, NEW e \in Errors, ErrorPrinted(e), Succ(outputtail) # outputhead
  PROVE  /\ Buffered' = Append(Buffered, Said(e))
         /\ Waiting < OUTPUTBUFSIZE - 1
         /\ Said(e) \in Values
         /\ lost' = lost
<1>1. /\ outputbuf' = [outputbuf EXCEPT ![outputtail] = Said(e)]
      /\ outputtail' = Succ(outputtail) /\ outputhead' = outputhead /\ lost' = lost
  BY Zenon DEF ErrorPrinted
<1>2. outputbuf \in [Slots -> Values] /\ outputhead \in Slots /\ outputtail \in Slots
  BY DEF StateInv, DataOK
<1>3. Said(e) \in Values
  <2>1. e \in Chars
    BY DEF Chars
  <2> QED
    BY <2>1, SaidType DEF StateInv
<1>4. outputbuf' \in [Slots -> Values] /\ outputbuf'[outputtail] = Said(e)
  BY <1>1, <1>2, <1>3
<1>5. Content(outputbuf', outputhead, outputtail) = Buffered
  BY <1>1, <1>2, ContentStore, BufferedIsContent
<1>6. Content(outputbuf', outputhead, Succ(outputtail)) = Append(Buffered, Said(e))
  BY <1>2, <1>4, <1>5, ContentAppend
<1>7. Dist(outputhead, outputtail) < OUTPUTBUFSIZE - 1
  BY <1>2, DistStore
<1> QED
  BY <1>1, <1>3, <1>6, <1>7, BufferedIsContent, BufferedIsContentNext

\* No room: the character is dropped.
LEMMA FullEffect ==
  ASSUME StateInv, Store \/ (\E e \in Errors : ErrorPrinted(e)), Succ(outputtail) = outputhead
  PROVE  /\ Buffered' = Buffered
         /\ Waiting = OUTPUTBUFSIZE - 1
         /\ lost' = TRUE
<1>1. UNCHANGED ring /\ lost' = TRUE
  BY Zenon DEF Store, ErrorPrinted, ring
<1>2. UNCHANGED <<outputbuf, outputhead, outputtail>>
  BY <1>1 DEF ring
<1>3. outputhead \in Slots /\ outputtail \in Slots
  BY DEF StateInv, DataOK
<1>4. Dist(outputhead, outputtail) = OUTPUTBUFSIZE - 1
  BY <1>3, DistStore
<1> QED
  BY <1>1, <1>2, <1>4, BufferedIsContent, BufferedIsContentNext

LEMMA StoreEffect ==
  ASSUME StateInv, Store, Succ(outputtail) # outputhead
  PROVE  Buffered' = Buffered /\ lost' = lost
<1>1. /\ outputbuf' = [outputbuf EXCEPT ![outputtail] = Said(Head(todo))]
      /\ outputtail' = outputtail /\ outputhead' = outputhead /\ lost' = lost
  BY Zenon DEF Store
<1>2. outputbuf \in [Slots -> Values] /\ outputhead \in Slots /\ outputtail \in Slots
  BY DEF StateInv, DataOK
<1> QED
  BY <1>1, <1>2, ContentStore, BufferedIsContent, BufferedIsContentNext

LEMMA CollectEffect ==
  ASSUME StateInv, Collect
  PROVE  /\ Buffered # << >> /\ Buffered' = Tail(Buffered)
         /\ Buffered[1] = outputbuf[outputhead]
         /\ whattosend' = Append(whattosend, Buffered[1])
<1>1. /\ outputhead # outputtail /\ outputhead' = Succ(outputhead)
      /\ UNCHANGED <<outputbuf, outputtail>>
      /\ whattosend' = Append(whattosend, outputbuf[outputhead])
  BY DEF Collect
<1>2. outputbuf \in [Slots -> Values] /\ outputhead \in Slots /\ outputtail \in Slots
  BY DEF StateInv, DataOK
<1>3. /\ Buffered # << >> /\ Buffered[1] = outputbuf[outputhead]
      /\ Content(outputbuf, Succ(outputhead), outputtail) = Tail(Buffered)
  BY <1>1, <1>2, ContentTake, BufferedIsContent
<1> QED
  BY <1>1, <1>3, BufferedIsContentNext

LEMMA DisconnectEffect ==
  ASSUME Disconnect
  PROVE  Buffered' = << >> /\ Waiting' = 0 /\ lost' = FALSE
<1>1. outputhead' = 0 /\ outputtail' = 0 /\ lost' = FALSE
  BY Zenon DEF Disconnect
<1>2. Dist(0, 0) = 0
  BY DEF Dist
<1>3. Waiting' = 0
  BY <1>1, <1>2, BufferedIsContentNext
<1>4. Content(outputbuf', 0, 0) = << >>
  BY <1>2 DEF Content
<1> QED
  BY <1>1, <1>3, <1>4, BufferedIsContentNext

\* The steps that leave the ring alone.
Quiet ==
  \/ \E t \in Texts : PrintText(t)
  \/ Work
  \/ Transmit
  \/ Configure
  \/ HostReads
  \/ UNCHANGED vars

LEMMA QuietEffect ==
  ASSUME Quiet
  PROVE  Buffered' = Buffered /\ Waiting' = Waiting /\ lost' = lost /\ session' = session
<1>1. UNCHANGED <<outputbuf, outputhead, outputtail>> /\ lost' = lost /\ session' = session
  BY Zenon DEF Quiet, PrintText, Work, Transmit, Configure, HostReads, vars, ring
<1> QED
  BY <1>1, BufferedIsContent, BufferedIsContentNext

LEMMA NextCases ==
  ASSUME [Next]_vars
  PROVE  \/ Quiet
         \/ Store /\ Succ(outputtail) # outputhead
         \/ (Store \/ \E e \in Errors : ErrorPrinted(e)) /\ Succ(outputtail) = outputhead
         \/ Advance
         \/ Collect
         \/ \E e \in Errors : ErrorPrinted(e) /\ Succ(outputtail) # outputhead
         \/ Disconnect
BY Zenon DEF Next, Quiet

-----------------------------------------------------------------------------
\* The ring, with appendchar() interrupted by nothing and CDC_Task() in
\* between, is a lossy FIFO: characters leave in the order printed, once each,
\* and one is refused only when the ring is full (console.c:56).
THEOREM FifoCorrect == Spec => ImplementsFifo
<1>1. Init => Fifo!FifoInit
  <2> SUFFICES ASSUME Init PROVE Buffered = << >> /\ lost = FALSE
    BY DEF Fifo!FifoInit
  <2>1. lost = FALSE /\ outputhead = 0 /\ outputtail = 0
    BY Zenon DEF Init
  <2>2. Waiting = 0
    BY <2>1 DEF Waiting
  <2>3. Buffered = << >>
    BY <2>2 DEF Buffered
  <2> QED
    BY <2>1, <2>3
<1>2. StateInv /\ [Next]_vars => [Fifo!FifoNext]_<<Buffered, lost>>
  <2> SUFFICES ASSUME StateInv, [Next]_vars
               PROVE  Fifo!FifoNext \/ UNCHANGED <<Buffered, lost>>
    OBVIOUS
  <2>1. CASE Quiet
    BY <2>1, QuietEffect
  <2>2. CASE Store /\ Succ(outputtail) # outputhead
    BY <2>2, StoreEffect
  <2>3. CASE (Store \/ \E e \in Errors : ErrorPrinted(e)) /\ Succ(outputtail) = outputhead
    <3>1. Buffered' = Buffered /\ lost' = TRUE /\ Len(Buffered) = OUTPUTBUFSIZE - 1
      BY <2>3, FullEffect, BufferedType
    <3>2. Len(Buffered) >= OUTPUTBUFSIZE - 1
      BY <3>1, SizeAssumption
    <3> QED
      BY <3>1, <3>2, Zenon DEF Fifo!FifoNext, Fifo!Refuse
  <2>4. CASE Advance
    <3>1. lost' = lost
      BY <2>4, Zenon DEF Advance
    <3>2. /\ Len(Buffered) < OUTPUTBUFSIZE - 1 /\ Said(Head(todo)) \in Values
          /\ Buffered' = Append(Buffered, Said(Head(todo)))
      BY <2>4, AdvanceEffect, BufferedType
    <3> QED
      BY <3>1, <3>2, Zenon DEF Fifo!FifoNext, Fifo!Put
  <2>5. CASE Collect
    <3>1. lost' = lost
      BY <2>5, Zenon DEF Collect
    <3>2. Buffered # << >> /\ Buffered' = Tail(Buffered)
      BY <2>5, CollectEffect
    <3> QED
      BY <3>1, <3>2, Zenon DEF Fifo!FifoNext, Fifo!Get
  <2>6. ASSUME NEW e \in Errors, ErrorPrinted(e), Succ(outputtail) # outputhead
        PROVE  Fifo!FifoNext
    <3>1. /\ Len(Buffered) < OUTPUTBUFSIZE - 1 /\ Said(e) \in Values
          /\ Buffered' = Append(Buffered, Said(e)) /\ lost' = lost
      BY <2>6, ErrorEffect, BufferedType
    <3> QED
      BY <3>1, Zenon DEF Fifo!FifoNext, Fifo!Put
  <2>7. CASE Disconnect
    <3>1. Buffered' = << >> /\ lost' = FALSE
      BY <2>7, DisconnectEffect
    <3> QED
      BY <3>1, Zenon DEF Fifo!FifoNext, Fifo!Clear
  <2> QED
    BY <2>1, <2>2, <2>3, <2>4, <2>5, <2>6, <2>7, NextCases, Zenon
<1> QED
  BY <1>1, <1>2, StateCorrect, PTL DEF Spec, ImplementsFifo, Fifo!FifoSpec, Fifo!fifoVars

-----------------------------------------------------------------------------
(* Sessions *)

\* What waits in the ring, and what CDC_Task() has collected, was printed in
\* this session.
FreshInv ==
  /\ \A i \in 1 .. Len(Buffered) : Buffered[i].in = session
  /\ pc = "collect" => \A i \in 1 .. Len(whattosend) : whattosend[i].in = session

LEMMA AppendEach ==
  ASSUME NEW s \in Seq(Values), NEW v \in Values, NEW n,
         \A i \in 1 .. Len(s) : s[i].in = n, v.in = n
  PROVE  \A i \in 1 .. Len(Append(s, v)) : Append(s, v)[i].in = n
<1> TAKE i \in 1 .. Len(Append(s, v))
<1>1. Len(Append(s, v)) = Len(s) + 1 /\ Append(s, v)[Len(s) + 1] = v
  BY AppendProperties
<1>2. CASE i = Len(s) + 1
  BY <1>1, <1>2
<1>3. CASE i # Len(s) + 1
  <2>1. i \in 1 .. Len(s)
    BY <1>1, <1>3, LenProperties
  <2>2. Append(s, v)[i] = s[i]
    BY <2>1, AppendProperties
  <2> QED
    BY <2>1, <2>2
<1> QED
  BY <1>2, <1>3

LEMMA TailEach ==
  ASSUME NEW s \in Seq(Values), s # << >>, NEW n, \A i \in 1 .. Len(s) : s[i].in = n
  PROVE  /\ \A i \in 1 .. Len(Tail(s)) : Tail(s)[i].in = n
         /\ s[1].in = n /\ s[1] \in Values
OBVIOUS

LEMMA SaidNow == ASSUME NEW c PROVE Said(c).in = session /\ Said(c).char = c
BY DEF Said

LEMMA FreshStep == StateInv /\ FreshInv /\ [Next]_vars => FreshInv'
<1> SUFFICES ASSUME StateInv, FreshInv, [Next]_vars PROVE FreshInv'
  OBVIOUS
<1>1. CASE Quiet
  <2>1. Buffered' = Buffered /\ session' = session
    BY <1>1, QuietEffect
  <2>2. ASSUME pc' = "collect" PROVE whattosend' = << >> \/ (pc = "collect" /\ whattosend' = whattosend)
    BY <1>1, <2>2 DEF Quiet, PrintText, Work, Transmit, Configure, HostReads, vars
  <2> QED
    BY <2>1, <2>2 DEF FreshInv
<1>2. CASE (Store /\ Succ(outputtail) # outputhead) \/ ((Store \/ \E e \in Errors : ErrorPrinted(e)) /\ Succ(outputtail) = outputhead)
  <2>1. Buffered' = Buffered
    BY <1>2, StoreEffect, FullEffect
  <2>2. session' = session /\ pc' # "collect"
    <3>1. CASE Store
      BY <3>1 DEF Store, NextChar
    <3>2. CASE \E e \in Errors : ErrorPrinted(e)
      <4>1. pc = "idle"
        BY <3>2, Zenon DEF ErrorPrinted, StateInv, IrqInv
      <4> QED
        BY <3>2, <4>1 DEF ErrorPrinted
    <3> QED
      BY <1>2, <3>1, <3>2
  <2> QED
    BY <2>1, <2>2 DEF FreshInv
<1>3. CASE Advance
  <2>1. session' = session /\ pc' # "collect"
    BY <1>3 DEF Advance, NextChar
  <2>2. Buffered' = Append(Buffered, Said(Head(todo))) /\ Said(Head(todo)) \in Values
    BY <1>3, AdvanceEffect
  <2>3. Said(Head(todo)).in = session
    BY SaidNow
  <2>4. \A i \in 1 .. Len(Buffered') : Buffered'[i].in = session
    BY <2>2, <2>3, BufferedType, AppendEach DEF FreshInv
  <2> QED
    BY <2>1, <2>4 DEF FreshInv
<1>4. CASE Collect
  <2>1. session' = session /\ pc = "collect"
    BY <1>4 DEF Collect
  <2>2. /\ Buffered # << >> /\ Buffered' = Tail(Buffered)
        /\ whattosend' = Append(whattosend, Buffered[1])
    BY <1>4, CollectEffect
  <2>3. /\ \A i \in 1 .. Len(Buffered') : Buffered'[i].in = session
        /\ Buffered[1].in = session /\ Buffered[1] \in Values
    BY <2>2, BufferedType, TailEach DEF FreshInv
  <2>4. whattosend \in Seq(Values)
    BY DEF StateInv, DataOK
  <2>5. \A i \in 1 .. Len(whattosend') : whattosend'[i].in = session
    BY <2>1, <2>2, <2>3, <2>4, AppendEach DEF FreshInv
  <2> QED
    BY <2>1, <2>3, <2>5 DEF FreshInv
<1>5. ASSUME NEW e \in Errors, ErrorPrinted(e), Succ(outputtail) # outputhead
      PROVE  FreshInv'
  <2>1. session' = session /\ pc' # "collect"
    <3>1. pc = "idle"
      BY <1>5, Zenon DEF ErrorPrinted, StateInv, IrqInv
    <3> QED
      BY <1>5, <3>1 DEF ErrorPrinted
  <2>2. Buffered' = Append(Buffered, Said(e)) /\ Said(e) \in Values
    BY <1>5, ErrorEffect
  <2>3. Said(e).in = session
    BY SaidNow
  <2>4. \A i \in 1 .. Len(Buffered') : Buffered'[i].in = session
    BY <2>2, <2>3, BufferedType, AppendEach DEF FreshInv
  <2> QED
    BY <2>1, <2>4 DEF FreshInv
<1>6. CASE Disconnect
  <2>1. pc' # "collect"
    <3>1. pc = "idle"
      BY <1>6, Zenon DEF Disconnect, StateInv, IrqInv
    <3> QED
      BY <1>6, <3>1 DEF Disconnect
  <2>2. Buffered' = << >>
    BY <1>6, DisconnectEffect
  <2> QED
    BY <2>1, <2>2 DEF FreshInv
<1> QED
  BY <1>1, <1>2, <1>3, <1>4, <1>5, <1>6, NextCases, Zenon

LEMMA FreshCorrect == Spec => []FreshInv
<1>1. Init => FreshInv
  <2> SUFFICES ASSUME Init PROVE FreshInv
    OBVIOUS
  <2>1. Waiting = 0
    BY DEF Init, Waiting
  <2>2. Buffered = << >>
    BY <2>1 DEF Buffered
  <2>3. pc # "collect"
    BY DEF Init
  <2> QED
    BY <2>2, <2>3 DEF FreshInv
<1>2. FreshInv /\ StateInv /\ [Next]_vars => FreshInv'
  BY FreshStep
<1> QED
  BY <1>1, <1>2, StateCorrect, PTL DEF Spec

\* A disconnect throws away everything: no packet carries a character of an
\* earlier session, for any number of sessions (console.c:105).
THEOREM FreshPacketsCorrect == Spec => FreshPackets
<1>1. FreshInv /\ [Next]_vars => [received' # received => \A i \in 1 .. Len(received') : received'[i].in = session]_vars
  <2> SUFFICES ASSUME FreshInv, Next, received' # received
               PROVE  \A i \in 1 .. Len(received') : received'[i].in = session
    OBVIOUS
  <2>1. CASE Transmit
    BY <2>1 DEF Transmit, FreshInv
  <2>2. CASE Configure
    BY <2>2 DEF Configure
  <2>3. CASE ~Transmit /\ ~Configure
    BY <2>3, Zenon DEF Next, PrintText, Store, Advance, Work, Collect, ErrorPrinted, Disconnect, HostReads
  <2> QED
    BY <2>1, <2>2, <2>3
<1> QED
  BY <1>1, FreshCorrect, PTL DEF Spec, FreshPackets

-----------------------------------------------------------------------------
(* Texts *)

\* A character tells which text it belongs to, and where.
DistinctTexts ==
  /\ \A t \in Texts, u \in Texts : \A i \in 1 .. Len(t), k \in 1 .. Len(u) : t[i] = u[k] => t = u /\ i = k
  /\ \A t \in Texts : \A i \in 1 .. Len(t) : t[i] \notin Errors

\* d may follow c: if c is in the middle of a text, d goes on with it.
Linked(c, d) == \A u \in Texts : \A k \in 1 .. Len(u) - 1 : c = u[k] => d = u[k + 1]

\* c is in the middle of no text.
Final(c) == \A u \in Texts : \A k \in 1 .. Len(u) - 1 : c # u[k]

\* The ring so far is linked, and what is left of the text goes on with it.
TextsInv ==
  /\ Printing => /\ \A j \in 1 .. Len(todo) - 1 : Linked(todo[j], todo[j + 1])
                 /\ Final(todo[Len(todo)])
  /\ ~lost =>
       /\ \A i \in 1 .. Len(Buffered) - 1 : Linked(Buffered[i].char, Buffered[i + 1].char)
       /\ Len(Buffered) > 0 => /\ Printing => Linked(Buffered[Len(Buffered)].char, todo[1])
                               /\ ~Printing => Final(Buffered[Len(Buffered)].char)

LEMMA TextLinked ==
  ASSUME DistinctTexts, NEW t \in Texts
  PROVE  /\ \A j \in 1 .. Len(t) - 1 : Linked(t[j], t[j + 1])
         /\ Final(t[Len(t)])
<1>1. Len(t) \in Nat \ {0}
  BY TextsAssumption, EmptySeq
<1>2. \A u \in Texts : Len(u) \in Nat
  BY TextsAssumption
<1>3. ASSUME NEW j \in 1 .. Len(t) - 1, NEW u \in Texts, NEW k \in 1 .. Len(u) - 1, t[j] = u[k]
      PROVE  t[j + 1] = u[k + 1]
  <2>1. j \in 1 .. Len(t) /\ k \in 1 .. Len(u)
    BY <1>1, <1>2
  <2> QED
    BY <1>3, <2>1 DEF DistinctTexts
<1>4. ASSUME NEW u \in Texts, NEW k \in 1 .. Len(u) - 1
      PROVE  t[Len(t)] # u[k]
  <2>1. Len(t) \in 1 .. Len(t) /\ k \in 1 .. Len(u) /\ k # Len(u)
    BY <1>1, <1>2
  <2> QED
    BY <2>1 DEF DistinctTexts
<1> QED
  BY <1>3, <1>4 DEF Linked, Final

LEMMA ErrorFinal == ASSUME DistinctTexts, NEW e \in Errors PROVE Final(e)
<1> SUFFICES ASSUME NEW u \in Texts, NEW k \in 1 .. Len(u) - 1 PROVE e # u[k]
  BY DEF Final
<1>1. k \in 1 .. Len(u)
  BY TextsAssumption
<1> QED
  BY <1>1 DEF DistinctTexts

LEMMA FinalLinked == ASSUME NEW c, Final(c), NEW d PROVE Linked(c, d)
BY DEF Final, Linked

\* A linked sequence stays linked with a character that may follow its last.
LEMMA AppendLinked ==
  ASSUME NEW s \in Seq(Values), NEW v \in Values,
         \A i \in 1 .. Len(s) - 1 : Linked(s[i].char, s[i + 1].char),
         Len(s) > 0 => Linked(s[Len(s)].char, v.char)
  PROVE  /\ \A i \in 1 .. Len(Append(s, v)) - 1 : Linked(Append(s, v)[i].char, Append(s, v)[i + 1].char)
         /\ Append(s, v)[Len(Append(s, v))] = v
<1>1. /\ Len(s) \in Nat /\ Len(Append(s, v)) = Len(s) + 1
      /\ Append(s, v)[Len(s) + 1] = v
      /\ \A i \in 1 .. Len(s) : Append(s, v)[i] = s[i]
  BY AppendProperties, LenProperties
<1>2. ASSUME NEW i \in 1 .. Len(Append(s, v)) - 1
      PROVE  Linked(Append(s, v)[i].char, Append(s, v)[i + 1].char)
  <2>1. i \in 1 .. Len(s)
    BY <1>1
  <2>2. CASE i = Len(s)
    BY <1>1, <2>1, <2>2
  <2>3. CASE i # Len(s)
    <3>1. i \in 1 .. Len(s) - 1 /\ i + 1 \in 1 .. Len(s)
      BY <1>1, <2>1, <2>3
    <3> QED
      BY <1>1, <2>1, <3>1
  <2> QED
    BY <2>2, <2>3
<1> QED
  BY <1>1, <1>2

LEMMA TailLinked ==
  ASSUME NEW s \in Seq(Values), s # << >>,
         \A i \in 1 .. Len(s) - 1 : Linked(s[i].char, s[i + 1].char)
  PROVE  /\ \A i \in 1 .. Len(Tail(s)) - 1 : Linked(Tail(s)[i].char, Tail(s)[i + 1].char)
         /\ Len(Tail(s)) > 0 => Tail(s)[Len(Tail(s))] = s[Len(s)] /\ Len(s) > 0
<1>1. /\ Len(s) \in Nat \ {0} /\ Len(Tail(s)) = Len(s) - 1
      /\ \A i \in 1 .. Len(s) - 1 : Tail(s)[i] = s[i + 1]
  BY HeadTailProperties, EmptySeq, LenProperties
<1>2. ASSUME NEW i \in 1 .. Len(Tail(s)) - 1
      PROVE  Linked(Tail(s)[i].char, Tail(s)[i + 1].char)
  <2>1. i \in 1 .. Len(s) - 1 /\ i + 1 \in 1 .. Len(s) - 1
    BY <1>1
  <2>2. Tail(s)[i] = s[i + 1] /\ Tail(s)[i + 1] = s[(i + 1) + 1]
    BY <1>1, <2>1
  <2> QED
    BY <2>1, <2>2
<1>3. ASSUME Len(Tail(s)) > 0 PROVE Tail(s)[Len(Tail(s))] = s[Len(s)]
  <2>1. Len(s) - 1 \in 1 .. Len(s) - 1 /\ (Len(s) - 1) + 1 = Len(s)
    BY <1>1, <1>3
  <2> QED
    BY <1>1, <2>1
<1> QED
  BY <1>1, <1>2, <1>3

\* When a character is done: the rest is still linked, and it was linked to
\* the next one, or it was the last.
LEMMA NextLinked ==
  ASSUME StateInv, TextsInv, Printing, NextChar
  PROVE  /\ Printing' => /\ \A j \in 1 .. Len(todo') - 1 : Linked(todo'[j], todo'[j + 1])
                         /\ Final(todo'[Len(todo')])
                         /\ Linked(Head(todo), todo'[1])
         /\ ~Printing' => Final(Head(todo))
<1>1. /\ todo \in Seq(Chars) /\ todo # << >> /\ todo' = Tail(todo)
      /\ Len(todo) \in Nat \ {0} /\ Head(todo) = todo[1]
  BY EmptySeq, LenProperties DEF StateInv, DataOK, PrintInv, NextChar
<1>2. /\ \A j \in 1 .. Len(todo) - 1 : Linked(todo[j], todo[j + 1])
      /\ Final(todo[Len(todo)])
  BY DEF TextsInv
<1>3. CASE Len(todo) > 1
  <2>1. Printing'
    BY <1>3 DEF NextChar, Printing
  <2>2. /\ Len(todo') = Len(todo) - 1
        /\ \A i \in 1 .. Len(todo) - 1 : todo'[i] = todo[i + 1]
    BY <1>1, HeadTailProperties
  <2>3. ASSUME NEW j \in 1 .. Len(todo') - 1 PROVE Linked(todo'[j], todo'[j + 1])
    <3>1. j \in 1 .. Len(todo) - 1 /\ j + 1 \in 1 .. Len(todo) - 1
      BY <1>1, <2>2
    <3>2. todo'[j] = todo[j + 1] /\ todo'[j + 1] = todo[(j + 1) + 1]
      BY <2>2, <3>1
    <3> QED
      BY <1>2, <3>1, <3>2
  <2>4. todo'[Len(todo')] = todo[Len(todo)] /\ todo'[1] = todo[2]
    <3>1. Len(todo) - 1 \in 1 .. Len(todo) - 1 /\ (Len(todo) - 1) + 1 = Len(todo) /\ 1 \in 1 .. Len(todo) - 1
      BY <1>1, <1>3
    <3> QED
      BY <2>2, <3>1
  <2>5. Linked(todo[1], todo[2])
    <3>1. 1 \in 1 .. Len(todo) - 1 /\ 1 + 1 = 2
      BY <1>1, <1>3
    <3> QED
      BY <1>2, <3>1
  <2> QED
    BY <1>1, <1>2, <2>1, <2>3, <2>4, <2>5
<1>4. CASE ~(Len(todo) > 1)
  <2>1. ~Printing'
    BY <1>4 DEF NextChar, Printing
  <2>2. Len(todo) = 1
    <3>1. \A n \in Nat \ {0} : ~(n > 1) => n = 1
      OBVIOUS
    <3> QED
      BY <1>1, <1>4, <3>1
  <2> QED
    BY <1>1, <1>2, <2>1, <2>2
<1> QED
  BY <1>3, <1>4

LEMMA TextsStep ==
  ASSUME DistinctTexts
  PROVE  StateInv /\ TextsInv /\ [Next]_vars => TextsInv'
<1> SUFFICES ASSUME StateInv, TextsInv, [Next]_vars PROVE TextsInv'
  OBVIOUS
<1>1. /\ Buffered \in Seq(Values) /\ Len(Buffered) \in Nat
      /\ todo \in Seq(Chars)
  BY BufferedType, LenProperties DEF StateInv, DataOK
<1>2. ASSUME NEW t \in Texts, PrintText(t) PROVE TextsInv'
  <2>1. Buffered' = Buffered /\ lost' = lost
    BY <1>2, QuietEffect DEF Quiet
  <2>2. ~Printing /\ Printing' /\ todo' = t
    BY <1>2 DEF PrintText, Printing
  <2>3. /\ \A j \in 1 .. Len(t) - 1 : Linked(t[j], t[j + 1])
        /\ Final(t[Len(t)])
    BY TextLinked
  <2>4. ~lost /\ Len(Buffered) > 0 => Linked(Buffered[Len(Buffered)].char, t[1])
    BY <2>2, FinalLinked DEF TextsInv
  <2> QED
    BY <2>1, <2>2, <2>3, <2>4 DEF TextsInv
<1>3. CASE Work \/ Transmit \/ Configure \/ HostReads \/ UNCHANGED vars
  <2>1. Buffered' = Buffered /\ lost' = lost
    BY <1>3, QuietEffect DEF Quiet
  <2>2. todo' = todo /\ (Printing' <=> Printing)
    BY <1>3 DEF Work, Transmit, Configure, HostReads, vars, Printing
  <2> QED
    BY <2>1, <2>2 DEF TextsInv
<1>4. CASE Store /\ Succ(outputtail) # outputhead
  <2>1. Buffered' = Buffered /\ lost' = lost
    BY <1>4, StoreEffect
  <2>2. todo' = todo /\ Printing /\ Printing'
    BY <1>4 DEF Store, Printing
  <2> QED
    BY <2>1, <2>2 DEF TextsInv
<1>5. CASE Store /\ Succ(outputtail) = outputhead
  <2>1. lost'
    BY <1>5, Zenon DEF Store
  <2>2. Printing /\ NextChar
    BY <1>5, Zenon DEF Store, Printing
  <2>3. Printing' => /\ \A j \in 1 .. Len(todo') - 1 : Linked(todo'[j], todo'[j + 1])
                     /\ Final(todo'[Len(todo')])
    BY <2>2, NextLinked
  <2> QED
    BY <2>1, <2>3, Zenon DEF TextsInv
<1>6. CASE Advance
  <2> DEFINE v == Said(Head(todo))
  <2>1. Buffered' = Append(Buffered, v) /\ v \in Values /\ v.char = Head(todo)
    BY <1>6, AdvanceEffect, SaidNow
  <2>2. Printing /\ NextChar /\ lost' = lost
    BY <1>6, Zenon DEF Advance, Printing
  <2>3. Head(todo) = todo[1]
    BY <1>1, <2>2 DEF StateInv, PrintInv
  <2>4. /\ Printing' => /\ \A j \in 1 .. Len(todo') - 1 : Linked(todo'[j], todo'[j + 1])
                        /\ Final(todo'[Len(todo')])
                        /\ Linked(Head(todo), todo'[1])
        /\ ~Printing' => Final(Head(todo))
    BY <2>2, NextLinked
  <2> HIDE DEF v
  <2>5. ASSUME ~lost
        PROVE  /\ \A i \in 1 .. Len(Buffered') - 1 : Linked(Buffered'[i].char, Buffered'[i + 1].char)
               /\ Buffered'[Len(Buffered')] = v
    BY <1>1, <2>1, <2>2, <2>3, <2>5, AppendLinked DEF TextsInv
  <2> QED
    BY <2>1, <2>2, <2>4, <2>5 DEF TextsInv
<1>7. CASE Collect
  <2>1. Buffered # << >> /\ Buffered' = Tail(Buffered)
    BY <1>7, CollectEffect
  <2>2. lost' = lost
    BY <1>7, Zenon DEF Collect
  <2>3. ~Printing /\ ~Printing'
    BY <1>7 DEF Collect, Printing
  <2>4. ASSUME ~lost
        PROVE  /\ \A i \in 1 .. Len(Buffered') - 1 : Linked(Buffered'[i].char, Buffered'[i + 1].char)
               /\ Len(Buffered') > 0 => Buffered'[Len(Buffered')] = Buffered[Len(Buffered)] /\ Len(Buffered) > 0
    BY <1>1, <2>1, <2>4, TailLinked DEF TextsInv
  <2> QED
    BY <2>2, <2>3, <2>4 DEF TextsInv
<1>8. ASSUME NEW e \in Errors, ErrorPrinted(e) PROVE TextsInv'
  <2>1. ~Printing /\ ~Printing'
    <3>1. pc = "idle"
      BY <1>8, Zenon DEF ErrorPrinted, StateInv, IrqInv
    <3> QED
      BY <1>8, <3>1 DEF ErrorPrinted, Printing
  <2>2. CASE Succ(outputtail) = outputhead
    <3>1. lost'
      BY <1>8, <2>2, Zenon DEF ErrorPrinted
    <3> QED
      BY <2>1, <3>1, Zenon DEF TextsInv
  <2>3. CASE Succ(outputtail) # outputhead
    <3> DEFINE v == Said(e)
    <3>1. Buffered' = Append(Buffered, v) /\ v \in Values /\ v.char = e /\ lost' = lost
      BY <1>8, <2>3, ErrorEffect, SaidNow
    <3> HIDE DEF v
    <3>2. ASSUME ~lost
          PROVE  /\ \A i \in 1 .. Len(Buffered') - 1 : Linked(Buffered'[i].char, Buffered'[i + 1].char)
                 /\ Buffered'[Len(Buffered')] = v
      <4>1. Len(Buffered) > 0 => Linked(Buffered[Len(Buffered)].char, v.char)
        BY <2>1, <3>2, FinalLinked DEF TextsInv
      <4> QED
        BY <1>1, <3>1, <3>2, <4>1, AppendLinked DEF TextsInv
    <3>3. Final(e)
      BY ErrorFinal
    <3> QED
      BY <2>1, <3>1, <3>2, <3>3 DEF TextsInv
  <2> QED
    BY <2>2, <2>3
<1>9. CASE Disconnect
  <2>1. ~Printing'
    <3>1. pc = "idle"
      BY <1>9, Zenon DEF Disconnect, StateInv, IrqInv
    <3> QED
      BY <1>9, <3>1 DEF Disconnect, Printing
  <2>2. Buffered' = << >> /\ Len(Buffered') = 0
    BY <1>9, DisconnectEffect, EmptySeq
  <2> QED
    BY <2>1, <2>2 DEF TextsInv
<1> QED
  BY <1>2, <1>3, <1>4, <1>5, <1>6, <1>7, <1>8, <1>9, Zenon DEF Next

\* The texts of the main program reach the ring in one piece, whatever the
\* interrupt handlers print and however the ring is emptied, if their
\* characters tell them apart (console.c:71).
THEOREM TextsWholeCorrect == ASSUME DistinctTexts PROVE Spec => []TextsWhole
<1>1. Init => TextsInv
  <2> SUFFICES ASSUME Init PROVE TextsInv
    OBVIOUS
  <2>1. Waiting = 0
    BY DEF Init, Waiting
  <2>2. Buffered = << >> /\ Len(Buffered) = 0
    <3>1. Buffered = << >>
      BY <2>1 DEF Buffered
    <3> QED
      BY <3>1, EmptySeq
  <2>3. todo \in Texts
    BY DEF Init
  <2>4. /\ \A j \in 1 .. Len(todo) - 1 : Linked(todo[j], todo[j + 1])
        /\ Final(todo[Len(todo)])
    BY <2>3, TextLinked
  <2> QED
    BY <2>2, <2>4 DEF TextsInv
<1>2. TextsInv /\ StateInv /\ [Next]_vars => TextsInv'
  BY TextsStep
<1>3. StateInv /\ TextsInv => TextsWhole
  <2> SUFFICES ASSUME StateInv, TextsInv, ~lost, NEW t \in Texts, NEW i \in 1 .. Waiting - 1, NEW k \in 1 .. Len(t) - 1,
                      Buffered[i].char = t[k]
               PROVE  Buffered[i + 1].char = t[k + 1]
    BY DEF TextsWhole
  <2>1. Linked(Buffered[i].char, Buffered[i + 1].char)
    BY BufferedType DEF TextsInv
  <2> QED
    BY <2>1 DEF Linked
<1> QED
  BY <1>1, <1>2, <1>3, StateCorrect, PTL DEF Spec
=============================================================================

----------------------------- MODULE ConsoleRing -----------------------------
(***************************************************************************)
(* The output half of lufa/console.c: whatever the firmware prints goes    *)
(* through appendchar() into a ring buffer, from which CDC_Task() sends    *)
(* packets to the USB host.  The main program prints with interrupts       *)
(* disabled; the interrupt handlers print too, and a USB disconnect throws *)
(* the buffers away.                                                       *)
(***************************************************************************)
EXTENDS Naturals, Sequences

CONSTANTS OUTPUTBUFSIZE,    \* slots of the ring; 800 in the code
          CDC_TXRX_EPSIZE,  \* 16
          Texts,            \* what the main program prints: sequences
          Errors,           \* characters the SDS011 handler prints
          MaxSessions       \* bound on USB sessions

ASSUME SizeAssumption == OUTPUTBUFSIZE \in Nat /\ OUTPUTBUFSIZE >= 2
ASSUME PacketAssumption == CDC_TXRX_EPSIZE \in Nat /\ CDC_TXRX_EPSIZE >= 2
ASSUME SessionsAssumption == MaxSessions \in Nat

VARIABLES
  outputbuf, outputhead, outputtail,  \* the statics of console.c
  configured,    \* USB_DeviceState = DEVICE_STATE_Configured
  inready,       \* may the firmware fill the IN endpoint?
  irq,           \* the global interrupt flag
  pc,            \* the main program: "idle", in appendchar() ("store",
                 \* "advance"), or in CDC_Task() ("collect")
  todo,          \* what is left of the text being printed
  newpos,        \* appendchar()'s next tail
  whattosend,    \* the packet CDC_Task() collects
  session,       \* history: USB disconnects so far
  lost,          \* history: has appendchar() dropped a character?
  received       \* history: the last packet the host got, or << >>

ring == <<outputbuf, outputhead, outputtail>>
usb == <<configured, inready>>
vars == <<ring, usb, irq, pc, todo, newpos, whattosend, session, lost, received>>

Chars == (UNION {{t[i] : i \in 1 .. Len(t)} : t \in Texts}) \cup Errors
ASSUME TextsAssumption == \A t \in Texts : t \in Seq(Chars) /\ t # << >>

\* A character as printed, with the session it was printed in.
Values == [char : Chars, in : 0 .. MaxSessions]
Said(c) == [char |-> c, in |-> session]

Slots == 0 .. OUTPUTBUFSIZE - 1
Bug_Succ(i) == IF i + 1 > OUTPUTBUFSIZE THEN 0 ELSE i + 1
Succ(i) == IF i + 1 >= OUTPUTBUFSIZE THEN 0 ELSE i + 1
Waiting == IF outputtail >= outputhead THEN outputtail - outputhead
           ELSE outputtail + OUTPUTBUFSIZE - outputhead
Slot(i) == IF i >= OUTPUTBUFSIZE THEN i - OUTPUTBUFSIZE ELSE i
Buffered == [i \in 1 .. Waiting |-> outputbuf[Slot(outputhead + i - 1)]]

\* console_init() is printing the welcome; interrupts come on afterwards.
Init == /\ session = 0
        /\ outputbuf = [i \in Slots |-> Said(CHOOSE c \in Chars : TRUE)]
        /\ outputhead = 0 /\ outputtail = 0
        /\ configured = FALSE /\ inready = TRUE
        /\ irq = FALSE /\ pc = "store"
        /\ todo \in Texts /\ newpos = 0 /\ whattosend = << >>
        /\ lost = FALSE /\ received = << >>

-----------------------------------------------------------------------------
(* The main program prints. *)

Bug_PrintTextNoCli(t) ==
  /\ pc = "idle"
  /\ pc' = "store" /\ todo' = t
  /\ UNCHANGED <<ring, usb, irq, newpos, whattosend, session, lost, received>>
\* console_printpgm_P() and the like: cli(), then every character.
PrintText(t) == /\ pc = "idle"
                /\ irq' = FALSE
                /\ pc' = "store" /\ todo' = t
                /\ UNCHANGED <<ring, usb, newpos, whattosend, session, lost,
                               received>>

\* The character is done; after the last one, sei().
NextChar == /\ todo' = Tail(todo)
            /\ IF Len(todo) > 1 THEN pc' = "store" /\ UNCHANGED irq
                                ELSE pc' = "idle" /\ irq' = TRUE

Bug_StoreOverwrites == /\ pc = "store"
                       /\ newpos' = Succ(outputtail)
                       /\ outputbuf' = [outputbuf EXCEPT ![outputtail] = Said(Head(todo))]
                       /\ pc' = "advance"
                       /\ UNCHANGED <<outputhead, outputtail, usb, irq, todo,
                                      whattosend, session, lost, received>>
\* appendchar(): no room, or store the character ...
Store == /\ pc = "store"
         /\ newpos' = Succ(outputtail)
         /\ \/ /\ Succ(outputtail) # outputhead
               /\ outputbuf' = [outputbuf EXCEPT ![outputtail] = Said(Head(todo))]
               /\ pc' = "advance"
               /\ UNCHANGED <<irq, todo, lost>>
            \/ /\ Succ(outputtail) = outputhead
               /\ lost' = TRUE
               /\ NextChar
               /\ UNCHANGED outputbuf
         /\ UNCHANGED <<outputhead, outputtail, usb, whattosend, session,
                        received>>

\* ... and move the tail past it.
Advance == /\ pc = "advance"
           /\ outputtail' = newpos
           /\ NextChar
           /\ UNCHANGED <<outputbuf, outputhead, usb, newpos, whattosend,
                          session, lost, received>>

-----------------------------------------------------------------------------
(* console_work(): cli(), CDC_Task(), sei() *)

Bug_WorkNoCli == /\ pc = "idle" /\ configured
                 /\ outputhead # outputtail /\ inready
                 /\ pc' = "collect" /\ whattosend' = << >>
                 /\ UNCHANGED <<ring, usb, irq, todo, newpos, session, lost,
                                received>>
Work == /\ pc = "idle" /\ configured
        /\ outputhead # outputtail /\ inready
        /\ irq' = FALSE
        /\ pc' = "collect" /\ whattosend' = << >>
        /\ UNCHANGED <<ring, usb, todo, newpos, session, lost, received>>

\* One byte less than the endpoint holds.
PacketFull == Len(whattosend) >= CDC_TXRX_EPSIZE - 1

Collect == /\ pc = "collect" /\ ~PacketFull /\ outputhead # outputtail
           /\ whattosend' = Append(whattosend, outputbuf[outputhead])
           /\ outputhead' = Succ(outputhead)
           /\ UNCHANGED <<outputbuf, outputtail, usb, irq, pc, todo, newpos,
                          session, lost, received>>

\* Endpoint_Write_Stream_LE(), Endpoint_ClearIN()
Transmit == /\ pc = "collect" /\ (PacketFull \/ outputhead = outputtail)
            /\ received' = whattosend
            /\ inready' = FALSE
            /\ pc' = "idle" /\ irq' = TRUE /\ whattosend' = << >>
            /\ UNCHANGED <<ring, configured, todo, newpos, session, lost>>

-----------------------------------------------------------------------------
(* Interrupts, and the USB host *)

\* ISR(USART1_RX_vect) complains about a bad packet.
ErrorPrinted(e) ==
  /\ irq
  /\ IF Succ(outputtail) # outputhead
       THEN /\ outputbuf' = [outputbuf EXCEPT ![outputtail] = Said(e)]
            /\ outputtail' = Succ(outputtail)
            /\ UNCHANGED lost
       ELSE lost' = TRUE /\ UNCHANGED <<outputbuf, outputtail>>
  /\ UNCHANGED <<outputhead, usb, irq, pc, todo, newpos, whattosend, session,
                 received>>

\* The host configures the device; its endpoints start empty.
Configure == /\ irq /\ ~configured
             /\ configured' = TRUE /\ inready' = TRUE
             /\ received' = << >>
             /\ UNCHANGED <<ring, irq, pc, todo, newpos, whattosend, session,
                            lost>>

\* EVENT_USB_Device_Disconnect()
Disconnect == /\ irq /\ session < MaxSessions
              /\ outputhead' = 0 /\ outputtail' = 0
              /\ configured' = FALSE
              /\ session' = session + 1 /\ lost' = FALSE
              /\ UNCHANGED <<outputbuf, inready, irq, pc, todo, newpos,
                             whattosend, received>>

\* The host fetches the packet.
HostReads == /\ configured /\ ~inready
             /\ inready' = TRUE
             /\ UNCHANGED <<ring, configured, irq, pc, todo, newpos, whattosend,
                            session, lost, received>>

Next == \/ \E t \in Texts : PrintText(t)
        \/ Store \/ Advance
        \/ Work \/ Collect \/ Transmit
        \/ \E e \in Errors : ErrorPrinted(e)
        \/ Configure \/ Disconnect \/ HostReads

Spec == Init /\ [][Next]_vars

-----------------------------------------------------------------------------
(* Properties *)

\* Types; appendchar() and CDC_Task() leave the indices inside the ring, and a
\* packet always stays shorter than its endpoint.
TypeOK == /\ outputbuf \in [Slots -> Values]
          /\ outputhead \in Slots /\ outputtail \in Slots /\ newpos \in Slots
          /\ configured \in BOOLEAN /\ inready \in BOOLEAN /\ irq \in BOOLEAN
          /\ pc \in {"idle", "store", "advance", "collect"}
          /\ todo \in Seq(Chars)
          /\ whattosend \in Seq(Values) /\ Len(whattosend) < CDC_TXRX_EPSIZE
          /\ session \in 0 .. MaxSessions /\ lost \in BOOLEAN
          /\ received \in Seq(Values)

\* A text of the main program reaches the ring in one piece: no character an
\* interrupt handler prints gets between two of its own (for texts that share
\* no character; a full ring may still cut one short).
TextsWhole ==
  pc \in {"idle", "collect"} /\ ~lost =>
    \A t \in Texts, i \in 1 .. Waiting - 1 : \A k \in 1 .. Len(t) - 1 :
      Buffered[i].char = t[k] => Buffered[i + 1].char = t[k + 1]

\* A disconnect throws "away all our buffers": a packet holds only characters
\* printed since the last one, even if the disconnect comes just when the
\* packet is about to be put together.
FreshPackets == [][received' # received =>
                     \A i \in 1 .. Len(received') : received'[i].in = session]_vars

\* The ring is a lossy FIFO of what was printed: refused only when it is
\* full, sent in order, each character once.
Fifo == INSTANCE LossyFifo
          WITH Values <- Values, Capacity <- OUTPUTBUFSIZE - 1,
               NoDropBelow <- OUTPUTBUFSIZE - 1,
               fifo <- Buffered, lost <- lost
ImplementsFifo == Fifo!FifoSpec
=============================================================================

--------------------------- MODULE UsbDeviceProofs ---------------------------
(* Proofs about UsbDevice, for every set of requests and any number of       *)
(* handlers nested in each other.                                            *)
EXTENDS UsbDevice, TLAPS

\* The handlers' steps are those of the requests.
HandlersOK ==
  /\ setup \in Requests \cup {None}
  /\ handlers \in Seq(Steps)

LEMMA GotoType ==
  ASSUME NEW h \in Seq(Steps), h # <<>>
  PROVE  /\ Tail(h) \in Seq(Steps)
         /\ \A pc \in Steps : <<pc>> \o Tail(h) \in Seq(Steps)
OBVIOUS

LEMMA FirstStepType == \A r \in Requests : FirstStep(r) \in Steps
BY Kinds DEF FirstStep, Steps

\* The handlers that are left alone by everything but UsbCom, Handle and
\* WatchdogReset.
LEMMA OthersKeep ==
  ASSUME [Next]_vars
  PROVE  handlers' = handlers \/ UsbCom \/ Handle \/ WatchdogReset
BY DEF Next, Cable, Plug, Unplug, Suspend, Resume, BusReset, Ask, Fetch, SendData, GiveUp, UsbGen, vars


LEMMA HandlersInit == Init => HandlersOK
BY DEF Init, Fresh, HandlersOK

LEMMA SetupStep == HandlersOK /\ [Next]_vars => (setup \in Requests \cup {None})'
<1> SUFFICES ASSUME HandlersOK, [Next]_vars
             PROVE  setup' \in Requests \cup {None}
  OBVIOUS
<1> USE DEF HandlersOK
<1>1. setup' \in {setup, None} \/ \E r \in Requests : setup' = r
  BY Zenon DEF Next, Cable, Plug, Unplug, Suspend, Resume, BusReset, Ask, Fetch, SendData, GiveUp, UsbGen, vars, device,
     endpoint, Acted, UsbCom, WatchdogReset, Handle, WriteStatus, AddressStatus, StatusStage, AddressWait, SetNumber,
     ConfigStatus, SetState, ConfigurationChanged, Send, Sent, Receive, Received, Reply, QueryStatus, Refuse
<1> QED
  BY <1>1

LEMMA HandlersStep == HandlersOK /\ [Next]_vars => (handlers \in Seq(Steps))'
<1> SUFFICES ASSUME HandlersOK, [Next]_vars
             PROVE  handlers' \in Seq(Steps)
  OBVIOUS
<1>1. CASE handlers' = handlers
  BY <1>1 DEF HandlersOK
<1>2. CASE UsbCom
  <2>1. FirstStep(setup) \in Steps
    BY <1>2, FirstStepType DEF UsbCom, HandlersOK
  <2> QED
    BY <1>2, <2>1 DEF UsbCom, HandlersOK
<1>3. CASE WatchdogReset
  BY <1>3 DEF WatchdogReset, HandlersOK
<1>4. CASE Handle
  <2>1. handlers # <<>>
    BY <1>4 DEF Handle, At, WriteStatus, AddressStatus, StatusStage, AddressWait, SetNumber, ConfigStatus, SetState,
       ConfigurationChanged, Send, Sent, Receive, Received, Reply, QueryStatus, Refuse
  <2>2. handlers' = Tail(handlers) \/ \E pc \in Steps : handlers' = <<pc>> \o Tail(handlers)
    BY <1>4, Zenon DEF Handle, Goto, WriteStatus, AddressStatus, StatusStage, AddressWait, SetNumber, ConfigStatus, SetState,
       ConfigurationChanged, Send, Sent, Receive, Received, Reply, QueryStatus, Refuse, Steps
  <2> QED
    BY <2>1, <2>2, GotoType DEF HandlersOK
<1> QED
  BY <1>1, <1>2, <1>3, <1>4, OthersKeep

LEMMA HandlersCorrect == Spec => []HandlersOK
<1>1. HandlersOK /\ [Next]_vars => HandlersOK'
  BY SetupStep, HandlersStep DEF HandlersOK
<1> QED
  BY HandlersInit, <1>1, PTL DEF Spec

-----------------------------------------------------------------------------
(* The general interrupt.                                                    *)

\* Those of the general interrupt's conditions that are never masked.
Unmasked == {"VBUSTI", "EORSTI"} \subseteq enabled

\* A wake-up or a suspend is about to be handled.
Stirring == {"WAKEUPI", "SUSPI"} \cap flags \cap enabled # {}

LEMMA UnmaskedInit == Init => Unmasked
BY DEF Init, Fresh, Unmasked

\* What the four branches do together.
LEMMA UsbGenEffect ==
  ASSUME UsbGen, Unmasked
  PROVE  /\ Unmasked'
         /\ "EORSTI" \notin flags' /\ "VBUSTI" \notin flags'
         /\ "EORSTI" \in flags => state' = "Default" /\ cfg' = 0
         /\ "EORSTI" \notin flags =>
              /\ cfg' = cfg
              /\ state' = "Configured" =>
                   \/ Stirring /\ cfg # 0
                   \/ "VBUSTI" \notin flags /\ state = "Configured"
         /\ "EORSTI" \notin flags /\ ~Stirring => enabled' = enabled /\ flags' \subseteq flags
<1> DEFINE b == [flags |-> flags, enabled |-> enabled, state |-> state, cfg |-> cfg]
           p == VbusBranch(b)
           s == SuspendBranch(p)
           w == WakeBranch(s)
           d == ResetBranch(w)
<1>1. flags' = d.flags /\ enabled' = d.enabled /\ state' = d.state /\ cfg' = d.cfg
  BY Zenon DEF UsbGen
<1>2. /\ DOMAIN p = {"flags", "enabled", "state", "cfg"}
      /\ p.flags = flags \ {"VBUSTI"}
      /\ p.enabled = enabled /\ p.cfg = cfg
      /\ p.state = "Configured" => "VBUSTI" \notin flags /\ state = "Configured"
  BY DEF VbusBranch, Fires, Unmasked
<1> HIDE DEF p
<1>3. /\ DOMAIN s = {"flags", "enabled", "state", "cfg"}
      /\ s.flags = p.flags /\ s.cfg = p.cfg
      /\ s.enabled = IF Fires(p, "SUSPI") THEN (p.enabled \ {"SUSPI"}) \cup {"WAKEUPI"} ELSE p.enabled
      /\ s.state = "Configured" => p.state = "Configured"
  BY <1>2 DEF SuspendBranch
<1> HIDE DEF s
<1>4. /\ DOMAIN w = {"flags", "enabled", "state", "cfg"}
      /\ w.flags = IF Fires(s, "WAKEUPI") THEN s.flags \ {"WAKEUPI"} ELSE s.flags
      /\ w.enabled = IF Fires(s, "WAKEUPI") THEN (s.enabled \ {"WAKEUPI"}) \cup {"SUSPI"} ELSE s.enabled
      /\ w.cfg = s.cfg
      /\ w.state = "Configured" => (Fires(s, "WAKEUPI") /\ s.cfg # 0) \/ s.state = "Configured"
  BY <1>3 DEF WakeBranch
<1> HIDE DEF w
<1>5. "EORSTI" \in w.enabled /\ "VBUSTI" \in w.enabled
  BY <1>2, <1>3, <1>4 DEF Unmasked
<1>6. "EORSTI" \in w.flags <=> "EORSTI" \in flags
  BY <1>2, <1>3, <1>4
<1>7. CASE "EORSTI" \in flags
  BY <1>1, <1>2, <1>3, <1>4, <1>5, <1>6, <1>7 DEF ResetBranch, Fires, Unmasked
<1>8. CASE "EORSTI" \notin flags
  <2>1. d = w
    BY <1>6, <1>8 DEF ResetBranch, Fires
  <2>2. Fires(s, "WAKEUPI") => Stirring
    BY <1>2, <1>3 DEF Fires, Stirring
  <2>3. ~Stirring => ~Fires(p, "SUSPI")
    BY <1>2 DEF Fires, Stirring
  <2>4. Unmasked' /\ "EORSTI" \notin flags' /\ "VBUSTI" \notin flags'
    BY <1>1, <1>2, <1>3, <1>4, <1>5, <1>6, <1>8, <2>1 DEF Unmasked
  <2>5. cfg' = cfg
    BY <1>1, <1>2, <1>3, <1>4, <2>1
  <2>6. state' = "Configured" => (Stirring /\ cfg # 0) \/ ("VBUSTI" \notin flags /\ state = "Configured")
    BY <1>1, <1>2, <1>3, <1>4, <2>1, <2>2
  <2>7. ~Stirring => enabled' = enabled /\ flags' \subseteq flags
    BY <1>1, <1>2, <1>3, <1>4, <2>1, <2>2, <2>3
  <2> QED
    BY <1>8, <2>4, <2>5, <2>6, <2>7
<1> QED
  BY <1>7, <1>8

LEMMA UnmaskedStep == Unmasked /\ [Next]_vars => Unmasked'
<1> SUFFICES ASSUME Unmasked, [Next]_vars
             PROVE  Unmasked'
  OBVIOUS
<1>1. CASE UsbGen
  BY <1>1, UsbGenEffect
<1>2. CASE WatchdogReset
  BY <1>2 DEF WatchdogReset, Unmasked
<1>3. CASE ~UsbGen /\ ~WatchdogReset
  <2>1. enabled' = enabled
    BY <1>3, Zenon DEF Next, Cable, Plug, Unplug, Suspend, Resume, BusReset, Ask, Fetch, SendData, GiveUp, vars, device,
       endpoint, cable, Acted, UsbCom, Handle, WriteStatus, AddressStatus, StatusStage, AddressWait, SetNumber,
       ConfigStatus, SetState, ConfigurationChanged, Send, Sent, Receive, Received, Reply, QueryStatus, Refuse
  <2> QED
    BY <2>1 DEF Unmasked
<1> QED
  BY <1>1, <1>2, <1>3

LEMMA UnmaskedCorrect == Spec => []Unmasked
BY UnmaskedInit, UnmaskedStep, PTL DEF Spec

-----------------------------------------------------------------------------
(* The data endpoints.                                                       *)

\* The steps of a handler that has yet to configure the data endpoints.
Configuring == {"configstatus", "setstate", "changed"}

Owed(h) == \E i \in 1 .. Len(h) : h[i] \in Configuring

\* A configuration that no bus reset is about to take away has its endpoints,
\* or a handler, perhaps an interrupted one, still sets them up.
EndpointsInv ==
  "EORSTI" \notin flags /\ (state = "Configured" \/ cfg # 0) /\ ~endpoints => Owed(handlers)

LEMMA OwedPush ==
  ASSUME NEW h \in Seq(Steps), NEW pc \in Steps, Owed(h)
  PROVE  Owed(<<pc>> \o h)
<1>1. PICK i \in 1 .. Len(h) : h[i] \in Configuring
  BY DEF Owed
<1>2. i + 1 \in 1 .. Len(<<pc>> \o h) /\ (<<pc>> \o h)[i + 1] = h[i]
  OBVIOUS
<1> QED
  BY <1>1, <1>2 DEF Owed

LEMMA OwedHead ==
  ASSUME NEW h \in Seq(Steps), NEW pc \in Configuring
  PROVE  Owed(<<pc>> \o h)
<1>1. 1 \in 1 .. Len(<<pc>> \o h) /\ (<<pc>> \o h)[1] = pc
  BY DEF Configuring, Steps
<1> QED
  BY <1>1 DEF Owed

LEMMA OwedTail ==
  ASSUME NEW h \in Seq(Steps), h # <<>>, Owed(h), Head(h) \notin Configuring
  PROVE  Owed(Tail(h))
<1>1. PICK i \in 1 .. Len(h) : h[i] \in Configuring
  BY DEF Owed
<1>2. i # 1
  BY <1>1
<1>3. i - 1 \in 1 .. Len(Tail(h)) /\ Tail(h)[i - 1] = h[i]
  BY <1>2
<1> QED
  BY <1>1, <1>3 DEF Owed

\* A handler that goes on leaves the debt of the others, and its own unless
\* it has configured the endpoints.
LEMMA OwedGoto ==
  ASSUME HandlersOK, handlers # <<>>, NEW pc \in Steps, Goto(pc), Owed(handlers),
         Head(handlers) \notin Configuring
  PROVE  Owed(handlers')
<1>1. Tail(handlers) \in Seq(Steps) /\ Owed(Tail(handlers))
  BY OwedTail DEF HandlersOK
<1> QED
  BY <1>1, OwedPush DEF Goto

LEMMA OwedStep ==
  ASSUME HandlersOK, handlers # <<>>, NEW pc \in Configuring, Goto(pc)
  PROVE  Owed(handlers')
<1>1. Tail(handlers) \in Seq(Steps)
  BY DEF HandlersOK
<1> QED
  BY <1>1, OwedHead DEF Goto

\* The steps of a handler, apart from those that configure.
Others ==
  \/ WriteStatus
  \/ AddressStatus
  \/ AddressWait
  \/ Send
  \/ Sent
  \/ Receive
  \/ Received
  \/ Reply
  \/ QueryStatus
  \/ Refuse

LEMMA OthersEffect ==
  ASSUME HandlersOK, Others
  PROVE  /\ handlers # <<>> /\ Head(handlers) \notin Configuring
         /\ cfg' = cfg /\ endpoints' = endpoints /\ flags' = flags /\ state' \in {state, "Addressed"}
         /\ handlers' = Tail(handlers) \/ \E pc \in Steps : Goto(pc)
<1>1. handlers # <<>> /\ Head(handlers) \notin Configuring
  BY DEF Others, At, StatusStage, WriteStatus, AddressStatus, AddressWait, Send, Sent, Receive, Received, Reply, QueryStatus,
     Refuse, Configuring
<1>2. cfg' = cfg /\ endpoints' = endpoints /\ flags' = flags
  BY Zenon DEF Others, At, StatusStage, WriteStatus, AddressStatus, AddressWait, Send, Sent, Receive, Received, Reply,
     QueryStatus, Refuse, Acted, device, cable
<1>3. state' \in {state, "Addressed"}
  BY Zenon DEF Others, At, StatusStage, WriteStatus, AddressStatus, AddressWait, Send, Sent, Receive, Received, Reply,
     QueryStatus, Refuse, Acted, device, cable
<1>4. handlers' = Tail(handlers) \/ \E pc \in Steps : Goto(pc)
  BY Zenon DEF Others, At, StatusStage, WriteStatus, AddressStatus, AddressWait, Send, Sent, Receive, Received, Reply,
     QueryStatus, Refuse, Steps
<1> QED
  BY <1>1, <1>2, <1>3, <1>4

LEMMA EndpointsInit == Init => EndpointsInv
BY DEF Init, Fresh, EndpointsInv

LEMMA EndpointsStep == HandlersOK /\ Unmasked /\ EndpointsInv /\ [Next]_vars => EndpointsInv'
<1> SUFFICES ASSUME HandlersOK, Unmasked, EndpointsInv, [Next]_vars,
                    "EORSTI" \notin flags', state' = "Configured" \/ cfg' # 0, ~endpoints'
             PROVE  Owed(handlers')
  BY DEF EndpointsInv, Owed
<1>1. CASE UNCHANGED vars
  <2>1. UNCHANGED <<flags, state, cfg, endpoints, handlers>>
    BY <1>1 DEF vars, device
  <2> QED
    BY <2>1 DEF EndpointsInv
<1>2. CASE Plug \/ Unplug \/ Suspend \/ Resume \/ GiveUp \/ Fetch \/ SendData \/ \E r \in Requests : Ask(r)
  <2>1. UNCHANGED <<state, cfg, endpoints, handlers>>
    BY <1>2, Zenon DEF Plug, Unplug, Suspend, Resume, GiveUp, Fetch, SendData, Ask, device
  <2>2. "EORSTI" \notin flags
    BY <1>2 DEF Plug, Unplug, Suspend, Resume, GiveUp, Fetch, SendData, Ask, cable
  <2> QED
    BY <2>1, <2>2 DEF EndpointsInv
<1>3. CASE BusReset
  BY <1>3 DEF BusReset
<1>4. CASE UsbGen
  <2>1. "EORSTI" \notin flags
    BY <1>4, UsbGenEffect
  <2>2. state = "Configured" \/ cfg # 0
    BY <1>4, <2>1, UsbGenEffect
  <2>3. endpoints' = endpoints /\ handlers' = handlers
    BY <1>4 DEF UsbGen
  <2> QED
    BY <2>1, <2>2, <2>3 DEF EndpointsInv
<1>5. CASE UsbCom
  <2>1. UNCHANGED <<flags, state, cfg, endpoints>>
    BY <1>5 DEF UsbCom, cable, device
  <2>2. Owed(handlers)
    BY <2>1 DEF EndpointsInv
  <2>3. FirstStep(setup) \in Steps
    BY <1>5, FirstStepType DEF UsbCom, HandlersOK
  <2>4. handlers' = <<FirstStep(setup)>> \o handlers
    BY <1>5 DEF UsbCom
  <2> QED
    BY <2>2, <2>3, <2>4, OwedPush DEF HandlersOK
<1>6. CASE SetNumber("setnumber1", 1) \/ SetNumber("setnumber0", 0)
  BY <1>6, OwedStep DEF SetNumber, At, Configuring
<1>7. CASE ConfigStatus
  BY <1>7, OwedStep DEF ConfigStatus, StatusStage, At, Configuring
<1>8. CASE SetState
  BY <1>8, OwedStep DEF SetState, At, Configuring
<1>9. CASE ConfigurationChanged
  BY <1>9 DEF ConfigurationChanged
<1>10. CASE Others
  <2>1. Owed(handlers)
    BY <1>10, OthersEffect DEF EndpointsInv
  <2>2. CASE handlers' = Tail(handlers)
    BY <1>10, <2>1, <2>2, OthersEffect, OwedTail DEF HandlersOK
  <2>3. CASE \E pc \in Steps : Goto(pc)
    BY <1>10, <2>1, <2>3, OthersEffect, OwedGoto
  <2> QED
    BY <1>10, <2>2, <2>3, OthersEffect
<1>11. CASE WatchdogReset
  BY <1>11 DEF WatchdogReset
<1> QED
  BY <1>1, <1>2, <1>3, <1>4, <1>5, <1>6, <1>7, <1>8, <1>9, <1>10, <1>11, Zenon DEF Next, Cable, Handle, Others

\* When the main program runs and the state is Configured, the data endpoints
\* are there: USB_Device_SetConfiguration() and bus resets in any order
\* (DeviceStandardReq.c:181, console.c:426).
THEOREM EndpointsReadyCorrect == Spec => []EndpointsReady
<1>1. EndpointsInv /\ HandlersOK /\ Unmasked /\ [Next]_vars => EndpointsInv'
  BY EndpointsStep
<1>2. EndpointsInv => EndpointsReady
  BY DEF EndpointsInv, EndpointsReady, Owed
<1> QED
  BY EndpointsInit, <1>1, <1>2, HandlersCorrect, UnmaskedCorrect, PTL DEF Spec

-----------------------------------------------------------------------------
(* The power.                                                                *)

\* Unplugged while nothing was under way, and the interrupt has seen it: the
\* state is not Configured, and nothing that could make it so is left.
PowerInv ==
  calm /\ ~vbus /\ "VBUSTI" \notin flags =>
    /\ ~Busy
    /\ state # "Configured"
    /\ "EORSTI" \notin flags
    /\ cfg = 0 \/ ~Stirring

LEMMA PowerInit == Init => PowerInv
BY DEF Init, Fresh, PowerInv, Busy

LEMMA PowerStep == Unmasked /\ PowerInv /\ [Next]_vars => PowerInv'
<1> SUFFICES ASSUME Unmasked, PowerInv, [Next]_vars, calm', ~vbus', "VBUSTI" \notin flags'
             PROVE  /\ ~Busy'
                    /\ state' # "Configured"
                    /\ "EORSTI" \notin flags'
                    /\ cfg' = 0 \/ ~Stirring'
  BY Zenon DEF PowerInv
<1>1. CASE UNCHANGED vars
  <2>1. UNCHANGED <<vbus, flags, enabled, state, cfg, handlers, setup, calm>>
    BY <1>1 DEF vars, device, endpoint
  <2> QED
    BY <2>1 DEF PowerInv, Busy, Stirring
<1>2. CASE Plug \/ Suspend \/ Resume \/ BusReset \/ Fetch \/ SendData \/ \E r \in Requests : Ask(r)
  <2>1. CASE Plug
    BY <2>1, Zenon DEF Plug
  <2>2. CASE Suspend \/ Resume \/ BusReset \/ Fetch \/ SendData \/ \E r \in Requests : Ask(r)
    <3>1. vbus /\ vbus' = vbus
      BY <2>2, Zenon DEF Suspend, Resume, BusReset, Fetch, SendData, Ask, cable
    <3> QED
      BY <3>1, Zenon
  <2> QED
    BY <1>2, <2>1, <2>2, Zenon
<1>3. CASE Unplug
  BY <1>3 DEF Unplug
<1>4. CASE GiveUp
  <2>1. UNCHANGED <<vbus, flags, enabled, state, cfg, handlers, setup, calm>>
    BY <1>4 DEF GiveUp, cable, device, endpoint
  <2> QED
    BY <2>1 DEF PowerInv, Busy, Stirring
<1>5. CASE UsbGen
  <2>1. vbus' = vbus /\ handlers' = handlers
    BY <1>5 DEF UsbGen
  <2>2. setup' = setup \/ setup' = None
    BY <1>5, Zenon DEF UsbGen, endpoint
  <2>3. ~Busy /\ (cfg = 0 \/ ~Stirring) /\ ("VBUSTI" \notin flags => state # "Configured")
    <3>1. CASE "VBUSTI" \in flags
      <4>1. calm' = (vbus \/ (~Busy /\ {"WAKEUPI", "SUSPI"} \cap flags \cap enabled = {}))
        BY <1>5, <3>1, Zenon DEF UsbGen
      <4> QED
        BY <2>1, <3>1, <4>1 DEF Stirring
    <3>2. CASE "VBUSTI" \notin flags
      <4>1. calm' = calm
        BY <1>5, <3>2, Zenon DEF UsbGen
      <4> QED
        BY <2>1, <3>2, <4>1 DEF PowerInv
    <3> QED
      BY <3>1, <3>2
  <2>4. ~Busy'
    BY <2>1, <2>2, <2>3 DEF Busy
  <2>5. state' # "Configured"
    BY <1>5, <2>3, UsbGenEffect
  <2>6. cfg' = 0 \/ ~Stirring'
    <3>1. CASE "EORSTI" \in flags
      BY <1>5, <3>1, UsbGenEffect
    <3>2. CASE "EORSTI" \notin flags /\ cfg = 0
      BY <1>5, <3>2, UsbGenEffect
    <3>3. CASE "EORSTI" \notin flags /\ ~Stirring
      <4>1. enabled' = enabled /\ flags' \subseteq flags
        BY <1>5, <3>3, UsbGenEffect
      <4> QED
        BY <3>3, <4>1 DEF Stirring
    <3> QED
      BY <2>3, <3>1, <3>2, <3>3
  <2> QED
    BY <1>5, <2>4, <2>5, <2>6, UsbGenEffect
<1>6. CASE UsbCom \/ Handle
  <2>1. Busy
    BY <1>6, Zenon DEF UsbCom, Busy, Handle, WriteStatus, AddressStatus, StatusStage, AddressWait, SetNumber, ConfigStatus,
       SetState, ConfigurationChanged, Send, Sent, Receive, Received, Reply, QueryStatus, Refuse, At
  <2>2. UNCHANGED <<vbus, flags, calm>>
    BY <1>6, Zenon DEF UsbCom, Handle, WriteStatus, AddressStatus, StatusStage, AddressWait, SetNumber, ConfigStatus,
       SetState, ConfigurationChanged, Send, Sent, Receive, Received, Reply, QueryStatus, Refuse, Acted, cable
  <2> QED
    BY <2>1, <2>2 DEF PowerInv
<1>7. CASE WatchdogReset
  BY <1>7 DEF WatchdogReset, Busy, Stirring
<1> QED
  BY <1>1, <1>2, <1>3, <1>4, <1>5, <1>6, <1>7, Zenon DEF Next, Cable

\* Pulling the plug while nothing is under way ends Configured, whatever has
\* been handled before (main.c:258, USBInterrupt_AVR8.c:60).
THEOREM ConfiguredHasPowerCorrect == Spec => []ConfiguredHasPower
<1>1. PowerInv /\ Unmasked /\ [Next]_vars => PowerInv'
  BY PowerStep
<1>2. PowerInv /\ Unmasked => ConfiguredHasPower
  BY DEF PowerInv, Unmasked, ConfiguredHasPower, Pending
<1> QED
  BY PowerInit, <1>1, <1>2, UnmaskedCorrect, PTL DEF Spec
=============================================================================

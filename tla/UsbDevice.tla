----------------------------- MODULE UsbDevice -----------------------------
(* The USB device stack (LUFA) as the station uses it: the general USB      *)
(* interrupt, which keeps USB_DeviceState, and the control endpoint's       *)
(* interrupt, which handles the host's requests with interrupts enabled, so *)
(* that both may interrupt it.  The main program runs only while no handler *)
(* does, and sleeps unless the state is Configured.                         *)
(*                                                                          *)
(* The host, the cable and the controller's flags are external.  The main   *)
(* program may hold interrupts back as long as it likes, so that several    *)
(* flags may be set when the general interrupt runs; a handler does not,    *)
(* and of two interrupts the general one comes first.                       *)
EXTENDS Naturals, Sequences

CONSTANTS Requests, \* what the host may ask: "address", "configure", "unconfigure",
                    \* "write" (no data), "store" (data to the device), "read" and "query"
                    \* (data to the host), "unknown"
          MAXNEST,  \* bound of the model: handlers nested in each other
          None

ASSUME Kinds == /\ Requests \subseteq {"address", "configure", "unconfigure", "write", "store", "read", "query", "unknown"}
                /\ None \notin Requests
                /\ MAXNEST \in Nat \ {0}

VARIABLES vbus,      \* whether the cable is plugged in
          bus,       \* "on", or "idle" for 3 ms and more
          flags,     \* interrupt flags of UDINT and USBINT
          enabled,   \* those that interrupt
          state,     \* USB_DeviceState
          cfg,       \* USB_Device_ConfigurationNumber
          addressed, \* ADDEN of UDADDR
          endpoints, \* whether the data endpoints are configured
          setup,     \* request in the control endpoint (RXSTPI), or None
          rxstpe,    \* RXSTPE: the control endpoint interrupts
          armed,     \* a packet for the host waits in the control endpoint (~TXINI)
          out,       \* a packet of the host waits in it (RXOUTI)
          handlers,  \* the running handlers' next steps, innermost first
          transfer,  \* host: what it is to do until a request's end: "in" (fetch data),
                     \* "data" (send data), "out" (fetch the empty packet), or None
          forsaken,  \* history: the host has left a request unfinished
          calm       \* history: nothing was under way when the last unplugging was handled

device   == <<state, cfg, addressed, endpoints>>
endpoint == <<setup, rxstpe, armed, out>>
cable    == <<vbus, bus, flags>>

vars == <<vbus, bus, flags, enabled, device, endpoint, handlers, transfer, forsaken, calm>>

States == {"Unattached", "Powered", "Default", "Addressed", "Configured", "Suspended"}

\* USB_Init() and console_init() with the cable in or out.
Fresh(plugged) ==
  /\ flags = IF plugged THEN {"VBUSTI"} ELSE {}
  /\ enabled = {"VBUSTI", "SUSPI", "EORSTI"}
  /\ state = "Unattached" /\ cfg = 0 /\ addressed = FALSE /\ endpoints = FALSE
  /\ setup = None /\ rxstpe = FALSE /\ armed = FALSE /\ out = FALSE
  /\ handlers = <<>>
  /\ forsaken = FALSE /\ calm = TRUE

Init ==
  /\ vbus \in BOOLEAN /\ bus = "idle"
  /\ Fresh(vbus)
  /\ transfer = None

-----------------------------------------------------------------------------
(* The cable, the host and the controller.                                  *)

\* Whether a handler is running or about to.
Busy == handlers # <<>> \/ setup # None

Plug ==
  /\ ~vbus
  /\ vbus' = TRUE /\ flags' = flags \cup {"VBUSTI"}
  /\ calm' = TRUE
  /\ UNCHANGED <<bus, enabled, device, endpoint, handlers, transfer, forsaken>>

Unplug ==
  /\ vbus
  /\ vbus' = FALSE /\ bus' = "idle" /\ flags' = flags \cup {"VBUSTI"}
  /\ transfer' = None /\ forsaken' = (forsaken \/ Busy)
  /\ UNCHANGED <<enabled, device, endpoint, handlers, calm>>

Suspend ==
  /\ vbus /\ bus = "on"
  /\ bus' = "idle" /\ flags' = flags \cup {"SUSPI"}
  /\ transfer' = None /\ forsaken' = (forsaken \/ Busy)
  /\ UNCHANGED <<vbus, enabled, device, endpoint, handlers, calm>>

\* Activity ends the suspend condition.
Resume ==
  /\ vbus /\ bus = "idle"
  /\ bus' = "on" /\ flags' = (flags \ {"SUSPI"}) \cup {"WAKEUPI"}
  /\ UNCHANGED <<vbus, enabled, device, endpoint, handlers, transfer, forsaken, calm>>

\* A bus reset takes the address, the data endpoints and what the control
\* endpoint held.
BusReset ==
  /\ vbus
  /\ bus' = "on" /\ flags' = (flags \ {"SUSPI"}) \cup {"EORSTI", "WAKEUPI"}
  /\ addressed' = FALSE /\ endpoints' = FALSE
  /\ setup' = None /\ armed' = FALSE /\ out' = FALSE
  /\ transfer' = None /\ forsaken' = (forsaken \/ Busy)
  /\ UNCHANGED <<vbus, enabled, state, cfg, rxstpe, handlers, calm>>

\* A request; the controller takes it also while an earlier one is handled,
\* and drops what it had for the host then.
\* The host gives the device time after a reset, more than interrupts are held
\* back.
Ask(r) ==
  /\ vbus /\ bus = "on" /\ transfer = None /\ "EORSTI" \notin flags
  /\ setup' = r /\ armed' = FALSE
  /\ transfer' = CASE r \in {"read", "query"} -> "in" [] r = "store" -> "data" [] OTHER -> "out"
  /\ UNCHANGED <<cable, enabled, device, rxstpe, out, handlers, forsaken, calm>>

\* The host fetches a packet: the data it asked for, which it acknowledges with
\* an empty packet, or the empty packet that ends any other request.
Fetch ==
  /\ vbus /\ bus = "on" /\ armed /\ transfer \in {"in", "out"}
  /\ armed' = FALSE
  /\ out' = (transfer = "in")
  /\ transfer' = None
  /\ UNCHANGED <<cable, enabled, device, setup, rxstpe, handlers, forsaken, calm>>

\* The host sends the data of its request, which has been acknowledged.
SendData ==
  /\ vbus /\ bus = "on" /\ setup = None /\ ~out /\ transfer = "data"
  /\ out' = TRUE
  /\ transfer' = "out"
  /\ UNCHANGED <<cable, enabled, device, setup, rxstpe, armed, handlers, forsaken, calm>>

\* The host gives its request up.
GiveUp ==
  /\ transfer # None
  /\ transfer' = None /\ forsaken' = (forsaken \/ Busy)
  /\ UNCHANGED <<cable, enabled, device, endpoint, handlers, calm>>

-----------------------------------------------------------------------------
(* ISR(USB_GEN_vect): four conditions, tested in this order.  d stands for  *)
(* flags, enabled, state and cfg as the branches before have left them.     *)

Fires(d, i) == i \in d.flags \cap d.enabled

\* The general interrupt waits to run.
Pending == flags \cap enabled # {}

\* Faulty: the state is kept when the cable is pulled out.
Bug_VbusBranch(d) ==
  IF Fires(d, "VBUSTI")
    THEN [d EXCEPT !.flags = @ \ {"VBUSTI"}, !.state = IF vbus THEN "Powered" ELSE @]
    ELSE d

VbusBranch(d) ==
  IF Fires(d, "VBUSTI")
    THEN [d EXCEPT !.flags = @ \ {"VBUSTI"}, !.state = IF vbus THEN "Powered" ELSE "Unattached"]
    ELSE d

SuspendBranch(d) ==
  IF Fires(d, "SUSPI")
    THEN [d EXCEPT !.enabled = (@ \ {"SUSPI"}) \cup {"WAKEUPI"}, !.state = "Suspended"]
    ELSE d

WakeBranch(d) ==
  IF Fires(d, "WAKEUPI")
    THEN [d EXCEPT !.flags = @ \ {"WAKEUPI"}, !.enabled = (@ \ {"WAKEUPI"}) \cup {"SUSPI"},
                   !.state = IF d.cfg # 0 THEN "Configured" ELSE IF addressed THEN "Addressed" ELSE "Powered"]
    ELSE d

\* Faulty: the configuration number is not reset.
Bug_ResetBranch(d) ==
  IF Fires(d, "EORSTI")
    THEN [d EXCEPT !.flags = @ \ {"EORSTI", "SUSPI"}, !.enabled = (@ \ {"SUSPI"}) \cup {"WAKEUPI"},
                   !.state = "Default"]
    ELSE d

ResetBranch(d) ==
  IF Fires(d, "EORSTI")
    THEN [d EXCEPT !.flags = @ \ {"EORSTI", "SUSPI"}, !.enabled = (@ \ {"SUSPI"}) \cup {"WAKEUPI"},
                   !.state = "Default", !.cfg = 0]
    ELSE d

\* Every reset also configures the control endpoint and lets it interrupt,
\* even if its handler has just been interrupted.
UsbGen ==
  /\ Pending
  /\ \E before \in {[flags |-> flags, enabled |-> enabled, state |-> state, cfg |-> cfg]} :
     \E powered \in {VbusBranch(before)} :
     \E suspended \in {SuspendBranch(powered)} :
     \E woken \in {WakeBranch(suspended)} :
     \E d \in {ResetBranch(woken)} :
       flags' = d.flags /\ enabled' = d.enabled /\ state' = d.state /\ cfg' = d.cfg
  /\ IF "EORSTI" \in flags
       THEN /\ rxstpe' = TRUE /\ setup' = None /\ armed' = FALSE /\ out' = FALSE
            /\ forsaken' = (forsaken /\ handlers # <<>>)
       ELSE UNCHANGED <<endpoint, forsaken>>
  /\ calm' = IF "VBUSTI" \in flags THEN vbus \/ (~Busy /\ {"WAKEUPI", "SUSPI"} \cap flags \cap enabled = {}) ELSE calm
  /\ UNCHANGED <<vbus, bus, addressed, endpoints, handlers, transfer>>

-----------------------------------------------------------------------------
(* ISR(USB_COM_vect) and USB_Device_ProcessControlRequest().                *)

\* The innermost handler goes on at pc.
Goto(pc) == handlers' = <<pc>> \o Tail(handlers)

\* Whether a handler at pc still waits for the host.  Only Unattached ends
\* the waits of Endpoint_ClearStatusStage(), nothing that of
\* USB_Device_SetAddress(); those of the streams end with a suspend too.
Waits(pc) ==
  CASE pc \in {"writestatus", "addressstatus", "configstatus"} -> armed /\ state # "Unattached"
    [] pc = "querystatus" -> ~out /\ state # "Unattached"
    [] pc = "addresswait" -> armed
    [] pc = "send"        -> armed /\ ~out /\ state \notin {"Unattached", "Suspended"}
    [] pc = "receive"     -> ~out /\ state \notin {"Unattached", "Suspended"}
    [] pc = "received"    -> armed /\ state \notin {"Unattached", "Suspended"}
    [] pc = "sent"        -> ~out /\ state \notin {"Unattached", "Suspended"}
    [] OTHER              -> FALSE

\* The first step of each request; the others are refused at "refuse".
FirstStep(r) ==
  CASE r = "address"     -> "addressstatus"
    [] r = "configure"   -> "setnumber1"
    [] r = "unconfigure" -> "setnumber0"
    [] r = "write"       -> "writestatus"
    [] r = "store"       -> "receive"
    [] r = "read"        -> "send"
    [] r = "query"       -> "reply"
    [] r = "unknown"     -> "refuse"

\* The handler masks itself and enables interrupts; the request is read and,
\* unless it is unknown, acknowledged.  A handler that a reset has interrupted
\* is itself interrupted only while it waits: it has done everything else by
\* the time the host asks after a reset.
UsbCom ==
  /\ setup # None /\ rxstpe /\ ~Pending
  /\ handlers # <<>> => Waits(Head(handlers)) /\ Len(handlers) < MAXNEST
  /\ rxstpe' = FALSE
  /\ handlers' = <<FirstStep(setup)>> \o handlers
  /\ setup' = IF setup = "unknown" THEN setup ELSE None
  /\ UNCHANGED <<cable, enabled, device, armed, out, transfer, forsaken, calm>>

\* The innermost handler is at pc and not interrupted.
At(pc) == handlers # <<>> /\ Head(handlers) = pc /\ ~Pending

Acted == UNCHANGED <<cable, enabled, rxstpe, transfer, forsaken, calm>>

\* Endpoint_ClearStatusStage() of a request without data to the host; the
\* empty packet is not sent to nobody.
StatusStage(pc, next) ==
  /\ At(pc) /\ ~Waits(pc)
  /\ armed' = (armed \/ state # "Unattached")
  /\ Goto(next)
  /\ Acted /\ UNCHANGED <<device, setup, out>>

WriteStatus == StatusStage("writestatus", "refuse")

AddressStatus == StatusStage("addressstatus", "addresswait")

\* Faulty: waits while the packet has been fetched, not until it is.
Bug_AddressWait ==
  /\ At("addresswait") /\ armed
  /\ addressed' = TRUE /\ state' = "Addressed"
  /\ Goto("refuse")
  /\ Acted /\ UNCHANGED <<cfg, endpoints, setup, armed, out>>

\* while (!(Endpoint_IsINReady())) of USB_Device_SetAddress(): no way out
\* but the host's.
AddressWait ==
  /\ At("addresswait") /\ ~Waits("addresswait")
  /\ addressed' = TRUE /\ state' = "Addressed"
  /\ Goto("refuse")
  /\ Acted /\ UNCHANGED <<cfg, endpoints, setup, armed, out>>

\* USB_Device_SetConfiguration().
SetNumber(pc, n) ==
  /\ At(pc)
  /\ cfg' = n
  /\ Goto("configstatus")
  /\ Acted /\ UNCHANGED <<state, addressed, endpoints, setup, armed, out>>

ConfigStatus == StatusStage("configstatus", "setstate")

\* Without a configuration the state becomes Configured too, if there is an
\* address.
SetState ==
  /\ At("setstate")
  /\ state' = IF cfg # 0 \/ addressed THEN "Configured" ELSE "Powered"
  /\ Goto("changed")
  /\ Acted /\ UNCHANGED <<cfg, addressed, endpoints, setup, armed, out>>

\* EVENT_USB_Device_ConfigurationChanged().
ConfigurationChanged ==
  /\ At("changed")
  /\ endpoints' = TRUE
  /\ Goto("refuse")
  /\ Acted /\ UNCHANGED <<state, cfg, addressed, setup, armed, out>>

\* Endpoint_Write_Control_Stream_LE() of USB_Device_GetDescriptor(): the
\* data, then the host's empty packet, unless a new request has come in or
\* the host is gone.
Send ==
  /\ At("send")
  /\ IF setup # None \/ out \/ state \in {"Unattached", "Suspended"}
       THEN out' = FALSE /\ armed' = armed /\ Goto("refuse")
       ELSE ~armed /\ armed' = TRUE /\ out' = out /\ Goto("sent")
  /\ Acted /\ UNCHANGED <<device, setup>>

Sent ==
  /\ At("sent")
  /\ setup # None \/ ~Waits("sent")
  /\ out' = FALSE
  /\ Goto("refuse")
  /\ Acted /\ UNCHANGED <<device, setup, armed>>

\* Endpoint_Read_Control_Stream_LE() of SetLineEncoding: the host's data, then
\* the empty packet, which is sent also if the data have not come.
Receive ==
  /\ At("receive")
  /\ IF setup # None \/ state \in {"Unattached", "Suspended"}
       THEN out' = out /\ armed' = TRUE /\ Goto("refuse")
       ELSE out /\ out' = FALSE /\ armed' = armed /\ Goto("received")
  /\ Acted /\ UNCHANGED <<device, setup>>

Received ==
  /\ At("received") /\ ~Waits("received")
  /\ armed' = TRUE
  /\ Goto("refuse")
  /\ Acted /\ UNCHANGED <<device, setup, out>>

\* USB_Device_GetStatus() and USB_Device_GetConfiguration().
Reply ==
  /\ At("reply")
  /\ armed' = TRUE
  /\ Goto("querystatus")
  /\ Acted /\ UNCHANGED <<device, setup, out>>

QueryStatus ==
  /\ At("querystatus") /\ ~Waits("querystatus")
  /\ out' = FALSE
  /\ Goto("refuse")
  /\ Acted /\ UNCHANGED <<device, setup, armed>>

\* A request that is there at the end is acknowledged and refused, also one
\* that has come in meanwhile: the host is answered with STALL.  The handler
\* lets itself be called again.
Refuse ==
  /\ At("refuse")
  /\ setup' = None
  /\ transfer' = IF setup # None THEN None ELSE transfer
  /\ rxstpe' = TRUE
  /\ handlers' = Tail(handlers)
  /\ forsaken' = (forsaken /\ Tail(handlers) # <<>>)
  /\ UNCHANGED <<cable, enabled, device, armed, out, calm>>

Handle ==
  \/ WriteStatus
  \/ AddressStatus
  \/ AddressWait
  \/ SetNumber("setnumber1", 1)
  \/ SetNumber("setnumber0", 0)
  \/ ConfigStatus
  \/ SetState
  \/ ConfigurationChanged
  \/ Send
  \/ Sent
  \/ Receive
  \/ Received
  \/ Reply
  \/ QueryStatus
  \/ Refuse

\* main() has not reset the watchdog for 8 s.  A host that keeps at its
\* request is done by then.
WatchdogReset ==
  /\ handlers # <<>> /\ forsaken
  /\ flags' = IF vbus THEN {"VBUSTI"} ELSE {}
  /\ enabled' = {"VBUSTI", "SUSPI", "EORSTI"}
  /\ state' = "Unattached" /\ cfg' = 0 /\ addressed' = FALSE /\ endpoints' = FALSE
  /\ setup' = None /\ rxstpe' = FALSE /\ armed' = FALSE /\ out' = FALSE
  /\ handlers' = <<>> /\ transfer' = None
  /\ bus' = "idle"
  /\ forsaken' = FALSE /\ calm' = TRUE
  /\ UNCHANGED vbus

-----------------------------------------------------------------------------
Cable == Plug \/ Unplug \/ Suspend \/ Resume \/ BusReset

Next ==
  \/ Cable
  \/ \E r \in Requests : Ask(r)
  \/ Fetch
  \/ SendData
  \/ GiveUp
  \/ UsbGen
  \/ UsbCom
  \/ Handle
  \/ WatchdogReset

\* The processor goes on, the watchdog bites, and a host that keeps at its
\* request fetches what there is and sends what it has.
Fairness ==
  /\ WF_vars(UsbGen \/ UsbCom \/ Handle)
  /\ WF_vars(WatchdogReset)
  /\ WF_vars(Fetch \/ SendData)

Spec == Init /\ [][Next]_vars /\ Fairness

-----------------------------------------------------------------------------
(* Properties.                                                              *)

\* Steps of handlers.
Steps == {"addressstatus", "addresswait", "setnumber1", "setnumber0", "configstatus", "setstate",
          "changed", "writestatus", "receive", "received", "send", "sent", "reply", "querystatus", "refuse"}

TypeOK ==
  /\ vbus \in BOOLEAN /\ bus \in {"on", "idle"}
  /\ flags \subseteq {"VBUSTI", "SUSPI", "WAKEUPI", "EORSTI"}
  /\ enabled \subseteq {"VBUSTI", "SUSPI", "WAKEUPI", "EORSTI"}
  /\ state \in States /\ cfg \in {0, 1}
  /\ {addressed, endpoints, rxstpe, armed, out, forsaken, calm} \subseteq BOOLEAN
  /\ setup \in Requests \cup {None} /\ transfer \in {"in", "out", "data", None}
  /\ handlers \in Seq(Steps) /\ Len(handlers) <= MAXNEST

\* main() stays awake because there "is no lack of power" when USB is
\* configured (main.c:258).  That is so if nothing was under way when the
\* unplugging was handled: no request, no wake-up, no suspend.
ConfiguredHasPower ==
  calm /\ ~Pending /\ ~vbus => state # "Configured"

\* When CDC_Task() gets to see Configured, the data endpoints are configured,
\* whatever resets and requests have interrupted each other (console.c:426).
EndpointsReady ==
  handlers = <<>> /\ "EORSTI" \notin flags /\ state = "Configured" => endpoints

\* Whatever the host does, main() always gets its turn again: the handlers of
\* the control endpoint end, or the watchdog ends them, but only where the
\* host has left a request unfinished (DeviceStandardReq.c:135).
MainRuns == []<>(handlers = <<>>)
=============================================================================

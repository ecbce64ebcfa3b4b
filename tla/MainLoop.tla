------------------------------- MODULE MainLoop -------------------------------
(***************************************************************************)
(* The endless loop of main.c, paced by the tick interrupt of timers.c: a  *)
(* radio frame every 15 to 17 ticks, the dust sensor switched on at the    *)
(* start of a 72 tick cycle and off 15 ticks later, the console, and sleep *)
(* until the next interrupt unless USB is configured.                      *)
(*                                                                         *)
(* A pass of the loop is cut at the points between which an interrupt      *)
(* matters: the tick count is read once, at "top", and may be stale by the *)
(* time the processor sleeps.                                              *)
(***************************************************************************)
EXTENDS Naturals

CONSTANTS TICKMOD,        \* the tick counter wraps here; 2^16 in the code
          CYCLELENGTH,    \* SDS011CYCLELENGTH, 72
          CYCLEONTIME,    \* SDS011CYCLEONTIME, 15
          INTERVAL,       \* the shortest transmit interval, 15
          FIRSTTX,        \* initial lasttxts, 0xf000
          WDTICKS,        \* ticks the watchdog allows without a reset, 3
          MaxLate,        \* ticks that may pass during one pass of the loop
          RadioMayHang    \* may the radio chip stop answering?

ASSUME TickAssumption ==
  /\ TICKMOD \in Nat /\ CYCLELENGTH \in Nat /\ CYCLEONTIME \in Nat
  /\ INTERVAL \in Nat /\ FIRSTTX \in Nat /\ WDTICKS \in Nat /\ MaxLate \in Nat
  /\ 0 < CYCLEONTIME /\ CYCLEONTIME < CYCLELENGTH
  /\ CYCLELENGTH + MaxLate < TICKMOD
  /\ 0 < INTERVAL /\ INTERVAL + 2 + MaxLate < TICKMOD
  /\ FIRSTTX < TICKMOD /\ FIRSTTX + INTERVAL <= TICKMOD
  /\ 1 < WDTICKS
ASSUME HangAssumption == RadioMayHang \in BOOLEAN

VARIABLES
  ticks,                                  \* timers.c
  curts, lasttxts, sds011cyclestart, lastloopts, transmitinterval,  \* main()
  pc,            \* where the loop is
  usbconfigured, \* what console_isusbconfigured() would say
  wdt,           \* ticks since the watchdog was last reset
  late,          \* ticks since the loop read the count, or woke up
  measuring,     \* was the sensor's last command "on"?
  straddled,     \* history: did a tick come in mid-pass since then?
  sinceOn,       \* history: ticks since the last "on", capped
  sinceTx        \* history: ticks since the last frame, capped

timing == <<curts, lasttxts, sds011cyclestart, lastloopts, transmitinterval>>
history == <<measuring, straddled, sinceOn, sinceTx>>
vars == <<ticks, timing, pc, usbconfigured, wdt, late, history>>

Stamps == 0 .. TICKMOD - 1
Intervals == INTERVAL .. INTERVAL + 2
OnCap == CYCLELENGTH + 2 * MaxLate + 1
TxCap == INTERVAL + 2 * MaxLate + 3
NeverOn == OnCap + 1
NeverTx == TxCap + 1

Bug_Diff(a, b) == IF a >= b THEN a - b ELSE 0
\* uint16_t subtraction of time stamps.
Diff(a, b) == IF a >= b THEN a - b ELSE a + TICKMOD - b

\* ticks++, wrapping as uint16_t does, and the histories' capped counters.
NextTick(t) == IF t + 1 = TICKMOD THEN 0 ELSE t + 1
Older(age, cap) == IF age < cap THEN age + 1 ELSE age

\* sei() at the end of main()'s initialisation.
Init == /\ ticks = 0 /\ curts = 0
        /\ lasttxts = FIRSTTX
        /\ sds011cyclestart = TICKMOD - 1 - (CYCLELENGTH \div 2)
        /\ lastloopts = 0 /\ transmitinterval = INTERVAL
        /\ pc = "top" /\ usbconfigured = FALSE
        /\ wdt = 0 /\ late = 0
        /\ measuring = FALSE /\ straddled = FALSE /\ sinceOn = NeverOn /\ sinceTx = NeverTx

-----------------------------------------------------------------------------
(* One pass of the loop. *)

Bug_TopNoReset == /\ pc = "top"
                  /\ late' = 0
                  /\ curts' = ticks
                  /\ pc' = "send"
                  /\ UNCHANGED <<ticks, lasttxts, sds011cyclestart, lastloopts,
                                 transmitinterval, usbconfigured, wdt, history>>
\* wdt_reset(); curts = timers_getticks();
Top == /\ pc = "top"
       /\ wdt' = 0 /\ late' = 0
       /\ curts' = ticks
       /\ pc' = "send"
       /\ UNCHANGED <<ticks, lasttxts, sds011cyclestart, lastloopts,
                      transmitinterval, usbconfigured, history>>

Bug_SendDue == Diff(curts, lasttxts) > transmitinterval
\* tsdiff >= transmitinterval
SendDue == Diff(curts, lasttxts) >= transmitinterval

Bug_SendAnyNoise ==
  /\ pc = "send" /\ SendDue
  /\ lasttxts' = curts
  /\ transmitinterval' \in INTERVAL .. INTERVAL + 3
  /\ sinceTx' = 0
  /\ pc' = "measure"
  /\ UNCHANGED <<ticks, curts, sds011cyclestart, lastloopts, usbconfigured,
                 wdt, late, measuring, straddled, sinceOn>>
\* Read the sensors, send a frame, pick the next interval from the pressure.
Send == /\ pc = "send" /\ SendDue
        /\ lasttxts' = curts
        /\ transmitinterval' \in Intervals
        /\ sinceTx' = 0
        /\ pc' = "measure"
        /\ UNCHANGED <<ticks, curts, sds011cyclestart, lastloopts,
                       usbconfigured, wdt, late, measuring, straddled, sinceOn>>

\* rfm69_setsleep() waits for the chip's ModeReady without a limit.
Hang == /\ pc = "send" /\ SendDue /\ RadioMayHang
        /\ pc' = "hung"
        /\ UNCHANGED <<ticks, timing, usbconfigured, wdt, late, history>>

SkipSend == /\ pc = "send" /\ ~SendDue
            /\ pc' = "measure"
            /\ UNCHANGED <<ticks, timing, usbconfigured, wdt, late, history>>

NewTick == Diff(curts, lastloopts) > 0
Phase == Diff(curts, sds011cyclestart)
Bug_CycleOver == Phase > CYCLELENGTH
CycleOver == Phase >= CYCLELENGTH
Bug_OnTimeOver == ~CycleOver /\ Phase = CYCLEONTIME + 1
OnTimeOver == ~CycleOver /\ Phase = CYCLEONTIME

\* The cycle is over: start the next with the sensor on.
MeasureOn == /\ pc = "measure" /\ NewTick /\ CycleOver
             /\ lastloopts' = curts
             /\ sds011cyclestart' = curts
             /\ measuring' = TRUE /\ straddled' = (late > 0) /\ sinceOn' = 0
             /\ pc' = "console"
             /\ UNCHANGED <<ticks, curts, lasttxts, transmitinterval,
                            usbconfigured, wdt, late, sinceTx>>

\* The on time is over: ask for the result, then switch the sensor off.
MeasureOff == /\ pc = "measure" /\ NewTick /\ OnTimeOver
              /\ lastloopts' = curts
              /\ measuring' = FALSE /\ straddled' = FALSE
              /\ pc' = "console"
              /\ UNCHANGED <<ticks, curts, lasttxts, sds011cyclestart,
                             transmitinterval, usbconfigured, wdt, late,
                             sinceOn, sinceTx>>

MeasureWait == /\ pc = "measure"
               /\ \/ ~NewTick /\ UNCHANGED lastloopts
                  \/ /\ NewTick /\ ~CycleOver /\ ~OnTimeOver
                     /\ lastloopts' = curts
               /\ pc' = "console"
               /\ UNCHANGED <<ticks, curts, lasttxts, sds011cyclestart,
                              transmitinterval, usbconfigured, wdt, late,
                              history>>

\* console_work(), then the decision whether to sleep.
Console == /\ pc = "console"
           /\ IF usbconfigured
                THEN pc' = "top" /\ UNCHANGED wdt
                ELSE pc' = "nap" /\ wdt' = 0
           /\ UNCHANGED <<ticks, timing, usbconfigured, late, history>>

\* sleep_cpu()
Sleep == /\ pc = "nap"
         /\ pc' = "asleep"
         /\ UNCHANGED <<ticks, timing, usbconfigured, wdt, late, history>>

-----------------------------------------------------------------------------
(* Interrupts and the watchdog. *)

\* May a tick come now without the loop having fallen behind?
InTime == \/ pc \in {"asleep", "hung"}
          \/ pc = "top" /\ ticks = curts

Bug_TickFeedsWatchdog ==
  /\ InTime \/ late < MaxLate
  /\ wdt < WDTICKS
  /\ ticks' = NextTick(ticks)
  /\ wdt' = 0
  /\ late' = IF InTime THEN late ELSE late + 1
  /\ straddled' = (straddled \/ (measuring /\ ~InTime))
  /\ sinceOn' = Older(sinceOn, OnCap)
  /\ sinceTx' = Older(sinceTx, TxCap)
  /\ pc' = IF pc = "asleep" THEN "top" ELSE pc
  /\ UNCHANGED <<timing, usbconfigured, measuring>>
\* ISR(TIMER1_OVF_vect).  At most MaxLate ticks come while a pass runs.  The
\* watchdog is stricter than the model's clock: it has bitten before a tick
\* could make wdt exceed WDTICKS.
Tick == /\ InTime \/ late < MaxLate
        /\ wdt < WDTICKS
        /\ ticks' = NextTick(ticks)
        /\ wdt' = wdt + 1
        /\ late' = IF InTime THEN late ELSE late + 1
        /\ straddled' = (straddled \/ (measuring /\ ~InTime))
        /\ sinceOn' = Older(sinceOn, OnCap)
        /\ sinceTx' = Older(sinceTx, TxCap)
        /\ pc' = IF pc = "asleep" THEN "top" ELSE pc
        /\ UNCHANGED <<timing, usbconfigured, measuring>>

\* Any other interrupt wakes the processor too, and USB may come or go.
OtherInterrupt == /\ pc # "hung"
                  /\ usbconfigured' \in BOOLEAN
                  /\ pc' = IF pc = "asleep" THEN "top" ELSE pc
                  /\ UNCHANGED <<ticks, timing, wdt, late, history>>

\* Eight seconds without wdt_reset(): everything starts over.  The sensor
\* keeps its state until sds011_init() switches it off.
WatchdogReset == /\ wdt = WDTICKS
                 /\ ticks' = 0 /\ curts' = 0
                 /\ lasttxts' = FIRSTTX
                 /\ sds011cyclestart' = TICKMOD - 1 - (CYCLELENGTH \div 2)
                 /\ lastloopts' = 0 /\ transmitinterval' = INTERVAL
                 /\ pc' = "top" /\ usbconfigured' = FALSE
                 /\ wdt' = 0 /\ late' = 0
                 /\ measuring' = FALSE /\ straddled' = FALSE /\ sinceOn' = NeverOn /\ sinceTx' = NeverTx

Loop == Top \/ Send \/ SkipSend \/ MeasureOn \/ MeasureOff \/ MeasureWait
        \/ Console \/ Sleep

Next == Loop \/ Hang \/ Tick \/ OtherInterrupt \/ WatchdogReset

Spec == Init /\ [][Next]_vars

\* A running pass goes on, the watchdog bites, and the timer never stops:
\* that a tick does not come in mid-pass is the model's bound, so the tick is
\* owed as soon as it is possible again and again.
FairSpec == Spec /\ WF_vars(Loop) /\ SF_vars(Tick) /\ WF_vars(WatchdogReset)

-----------------------------------------------------------------------------
(* Properties *)

\* Types; the interval picked from the pressure is always one of the three.
TypeOK == /\ ticks \in Stamps /\ curts \in Stamps /\ lasttxts \in Stamps
          /\ sds011cyclestart \in Stamps /\ lastloopts \in Stamps
          /\ transmitinterval \in Intervals
          /\ pc \in {"top", "send", "measure", "console", "nap", "asleep",
                     "hung"}
          /\ usbconfigured \in BOOLEAN /\ measuring \in BOOLEAN /\ straddled \in BOOLEAN
          /\ wdt \in 0 .. WDTICKS /\ late \in 0 .. MaxLate
          /\ sinceOn \in 0 .. NeverOn /\ sinceTx \in 0 .. NeverTx

\* "It measures for 30 seconds before going to sleep for 120 seconds": the
\* sensor is never left on beyond its on time (README.md:53).
OnTime == measuring /\ pc # "hung" => sinceOn <= CYCLEONTIME

\* It is not, unless a tick came in the middle of a pass since the sensor was
\* switched on; what happened in the cycles before makes no difference, though
\* the comparison is for equality (main.c:251).
OnTimeKept == measuring /\ ~straddled /\ pc # "hung" => sinceOn <= CYCLEONTIME

\* The sensor is switched on exactly once per cycle, a whole cycle apart,
\* though the tick counter wraps and the loop may run many times per tick.
\* What was read late is made up for: the ticks that come in mid-pass shift a
\* cycle by no more than themselves, and never add up (main.c:247).
CycleKept ==
  [][sinceOn' < sinceOn /\ sinceOn # NeverOn =>
       CYCLELENGTH <= sinceOn + MaxLate /\ sinceOn <= CYCLELENGTH + 2 * MaxLate]_vars

\* Frames leave 15 to 17 ticks apart, across the wrap of the tick counter, but
\* for the ticks that come in mid-pass: in this one, or in the one that
\* went to sleep on them (main.c:196, 262).
CadenceKept ==
  [][sinceTx' < sinceTx /\ sinceTx # NeverTx =>
       INTERVAL <= sinceTx + MaxLate /\ sinceTx <= INTERVAL + 2 + 2 * MaxLate]_vars

\* The watchdog bites only when the radio hangs: sleeping for a whole tick is
\* not enough, not even after a tick that came in mid-pass.
WatchdogQuiet == [][wdt = WDTICKS /\ wdt' = 0 => pc = "hung"]_vars

\* A hung radio costs a restart, not the station.
Recovers == (pc = "hung") ~> (pc = "top" /\ sinceTx = NeverTx)

\* The station keeps sending and keeps switching the sensor on and off, unless
\* the radio hangs again and again, or ticks come in mid-pass in every cycle.
KeepsSending == []<>(sinceTx = 0 \/ pc = "hung")
KeepsMeasuring == []<>(measuring \/ pc = "hung") /\ []<>(~measuring \/ straddled)
=============================================================================

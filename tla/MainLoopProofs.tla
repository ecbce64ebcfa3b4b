--------------------------- MODULE MainLoopProofs ---------------------------
(***************************************************************************)
(* What TLAPS proves of MainLoop for every length of the cycle, interval   *)
(* and tick counter, and for any number of ticks that may come while a     *)
(* pass of the loop runs.                                                  *)
(***************************************************************************)
EXTENDS MainLoop, TLAPS

\* Differences of time stamps, across the wrap of the counter.
LEMMA DiffFacts ==
  ASSUME NEW a \in Stamps, NEW b \in Stamps
  PROVE  /\ Diff(a, b) \in Stamps
         /\ Diff(a, b) > 0 <=> a # b
         /\ Diff(a, a) = 0
         /\ NextTick(a) \in Stamps /\ NextTick(a) # a
         /\ Diff(a, b) < TICKMOD - 1 => Diff(NextTick(a), b) = Diff(a, b) + 1
  BY TickAssumption DEF Stamps, Diff, NextTick

LEMMA DiffAdds ==
  ASSUME NEW a \in Stamps, NEW b \in Stamps, NEW c \in Stamps, Diff(a, b) + Diff(b, c) < TICKMOD
  PROVE  Diff(a, c) = Diff(a, b) + Diff(b, c)
  BY TickAssumption DEF Stamps, Diff

\* What the loop concludes from the phase of the cycle it is in.
LEMMA PhaseFacts ==
  ASSUME TypeOK
  PROVE  /\ CycleOver <=> Phase \notin 0 .. CYCLELENGTH - 1
         /\ OnTimeOver => Phase \in 0 .. CYCLELENGTH - 1
<1>1. Phase \in Stamps
  BY DiffFacts DEF Phase, TypeOK
<1> QED
  BY <1>1, TickAssumption DEF CycleOver, OnTimeOver, Stamps

\* Types.
THEOREM LoopTypeCorrect == Spec => []TypeOK
<1>1. Init => TypeOK
  <2> SUFFICES ASSUME Init PROVE TypeOK
    OBVIOUS
  <2>1. usbconfigured \in BOOLEAN /\ measuring \in BOOLEAN /\ straddled \in BOOLEAN
    BY Zenon DEF Init
  <2>2. TICKMOD - 1 - (CYCLELENGTH \div 2) \in Stamps
    BY TickAssumption DEF Stamps
  <2> QED
    BY <2>1, <2>2, TickAssumption
    DEF Init, TypeOK, Stamps, Intervals, NeverOn, NeverTx, OnCap, TxCap
<1>2. TypeOK /\ [Next]_vars => TypeOK'
  <2> SUFFICES ASSUME TypeOK, [Next]_vars PROVE TypeOK'
    OBVIOUS
  <2> USE DEF TypeOK
  <2>1. CASE Top
    <3>1. wdt' \in 0 .. WDTICKS /\ late' \in 0 .. MaxLate /\ pc' = "send"
      BY <2>1, TickAssumption DEF Top
    <3>2. curts' \in Stamps
      BY <2>1 DEF Top
    <3> QED
      BY <2>1, <3>1, <3>2 DEF Top, history
  <2>2. CASE Send
    <3>1. sinceTx' \in 0 .. NeverTx
      BY <2>2, TickAssumption DEF Send, NeverTx, TxCap
    <3> QED
      BY <2>2, <3>1 DEF Send
  <2>3. CASE SkipSend \/ Hang \/ Sleep
    BY <2>3 DEF SkipSend, Hang, Sleep, timing, history
  <2>4. CASE MeasureOn
    <3> DEFINE stale == late > 0
    <3>1. measuring' \in BOOLEAN /\ straddled' \in BOOLEAN
      <4>1. measuring' = TRUE /\ straddled' = stale
        BY <2>4, Zenon DEF MeasureOn
      <4>2. stale \in BOOLEAN
        OBVIOUS
      <4> HIDE DEF stale
      <4> QED
        BY <4>1, <4>2, Zenon
    <3>2. sinceOn' \in 0 .. NeverOn
      BY <2>4, TickAssumption DEF MeasureOn, NeverOn, OnCap
    <3> QED
      BY <2>4, <3>1, <3>2 DEF MeasureOn
  <2>5. CASE MeasureOff
    <3>1. measuring' \in BOOLEAN /\ straddled' \in BOOLEAN
      BY <2>5, Zenon DEF MeasureOff
    <3> QED
      BY <2>5, <3>1 DEF MeasureOff
  <2>6. CASE MeasureWait
    BY <2>6 DEF MeasureWait, history
  <2>7. CASE Console
    BY <2>7, TickAssumption DEF Console, timing, history
  <2>8. CASE Tick
    <3>1. ticks' \in Stamps
      BY <2>8, DiffFacts DEF Tick
    <3>2. wdt' \in 0 .. WDTICKS /\ late' \in 0 .. MaxLate
      BY <2>8, TickAssumption DEF Tick
    <3>3. sinceOn' \in 0 .. NeverOn /\ sinceTx' \in 0 .. NeverTx
      BY <2>8, TickAssumption DEF Tick, Older, NeverOn, NeverTx, OnCap, TxCap
    <3>4. straddled' \in BOOLEAN
      BY <2>8, Zenon DEF Tick
    <3> QED
      BY <2>8, <3>1, <3>2, <3>3, <3>4 DEF Tick, timing
  <2>9. CASE OtherInterrupt
    BY <2>9 DEF OtherInterrupt, timing, history
  <2>10. CASE WatchdogReset
    <3>1. usbconfigured' \in BOOLEAN /\ measuring' \in BOOLEAN /\ straddled' \in BOOLEAN
      BY <2>10, Zenon DEF WatchdogReset
    <3>2. TICKMOD - 1 - (CYCLELENGTH \div 2) \in Stamps
      BY TickAssumption DEF Stamps
    <3> QED
      BY <2>10, <3>1, <3>2, TickAssumption
      DEF WatchdogReset, Stamps, Intervals, NeverOn, NeverTx, OnCap, TxCap
  <2>11. CASE UNCHANGED vars
    BY <2>11 DEF vars, timing, history
  <2> QED
    BY <2>1, <2>2, <2>3, <2>4, <2>5, <2>6, <2>7, <2>8, <2>9, <2>10, <2>11
    DEF Next, Loop
<1> QED
  BY <1>1, <1>2, PTL DEF Spec
-----------------------------------------------------------------------------
(* Cadence and on time *)

(***************************************************************************)
(* The strengthening: where the loop stands.  Gap is the age of the count   *)
(* that was read, Since and Phase are what the loop makes of it.  The two   *)
(* histories differ from Since + Gap and Phase + Gap by what the gap was     *)
(* when they were last reset, and never by more: lateness does not add up.  *)
(***************************************************************************)
Gap == Diff(ticks, curts)
Since == Diff(curts, lasttxts)

StampInv ==
  /\ pc # "top" => Gap = late
  /\ pc = "top" => Gap \in {late, late + 1}
  /\ pc \notin {"send", "measure"} => lastloopts = curts
  /\ pc \in {"send", "measure"} => Diff(curts, lastloopts) <= MaxLate + 1
WdtInv == wdt <= Gap
TxInv == sinceTx # NeverTx =>
           /\ sinceTx <= Since + Gap /\ Since + Gap <= sinceTx + MaxLate
           /\ IF pc = "send" THEN Since <= transmitinterval + MaxLate ELSE Since < transmitinterval
OnInv == sinceOn # NeverOn =>
           /\ sinceOn <= Phase + Gap /\ Phase + Gap <= sinceOn + MaxLate
           /\ IF lastloopts = curts THEN Phase < CYCLELENGTH ELSE Phase <= CYCLELENGTH + MaxLate
MeasureInv == measuring /\ ~straddled =>
                /\ sinceOn # NeverOn /\ sinceOn = Phase + Gap /\ late = 0
                /\ lastloopts = curts => Phase < CYCLEONTIME
                /\ lastloopts # curts => Phase <= CYCLEONTIME
LoopInv == pc # "hung" => StampInv /\ WdtInv /\ TxInv /\ OnInv /\ MeasureInv

LEMMA GapType ==
  ASSUME TypeOK
  PROVE  /\ Gap \in Stamps /\ Since \in Stamps /\ Phase \in Stamps
         /\ Gap \in Nat /\ Since \in Nat /\ Phase \in Nat
<1>1. Gap \in Stamps /\ Since \in Stamps /\ Phase \in Stamps
  BY DiffFacts DEF TypeOK, Gap, Since, Phase
<1> QED
  BY <1>1 DEF Stamps

\* What is the same before and after a step.
LEMMA Same ==
  /\ UNCHANGED <<ticks, curts>> => Gap' = Gap
  /\ UNCHANGED <<curts, lasttxts>> => Since' = Since
  /\ UNCHANGED <<curts, sds011cyclestart>> => Phase' = Phase
  BY DEF Gap, Since, Phase, Diff

LEMMA LoopInvInit == Init => LoopInv
<1> SUFFICES ASSUME Init PROVE LoopInv
  OBVIOUS
<1>1. ~measuring
  BY Zenon DEF Init
<1>2. 0 \in Stamps
  BY TickAssumption DEF Stamps
<1>3. Gap = 0
  BY <1>2, DiffFacts DEF Init, Gap
<1>4. StampInv /\ WdtInv /\ TxInv /\ OnInv
  BY <1>3 DEF Init, StampInv, WdtInv, TxInv, OnInv
<1> QED
  BY <1>1, <1>4 DEF LoopInv, MeasureInv

\* The tick is the one step that ages everything.
LEMMA LoopInvTick ==
  ASSUME TypeOK, LoopInv, Tick
  PROVE  LoopInv'
<1> SUFFICES ASSUME pc # "hung" PROVE LoopInv'
  BY DEF Tick, LoopInv
<1> USE TickAssumption, GapType DEF TypeOK
<1>1. StampInv /\ WdtInv /\ TxInv /\ OnInv /\ MeasureInv
  BY DEF LoopInv
<1>2. /\ ticks' = NextTick(ticks) /\ pc' = (IF pc = "asleep" THEN "top" ELSE pc) /\ wdt' = wdt + 1
      /\ sinceOn' = Older(sinceOn, OnCap) /\ sinceTx' = Older(sinceTx, TxCap)
      /\ UNCHANGED <<curts, lasttxts, sds011cyclestart, lastloopts,
                     transmitinterval, measuring>>
  BY DEF Tick, timing
<1>3. Since' = Since /\ Phase' = Phase
  BY <1>2, Same
<1>4. /\ Gap <= MaxLate
      /\ pc \in {"send", "measure"} => Gap < MaxLate
      /\ pc' = "top" => Gap + 1 \in {late', late' + 1}
      /\ pc' # "top" => Gap + 1 = late'
      /\ pc' \in {"send", "measure"} => pc' = pc
      /\ pc \in {"send", "measure"} => pc' = pc
  <2>1. CASE InTime
    <3>1. late' = late /\ pc \in {"asleep", "top"} /\ pc' = "top"
      BY <1>2, <2>1 DEF Tick, InTime
    <3>2. CASE pc = "asleep"
      BY <1>1, <3>1, <3>2 DEF StampInv
    <3>3. CASE pc = "top"
      <4>1. ticks = curts
        BY <2>1, <3>3 DEF InTime
      <4>2. Gap = 0
        BY <4>1, DiffFacts DEF Gap
      <4> QED
        BY <1>1, <3>1, <3>3, <4>2 DEF StampInv
    <3> QED
      BY <3>1, <3>2, <3>3
  <2>2. CASE ~InTime
    <3>1. late' = late + 1 /\ late < MaxLate /\ pc # "asleep" /\ pc' = pc
      BY <1>2, <2>2 DEF Tick, InTime
    <3> QED
      BY <1>1, <3>1 DEF StampInv
  <2> QED
    BY <2>1, <2>2
<1>5. Gap' = Gap + 1
  <2>1. Gap < TICKMOD - 1
    BY <1>4
  <2>2. Diff(NextTick(ticks), curts) = Gap + 1
    BY <2>1, DiffFacts DEF Gap
  <2> QED
    BY <1>2, <2>2 DEF Gap, Diff
<1>6. StampInv' /\ WdtInv'
  BY <1>1, <1>2, <1>4, <1>5 DEF StampInv, WdtInv, Diff
<1>7. TxInv'
  <2>1. CASE sinceTx = NeverTx
    BY <1>2, <2>1 DEF TxInv, Older, NeverTx, TxCap
  <2>2. CASE sinceTx # NeverTx
    <3>1. sinceTx < TxCap
      BY <1>1, <1>4, <2>2 DEF TxInv, TxCap, Intervals
    <3>2. sinceTx' = sinceTx + 1
      BY <1>2, <3>1 DEF Older
    <3>3. pc' = "send" <=> pc = "send"
      BY <1>4
    <3> QED
      BY <1>1, <1>2, <1>3, <1>5, <2>2, <3>2, <3>3 DEF TxInv
  <2> QED
    BY <2>1, <2>2
<1>8. OnInv'
  <2>1. CASE sinceOn = NeverOn
    BY <1>2, <2>1 DEF OnInv, Older, NeverOn, OnCap
  <2>2. CASE sinceOn # NeverOn
    <3>1. lastloopts # curts => Gap < MaxLate
      BY <1>1, <1>4 DEF StampInv
    <3>2. sinceOn < OnCap
      BY <1>1, <1>4, <2>2, <3>1 DEF OnInv, OnCap
    <3>3. sinceOn' = sinceOn + 1
      BY <1>2, <3>2 DEF Older
    <3> QED
      BY <1>1, <1>2, <1>3, <1>5, <2>2, <3>3 DEF OnInv
  <2> QED
    BY <2>1, <2>2
<1>9. MeasureInv'
  <2> SUFFICES ASSUME measuring', ~straddled' PROVE MeasureInv'
    BY DEF MeasureInv
  <2>1. measuring /\ ~straddled /\ InTime
    <3>1. measuring' = measuring
      BY <1>2
    <3>2. straddled' = (straddled \/ (measuring /\ ~InTime))
      BY Zenon DEF Tick
    <3> QED
      BY <3>1, <3>2, Zenon
  <2>2. late' = late
    BY <2>1 DEF Tick
  <2>3. /\ sinceOn # NeverOn /\ sinceOn = Phase + Gap /\ late = 0
        /\ lastloopts = curts => Phase < CYCLEONTIME
        /\ lastloopts # curts => Phase <= CYCLEONTIME
    BY <1>1, <2>1 DEF MeasureInv
  <2>4. sinceOn < OnCap
    BY <1>4, <2>3 DEF OnCap
  <2>5. sinceOn' = sinceOn + 1 /\ sinceOn' # NeverOn
    BY <1>2, <2>3, <2>4 DEF Older, NeverOn, OnCap
  <2> QED
    BY <1>2, <1>3, <1>5, <2>2, <2>3, <2>5 DEF MeasureInv
<1> QED
  BY <1>6, <1>7, <1>8, <1>9 DEF LoopInv

\* The count is read: what was the gap is now part of the time since.
LEMMA LoopInvTop ==
  ASSUME TypeOK, LoopInv, Top
  PROVE  LoopInv'
<1> USE TickAssumption, GapType DEF TypeOK
<1>1. /\ pc = "top" /\ pc' = "send" /\ curts' = ticks /\ wdt' = 0 /\ late' = 0
      /\ UNCHANGED <<ticks, lasttxts, sds011cyclestart, lastloopts,
                     transmitinterval, measuring, straddled, sinceOn, sinceTx>>
  BY DEF Top, history
<1>2. StampInv /\ TxInv /\ OnInv /\ MeasureInv
  BY <1>1 DEF LoopInv
<1>3. Gap <= MaxLate + 1 /\ lastloopts = curts
  BY <1>1, <1>2 DEF StampInv
<1>4. Gap' = 0
  <2>1. Diff(ticks, ticks) = 0
    BY DiffFacts
  <2> QED
    BY <1>1, <2>1 DEF Gap, Diff
<1>5. StampInv' /\ WdtInv'
  <2>1. Diff(curts', lastloopts') = Gap
    BY <1>1, <1>3 DEF Gap
  <2>2. Diff(curts, lastloopts)' = Gap
    BY <2>1 DEF Diff
  <2> QED
    BY <1>1, <1>3, <1>4, <2>2 DEF StampInv, WdtInv
<1>6. TxInv'
  <2> SUFFICES ASSUME sinceTx # NeverTx PROVE TxInv'
    BY <1>1 DEF TxInv, NeverTx, TxCap
  <2>1. Since < transmitinterval
    BY <1>1, <1>2 DEF TxInv
  <2>2. Diff(ticks, lasttxts) = Since + Gap
    BY <1>3, <2>1, DiffAdds DEF Since, Gap, Intervals
  <2>3. Since' = Since + Gap
    BY <1>1, <2>2 DEF Since, Diff
  <2> QED
    BY <1>1, <1>2, <1>3, <1>4, <2>1, <2>3 DEF TxInv, Intervals
<1>7. Phase < CYCLELENGTH => Phase' = Phase + Gap
  <2> SUFFICES ASSUME Phase < CYCLELENGTH PROVE Phase' = Phase + Gap
    OBVIOUS
  <2>1. Diff(ticks, sds011cyclestart) = Phase + Gap
    BY <1>3, DiffAdds DEF Phase, Gap
  <2> QED
    BY <1>1, <2>1 DEF Phase, Diff
<1>8. lastloopts' = curts' => Gap = 0
  BY <1>1, <1>3, DiffFacts DEF Gap
<1>9. OnInv'
  <2> SUFFICES ASSUME sinceOn # NeverOn PROVE OnInv'
    BY <1>1 DEF OnInv, NeverOn, OnCap
  <2>1. Phase < CYCLELENGTH
    BY <1>2, <1>3 DEF OnInv
  <2> QED
    BY <1>1, <1>2, <1>3, <1>4, <1>7, <1>8, <2>1 DEF OnInv
<1>10. MeasureInv'
  <2> SUFFICES ASSUME measuring', ~straddled' PROVE MeasureInv'
    BY DEF MeasureInv
  <2>1. /\ sinceOn # NeverOn /\ sinceOn = Phase + Gap /\ late = 0
        /\ Phase < CYCLEONTIME
    BY <1>1, <1>2, <1>3 DEF MeasureInv
  <2>2. Gap <= 1
    BY <1>1, <1>2, <2>1 DEF StampInv
  <2>3. Phase' = Phase + Gap
    BY <1>7, <2>1
  <2> QED
    BY <1>1, <1>4, <1>8, <2>1, <2>2, <2>3 DEF MeasureInv, NeverOn, OnCap
<1> QED
  BY <1>5, <1>6, <1>9, <1>10 DEF LoopInv

\* A frame is sent or it is not due.
LEMMA LoopInvSend ==
  ASSUME TypeOK, LoopInv, Send \/ SkipSend
  PROVE  LoopInv'
<1> USE TickAssumption, GapType DEF TypeOK
<1>1. /\ pc = "send" /\ pc' = "measure"
      /\ UNCHANGED <<ticks, curts, sds011cyclestart, lastloopts, wdt, late, measuring, straddled, sinceOn>>
  BY DEF Send, SkipSend, timing, history
<1>2. StampInv /\ WdtInv /\ TxInv /\ OnInv /\ MeasureInv
  BY <1>1 DEF LoopInv
<1>3. Gap' = Gap /\ Phase' = Phase
  BY <1>1, Same
<1>4. StampInv' /\ WdtInv' /\ OnInv' /\ MeasureInv'
  BY <1>1, <1>2, <1>3 DEF StampInv, WdtInv, OnInv, MeasureInv, Diff, NeverOn, OnCap
<1>5. TxInv'
  <2>1. CASE Send
    <3>1. lasttxts' = curts /\ sinceTx' = 0 /\ transmitinterval' \in Intervals
      BY <2>1 DEF Send
    <3>2. Since' = 0
      <4>1. Diff(curts, curts) = 0
        BY DiffFacts
      <4> QED
        BY <1>1, <3>1, <4>1 DEF Since, Diff
    <3>3. Gap <= MaxLate
      BY <1>1, <1>2 DEF StampInv
    <3> QED
      BY <1>1, <1>3, <3>1, <3>2, <3>3 DEF TxInv, Intervals
  <2>2. CASE SkipSend
    <3>1. UNCHANGED <<lasttxts, transmitinterval, sinceTx>> /\ Since < transmitinterval
      BY <2>2 DEF SkipSend, SendDue, Since, timing, history, Intervals
    <3>2. Since' = Since
      BY <1>1, <3>1, Same
    <3> QED
      BY <1>1, <1>2, <1>3, <3>1, <3>2 DEF TxInv, NeverTx, TxCap
  <2> QED
    BY <2>1, <2>2
<1> QED
  BY <1>4, <1>5 DEF LoopInv

\* The sensor is switched on or off, or neither is due.
LEMMA LoopInvMeasure ==
  ASSUME TypeOK, LoopInv, MeasureOn \/ MeasureOff \/ MeasureWait
  PROVE  LoopInv'
<1> USE TickAssumption, GapType DEF TypeOK
<1>1. /\ pc = "measure" /\ pc' = "console" /\ lastloopts' = curts
      /\ UNCHANGED <<ticks, curts, lasttxts, transmitinterval, wdt, late, sinceTx>>
  <2>1. CASE MeasureWait
    <3>1. ~NewTick => lastloopts = curts
      BY DiffFacts DEF NewTick
    <3> QED
      BY <2>1, <3>1 DEF MeasureWait, history
  <2> QED
    BY <2>1 DEF MeasureOn, MeasureOff
<1>2. StampInv /\ WdtInv /\ TxInv /\ OnInv /\ MeasureInv
  BY <1>1 DEF LoopInv
<1>3. Gap' = Gap /\ Since' = Since
  BY <1>1, Same
<1>4. StampInv' /\ WdtInv' /\ TxInv'
  BY <1>1, <1>2, <1>3 DEF StampInv, WdtInv, TxInv, NeverTx, TxCap
<1>5. CASE MeasureOn
  <2>1. sds011cyclestart' = curts /\ sinceOn' = 0
    BY <1>5 DEF MeasureOn
  <2>2. Phase' = 0
    <3>1. Diff(curts, curts) = 0
      BY DiffFacts
    <3> QED
      BY <1>1, <2>1, <3>1 DEF Phase, Diff
  <2>3. Gap <= MaxLate
    BY <1>1, <1>2 DEF StampInv
  <2>4. ~straddled' => Gap = 0
    <3>1. ~straddled' => ~(late > 0)
      BY <1>5, Zenon DEF MeasureOn
    <3> QED
      BY <1>1, <1>2, <3>1 DEF StampInv
  <2>5. OnInv' /\ MeasureInv'
    BY <1>1, <1>2, <1>3, <2>1, <2>2, <2>3, <2>4 DEF OnInv, MeasureInv, StampInv, NeverOn, OnCap
  <2> QED
    BY <1>4, <2>5 DEF LoopInv
<1>6. CASE MeasureOff \/ MeasureWait
  <2>1. UNCHANGED <<sds011cyclestart, sinceOn>>
    BY <1>6 DEF MeasureOff, MeasureWait, history
  <2>2. Phase' = Phase
    BY <1>1, <2>1, Same
  <2>3. lastloopts # curts => Phase < CYCLELENGTH
    <3>1. lastloopts # curts => NewTick
      BY DiffFacts DEF NewTick
    <3> QED
      BY <1>6, <3>1, PhaseFacts DEF MeasureOff, MeasureWait
  <2>4. OnInv'
    BY <1>1, <1>2, <1>3, <2>1, <2>2, <2>3 DEF OnInv, NeverOn, OnCap
  <2>5. CASE MeasureOff
    <3>1. ~measuring'
      BY <2>5, Zenon DEF MeasureOff
    <3> QED
      BY <1>4, <2>4, <3>1 DEF LoopInv, MeasureInv
  <2>6. CASE MeasureWait
    <3>1. measuring' = measuring /\ straddled' = straddled
      BY <2>6 DEF MeasureWait, history
    <3>2. lastloopts # curts => Phase # CYCLEONTIME
      <4>1. lastloopts # curts => NewTick
        BY DiffFacts DEF NewTick
      <4> QED
        BY <2>6, <4>1 DEF MeasureWait, OnTimeOver
    <3>3. MeasureInv'
      BY <1>1, <1>2, <1>3, <2>1, <2>2, <3>1, <3>2 DEF MeasureInv, NeverOn, OnCap
    <3> QED
      BY <1>4, <2>4, <3>3 DEF LoopInv
  <2> QED
    BY <1>6, <2>5, <2>6
<1> QED
  BY <1>5, <1>6

\* The other steps.
LEMMA LoopInvStep ==
  ASSUME TypeOK, LoopInv, [Next]_vars
  PROVE  LoopInv'
<1> USE TickAssumption, GapType DEF TypeOK
<1>1. CASE Console \/ Sleep \/ OtherInterrupt \/ UNCHANGED vars
  <2>1. /\ UNCHANGED <<ticks, curts, lasttxts, sds011cyclestart, lastloopts, transmitinterval,
                       late, measuring, straddled, sinceOn, sinceTx>>
        /\ wdt' \in {0, wdt}
        /\ \/ pc' = pc
           \/ pc \in {"console", "nap", "asleep"} /\ pc' \in {"nap", "asleep", "top"}
    BY <1>1 DEF Console, Sleep, OtherInterrupt, vars, timing, history
  <2>2. Gap' = Gap /\ Since' = Since /\ Phase' = Phase
    BY <2>1, Same
  <2>3. CASE pc = "hung"
    BY <2>1, <2>3 DEF LoopInv
  <2>4. CASE pc # "hung"
    <3>1. StampInv /\ WdtInv /\ TxInv /\ OnInv /\ MeasureInv
      BY <2>4 DEF LoopInv
    <3>2. StampInv' /\ WdtInv'
      BY <2>1, <2>2, <3>1 DEF StampInv, WdtInv, Diff
    <3>3. TxInv' /\ OnInv' /\ MeasureInv'
      BY <2>1, <2>2, <3>1 DEF TxInv, OnInv, MeasureInv, NeverOn, OnCap, NeverTx, TxCap
    <3> QED
      BY <3>2, <3>3 DEF LoopInv
  <2> QED
    BY <2>3, <2>4
<1>2. CASE Hang
  BY <1>2 DEF Hang, LoopInv
<1>3. CASE WatchdogReset
  <2>1. ~measuring'
    BY <1>3, Zenon DEF WatchdogReset
  <2>2. Gap' = 0
    <3>1. 0 \in Stamps
      BY DEF Stamps
    <3>2. Diff(0, 0) = 0
      BY <3>1, DiffFacts
    <3> QED
      BY <1>3, <3>2 DEF WatchdogReset, Gap, Diff
  <2>3. StampInv' /\ WdtInv' /\ TxInv' /\ OnInv'
    BY <1>3, <2>2 DEF WatchdogReset, StampInv, WdtInv, TxInv, OnInv, NeverOn, OnCap, NeverTx, TxCap
  <2> QED
    BY <2>1, <2>3 DEF LoopInv, MeasureInv
<1> QED
  BY <1>1, <1>2, <1>3, LoopInvTick, LoopInvTop, LoopInvSend, LoopInvMeasure
  DEF Next, Loop

THEOREM LoopCorrect == Spec => []LoopInv
<1> QED
  BY LoopInvInit, LoopInvStep, LoopTypeCorrect, PTL DEF Spec

\* The sensor is left on beyond its on time only if a tick came in the middle
\* of a pass since it was switched on.
THEOREM OnTimeCorrect == Spec => []OnTimeKept
<1>1. TypeOK /\ LoopInv => OnTimeKept
  <2> USE TickAssumption, GapType DEF TypeOK
  <2> SUFFICES ASSUME TypeOK, LoopInv, measuring, ~straddled, pc # "hung" PROVE sinceOn <= CYCLEONTIME
    BY DEF OnTimeKept
  <2>1. /\ sinceOn = Phase + Gap /\ late = 0
        /\ lastloopts = curts => Phase < CYCLEONTIME
        /\ lastloopts # curts => Phase <= CYCLEONTIME
    BY DEF LoopInv, MeasureInv
  <2>2. Gap \in {0, 1} /\ (Gap = 1 => lastloopts = curts)
    BY <2>1 DEF LoopInv, StampInv
  <2> QED
    BY <2>1, <2>2
<1> QED
  BY <1>1, LoopCorrect, LoopTypeCorrect, PTL

\* Frames leave 15 to 17 ticks apart, for as long as the station runs, but for
\* the ticks that come in mid-pass.
THEOREM CadenceCorrect == Spec => CadenceKept
<1> DEFINE Kept == INTERVAL <= sinceTx + MaxLate /\ sinceTx <= INTERVAL + 2 + 2 * MaxLate
<1>1. ASSUME TypeOK, LoopInv, [Next]_vars, sinceTx' < sinceTx, sinceTx # NeverTx
      PROVE  Kept
  <2> USE TickAssumption, GapType DEF TypeOK
  <2>1. Send \/ WatchdogReset
    BY <1>1 DEF Next, Loop, Top, SkipSend, MeasureOn, MeasureOff, MeasureWait,
       Console, Sleep, Hang, Tick, Older, OtherInterrupt, vars, history
  <2>2. CASE Send
    <3>1. pc = "send" /\ Since >= transmitinterval
      BY <2>2 DEF Send, SendDue, Since
    <3>2. /\ sinceTx <= Since + Gap /\ Since + Gap <= sinceTx + MaxLate
          /\ Since <= transmitinterval + MaxLate
      BY <1>1, <3>1 DEF LoopInv, TxInv
    <3>3. Gap <= MaxLate
      BY <1>1, <3>1 DEF LoopInv, StampInv
    <3> QED
      BY <1>1, <3>1, <3>2, <3>3 DEF Intervals
  <2>3. CASE WatchdogReset
    BY <1>1, <2>3 DEF WatchdogReset, NeverTx, TxCap
  <2> QED
    BY <2>1, <2>2, <2>3
<1>2. TypeOK /\ LoopInv /\ [Next]_vars => [sinceTx' < sinceTx /\ sinceTx # NeverTx => Kept]_vars
  BY <1>1
<1> QED
  BY <1>2, LoopTypeCorrect, LoopCorrect, PTL DEF Spec, CadenceKept

\* The sensor's cycles follow each other without a gap or an overlap, but for
\* the ticks that come in mid-pass.
THEOREM CycleCorrect == Spec => CycleKept
<1> DEFINE Kept == CYCLELENGTH <= sinceOn + MaxLate /\ sinceOn <= CYCLELENGTH + 2 * MaxLate
<1>1. ASSUME TypeOK, LoopInv, [Next]_vars, sinceOn' < sinceOn, sinceOn # NeverOn
      PROVE  Kept
  <2> USE TickAssumption, GapType DEF TypeOK
  <2>1. MeasureOn \/ WatchdogReset
    BY <1>1 DEF Next, Loop, Top, Send, SkipSend, MeasureOff, MeasureWait,
       Console, Sleep, Hang, Tick, Older, OtherInterrupt, vars, history
  <2>2. CASE MeasureOn
    <3>1. pc = "measure" /\ Phase >= CYCLELENGTH
      BY <2>2 DEF MeasureOn, CycleOver
    <3>2. /\ sinceOn <= Phase + Gap /\ Phase + Gap <= sinceOn + MaxLate
          /\ Phase <= CYCLELENGTH + MaxLate
      BY <1>1, <3>1 DEF LoopInv, OnInv
    <3>3. Gap <= MaxLate
      BY <1>1, <3>1 DEF LoopInv, StampInv
    <3> QED
      BY <1>1, <3>1, <3>2, <3>3
  <2>3. CASE WatchdogReset
    BY <1>1, <2>3 DEF WatchdogReset, NeverOn, OnCap
  <2> QED
    BY <2>1, <2>2, <2>3
<1>2. TypeOK /\ LoopInv /\ [Next]_vars => [sinceOn' < sinceOn /\ sinceOn # NeverOn => Kept]_vars
  BY <1>1
<1> QED
  BY <1>2, LoopTypeCorrect, LoopCorrect, PTL DEF Spec, CycleKept

\* Nothing but a hung radio lets the watchdog restart the station, as long as
\* it allows for the ticks of a pass and the one of the sleep before.
THEOREM WatchdogCorrect == ASSUME MaxLate + 1 < WDTICKS PROVE Spec => WatchdogQuiet
<1>1. TypeOK /\ LoopInv => (wdt = WDTICKS => pc = "hung")
  <2> SUFFICES ASSUME TypeOK, LoopInv, pc # "hung" PROVE wdt # WDTICKS
    OBVIOUS
  <2>1. wdt <= Gap /\ Gap <= MaxLate + 1
    BY TickAssumption DEF LoopInv, WdtInv, StampInv, TypeOK
  <2> QED
    BY <2>1, TickAssumption, GapType DEF TypeOK
<1>2. TypeOK /\ LoopInv /\ [Next]_vars
      => [wdt = WDTICKS /\ wdt' = 0 => pc = "hung"]_vars
  BY <1>1
<1> QED
  BY <1>2, LoopCorrect, LoopTypeCorrect, PTL DEF Spec, WatchdogQuiet
=============================================================================

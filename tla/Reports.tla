------------------------------ MODULE Reports ------------------------------
(* How old what the reporter posts may be: the station's transmissions and  *)
(* its dust cycle, frames that get lost, FHEM's readings with their time    *)
(* stamps, and report-fhemdata-to-luftdaten-info-api.pl run by cron.        *)
(*                                                                          *)
(* The station is what modules Transmit, Sds011Rx and MainLoop show of it:  *)
(* a frame carries the climate and the pressure measured since the start    *)
(* commands of an earlier pass, or marks them invalid, and the last dust    *)
(* reading, however old.  A start command or a reading transaction may be   *)
(* cut short, and a dust cycle may bring no reading.  Time passes in Tick;  *)
(* ages stop at OLD, those of time stamps at LATE.                          *)
EXTENDS Naturals

CONSTANTS INTERVAL,   \* ticks between two frames
          CYCLE,      \* ticks between two dust readings
          MAXAGE,     \* $maxage
          TIMEOUT,    \* longest time one run spends posting
          MAXMISSED,  \* bound: failures in a row to start or to get one measurement
          MayFail,    \* sensors whose measurement may fail now and then
          MaySilence, \* sensors that may stop working for good
          MayRestart, \* whether the watchdog may restart the station
          Climates,   \* what the SHT31 may measure: "warm", "frost" (below 0)
          None

ASSUME Times == /\ {INTERVAL, CYCLE, MAXAGE} \subseteq Nat \ {0}
                /\ TIMEOUT \in Nat /\ MAXMISSED \in Nat
ASSUME Weather == Climates \subseteq {"warm", "frost"} /\ None \notin {"warm", "frost"}

VARIABLES sinceTx,    \* ticks since the last transmitting pass
          held,       \* SHT31, LPS25HB: age of the result not yet read, or None
          sinceDust,  \* ticks since the end of the last dust cycle
          dust,       \* age of the last dust reading, or None
          missed,     \* history: failures in a row to start a measurement, or to get the dust's
          dead,       \* sensors that have stopped working
          readings,   \* FHEM: [value, stamp (its age), overdue (history)] of each, or None
          pc,         \* reporter: next step
          list,       \* reporter: what it has read
          busy,       \* reporter: time since time() was called
          posted      \* what the last step of a run posted

vars == <<sinceTx, held, sinceDust, dust, missed, dead, readings, pc, list, busy, posted>>

station  == <<sinceTx, held, sinceDust, dust, missed, dead>>
reporter == <<pc, list, busy, posted>>

OnBus == {"climate", "pressure"}

Sensors == OnBus \cup {"dust"}

Nothing == [s \in Sensors |-> None]

\* Ticks between two measurements.
Span(s) == IF s = "dust" THEN CYCLE ELSE INTERVAL

OLD == (MAXMISSED + 1) * (IF INTERVAL < CYCLE THEN CYCLE ELSE INTERVAL) + 1

LATE == MAXAGE + TIMEOUT + 1

\* One tick later.
Older(a) == IF a = None THEN None ELSE IF a < OLD THEN a + 1 ELSE OLD

Aged(r) == IF r = None THEN None ELSE [r EXCEPT !.stamp = IF @ < LATE THEN @ + 1 ELSE LATE]

Init ==
  /\ sinceTx = INTERVAL /\ held = [s \in OnBus |-> None]
  /\ sinceDust = 0 /\ dust = None
  /\ missed = [s \in Sensors |-> 0]
  /\ dead = {}
  /\ readings = Nothing
  /\ pc = "cron" /\ list = Nothing
  /\ busy = 0 /\ posted = {}

-----------------------------------------------------------------------------
\* The end of the on time of a cycle, when the sensor sends its reading.  There
\* is none if main() misses the tick and requests nothing, or if the packet is
\* lost or damaged on the line.
Measure(arrives) ==
  /\ sinceDust = CYCLE
  /\ IF arrives THEN "dust" \notin dead
                ELSE "dust" \in dead \/ ("dust" \in MayFail /\ missed["dust"] < MAXMISSED)
  /\ sinceDust' = 0
  /\ dust' = IF arrives THEN 0 ELSE dust
  /\ missed' = [missed EXCEPT !["dust"] = IF arrives THEN 0 ELSE IF "dust" \in dead THEN @ ELSE @ + 1]
  /\ UNCHANGED <<sinceTx, held, dead, readings, reporter>>

\* A value of s measured this long ago is older than its failures account for:
\* each of them costs one more interval or cycle.
Overdue(s, age) == age > (missed[s] + 1) * Span(s)

\* A valid value of s that FHEM receives.
Valid(s, v, overdue) ==
  [value |-> IF s = "climate" THEN v ELSE "warm", stamp |-> 0, overdue |-> overdue]

\* The readings a frame updates: what it marks invalid keeps its old value
\* and time stamp (36_...pm:232-246).
Update(v, got) ==
  [s \in Sensors |->
     CASE s = "dust" /\ dust # None        -> Valid(s, v, s \notin dead /\ Overdue(s, dust))
       [] s # "dust" /\ got[s] = "result"  -> Valid(s, v, Overdue(s, held[s]))
       [] s # "dust" /\ got[s] = "noise"   -> Valid(s, v, FALSE)
       [] OTHER                            -> readings[s]]

\* The transmitting pass: main() reads the sensors, starts the next
\* measurements, sends.  A reading gets the result, which it uses up, or
\* nothing valid, or, if it is cut, what looks valid all the same (module
\* Transmit has the details); a result that was not got may be kept.  The
\* sensors in begun got the command to start.  The frame is received or lost.
Transmit ==
  /\ sinceTx = INTERVAL /\ sinceTx' = 0
  /\ \E got \in [OnBus -> {"result", "nothing", "noise"}], begun \in SUBSET (OnBus \ dead) :
       /\ \A s \in OnBus :
            /\ got[s] = "result" => held[s] # None
            /\ held[s] # None /\ got[s] = "nothing" => s \in MayFail
            /\ got[s] = "noise" => s \in MayFail
            /\ s \notin begun => s \in dead \/ (s \in MayFail /\ missed[s] < MAXMISSED)
       /\ missed' = [s \in Sensors |-> IF s \in begun THEN 0 ELSE IF s \in OnBus \ dead THEN missed[s] + 1 ELSE missed[s]]
       /\ \E kept \in SUBSET OnBus :
            held' = [s \in OnBus |-> IF s \in begun THEN 0 ELSE IF s \in kept /\ got[s] # "result" THEN held[s] ELSE None]
       /\ \E v \in Climates, received \in BOOLEAN :
            readings' = IF received THEN Update(v, got) ELSE readings
  /\ UNCHANGED <<sinceDust, dust, dead, reporter>>

\* The watchdog restarts the station: it transmits at once, has no dust
\* reading, and is anywhere in its cycle; the sensors keep their results.
Restart ==
  /\ MayRestart
  /\ sinceTx' = INTERVAL
  /\ sinceDust' \in 0 .. CYCLE
  /\ dust' = None
  /\ missed' = [missed EXCEPT !["dust"] = 0]
  /\ UNCHANGED <<held, dead, readings, reporter>>

\* A sensor stops working, and what it holds will not be read any more.
Silence(s) ==
  /\ s \in MaySilence \ dead
  /\ dead' = dead \cup {s}
  /\ held' = [t \in OnBus |-> IF t = s THEN None ELSE held[t]]
  /\ missed' = [missed EXCEPT ![s] = 0]
  /\ UNCHANGED <<sinceTx, sinceDust, dust, readings, reporter>>

-----------------------------------------------------------------------------
\* The lines of t the regular expression matches: its value is digits and dots,
\* so that of a temperature below 0 does not match.  (Every sensor but the
\* SHT31 has one value here; the SHT31's two lines are told apart.)
Matched(t) == {s \in Sensors : t[s] # None}

TemperatureMatches == list["climate"] # None /\ list["climate"].value = "warm"

\* Faulty: one recent line is enough.
Bug_Current(t) == \E s \in Matched(t) : t[s].stamp <= MAXAGE

\* Faulty: the comparison the wrong way round.
Bug_CurrentSwapped(t) == \A s \in Matched(t) : t[s].stamp > MAXAGE

\* The oldest of the time stamps of the matched lines; a humidity's is that
\* of the temperature it came with.
Current(t) == Matched(t) # {} /\ \A s \in Matched(t) : t[s].stamp <= MAXAGE

\* cron starts the script, at any time after its last run.  "list" is answered at
\* once, FHEM runs one thing at a time, and time() is called before a tick
\* passes.  Everything is "too old" if one line is.
TooOld ==
  /\ pc = "cron"
  /\ ~Current(readings)
  /\ posted' = {}
  /\ UNCHANGED <<station, readings, pc, list, busy>>

Fresh ==
  /\ pc = "cron"
  /\ Current(readings)
  /\ list' = readings
  /\ posted' = {}
  /\ pc' = "dust"
  /\ UNCHANGED <<station, readings, busy>>

\* Both services are posted to; whether one refuses changes nothing.
PostDust ==
  /\ pc = "dust"
  /\ posted' = IF "dust" \in Matched(list) THEN {"dust"} ELSE {}
  /\ pc' = "climate"
  /\ UNCHANGED <<station, readings, list, busy>>

PostClimate ==
  /\ pc = "climate"
  /\ posted' = IF OnBus \subseteq Matched(list) /\ TemperatureMatches
                 THEN OnBus ELSE {}
  /\ pc' = "cron" /\ list' = Nothing /\ busy' = 0
  /\ UNCHANGED <<station, readings>>

-----------------------------------------------------------------------------
\* Time passes unless something is due.
Tick ==
  /\ sinceTx < INTERVAL /\ sinceDust < CYCLE
  /\ pc # "cron" => busy < TIMEOUT
  /\ sinceTx' = sinceTx + 1 /\ sinceDust' = sinceDust + 1
  /\ held' = [s \in OnBus |-> Older(held[s])] /\ dust' = Older(dust)
  /\ readings' = [s \in Sensors |-> Aged(readings[s])]
  /\ list' = [s \in Sensors |-> Aged(list[s])]
  /\ busy' = IF pc # "cron" THEN busy + 1 ELSE busy
  /\ UNCHANGED <<missed, dead, pc, posted>>

Report == TooOld \/ Fresh \/ PostDust \/ PostClimate

Next ==
  \/ \E arrives \in BOOLEAN : Measure(arrives)
  \/ Transmit
  \/ Restart
  \/ \E s \in Sensors : Silence(s)
  \/ Report
  \/ Tick

Fairness ==
  /\ WF_vars(Tick)
  /\ WF_vars(\E arrives \in BOOLEAN : Measure(arrives))
  /\ WF_vars(Transmit)
  /\ WF_vars(Report)

Spec == Init /\ [][Next]_vars

FairSpec == Spec /\ Fairness

-----------------------------------------------------------------------------
(* Properties.                                                              *)

\* What is posted was received at most $maxage and the time of posting ago.
\* If a sensor on the bus measured it, that was an interval before at most, and
\* one interval more for each start command in a row that was cut; as long as
\* the dust sensor works, the dust was measured a cycle before at most, and one
\* cycle more for each in a row that brought no reading (main.c:203-222, 251,
\* report-...pl:63).
FreshPosts ==
  [][\A s \in posted' \ posted : list[s].stamp <= MAXAGE + TIMEOUT /\ ~list[s].overdue]_vars

\* Nothing goes wrong in this step: no restart; a pass gets every result there
\* is, starts every measurement and its frame is received; a dust cycle brings
\* a reading.
Undisturbed ==
  /\ ~Restart
  /\ sinceTx = INTERVAL /\ sinceTx' = 0 =>
       \A s \in OnBus :
         /\ held'[s] = 0
         /\ held[s] # None => readings'[s] # None /\ readings'[s].stamp = 0
  /\ sinceDust = CYCLE /\ sinceDust' = 0 => dust' = 0

\* If the sensors work, and from some time on nothing is restarted, cut short,
\* missed or lost, dust is posted for ever, in any weather; and if it is warm,
\* climate too.
KeepsReporting ==
  [](dead = {}) /\ <>[][Undisturbed]_vars =>
    /\ []<>("dust" \in posted)
    /\ <>[](readings["climate"] # None /\ readings["climate"].value = "warm") => []<>("climate" \in posted)

\* "requests the current sensordata from FHEM and (if there IS current data)
\* then reports it": readings of SHT31 and LPS25HB that are all current are
\* posted.
CurrentClimatePosted ==
  [][pc = "climate" /\ pc' = "cron" /\ OnBus \subseteq Matched(list) => "climate" \in posted']_vars
=============================================================================

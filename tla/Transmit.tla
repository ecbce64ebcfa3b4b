------------------------------ MODULE Transmit ------------------------------
(* One pass of the transmitting branch of main() after the other: the       *)
(* transactions with the SHT31 and the LPS25HB over the TWI bus, the frame, *)
(* the RFM69 radio, the disturbed air, and the receiving end.               *)
(*                                                                          *)
(* A transaction may be cut short at any byte: the sensor stops answering,  *)
(* and waitforcompl() gives up after 200 polls.  The bytes that are read    *)
(* from then on are 0xff (nobody drives the bus) or what TWDR held before   *)
(* (no byte was clocked).  If the START condition itself never comes about, *)
(* the address is not even written to TWDR.  A cut in one of the two start  *)
(* commands means that no measurement is started.                           *)
EXTENDS Frame

CONSTANTS Climates,   \* <<temperature, humidity>> the SHT31 may measure, raw
          Pressures,  \* pressures the LPS25HB may measure, raw
          Dusts,      \* <<pm2_5, pm10>> the SDS011's driver may return
          Batteries,  \* values of adc_read() >> 2
          Eeproms,    \* <<ee_sensorid, ee_invsensorid>> at boot
          Beyond,     \* bytes that may follow frametosend in memory
          Held,       \* bytes an earlier transaction may have left in TWDR
          Registers,  \* what the LPS25HB may send from another register on
          Bursts,     \* what the air may do to a frame: bits that are turned over
          None

Byte == 0 .. 255
Word == {n \in Nat : n < 65536}
Raw24 == {n \in Nat : n < 16777216}

ASSUME NoneNotValue == None \notin Climates /\ None \notin Pressures
ASSUME SensorValues == Climates \subseteq Word \X Word /\ Pressures \subseteq Raw24 /\ Dusts \subseteq Word \X Word
ASSUME OtherBytes == Batteries \subseteq Byte /\ Eeproms \subseteq Byte \X Byte /\ Beyond \subseteq Byte
ASSUME BusBytes == Held \subseteq Byte /\ Registers \subseteq Byte \X Byte \X Byte \X Byte

\* A disturbance of the air is short: it spans up to 8 bits.
ASSUME BurstAssumption == \A b \in Bursts : b \subseteq Nat /\ \A p, q \in b : p - q < 8

VARIABLES pc,          \* next step of the pass
          sht,         \* result waiting in the SHT31, or None
          lps,         \* pressure in the LPS25HB's registers, and whether it is new
          last,        \* "the values last measured", with the identity
          radio,       \* RFM69's mode
          air,         \* what was sent and is about to be received, or None
          msg,         \* the message the receiver has parsed in this interval, or None
          readings,    \* the readings that message updated
          climateTaken,  \* history: what the SHT31 began to measure in the last pass
          pressureTaken, \* history: the same of the LPS25HB
          undisturbed, \* history: no transaction that reads was cut in this pass
          silent       \* history: the sensors that did not send a byte in this pass

vars == <<pc, sht, lps, last, radio, air, msg, readings,
          climateTaken, pressureTaken, undisturbed, silent>>

chips   == <<sht, lps>>
history == <<climateTaken, pressureTaken, undisturbed, silent>>
link    == <<radio, air, msg, readings>>

\* The variables of main.c at boot.
Boot(e) == [sensorid |-> LoadSettings(e[1], e[2]), pressure |-> 0, temperature |-> 0,
            humidity |-> 0, pm2_5 |-> 65535, pm10 |-> 65535, batvolt |-> 0]

Init ==
  /\ pc = "climate"
  /\ sht = None
  /\ lps = [value |-> 0, new |-> FALSE]
  /\ last \in {Boot(e) : e \in Eeproms}
  /\ radio = "sleep"
  /\ air = None /\ msg = None /\ readings = {}
  /\ climateTaken = None /\ pressureTaken = None
  /\ undisturbed = TRUE /\ silent = {}

-----------------------------------------------------------------------------
\* What twi_read() returns for the bytes of good if the sensor answers for
\* the first n only; addr is in TWDR after twi_open().
Cut(good, n, addr, floats) ==
  LET held == IF n = 0 THEN addr ELSE good[n]
  IN  [i \in 1 .. Len(good) |-> IF i <= n THEN good[i] ELSE IF floats THEN 255 ELSE held]

SHT3X_READ   == 137   \* SHT3X_I2C_ADDR | I2C_READ
LPS25HB_READ == 185   \* LPS25HB_I2C_ADDR | I2C_READ
STATUS_REG   == 167   \* LPS25HB_STATUS_REG | I2C_AUTOINCREGADDR

\* What n calls of twi_read() return if the wait for START was given up: TWDR
\* cannot be written then, and keeps what it held before twi_open().
Unstarted(n, byte) == [i \in 1 .. n |-> byte]

\* The six bytes of the SHT31: two values, each with its checksum.
Sht3xBytes(c) ==
  LET hi(v) == v \div 256
      lo(v) == v % 256
  IN  <<hi(c[1]), lo(c[1]), Sht3xCrc(hi(c[1]), lo(c[1])), hi(c[2]), lo(c[2]), Sht3xCrc(hi(c[2]), lo(c[2]))>>

\* Faulty: the checksum of the humidity is not compared.
Bug_Sht3xValid(b) == Sht3xCrc(b[1], b[2]) = b[3]

Sht3xValid(b) == Sht3xCrc(b[1], b[2]) = b[3] /\ Sht3xCrc(b[4], b[5]) = b[6]

\* sht3x_read() with these bytes, and main()'s use of the result.
StoreClimate(b) ==
  last' = IF Sht3xValid(b)
            THEN [last EXCEPT !.temperature = 256 * b[1] + b[2], !.humidity = 256 * b[4] + b[5]]
            ELSE [last EXCEPT !.temperature = 65535, !.humidity = 65535]

\* The sensor answers, and its result is used up.  It does not acknowledge
\* its address when there is no result.
ReadClimate ==
  /\ pc = "climate"
  /\ sht # None
  /\ StoreClimate(Sht3xBytes(sht))
  /\ sht' = None
  /\ pc' = "pressure"
  /\ UNCHANGED <<lps, history, link>>

\* The sensor answers for n bytes only, or there is no result; the sensor
\* may or may not still hold what was not read.
ReadClimateCut(n, floats, keeps) ==
  /\ pc = "climate"
  /\ sht = None => n = 0
  /\ StoreClimate(Cut(IF sht = None THEN <<0, 0, 0, 0, 0, 0>> ELSE Sht3xBytes(sht), n, SHT3X_READ, floats))
  /\ sht' = IF keeps THEN sht ELSE None
  /\ pc' = "pressure"
  /\ silent' = IF n = 0 THEN {"sht"} ELSE {}
  /\ undisturbed' = (sht = None)
  /\ UNCHANGED <<lps, climateTaken, pressureTaken, link>>

\* There was no START, and the sensor has seen nothing.
ReadClimateUnstarted(byte) ==
  /\ pc = "climate"
  /\ StoreClimate(Unstarted(6, byte))
  /\ pc' = "pressure"
  /\ silent' = {"sht"}
  /\ undisturbed' = FALSE
  /\ UNCHANGED <<chips, climateTaken, pressureTaken, link>>

\* STATUS_REG and the three bytes of the pressure; only its bit 1 matters.
Lps25hbBytes(l) ==
  <<IF l.new THEN 2 ELSE 0, l.value % 256, (l.value \div 256) % 256, l.value \div 65536>>

Lps25hbValid(b) == (b[1] \div 2) % 2 = 1

\* lps25hb_read() with these bytes, and main()'s use of the result.
StorePressure(b) ==
  last' = [last EXCEPT !.pressure = IF Lps25hbValid(b) THEN 65536 * b[4] + 256 * b[3] + b[2] ELSE 16777215]

ReadPressure ==
  /\ pc = "pressure"
  /\ StorePressure(Lps25hbBytes(lps))
  /\ lps' = [lps EXCEPT !.new = FALSE]
  /\ pc' = "dust"
  /\ UNCHANGED <<sht, history, link>>

\* The second transaction is cut after n bytes.
ReadPressureCut(n, floats, keeps) ==
  /\ pc = "pressure"
  /\ StorePressure(Cut(Lps25hbBytes(lps), n, LPS25HB_READ, floats))
  /\ lps' = [lps EXCEPT !.new = @ /\ keeps]
  /\ pc' = "dust"
  /\ silent' = IF n = 0 THEN silent \cup {"lps"} ELSE silent
  /\ undisturbed' = FALSE
  /\ UNCHANGED <<sht, climateTaken, pressureTaken, link>>

\* The second transaction never begins: the byte is the number of the
\* register, or an older one if the first did not begin either.
ReadPressureUnstarted(byte) ==
  /\ pc = "pressure"
  /\ StorePressure(Unstarted(4, byte))
  /\ pc' = "dust"
  /\ silent' = silent \cup {"lps"}
  /\ undisturbed' = FALSE
  /\ UNCHANGED <<chips, climateTaken, pressureTaken, link>>

\* The first transaction is cut: the sensor sends b, from wherever its register
\* pointer was left: at CTRL_REG2 (0) by lps25hb_startmeas(), at RES_CONF (3,
\* which looks valid) by lps25hb_init(), elsewhere by an earlier cut.
ReadPressureWrongRegister(b, keeps) ==
  /\ pc = "pressure"
  /\ StorePressure(b)
  /\ lps' = [lps EXCEPT !.new = @ /\ keeps]
  /\ pc' = "dust"
  /\ undisturbed' = FALSE
  /\ UNCHANGED <<sht, climateTaken, pressureTaken, silent, link>>

\* sds011_getlastpm2_5() and sds011_getlastpm10(); module Sds011Rx has the
\* details.  The battery voltage was being converted meanwhile.
ReadDust(d, bat) ==
  /\ pc = "dust"
  /\ last' = [last EXCEPT !.pm2_5 = d[1], !.pm10 = d[2], !.batvolt = bat]
  /\ pc' = "startclimate"
  /\ UNCHANGED <<chips, history, link>>

\* Faulty: no new measurement is started after a reading that failed.
Bug_StartClimate(c) ==
  /\ pc = "startclimate"
  /\ sht' = IF c = None \/ last.temperature = 65535 THEN sht ELSE c
  /\ climateTaken' = c
  /\ pc' = "startpressure"
  /\ undisturbed' = TRUE /\ silent' = {}
  /\ UNCHANGED <<lps, last, pressureTaken, link>>

\* sht3x_startmeas(): the measurement of c begins, or the command was cut.
StartClimate(c) ==
  /\ pc = "startclimate"
  /\ sht' = IF c = None THEN sht ELSE c
  /\ climateTaken' = c
  /\ pc' = "startpressure"
  /\ undisturbed' = TRUE /\ silent' = {}
  /\ UNCHANGED <<lps, last, pressureTaken, link>>

\* lps25hb_startmeas().
StartPressure(p) ==
  /\ pc = "startpressure"
  /\ lps' = IF p = None THEN lps ELSE [value |-> p, new |-> TRUE]
  /\ pressureTaken' = p
  /\ pc' = "wake"
  /\ UNCHANGED <<sht, last, climateTaken, undisturbed, silent, link>>

-----------------------------------------------------------------------------
\* rfm69_setsleep(0) returns: the radio is ready.
Wake ==
  /\ pc = "wake"
  /\ radio' = "standby"
  /\ pc' = "send"
  /\ UNCHANGED <<chips, last, air, msg, readings, history>>

\* The radio never reports that it is ready, and the watchdog restarts the
\* program: rfm69_initport() resets the radio and rfm69_setsleep(1) puts it
\* to sleep; the sensors and the EEPROM keep what they hold.
HangAndRestart ==
  /\ pc = "wake"
  /\ last' = [Boot(<<0, 0>>) EXCEPT !.sensorid = last.sensorid]
  /\ radio' = "sleep"
  /\ pc' = "climate"
  /\ UNCHANGED <<chips, air, msg, readings, history>>

\* prepareframe() and rfm69_sendarray(frametosend, 18): the byte behind the
\* frame is sent too.
SendArray(byte) ==
  /\ pc = "send"
  /\ air' = PrepareFrame(last) \cup Positions(BitsOf[byte], 17)
  /\ radio' = "standby"
  /\ pc' = "sleep"
  /\ UNCHANGED <<chips, last, msg, readings, history>>

\* The transmission is not over after 10000 polls; setting the mode to
\* standby breaks it off, and nothing complete is received.
SendTimedOut ==
  /\ pc = "send"
  /\ radio' = "standby"
  /\ pc' = "sleep"
  /\ UNCHANGED <<chips, last, air, msg, readings, history>>

\* The receiver gets the frame with the bits of burst turned over.
Receive(burst) ==
  /\ air # None
  /\ LET bits == Xor(air, burst)
         m    == Message(bits)
     IN  IF Accepts(bits, 18) /\ Matches(m)
           THEN msg' = m /\ readings' = Parse(m)
           ELSE UNCHANGED <<msg, readings>>
  /\ air' = None
  /\ UNCHANGED <<pc, chips, last, radio, history>>

Lost ==
  /\ air # None
  /\ air' = None
  /\ UNCHANGED <<pc, chips, last, radio, msg, readings, history>>

\* rfm69_setsleep(1); the next pass comes an interval later, when the frame
\* has been received or is lost.
RadioSleep ==
  /\ pc = "sleep"
  /\ air = None
  /\ radio' = "sleep"
  /\ pc' = "climate"
  /\ msg' = None /\ readings' = {}
  /\ UNCHANGED <<chips, last, air, history>>

Next ==
  \/ ReadClimate
  \/ \E n \in 0 .. 5, floats \in BOOLEAN, keeps \in BOOLEAN : ReadClimateCut(n, floats, keeps)
  \/ \E byte \in Held : ReadClimateUnstarted(byte)
  \/ ReadPressure
  \/ \E n \in 0 .. 3, floats \in BOOLEAN, keeps \in BOOLEAN : ReadPressureCut(n, floats, keeps)
  \/ \E byte \in Held \cup {STATUS_REG} : ReadPressureUnstarted(byte)
  \/ \E b \in Registers, keeps \in BOOLEAN : ReadPressureWrongRegister(b, keeps)
  \/ \E d \in Dusts, bat \in Batteries : ReadDust(d, bat)
  \/ \E c \in Climates \cup {None} : StartClimate(c)
  \/ \E p \in Pressures \cup {None} : StartPressure(p)
  \/ Wake
  \/ HangAndRestart
  \/ \E byte \in Beyond : SendArray(byte)
  \/ SendTimedOut
  \/ \E burst \in Bursts : Receive(burst)
  \/ Lost
  \/ RadioSleep

Spec == Init /\ [][Next]_vars

-----------------------------------------------------------------------------
(* Properties.                                                              *)

Sampled == pc \in {"dust", "startclimate"}

\* If no reading transaction of the pass was cut, the values main() holds
\* are those whose measurement was started in the pass before, also after a
\* restart in between (main.c:203, 212, 222).  If the start command was cut,
\* nothing is said: a result that was not read before may be sent then,
\* however old.
FreshValues ==
  Sampled /\ undisturbed =>
    /\ climateTaken # None => <<last.temperature, last.humidity>> = climateTaken
    /\ pressureTaken # None => last.pressure = pressureTaken

\* What passes for a measurement of c when its transmission is cut, though
\* the sensor did not send it.  The checksums cannot tell: 0x2b is that of
\* 0x2b and 0x2b (TWDR read over and over), and 0xff that of 0xa3 and 0xff.
Misread(c, t, h) ==
  \/ t = c[1] /\ h = 11051 /\ 43 \in {Sht3xCrc(c[1] \div 256, c[1] % 256), c[2] \div 256}
  \/ t = 11051 /\ h = 11051 /\ c[1] \div 256 = 43
  \/ t = c[1] /\ h = 41983 /\ c[2] \div 256 = 163

\* One byte three times over, read behind a status of the same byte that has
\* its bit 1 set: 0xa7 is such a byte.
Echoes == {65793 * byte : byte \in {b \in Held \cup {STATUS_REG} : (b \div 2) % 2 = 1}}

\* Whatever byte a transaction is cut at, temperature and humidity are one
\* measurement of the SHT31 or both marked invalid, but for the bytes that are
\* their own checksum; a LPS25HB that sends nothing leaves the pressure marked
\* invalid, unless START did not come about and TWDR held a byte that looks
\* like a valid status: then it is that byte three times, 0xa7a7a7 if the
\* first transaction went well (twi.c:28, 38-40, sht3x.c:85, lps25hb.c:55-59).
OnlyMeasured ==
  Sampled =>
    /\ \/ last.temperature = 65535 /\ last.humidity = 65535
       \/ last.temperature = 11051 /\ last.humidity = 11051 /\ 43 \in Held
       \/ \E c \in Climates : \/ <<last.temperature, last.humidity>> = c
                              \/ Misread(c, last.temperature, last.humidity)
    /\ "lps" \in silent => last.pressure \in Echoes \cup {16777215}

\* The unit of each reading: one unit of r is num/den units of the raw value,
\* offset by zero: 1/4096 hPa (36_...pm:177), 175/65535 degrees from -45 and
\* 100/65535 percent (README.md:101-111).  The comments in main.c:28-33 and
\* 36_...pm:149-155 name other units, with which neither program computes.
Near(r, zero, raw, num, den) == den * (r - zero) - num * raw \in -(den \div 2 + 1) .. den \div 2 + 1

ReadingTrue(name, r) ==
  CASE name = "pressure"    -> Near(r, 0, last.pressure, 125, 512)
    [] name = "temperature" -> Near(r, -4500, last.temperature, 3500, 13107)
    [] name = "humidity"    -> Near(r, 0, last.humidity, 200, 13107)
    [] name = "pm2_5"       -> r = last.pm2_5
    [] name = "pm10"        -> r = last.pm10
    [] name = "batvolt"     -> r = 11 * last.batvolt

\* The readings main()'s values stand for: 0xffff and 0xffffff stand for
\* none, and FHEM takes what is outside a reading's range for none.
Valid ==
  (IF last.pressure > 409602 /\ last.pressure # 16777215 THEN {"pressure"} ELSE {}) \cup
  (IF last.temperature < 54299 THEN {"temperature"} ELSE {}) \cup
  (IF last.temperature # 65535 THEN {"humidity"} ELSE {}) \cup
  (IF last.pm2_5 < 10000 THEN {"pm2_5"} ELSE {}) \cup
  (IF last.pm10 < 10000 THEN {"pm10"} ELSE {}) \cup
  (IF last.batvolt \in 1 .. 227 THEN {"batvolt"} ELSE {})

\* Whatever the air does to a frame, a message the receiver takes carries
\* the identity and the values main() sent, with every invalid value left
\* out and every valid one in its own unit (main.c:103, 36_...pm:160-249).
ReadingsTrue ==
  msg # None =>
    /\ msg[1] = last.sensorid
    /\ {r[1] : r \in readings} = Valid
    /\ \A r \in readings : ReadingTrue(r[1], r[2])

\* A frame with an ordinary value in every field, as it is sent with a byte 0
\* behind it.  One frame is enough for the checksum, which is linear: what a
\* burst does to it does not depend on the frame.
Sample == PrepareFrame([sensorid |-> 71, pressure |-> 4144100, temperature |-> 25000, humidity |-> 33000,
                        pm2_5 |-> 123, pm10 |-> 4567, batvolt |-> 112])

\* Every disturbance of up to 8 neighbouring bits, anywhere in the frame, is
\* noticed: by the start byte, the length, the checksum, or by FHEM's
\* regular expression (main.c:61, 36_...pm:20).
BurstsDetected ==
  air = Sample =>
    \A at \in 0 .. 135, tail \in SUBSET (1 .. 7) :
      LET bits == Xor(air, {at} \cup {q \in {at + k : k \in tail} : q < 136})
      IN  ~(Accepts(bits, 18) /\ Matches(Message(bits)))
=============================================================================

# Verification of the foxstaub2018 air quality station

TLA+ models of the firmware of foxstaub2018 (a solar powered particulate matter
station on an ATmega32U4), checked with TLC and, where an instance is not
enough, proved with TLAPS. File and line numbers refer to the repository.

## 1. The system

One AVR controller, no operating system: `main()` initialises everything with
interrupts off, then loops for ever. Four interrupt handlers run between any
two of its instructions while interrupts are on. An SDS011 dust sensor hangs on
the USART, an SHT31 and an LPS25HB on the TWI bus, an RFM69 radio on SPI, a
console on USB (LUFA, vendored). Away from the station, a FHEM module decodes
the frames a Jeelink receives and a Perl script posts the readings.

| Component | State | Operations | Interacts with | What is hard |
|---|---|---|---|---|
| SDS011 transmit (`sds011.c`) | ring of 60 bytes, head, tail, `opinprog` | `appendchar`, `sendsds011cmd`, transmit-complete ISR, `sds011_requestresult`, `sds011_setmeasurements` | main loop calls it; the USART interrupts it | three-step start of output against the ISR, overflow |
| SDS011 receive (`sds011.c`) | packet buffer, `inputpos`, `pm2_5`, `pm10` | receive ISR, getters | sensor; main loop reads; prints errors to the console | lost bytes, resynchronisation, 16 bit reads on 8 bits |
| Main loop, ticks (`main.c`, `timers.c`) | tick count, four time stamps, transmit interval, watchdog | one pass of the loop; overflow ISR | everything | wrap of the counter, a tick in mid-pass, sleep, watchdog |
| Console editor (`lufa/console.c`) | `inputbuf`, `inputpos`, `escstatus` | `console_inputchar` | host's keys; echoes into the ring | what is shown against what is stored, unbounded recall |
| Console ring (`lufa/console.c`) | ring of 800 characters, head, tail | `appendchar`, print functions, `CDC_Task`, disconnect | main loop and ISRs print; USB interrupt resets it | prints from interrupts, disconnect while a packet is collected |
| Frame, identity (`main.c`, `eeprom.c`) | last values, `sensorid`, frame | `prepareframe`, CRC, EEPROM check | sensors, radio, receiver | field layout shared with the receiver |
| Radio (`rfm69.c`) | chip mode, FIFO | set-up, `sendarray`, `setsleep` | main loop | waits with and without a limit |
| TWI, SHT31, LPS25HB, ADC | bus, chips | transactions, start/read | main loop; prints on a timeout | partial failure, readings one interval old |
| USB device stack (LUFA) | device state, endpoints | two ISRs, control requests | calls the console's events | nested interrupts |
| FHEM module (`36_...pm`) | table of devices, readings | define, undefine, parse | Jeelink, reporter | address forms, invalid values |
| Reporter (`report-...pl`) | none between runs | one run | FHEM, two web services | stale and missing readings |

What makes each of them correct:

- *SDS011 transmit*: whole commands reach the sensor, in order, each byte once;
  output never stalls; `appendchar` runs with interrupts off.
- *SDS011 receive*: readings come from one real packet and are read whole; a
  disturbance costs at most the packet after the damaged one.
- *Main loop*: sensor on once per cycle and for the on time only; frames 15 to
  17 ticks apart; no spurious watchdog restart, and recovery when one is due.
- *Console editor*: the shown line is the executed line, as far as nothing else was
  printed into it; recall ends in the
  buffer and brings back the right text; a disconnect leaves it in working order.
- *Console ring*: a FIFO that loses only when full; texts not interleaved;
  nothing stale after a disconnect.
- *Frame and receiver*: decoding inverts encoding; invalid values are
  recognised; a device gets the frames of its own identity only. *Radio*: the
  frame is sent whole or not at all. *Sensors*: a value is of the last interval or
  marked invalid. *USB*: without power the device is not "configured", a configured
  device has its endpoints, and no request holds the main program up for ever.
  *Reporter*: never posts data older than its limit, and goes on posting.

## 2. Modules

| Module | Models | Proofs |
|---|---|---|
| `LossyFifo` | abstract: an output buffer that refuses only when full | |
| `Sds011Tx` | transmit half of `sds011.c` | `Sds011TxProofs` |
| `Sds011Rx` (`MCSds011Rx`) | receive half of `sds011.c` | `Sds011RxProofs` |
| `MainLoop` | the loop of `main.c` with `timers.c` | `MainLoopProofs` |
| `ConsoleLine` | the line editor of `lufa/console.c` and the terminal | `ConsoleLineProofs` |
| `ConsoleRing` (`MCConsoleRing`) | the output half of `lufa/console.c` | `ConsoleRingProofs` |
| `Frame` | pure operators: the frame, both checksums, the receiver's decoding | in `TransmitProofs` |
| `Transmit` (`MCTransmit`) | the transmitting pass: TWI transactions, `sht3x.c`, `lps25hb.c`, `rfm69.c`, the air, the decoding; extends `Frame` | `TransmitProofs` |
| `Receiver` (`MCReceiver`) | the table of devices of `36_...pm` | `FhemProofs` |
| `Reports` | station, lost frames, FHEM's readings and `report-...pl` composed, with time | `FhemProofs` |
| `UsbDevice` | LUFA's device state machine and control requests, as compiled for the station | `UsbDeviceProofs` |

Conventions: variables carry the C names; those marked *history* in their
comments exist for the properties only. `irq` is the global interrupt flag: an
interrupt action has `irq` as a guard, a function between `cli()` and `sei()`
is several actions with `irq = FALSE`. An operator `Bug_X` is a faulty variant
of `X`, used to demonstrate that a property notices that fault; no
specification refers to it.

### Sds011Tx
`appendchar()` is cut into its memory effects: `Store` (compare, store the
byte), `Kick` (test `opinprog`, write UDR1), `Mark` (advance `outputhead`, set
`opinprog`). `Request` is a caller's `cli()`; `NextByte` the loop of
`sendsds011cmd` and the final `sei()`. `TxIsr` is the handler, `ByteSent` the
USART shifting one byte out (`usart` holds UDR1 and the shift register, TXC1 is
set when both are empty). `InitCommand` and `EnableInterrupts` are
`sds011_init()` and the end of `main()`'s initialisation. A byte is (command,
position): enough to see a command torn, reordered or repeated. The caller's
pacing is `MaxBacklog`: the main loop issues at most two commands at once, then
none for 57 ticks, while a command takes 20 ms to send, so 38 bytes is the real
value.

### Sds011Rx
`Start`, `Collect` and `Finish` are the three ways the handler treats a byte;
`Process` is `processsdsdata()`. The sensor sends any sequence of packets of
`Packets`; `ByteLost` and `ByteSpurious` are the line's faults. `ReadLow2_5` ..
`ReadHigh10` are the two getters as an 8 bit machine runs them, `cli()` with the
first load and `sei()` with the second.

### MainLoop
A pass is `Top` (watchdog, read the count), `Send`/`SkipSend`/`Hang`,
`MeasureOn`/`MeasureOff`/`MeasureWait`, `Console`, `Sleep`. `Tick` is the
overflow handler and also wakes the processor; `OtherInterrupt` stands for every
other wake-up and for USB being configured or not. `MaxLate` says how many ticks
may come in the middle of one pass: 1 in the code, as a pass takes well under a
tick. `WDTICKS = 3`: three
ticks (6.3 s) pass without a bite, the fourth would come after the watchdog's
8 s.

### ConsoleLine
One action per branch of `console_inputchar()`. The terminal (`text`, `col`)
interprets the echo: characters overwrite, 8 moves left, the prompt gives a
fresh line. `OtherOutput` is a character that the rest of the station prints in
the middle of the line; `others` counts them, and `from` tells how much of the line
was typed before the last. The commands' output is left out; `Return` keeps what
matters: the 0 written behind the line, `inputpos = 0`, the line executed.

### ConsoleRing
`PrintText` is a printing function's `cli()`, `Store` and `Advance` the two halves of
`appendchar()`, `NextChar` its loop and final `sei()`. `Work`, `Collect`,
`Transmit` are `console_work()` with the transmit half of `CDC_Task()`.
`ErrorPrinted` is the receive handler of `sds011.c` complaining; an error text is
one character here, it is printed in one piece by the handler. Each character
carries the USB session it was printed in.

### Frame
Pure. A byte is a number or the set of its bits (`Number`, `BitsOf`), and a frame
is the set of the bit positions that are 1, so that a disturbance, and the
exclusive or of the code, is a symmetric difference. `CrcShift` is one turn of the
inner loop of `calculatecrc()`, `CrcByte` all eight, `CalculateCrc` the outer loop
as a recursive function; `Sht3xCrc` is the other checksum. `Fields` are the
assignments of `prepareframe()`.
`Accepts` and `Message` are external: what the Jeelink's CustomSensor does, read
off the packet format in `README.md` and the example in `36_...pm:19`. `Parse` keeps
the rounding of `sprintf()`.

### Transmit
One action per transaction, each in a whole and a cut variant. `Cut` says what
`twi_read()` returns when the sensor stops answering after n bytes:
`waitforcompl()` gives up, nothing reports it, and the bytes are 0xff or whatever
TWDR held. A sensor without a result behaves as if cut at byte 0. If the START
condition itself does not come about, the address is not written to TWDR, and all
bytes are what it held before (`Unstarted`): `STATUS_REG`, the last byte of the
transaction before, or one of `Held`. If the first of the two transactions of
`lps25hb_read()` is cut, the second reads on from wherever the register pointer was
(`Registers`). `SendArray`
sends the byte behind `frametosend` too, as `main.c:230` does. The received
frame has any burst of `Bursts` turned over; bursts in general are the business
of `BurstsDetected`, which tries every disturbance of up to 8 neighbouring bits, at
all 136 positions, on one frame; `EveryFrame` is the theorem for all of them.
`Misread` is what the checksums of the SHT31 cannot tell from a measurement when a
transaction is cut: 0x2b is the checksum of 0x2b 0x2b, which TWDR read over and over
yields, and 0xff that of 0xa3 0xff, which a floating bus yields.

### Receiver
`Define`, `Modify` and `Delete` are FHEM's three commands with what
`..._Define()` and `..._Undef()` do in each; `Parse` is the part of
`..._Parse()` that finds the device. A table entry refers to FHEM's hash, not to a
name: `live` says whether it is still the hash of the device of that name.
Addresses come in the four forms users type; `Key` is what the code makes of them.

### Reports
The station is reduced to what the other modules show of it: a frame carries what
the SHT31 and the LPS25HB began to measure in an earlier pass, or marks it invalid,
and the last dust reading, however old. `held` is the age of the result each of
the two has ready. `Transmit` is a pass: each of them gives its result, or nothing
valid, or what looks valid without having been measured; it keeps or loses what was
not read; and it is started again, or its start command is cut. `Measure` is the end
of the dust sensor's on time, with a reading or without: `main()` may miss the tick
at which it would request one (run `mainloop_late`), and the packet may be lost.
`missed` counts the failures in a row of each sensor that works, and a value is
`Overdue` if it is older than they account for.

FHEM has a reading of each, with the age of its time stamp (`stamp`); whether it was
overdue when it came is *history*. `Tick` is the only action that lets time pass,
and it waits for what is due. A run of the script is `TooOld`, or `Fresh`, `PostDust`,
`PostClimate` with up to `TIMEOUT` spent posting; `list` is what it has read. A sensor
may die for good; restarts and losses are unlimited.

### UsbDevice
`UsbGen` is the general interrupt: its four branches in their order, each on what
the ones before have left. `UsbCom` begins a handler of the control endpoint;
`handlers` is the stack of next steps, since a bus reset re-enables that interrupt
while its handler waits (`USBInterrupt_AVR8.c:177`). The steps in between are the
waits for the host, each with its own exit conditions (`Waits`). The host may ask,
fetch, send, suspend, reset, unplug and give up at any time.

Left out: an address of 0; the endpoint selected when a nested handler returns,
and the overwriting of `USB_ControlRequest` by it (a nested request comes at
least 10 ms after the reset, the outer handler uses the request before that);
data of more than one packet. `MAXNEST` bounds the handlers; nothing in the code
does.

### Refinement
`Sds011Tx` implements `LossyFifo` with `fifo <- usart \o` (the part of the ring
UDR1 has not been given): accepting is `Put`, a full ring is `Refuse`, a byte
leaving the shift register is `Get`, the watchdog is `Clear`. `ConsoleRing`
implements it with the ring's contents; there a disconnect is `Clear`.

## 3. Runs

| Run | Shows | Bounds |
|---|---|---|
| `sds011tx_overflow` | types, `OutputInProgress`, FIFO, `EveryByteSent`, with callers that never wait | ring 4, commands of 3 bytes: every overflow position occurs |
| `sds011tx_paced` | `NothingLost`, `AppendSafely`, `WholeCommands` | ring 7, commands of 2, backlog 4: the code's 60/19/38 in small, and tighter: a ring of 7 holds 6 bytes, which backlog and command fill, while the code has two bytes to spare |
| `sds011rx` | reading whole and authentic, resynchronisation, storing | one fault; four packets: readings that differ in both bytes, the tail marker as data, a sum equal to the tail marker, a reply that is no reading |
| `mainloop` | types, on time, cycle, cadence, watchdog, recovery, progress, when one tick may come in every pass | counter mod 16, cycle 7, on time 3, interval 3..5: the phases drift through every wrap; `MaxLate = 1`, as a pass takes well under a tick |
| `mainloop_late` | *violation*: on time when one tick straddles a pass | `MaxLate = 1` |
| `console_line` | types, `Terminated`, `LineShown`, `Recall` | buffer of 4, three text keys, all control keys, two columns per line of other output or the digits of a nonprinting byte |
| `console_ring` | types, FIFO, `TextsWhole`, `FreshPackets` | ring 5, packets of 2, two texts, one disconnect |
| `transmit` | `FreshValues`, `OnlyMeasured`, `ReadingsTrue`, `BurstsDetected` | three climates and two pressures that differ in every byte, cuts at every byte, START without an effect with one of three bytes in TWDR, three wrong registers, twelve bursts of which each hits another field, any number of passes; `BurstsDetected` over 136 x 128 bursts |
| `receiver` | types, `Reachable`, `NotInherited` | two devices, two identities, addresses 71, 300, 0x4f, 0x4F, 0X4F |
| `reports` | `FreshPosts`, `KeepsReporting` | interval 1, dust cycle 2, maximum age 1, posting 1, cron at any time; starts and readings of pressure and dust may fail, once in a row, and both sensors may die |
| `reports_frost` | *violation*: current data is posted | the same |
| `usb_device` | `ConfiguredHasPower`, `EndpointsReady`, `MainRuns` | all eight kinds of request, two nested handlers |

Small rings are enough because the index arithmetic has no other threshold than
the wrap, full and empty, all of which occur; where a theorem exists it removes
the question. The main loop's periods are scaled so that wrap, cycle and
interval meet in every phase. The line editor needs a buffer that can be empty,
partly full, full, and one key more. `MaxFaults = 1` is not a convenience: two
faults can produce a pieced packet whose 8 bit sum is right, so `Authentic`
really is a statement about one disturbance at a time (section 4); `Noise` leaves
out the one value that would repair a damaged packet whose sum equals the tail marker.
In `reports` the periods are scaled to the ratio that matters: a reading may become
too old between two frames that get through, and during the posting. `MAXMISSED = 1`
is enough for a value to be sent an interval or a cycle later than usual; the
theorem is for any number. The climate does not fail there, only to keep the run
small: pressure takes the same branches. In
`usb_device` two nested handlers are enough to see one interrupt another; with
three (2.2 million states with one kind of request fewer) the safety properties
hold too.

**Fairness.** `Sds011Tx`: weak fairness of each program step (straight line code
between `cli()` and `sei()`), of the USART, and strong fairness of the transmit
interrupt: TXC1 stays set until the handler runs, and every caller re-enables
interrupts, but also disables them again. Nothing obliges callers to send.
`MainLoop`: weak fairness of a pass, of the watchdog, strong fairness of the
tick, which in the model waits for the end of a pass that has met one. `Reports`: weak fairness of
time, of the station's two periodic actions and of the script; none of frames
getting through, of transactions and packets arriving whole, of restarts ceasing or
of the weather: `KeepsReporting` states these as its premises. `UsbDevice`: weak
fairness of the processor's steps, of the
watchdog, which bites only where the host has left a request unfinished
(`forsaken`), and of the host fetching or sending for a request it has not given
up. Deadlock is checked in every run.

**Each property can fail.** For every property PROJECT.json names a faulty
variant of an operator (a `cli()` left out, an off-by-one of an index, a
missing reset of a counter, a difference that does not wrap, a lost checksum
test, ...) that TLC refutes it with.

## 4. Proofs

All theorems are for every value of the constants allowed by the named
assumptions of the modules.

*Sds011TxProofs.* `TypeCorrect` needs nothing else. Everything about output
rests on `BusyInv`: `OutputInProgress` together with "interrupts are off from
`Request` to the last byte, and before `sei()` in `main()`". The second half is
what makes the first inductive: with interrupts on, `TxIsr` could run between
`Kick` and `Mark`. It therefore assumes `~BootIrq`, and has `AppendSafely` as a part;
that one is no theorem of its own, because without `BootIrq` the guards alone give
it. `NothingLostCorrect` adds
`RoomInv`, which bounds the backlog by the position in the command, under
`CMDLEN <= MaxBacklog` and `MaxBacklog + CMDLEN < OUTPUTBUFSIZE` (38 + 19 < 60 in
the code). `WholeCommandsCorrect` adds `ChainInv`: each byte in the ring follows
the one before it, the first follows the last one given to UDR1, the next to be
stored follows the last. `FifoCorrect` is step simulation under the mapping
above; it needs `KickInv` (the byte written to UDR1 is the one in the ring).

*Sds011RxProofs.* `RxTypeCorrect` and `WholeReadingCorrect` hold for every set of
packets, noise and any number of faults; the latter rests on `ReaderInv`, that
between the two loads interrupts are off. `ResyncCorrect` and `StoredCorrect`
assume `HeaderFree` and rest on `StepInv`: in an undamaged packet the parser is
either waiting or at least as far as the sensor, so that an undamaged packet
cannot end with a packet half collected; and after one undamaged packet the
parser's position and buffer are exactly the sensor's. `Authentic` rests on
`AuthInv`: after a fault the parser is in step, or one byte ahead of the sensor
(a spurious byte), or one behind (a lost byte), or waits for the next header, and
never further off. One ahead, a packet would be finished by the sensor's sum, one
behind, by the header of the next packet: neither is the tail marker, the first by
the assumption `NoTailSum` (no packet's sum is 0xAB). `FaultsApart` states it for
any number of faults that each find the parser in step, `AuthenticCorrect` for one
fault anywhere. Two faults in one packet can cancel out, and then the 8 bit sum is
all there is. The run checks `Authentic` also for a packet whose sum is the tail
marker, which the theorem leaves out.

*MainLoopProofs.* `MaxLate` may be any number of ticks in mid-pass. Everything rests on
`LoopInv`, which measures the loop by three differences: `Gap`, the age of the
count it has read, `Since` and `Phase`, what it makes of that count. The history
counters differ from `Since + Gap` and `Phase + Gap` by what the gap was when they
were last reset, hence by at most `MaxLate`: lateness does not add up, and a frame
leaves at most `MaxLate` ticks too early and `2 * MaxLate` too late, exactly on time
with 0. `wdt <= Gap` keeps the watchdog quiet for `MaxLate + 1 < WDTICKS`. In a cycle
without a tick in mid-pass there is no difference, and the loop sees every phase:
`OnTimeCorrect`.

*ConsoleLineProofs.* Everything rests on `LineInv`: `TypeOK`, `Terminated`,
`LineShown` and `LastFree`, that the last cell is never used for text. `LineShown` is
about a terminal that also shows what others print, for any number of columns of it:
the line from `from` on is right, and it stands `others` columns further. Without `LastFree`
`Terminated` is not inductive: a character typed may replace the only 0 behind the
line. That the copy of Up stops inside the buffer (`StoredFacts`) needs a least
0; `Least` gets it from the well-foundedness of inclusion among the intervals
`0 .. m`. `RecallCorrect` adds `RecallInv`: until text is typed, `inputbuf` holds the
last command followed by a 0, so that the copy stops where the command does.

*ConsoleRingProofs.* The ring is first shown to behave as a sequence (`Content`):
storing behind the tail changes nothing, moving the tail appends, moving the head
takes the first character. `StateInv` adds to the types that interrupts are on
only while the main program is between two calls, and that `appendchar()`'s next
tail is one slot on from a character it has stored; from that each step of the ring
is one of `LossyFifo` (`FifoCorrect`). `FreshPacketsCorrect` rests on `FreshInv`: what
waits in the ring or in a half collected packet was printed in this session, which
holds because a disconnect cannot interrupt the collecting. `TextsWholeCorrect` assumes
`DistinctTexts` (a character tells its text and its place) and rests on `TextsInv`: each
character in the ring is followed by the one that follows it in its text, or,
if it is the last in the ring, by what is left to print.

*FhemProofs.* `Reachable` is inductive as it stands: `Used()` refuses an address
that belongs to another name, so that a live entry is overwritten by its own
device only. `NotInheritedCorrect` needs `LiveInv`: a live entry belongs to a defined
device and to an address that device has had since it was defined.
`FreshPostsCorrect` rests on `FreshInv`: what a sensor on the bus holds was started
at most an interval ago, and one more for each start in a row that failed (`HeldInv`);
the dust reading is at most a cycle old, and one more for each without a reading
(`DustInv`); so nothing is overdue when it is sent (`NoneOverdue`, of FHEM's readings
and of the list the script has read), and what a run is posting has aged by no more
than the time the run has taken (`BusyInv`). It is for every interval, cycle, maximum
age, posting time and number of failures. Ages stop at `OLD`, those of time stamps at
`LATE`; both are beyond what the invariant has to tell apart.

*TransmitProofs.* Three parts.

- *Numbers and bits.* Every number below 256 has exactly one set of bits, and the
  bytes of a value give the value back: `Delivered` says that the receiver's
  `Message` of an undisturbed frame holds the sender's fields, `ParseSent` that
  `Parse` turns them into the readings of `Valid`, each in its unit (`ReadingTrue`).
- *The checksum.* `ByteLinear`: the eight shifts of an exclusive or are the exclusive
  or of the shifted, because one shift is. So the checksums of two frames differ by
  what the loop makes of their difference alone, and a difference that is not 0
  stays so, since a shift loses nothing (`BurstKey`). A burst touches at most two
  neighbouring bytes; `BurstNoticed` shows that what it leaves in the register when
  its second byte has been added cannot be 0. Bursts into the first bytes are caught
  by the start byte, the length (which, turned over, may be followed by a right
  checksum) or FHEM's regular expression. A statement about all bytes of a frame is
  an induction over at most 18 indices; the prover has no induction rule it can
  use, so `Induction` gets it from the well-foundedness of < on the naturals,
  stated for sets.
- *The state machine.* `TypeInv` bounds main()'s values by the width of their fields
  (`Fields` loses nothing). `FreshInv` says what each sensor holds at each step of the
  pass: what was started in the pass before, unless a transaction was cut since, so
  that `Freshness` survives restarts. `MeasuredInv` goes through the cuts byte by
  byte (`CutClimate`) and leaves exactly the three cases of `Misread` for the climate, and for
  the pressure the bytes of `Echoes`, whatever TWDR held when START failed; `LinkInv`
  ties what is in the air and what was parsed to main()'s values, which nothing
  changes until the next pass. `EveryFrame` is not about the state machine at all: any values, any
  byte behind the frame, any burst of up to 8 bits. `BurstsNoticed` is its instance
  for the frame of the run.

*UsbDeviceProofs.* Both theorems hold for any number of nested handlers (`MAXNEST`) and
rest on `Unmasked`, that the interrupts for power and bus reset are never switched
off, and on `UsbGenEffect`, which sums up what the four branches do together.
`EndpointsReadyCorrect` adds `EndpointsInv`: a configuration without endpoints that no
reset is about to take away is owed by a handler somewhere on the stack.
`ConfiguredHasPowerCorrect` adds `PowerInv`: after an unplugging that interrupted
nothing no handler runs and nothing is left that could bring Configured back.

Only model-checked: liveness (`EveryByteSent`, `Recovers`, `KeepsSending`,
`KeepsMeasuring`, `KeepsReporting`, `MainRuns`), which is out of the prover's reach.
So is `AppendSafely`. Every other property that a passing run checks is a theorem.

## 5. What the models show

Two runs refute what the repository says:

- A tick that falls into a running pass can make the loop miss the one tick at
  which it would switch the dust sensor off: it then runs through the cycle
  (`mainloop_late`). It is back on
  time in the next cycle without such a tick, and cycle, cadence and watchdog take no
  harm (`mainloop`).
- Below 0 degrees the reporter's regular expression does not match the
  temperature; humidity and pressure are not posted either (`reports_frost`).

The following show when the named condition is taken away:

- `~BootIrq` in `Sds011Tx`: a TWI time-out while the pressure sensor is initialised
  enables interrupts in the middle of `main()`'s set-up (`console_printchar()` ends
  in `sei()`), and `appendchar()` of `sds011.c`, which "can only be called safely
  with interrupts disabled" (`sds011.c:56`), runs unprotected.
- `calm` in `ConfiguredHasPower`: unplugging while SET_CONFIGURATION is being
  handled, or together with a wake-up, leaves the state at Configured, because
  `DeviceStandardReq.c:201` and `USBInterrupt_AVR8.c:150` assign it without a look
  at what it is. The station then stays awake without the power that
  `main.c:258` counts on, until it is plugged in again.
- `"dust" \notin dead` in `FreshPosts`: the readings of a dust sensor that has
  stopped answering are sent, stamped and posted as new for ever.
- `missed` in `FreshPosts`: what is posted as new may be older than an interval or a
  cycle. `sds011_requestresult()` is called at one tick of the cycle only
  (`main.c:251`), and nothing asks again for a packet that was lost or damaged
  (`sds011.c:139-148`): each time the last reading serves for another cycle.
- `climateTaken # None` in `FreshValues`: if a start command is cut, the result of an
  earlier one that could not be read then is sent as valid, however old.
- `HeaderFree` in `Resync`: a byte 0xAA is not always the start of a packet, as
  `sds011.c:152` has it, and with one in every packet the parser may stay out of step.
- `NoTailSum` and one fault at a time in `Authentic`: two disturbances of one packet,
  or a spurious byte in a packet whose sum is 0xAB, may make the driver store
  a reading the sensor never sent.
- `Misread` in `OnlyMeasured`: a climate whose last byte before a cut is 0x2b, or whose
  humidity begins with 0xa3, may be taken for a valid one of 0x2b2b or 0xa3ff; if
  START fails and TWDR holds 0x2b, the former even without a byte from the sensor.
- `Echoes` in `OnlyMeasured`: if the first transaction of `lps25hb_read()` goes well and
  the START of the second times out (`twi.c:38-40`), `TWDR = addr` is discarded and TWDR
  keeps 0xa7, the number of the status register (`lps25hb.c:55`). Its bit 1 is set, and
  0xa7a7a7, some 2682 hPa, is sent as a valid pressure although the sensor sent
  nothing.
- `silent` in `OnlyMeasured`: nothing is said of the pressure once the sensor has sent a
  byte. If the first transaction is cut, the sensor sends other registers: after
  `lps25hb_init()` it begins with RES_CONF, which holds 3 and passes for a valid status
  (`lps25hb.c:35-37`). A second transaction cut behind the status byte gives a pressure
  of repeated bytes or of 0xff, and there is no checksum.
- `~touched` in `Recall`: Up restores what the buffer holds, which is the last
  command only as long as nothing was typed since; after a disconnect, which
  resets `inputpos` only (`console.c:110`: "Throw away all our buffers"), it is what
  the last session typed.
- `from` and `others` in `LineShown`: the main program prints " TX " into the line at
  every frame (`main.c:229`), a TWI time-out "!W" or "!C" (`twi.c:29`, `twi.c:55`), the
  dust sensor's driver its errors (`sds011.c:144`, `sds011.c:147`), and a nonprinting byte
  two digits (`console.c:238`: "Ignore"). Nothing draws the line again: until the next
  prompt it shows what Return will not execute, and Backspace blanks the last
  column, which may be a character of that output, while it deletes one of the line.

`Valid` says which readings a frame updates, and so shows that FHEM drops
temperatures of 100 degrees and more (`36_...pm:238`), though the sensor's range
goes on to 130.

`ReadingsTrue` takes the units from `README.md:101-111` and `36_...pm:177`: raw values of
the SHT31, pressure in 1/4096 hPa in three bytes, 65535 and 16777215 for invalid. Two
comments in the source say otherwise. `main.c:28-33` has the variables in Pascal * 256,
degrees * 100 and percent * 512; `36_...pm:149-155` has a frame with four bytes of pressure
in 1/256 Pascal, the temperature plus 100.00 degrees, and humidity in 1/512 percent. A
receiver written from those comments would decode all three wrongly.

Read from the code and not checked: `sds011cyclestart` starts the station in
mid-cycle, not "at the end of a cycle" (`main.c:136`); `twi_init()` is never
called, so that the bus runs at the power-on bit rate; addresses typed with upper
case digits or above 255 are accepted and never matched (`36_...pm:46-57`).

## 6. Plan

Done: the modules above. Next, in this order:

1. `UsbDevice`: the endpoint that is selected when a nested handler returns.
2. `Station`: `MainLoop` and `Transmit` composed, so that the interval that
   `FreshValues` counts in passes is counted in ticks.

## 7. Not modelled, and why

USB descriptors are constant tables. LUFA's host, pipe and class code, its
headers and its documentation make up nine tenths of `src/` and are not compiled
into the station, or are definitions without behaviour; the share of all lines
that the models cover is small for that reason, and the station's own code is
covered almost whole. ADC, port, power and radio set-up registers are written
and not read back; the wording and number formatting of the console's commands
changes no state. Register-level timing (bit rates, delays) is outside the
models: time is ticks in `MainLoop` and `Reports` and order elsewhere.

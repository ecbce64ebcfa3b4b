----------------------------- MODULE FhemProofs -----------------------------
(* Proofs about the two parts that hold FHEM's data: Receiver, for every set *)
(* of names, identities and addresses, and Reports, for every interval,      *)
(* cycle, age and time-out.                                                  *)
EXTENDS Receiver, Reports, TLAPS

(* Receiver *)

LEMMA KeysAreKeys ==
  /\ \A t \in Typed : Key(t) \in Keys
  /\ \A id \in Ids : FrameKey(id) \in Keys
BY DEF Keys

\* What Enter() leaves of the table.
LEMMA EnterType ==
  ASSUME TypeOK, NEW d \in Names, NEW k \in Keys, Enter(d, k)
  PROVE  /\ defptr' \in [Keys -> Entry \cup {Undefined}]
         /\ devs' \in [Names -> Keys \cup {Undefined}]
         /\ \A c \in Names : devs[c] # Undefined => devs'[c] # Undefined
<1>1. [name |-> d, live |-> TRUE] \in Entry
  <2>1. TRUE \in BOOLEAN
    BY Zenon
  <2> QED
    BY <2>1 DEF Entry
<1>2. k # Undefined
  BY UndefinedIsNothing
<1> QED
  BY <1>1, <1>2 DEF TypeOK, Enter

\* The table, the devices and what they are credited with keep their types,
\* and only defined devices are ignored.
THEOREM TypeCorrect == TableSpec => []TypeOK
<1>1. TableInit => TypeOK
  BY DEF TableInit, TypeOK
<1>2. TypeOK /\ [TableNext]_tableVars => TypeOK'
  <2> SUFFICES ASSUME TypeOK, [TableNext]_tableVars PROVE TypeOK'
    OBVIOUS
  <2>1. CASE \E d \in Names, t \in Typed : Define(d, t)
    <3>1. PICK d \in Names, t \in Typed : Define(d, t)
      BY <2>1
    <3>2. Key(t) \in Keys /\ Enter(d, Key(t))
      BY <3>1, KeysAreKeys, Zenon DEF Define
    <3>3. ignored' = ignored /\ credited' \in [Names -> Ids \cup {Undefined}] /\ had' \in [Names -> SUBSET Keys]
      BY <3>1, <3>2 DEF Define, TypeOK
    <3> QED
      BY <3>2, <3>3, EnterType DEF TypeOK
  <2>2. CASE \E d \in Names, t \in Typed : Modify(d, t)
    <3>1. PICK d \in Names, t \in Typed : Modify(d, t)
      BY <2>2
    <3>2. Key(t) \in Keys /\ Enter(d, Key(t))
      BY <3>1, KeysAreKeys, Zenon DEF Modify
    <3>3. ignored' = ignored /\ credited' = credited /\ had' \in [Names -> SUBSET Keys]
      BY <3>1, <3>2 DEF Modify, TypeOK
    <3> QED
      BY <3>2, <3>3, EnterType DEF TypeOK
  <2>3. CASE \E d \in Names : Delete(d)
    <3>1. PICK d \in Names : Delete(d)
      BY <2>3
    <3>2. [name |-> d, live |-> FALSE] \in Entry
      <4>1. FALSE \in BOOLEAN
        BY Zenon
      <4> QED
        BY <4>1 DEF Entry
    <3>3. defptr' \in [Keys -> Entry \cup {Undefined}]
      BY <3>1, <3>2 DEF Delete, TypeOK
    <3>4. /\ devs' \in [Names -> Keys \cup {Undefined}]
          /\ credited' \in [Names -> Ids \cup {Undefined}]
          /\ had' \in [Names -> SUBSET Keys]
          /\ ignored' \in SUBSET {c \in Names : devs'[c] # Undefined}
      BY <3>1 DEF Delete, TypeOK
    <3> QED
      BY <3>3, <3>4 DEF TypeOK
  <2>4. CASE \E d \in Names : Ignore(d)
    BY <2>4 DEF Ignore, TypeOK
  <2>5. CASE \E id \in Ids : Parse(id)
    BY <2>5 DEF Parse, TypeOK
  <2>6. CASE UNCHANGED tableVars
    BY <2>6 DEF tableVars, TypeOK
  <2> QED
    BY <2>1, <2>2, <2>3, <2>4, <2>5, <2>6 DEF TableNext
<1> QED
  BY <1>1, <1>2, PTL DEF TableSpec

-----------------------------------------------------------------------------
\* A defined device is never driven out of the table: Used() refuses its
\* address to others, and a delete marks only entries of its own name.
THEOREM ReachableCorrect == TableSpec => []Reachable
<1>1. TableInit => Reachable
  BY DEF TableInit, Reachable
<1>2. TypeOK /\ Reachable /\ [TableNext]_tableVars => Reachable'
  <2> SUFFICES ASSUME TypeOK, Reachable, [TableNext]_tableVars, NEW c \in Names, devs'[c] # Undefined
               PROVE  defptr'[devs'[c]] = [name |-> c, live |-> TRUE]
    BY DEF Reachable
  <2>1. ASSUME NEW d \in Names, NEW k \in Keys, ~Used(k, d), Enter(d, k)
        PROVE  defptr'[devs'[c]] = [name |-> c, live |-> TRUE]
    <3>1. CASE c = d
      BY <2>1, <3>1 DEF TypeOK, Enter
    <3>2. CASE c # d
      <4>1. devs'[c] = devs[c] /\ devs[c] \in Keys /\ defptr[devs[c]] = [name |-> c, live |-> TRUE]
        BY <2>1, <3>2 DEF TypeOK, Enter, Reachable
      <4>2. defptr[devs[c]] # Undefined
        <5>1. TRUE \in BOOLEAN
          BY Zenon
        <5>2. [name |-> c, live |-> TRUE] \in Entry
          BY <5>1 DEF Entry
        <5> QED
          BY <4>1, <5>2, UndefinedIsNothing
      <4>3. devs[c] # k
        BY <2>1, <3>2, <4>1, <4>2 DEF Used
      <4> QED
        BY <2>1, <4>1, <4>3 DEF TypeOK, Enter
    <3> QED
      BY <3>1, <3>2
  <2>2. CASE \E d \in Names, t \in Typed : Define(d, t)
    BY <2>1, <2>2, KeysAreKeys DEF Define
  <2>3. CASE \E d \in Names, t \in Typed : Modify(d, t)
    BY <2>1, <2>3, KeysAreKeys DEF Modify
  <2>4. CASE \E d \in Names : Delete(d)
    <3>1. PICK d \in Names : Delete(d)
      BY <2>4
    <3>2. c # d /\ devs'[c] = devs[c] /\ devs[c] \in Keys /\ devs[d] \in Keys
      BY <3>1 DEF TypeOK, Delete
    <3>3. /\ defptr[devs[c]] = [name |-> c, live |-> TRUE]
          /\ defptr[devs[d]] = [name |-> d, live |-> TRUE]
      BY <3>1, <3>2 DEF Reachable, Delete
    <3>4. devs[c] # devs[d] /\ defptr[devs[c]].name = c
      BY <3>2, <3>3
    <3> QED
      BY <3>1, <3>2, <3>3, <3>4 DEF Delete
  <2>5. CASE \E d \in Names : Ignore(d)
    BY <2>5 DEF Ignore, Reachable
  <2>6. CASE \E id \in Ids : Parse(id)
    BY <2>6 DEF Parse, Reachable
  <2>7. CASE UNCHANGED tableVars
    BY <2>7 DEF tableVars, Reachable
  <2> QED
    BY <2>2, <2>3, <2>4, <2>5, <2>6, <2>7 DEF TableNext
<1> QED
  BY <1>1, <1>2, TypeCorrect, PTL DEF TableSpec

-----------------------------------------------------------------------------
\* The entries that count belong to devices that exist, under addresses they
\* have had; those of a deleted device never count again.
LiveInv ==
  \A k \in Keys : defptr[k] # Undefined /\ defptr[k].live =>
    devs[defptr[k].name] # Undefined /\ k \in had[defptr[k].name]

LEMMA LiveInvEnter ==
  ASSUME TypeOK, LiveInv, NEW d \in Names, NEW k \in Keys, Enter(d, k),
         (had' = [had EXCEPT ![d] = {k}] /\ devs[d] = Undefined) \/ had' = [had EXCEPT ![d] = @ \cup {k}]
  PROVE  LiveInv'
<1> SUFFICES ASSUME NEW j \in Keys, defptr'[j] # Undefined, defptr'[j].live
             PROVE  devs'[defptr'[j].name] # Undefined /\ j \in had'[defptr'[j].name]
  BY DEF LiveInv
<1>1. k # Undefined
  BY UndefinedIsNothing
<1>2. CASE j = k
  <2>1. defptr'[j] = [name |-> d, live |-> TRUE]
    BY <1>2 DEF TypeOK, Enter
  <2> QED
    BY <1>1, <1>2, <2>1 DEF TypeOK, Enter
<1>3. CASE j # k
  <2>1. defptr'[j] = defptr[j]
    BY <1>3 DEF TypeOK, Enter
  <2>2. devs[defptr[j].name] # Undefined /\ j \in had[defptr[j].name]
    BY <2>1 DEF LiveInv
  <2>3. defptr[j].name \in Names
    BY <2>1 DEF TypeOK, Entry
  <2> QED
    BY <1>1, <2>1, <2>2, <2>3 DEF TypeOK, Enter
<1> QED
  BY <1>2, <1>3

LEMMA LiveCorrect == TableSpec => []LiveInv
<1>1. TableInit => LiveInv
  BY DEF TableInit, LiveInv
<1>2. TypeOK /\ LiveInv /\ [TableNext]_tableVars => LiveInv'
  <2> SUFFICES ASSUME TypeOK, LiveInv, [TableNext]_tableVars PROVE LiveInv'
    OBVIOUS
  <2>1. CASE \E d \in Names, t \in Typed : Define(d, t)
    BY <2>1, KeysAreKeys, LiveInvEnter DEF Define
  <2>2. CASE \E d \in Names, t \in Typed : Modify(d, t)
    BY <2>2, KeysAreKeys, LiveInvEnter DEF Modify
  <2>3. CASE \E d \in Names : Delete(d)
    <3>1. PICK d \in Names : Delete(d)
      BY <2>3
    <3> SUFFICES ASSUME NEW j \in Keys, defptr'[j] # Undefined, defptr'[j].live
                 PROVE  devs'[defptr'[j].name] # Undefined /\ j \in had'[defptr'[j].name]
      BY DEF LiveInv
    <3>2. defptr'[j] = defptr[j] /\ defptr[j].name # d
      BY <3>1 DEF Delete
    <3>3. defptr[j].name \in Names
      BY <3>2 DEF TypeOK, Entry
    <3> QED
      BY <3>1, <3>2, <3>3 DEF LiveInv, TypeOK, Delete
  <2>4. CASE \E d \in Names : Ignore(d)
    BY <2>4 DEF Ignore, LiveInv
  <2>5. CASE \E id \in Ids : Parse(id)
    BY <2>5 DEF Parse, LiveInv
  <2>6. CASE UNCHANGED tableVars
    BY <2>6 DEF tableVars, LiveInv
  <2> QED
    BY <2>1, <2>2, <2>3, <2>4, <2>5, <2>6 DEF TableNext
<1> QED
  BY <1>1, <1>2, TypeCorrect, PTL DEF TableSpec

\* A device is credited only with frames for an address it has had since it
\* was defined.
THEOREM NotInheritedCorrect == TableSpec => []NotInherited
<1>1. TableInit => NotInherited
  BY DEF TableInit, NotInherited
<1>2. TypeOK /\ LiveInv /\ NotInherited /\ [TableNext]_tableVars => NotInherited'
  <2> SUFFICES ASSUME TypeOK, LiveInv, NotInherited, [TableNext]_tableVars,
                      NEW c \in Names, credited'[c] # Undefined
               PROVE  FrameKey(credited'[c]) \in had'[c]
    BY DEF NotInherited
  <2>1. CASE \E d \in Names, t \in Typed : Define(d, t)
    BY <2>1 DEF Define, TypeOK, NotInherited
  <2>2. CASE \E d \in Names, t \in Typed : Modify(d, t)
    BY <2>2 DEF Modify, TypeOK, NotInherited
  <2>3. CASE \E d \in Names : Delete(d)
    BY <2>3 DEF Delete, TypeOK, NotInherited
  <2>4. CASE \E d \in Names : Ignore(d)
    BY <2>4 DEF Ignore, NotInherited
  <2>5. CASE \E id \in Ids : Parse(id)
    <3>1. PICK id \in Ids : Parse(id)
      BY <2>5
    <3>2. CASE credited'[c] = credited[c]
      BY <3>1, <3>2 DEF Parse, NotInherited
    <3>3. CASE credited'[c] # credited[c]
      <4>1. /\ defptr[FrameKey(id)] # Undefined /\ defptr[FrameKey(id)].live
            /\ defptr[FrameKey(id)].name = c /\ credited'[c] = id
        BY <3>1, <3>3 DEF Parse, TypeOK
      <4>2. FrameKey(id) \in Keys
        BY KeysAreKeys
      <4> QED
        BY <3>1, <4>1, <4>2 DEF Parse, LiveInv
    <3> QED
      BY <3>2, <3>3
  <2>6. CASE UNCHANGED tableVars
    BY <2>6 DEF tableVars, NotInherited
  <2> QED
    BY <2>1, <2>2, <2>3, <2>4, <2>5, <2>6 DEF TableNext
<1> QED
  BY <1>1, <1>2, TypeCorrect, LiveCorrect, PTL DEF TableSpec

-----------------------------------------------------------------------------
(* Reports *)

Ages == 0 .. OLD

Reading == [value : {"warm", "frost"}, stamp : 0 .. LATE, overdue : BOOLEAN]

Tables == [Sensors -> Reading \cup {None}]

AgesOK ==
  /\ sinceTx \in 0 .. INTERVAL /\ sinceDust \in 0 .. CYCLE
  /\ held \in [OnBus -> Ages \cup {None}]
  /\ dust \in Ages \cup {None}
  /\ missed \in [Sensors -> Nat]
  /\ readings \in Tables /\ list \in Tables
  /\ busy \in 0 .. TIMEOUT
  /\ pc \in {"cron", "dust", "climate"}

\* A result that waits in a sensor is of the last pass, or an interval older for
\* each start command since that was cut.
HeldInv ==
  \A s \in OnBus : held[s] # None => s \notin dead /\ held[s] <= missed[s] * INTERVAL + sinceTx

\* While the dust sensor works, the last reading is of the last cycle, or a
\* cycle older for each one since that brought none.
DustInv == dust # None /\ "dust" \notin dead => dust <= missed["dust"] * CYCLE + sinceDust

NoneOverdue(table) == \A s \in Sensors : table[s] # None => ~table[s].overdue

\* What the run posts has become older by the time it has taken so far.
BusyInv ==
  /\ pc = "cron" => busy = 0
  /\ pc # "cron" => \A s \in Sensors : list[s] # None => list[s].stamp <= MAXAGE + busy

FreshInv == AgesOK /\ HeldInv /\ DustInv /\ NoneOverdue(readings) /\ NoneOverdue(list) /\ BusyInv

LEMMA Bounds == LATE \in Nat /\ OLD \in Nat /\ 0 \in Ages
<1>1. (MAXMISSED + 1) * (IF INTERVAL < CYCLE THEN CYCLE ELSE INTERVAL) \in Nat
  <2>1. (IF INTERVAL < CYCLE THEN CYCLE ELSE INTERVAL) \in Nat
    BY Times
  <2> QED
    BY <2>1, Times
<1> QED
  BY <1>1, Times DEF LATE, OLD, Ages

\* One failure more accounts for one interval, or cycle, more.
LEMMA OneMore ==
  ASSUME NEW m \in Nat, NEW n \in Nat
  PROVE  m * n \in Nat /\ (m + 1) * n = m * n + n
OBVIOUS

LEMMA OlderType ==
  ASSUME NEW a \in Ages \cup {None}
  PROVE  /\ Older(a) \in Ages \cup {None}
         /\ Older(a) # None => a # None /\ a \in Ages /\ Older(a) <= a + 1
<1>1. CASE a = None
  BY <1>1 DEF Older
<1>2. CASE a # None
  BY <1>2, Bounds DEF Older, Ages
<1> QED
  BY <1>1, <1>2

LEMMA AgedType ==
  ASSUME NEW r \in Reading \cup {None}
  PROVE  /\ Aged(r) \in Reading \cup {None}
         /\ Aged(r) # None => /\ r # None /\ r.stamp \in Nat
                              /\ Aged(r).stamp \in Nat /\ Aged(r).stamp <= r.stamp + 1
                              /\ Aged(r).overdue = r.overdue
<1>1. CASE r = None
  BY <1>1 DEF Aged
<1>2. CASE r # None
  <2> DEFINE stamp == IF r.stamp < LATE THEN r.stamp + 1 ELSE LATE
  <2>1. r \in Reading /\ r.stamp \in 0 .. LATE
    BY <1>2 DEF Reading
  <2>2. stamp \in 0 .. LATE /\ stamp <= r.stamp + 1
    BY <2>1, Bounds
  <2>3. Aged(r) = [r EXCEPT !.stamp = stamp]
    BY <1>2 DEF Aged
  <2> HIDE DEF stamp
  <2>4. Aged(r) \in Reading /\ Aged(r).stamp = stamp /\ Aged(r).overdue = r.overdue
    BY <2>1, <2>2, <2>3 DEF Reading
  <2> QED
    BY <1>2, <2>1, <2>2, <2>4, Bounds
<1> QED
  BY <1>1, <1>2

\* A table stays one as time passes.
LEMMA TableAged ==
  ASSUME NEW t \in Tables, NoneOverdue(t), NEW u, u = [s \in Sensors |-> Aged(t[s])]
  PROVE  /\ u \in Tables
         /\ NoneOverdue(u)
         /\ \A s \in Sensors : u[s] # None =>
              t[s] # None /\ t[s].stamp \in Nat /\ u[s].stamp \in Nat /\ u[s].stamp <= t[s].stamp + 1
<1>1. \A s \in Sensors : t[s] \in Reading \cup {None} /\ u[s] = Aged(t[s])
  BY DEF Tables
<1>2. u \in Tables
  BY <1>1, AgedType DEF Tables
<1>3. NoneOverdue(u)
  BY <1>1, AgedType DEF NoneOverdue
<1>4. ASSUME NEW s \in Sensors, u[s] # None
      PROVE  t[s] # None /\ t[s].stamp \in Nat /\ u[s].stamp \in Nat /\ u[s].stamp <= t[s].stamp + 1
  BY <1>1, <1>4, AgedType
<1> QED
  BY <1>2, <1>3, <1>4

\* No value of a frame is older than the failures before it account for.
LEMMA NotOverdue ==
  ASSUME FreshInv, sinceTx = INTERVAL
  PROVE  /\ \A s \in OnBus : held[s] # None => ~Overdue(s, held[s])
         /\ dust # None /\ "dust" \notin dead => ~Overdue("dust", dust)
<1> USE DEF FreshInv, AgesOK
<1>1. ASSUME NEW s \in OnBus, held[s] # None PROVE ~Overdue(s, held[s])
  <2>1. s \in Sensors /\ s # "dust" /\ held[s] \in Nat /\ missed[s] \in Nat /\ INTERVAL \in Nat
    BY <1>1, Times DEF OnBus, Sensors, Ages
  <2>2. held[s] <= missed[s] * INTERVAL + INTERVAL
    BY <1>1 DEF HeldInv
  <2>3. missed[s] * INTERVAL \in Nat /\ (missed[s] + 1) * INTERVAL = missed[s] * INTERVAL + INTERVAL
    BY <2>1, OneMore
  <2> QED
    BY <2>1, <2>2, <2>3 DEF Overdue, Span
<1>2. ASSUME dust # None, "dust" \notin dead PROVE ~Overdue("dust", dust)
  <2>1. dust \in Nat /\ missed["dust"] \in Nat /\ CYCLE \in Nat /\ sinceDust \in 0 .. CYCLE
    BY <1>2, Times DEF Sensors, Ages
  <2>2. dust <= missed["dust"] * CYCLE + sinceDust
    BY <1>2 DEF DustInv
  <2>3. missed["dust"] * CYCLE \in Nat /\ (missed["dust"] + 1) * CYCLE = missed["dust"] * CYCLE + CYCLE
    BY <2>1, OneMore
  <2> QED
    BY <2>1, <2>2, <2>3 DEF Overdue, Span
<1> QED
  BY <1>1, <1>2

LEMMA ValidType ==
  ASSUME NEW s \in Sensors, NEW v \in Climates, NEW late, late = FALSE
  PROVE  Valid(s, v, late) \in Reading /\ ~Valid(s, v, late).overdue
<1>1. v \in {"warm", "frost"} /\ 0 \in 0 .. LATE
  BY Weather, Bounds
<1> QED
  BY <1>1 DEF Valid, Reading

LEMMA UpdateType ==
  ASSUME FreshInv, sinceTx = INTERVAL, NEW v \in Climates, NEW got,
         \A s \in OnBus : got[s] = "result" => held[s] # None
  PROVE  Update(v, got) \in Tables /\ NoneOverdue(Update(v, got))
<1>1. ASSUME NEW s \in Sensors
      PROVE  /\ Update(v, got)[s] \in Reading \cup {None}
             /\ Update(v, got)[s] # None => ~Update(v, got)[s].overdue
  <2>1. CASE s = "dust" /\ dust # None
    <3>1. Update(v, got)[s] = Valid(s, v, s \notin dead /\ Overdue(s, dust))
      BY <2>1 DEF Update
    <3>2. (s \notin dead /\ Overdue(s, dust)) = FALSE
      BY <2>1, NotOverdue
    <3> QED
      BY <3>1, <3>2, ValidType
  <2>2. CASE s # "dust" /\ got[s] = "result"
    <3>1. Update(v, got)[s] = Valid(s, v, Overdue(s, held[s]))
      BY <2>2 DEF Update
    <3>2. Overdue(s, held[s]) = FALSE
      <4>1. s \in OnBus
        BY <2>2 DEF Sensors
      <4>2. ~Overdue(s, held[s])
        BY <2>2, <4>1, NotOverdue
      <4> QED
        BY <4>2 DEF Overdue
    <3> QED
      BY <3>1, <3>2, ValidType
  <2>3. CASE s # "dust" /\ got[s] = "noise"
    <3>1. Update(v, got)[s] = Valid(s, v, FALSE)
      BY <2>3 DEF Update
    <3> QED
      BY <3>1, ValidType
  <2>4. CASE ~(s = "dust" /\ dust # None) /\ ~(s # "dust" /\ got[s] \in {"result", "noise"})
    <3>1. Update(v, got)[s] = readings[s]
      BY <2>4 DEF Update
    <3> QED
      BY <3>1 DEF FreshInv, AgesOK, Tables, NoneOverdue
  <2> QED
    BY <2>1, <2>2, <2>3, <2>4
<1>2. Update(v, got) = [s \in Sensors |-> Update(v, got)[s]]
  BY DEF Update
<1>3. Update(v, got) \in Tables
  BY <1>1, <1>2 DEF Tables
<1> QED
  BY <1>1, <1>3 DEF NoneOverdue

LEMMA NothingType == Nothing \in Tables /\ NoneOverdue(Nothing)
BY DEF Nothing, Tables, NoneOverdue

LEMMA FreshInit == Init => FreshInv
<1> SUFFICES ASSUME Init PROVE FreshInv
  OBVIOUS
<1>1. AgesOK
  BY NothingType, Times DEF Init, AgesOK
<1>2. NoneOverdue(readings) /\ NoneOverdue(list)
  BY NothingType DEF Init
<1> QED
  BY <1>1, <1>2 DEF Init, FreshInv, HeldInv, DustInv, BusyInv

\* The end of a dust cycle, with a reading or without.
LEMMA MeasureKeeps ==
  ASSUME FreshInv, NEW arrives \in BOOLEAN, Measure(arrives)
  PROVE  FreshInv'
<1> USE DEF FreshInv, AgesOK
<1>1. /\ sinceDust = CYCLE /\ sinceDust' = 0
      /\ UNCHANGED <<sinceTx, held, dead, readings, pc, list, busy>>
  BY DEF Measure, reporter
<1>2. \A s \in OnBus : missed'[s] = missed[s]
  BY DEF Measure, OnBus, Sensors
<1>3. missed["dust"] \in Nat /\ CYCLE \in Nat
  BY Times DEF Sensors
<1>4. missed' \in [Sensors -> Nat] /\ dust' \in Ages \cup {None} /\ DustInv'
  <2>1. CASE arrives
    <3>1. dust' = 0 /\ missed' = [missed EXCEPT !["dust"] = 0]
      BY <2>1 DEF Measure
    <3>2. missed' \in [Sensors -> Nat] /\ missed'["dust"] = 0
      BY <3>1 DEF Sensors
    <3> QED
      BY <1>1, <1>3, <3>1, <3>2, Bounds DEF DustInv
  <2>2. CASE ~arrives /\ "dust" \in dead
    <3>1. dust' = dust /\ missed' = [missed EXCEPT !["dust"] = missed["dust"]]
      BY <2>2 DEF Measure
    <3> QED
      BY <1>1, <1>3, <2>2, <3>1 DEF DustInv
  <2>3. CASE ~arrives /\ "dust" \notin dead
    <3>1. dust' = dust /\ missed' = [missed EXCEPT !["dust"] = missed["dust"] + 1]
      BY <2>3 DEF Measure
    <3>2. missed' \in [Sensors -> Nat] /\ missed'["dust"] = missed["dust"] + 1
      BY <1>3, <3>1 DEF Sensors
    <3>3. (missed["dust"] + 1) * CYCLE = missed["dust"] * CYCLE + CYCLE /\ missed["dust"] * CYCLE \in Nat
      BY <1>3, OneMore
    <3>4. ASSUME dust # None PROVE dust <= (missed["dust"] + 1) * CYCLE + 0
      <4>1. dust \in Nat /\ dust <= missed["dust"] * CYCLE + CYCLE
        BY <1>1, <2>3, <3>4 DEF DustInv, Ages
      <4> QED
        BY <1>3, <3>3, <4>1
    <3>5. DustInv'
      BY <1>1, <3>1, <3>2, <3>4 DEF DustInv
    <3> QED
      BY <3>1, <3>2, <3>5
  <2> QED
    BY <2>1, <2>2, <2>3
<1>5. HeldInv'
  BY <1>1, <1>2 DEF HeldInv
<1>6. NoneOverdue(readings)' /\ NoneOverdue(list)' /\ BusyInv'
  BY <1>1 DEF NoneOverdue, BusyInv
<1> QED
  BY <1>1, <1>4, <1>5, <1>6, Times

\* The transmitting pass.
LEMMA TransmitKeeps ==
  ASSUME FreshInv, Transmit
  PROVE  FreshInv'
<1> USE DEF FreshInv, AgesOK
<1>1. /\ sinceTx = INTERVAL /\ sinceTx' = 0
      /\ UNCHANGED <<sinceDust, dust, dead, pc, list, busy>>
  BY DEF Transmit, reporter
<1>2. PICK got \in [OnBus -> {"result", "nothing", "noise"}], begun \in SUBSET (OnBus \ dead) :
        /\ \A s \in OnBus :
             /\ got[s] = "result" => held[s] # None
             /\ held[s] # None /\ got[s] = "nothing" => s \in MayFail
             /\ got[s] = "noise" => s \in MayFail
             /\ s \notin begun => s \in dead \/ (s \in MayFail /\ missed[s] < MAXMISSED)
        /\ missed' = [s \in Sensors |-> IF s \in begun THEN 0 ELSE IF s \in OnBus \ dead THEN missed[s] + 1 ELSE missed[s]]
        /\ \E kept \in SUBSET OnBus :
             held' = [s \in OnBus |-> IF s \in begun THEN 0 ELSE IF s \in kept /\ got[s] # "result" THEN held[s] ELSE None]
        /\ \E v \in Climates, received \in BOOLEAN :
             readings' = IF received THEN Update(v, got) ELSE readings
  BY Zenon DEF Transmit
<1>3. PICK kept \in SUBSET OnBus :
        held' = [s \in OnBus |-> IF s \in begun THEN 0 ELSE IF s \in kept /\ got[s] # "result" THEN held[s] ELSE None]
  BY <1>2
<1>4. readings' \in Tables /\ NoneOverdue(readings)'
  <2>1. PICK v \in Climates : readings' = readings \/ readings' = Update(v, got)
    BY <1>2
  <2>2. Update(v, got) \in Tables /\ NoneOverdue(Update(v, got))
    BY <1>1, <1>2, UpdateType
  <2> QED
    BY <2>1, <2>2 DEF NoneOverdue
<1>5. missed' \in [Sensors -> Nat] /\ missed'["dust"] = missed["dust"]
  BY <1>2 DEF Sensors, OnBus
<1>6. held' \in [OnBus -> Ages \cup {None}]
  BY <1>3, Bounds
<1>7. HeldInv'
  <2> SUFFICES ASSUME NEW s \in OnBus, held'[s] # None
               PROVE  s \notin dead /\ held'[s] <= missed'[s] * INTERVAL + 0
    BY <1>1 DEF HeldInv
  <2>1. s \in Sensors /\ missed[s] \in Nat /\ INTERVAL \in Nat
    BY Times DEF Sensors
  <2>2. CASE s \in begun
    <3>1. held'[s] = 0 /\ missed'[s] = 0
      BY <1>2, <1>3, <2>1, <2>2
    <3> QED
      BY <2>1, <2>2, <3>1
  <2>3. CASE s \notin begun
    <3>1. held'[s] = held[s]
      BY <1>3, <2>3
    <3>2. s \notin dead /\ held[s] <= missed[s] * INTERVAL + INTERVAL /\ held[s] \in Nat
      BY <1>1, <3>1 DEF HeldInv, Ages
    <3>3. missed'[s] = missed[s] + 1
      BY <1>2, <2>1, <2>3, <3>2
    <3>4. (missed[s] + 1) * INTERVAL = missed[s] * INTERVAL + INTERVAL /\ missed[s] * INTERVAL \in Nat
      BY <2>1, OneMore
    <3> QED
      BY <2>1, <3>1, <3>2, <3>3, <3>4
  <2> QED
    BY <2>2, <2>3
<1>8. DustInv' /\ NoneOverdue(list)' /\ BusyInv'
  BY <1>1, <1>5 DEF DustInv, NoneOverdue, BusyInv
<1> QED
  BY <1>1, <1>4, <1>5, <1>6, <1>7, <1>8, Times

LEMMA RestartKeeps ==
  ASSUME FreshInv, Restart
  PROVE  FreshInv'
<1> USE DEF FreshInv, AgesOK
<1>1. /\ sinceTx' = INTERVAL /\ sinceDust' \in 0 .. CYCLE /\ dust' = None
      /\ missed' = [missed EXCEPT !["dust"] = 0]
      /\ UNCHANGED <<held, dead, readings, pc, list, busy>>
  BY DEF Restart, reporter
<1>2. missed' \in [Sensors -> Nat] /\ \A s \in OnBus : missed'[s] = missed[s]
  BY <1>1 DEF OnBus, Sensors
<1>3. HeldInv'
  <2> SUFFICES ASSUME NEW s \in OnBus, held[s] # None
               PROVE  s \notin dead /\ held[s] <= missed[s] * INTERVAL + INTERVAL
    BY <1>1, <1>2 DEF HeldInv
  <2>1. held[s] \in Nat /\ missed[s] \in Nat /\ INTERVAL \in Nat /\ sinceTx \in 0 .. INTERVAL
    BY Times DEF Ages, Sensors
  <2>2. missed[s] * INTERVAL \in Nat
    BY <2>1, OneMore
  <2> QED
    BY <2>1, <2>2 DEF HeldInv
<1>4. DustInv' /\ NoneOverdue(readings)' /\ NoneOverdue(list)' /\ BusyInv'
  BY <1>1 DEF DustInv, NoneOverdue, BusyInv
<1> QED
  BY <1>1, <1>2, <1>3, <1>4, Times

LEMMA SilenceKeeps ==
  ASSUME FreshInv, NEW s \in Sensors, Silence(s)
  PROVE  FreshInv'
<1> USE DEF FreshInv, AgesOK
<1>1. /\ dead' = dead \cup {s}
      /\ held' = [t \in OnBus |-> IF t = s THEN None ELSE held[t]]
      /\ missed' = [missed EXCEPT ![s] = 0]
      /\ UNCHANGED <<sinceTx, sinceDust, dust, readings, pc, list, busy>>
  BY DEF Silence, reporter
<1>2. missed' \in [Sensors -> Nat] /\ held' \in [OnBus -> Ages \cup {None}]
  BY <1>1
<1>3. HeldInv'
  BY <1>1 DEF HeldInv, Sensors
<1>4. DustInv'
  BY <1>1 DEF DustInv, Sensors
<1>5. NoneOverdue(readings)' /\ NoneOverdue(list)' /\ BusyInv'
  BY <1>1 DEF NoneOverdue, BusyInv
<1> QED
  BY <1>1, <1>2, <1>3, <1>4, <1>5

\* The steps of the reporter leave the station alone.
LEMMA ReportKeeps ==
  ASSUME FreshInv, Report
  PROVE  FreshInv'
<1> USE DEF FreshInv, AgesOK
<1>1. UNCHANGED <<sinceTx, held, sinceDust, dust, missed, dead, readings>>
  BY Zenon DEF Report, TooOld, Fresh, PostDust, PostClimate, station
<1>2. HeldInv' /\ DustInv' /\ NoneOverdue(readings)'
  BY <1>1 DEF HeldInv, DustInv, NoneOverdue
<1>3. CASE TooOld
  BY <1>1, <1>2, <1>3 DEF TooOld, NoneOverdue, BusyInv
<1>4. CASE Fresh
  <2>1. list' = readings /\ pc' = "dust" /\ pc = "cron" /\ busy' = busy /\ Current(readings)
    BY <1>4 DEF Fresh
  <2>2. \A s \in Sensors : readings[s] # None => readings[s].stamp <= MAXAGE
    BY <2>1 DEF Current, Matched
  <2>3. busy = 0 /\ MAXAGE + 0 = MAXAGE
    BY <2>1, Times DEF BusyInv
  <2>4. BusyInv'
    BY <2>1, <2>2, <2>3 DEF BusyInv
  <2> QED
    BY <1>1, <1>2, <2>1, <2>4 DEF NoneOverdue
<1>5. CASE PostDust
  <2>1. UNCHANGED <<list, busy>> /\ pc' = "climate" /\ pc = "dust"
    BY <1>5 DEF PostDust
  <2> QED
    BY <1>1, <1>2, <2>1 DEF NoneOverdue, BusyInv
<1>6. CASE PostClimate
  <2>1. list' = Nothing /\ pc' = "cron" /\ busy' = 0
    BY <1>6 DEF PostClimate
  <2>2. list' \in Tables /\ NoneOverdue(list)'
    BY <2>1, NothingType DEF NoneOverdue, Nothing
  <2> QED
    BY <1>1, <1>2, <2>1, <2>2, Times DEF BusyInv
<1> QED
  BY <1>3, <1>4, <1>5, <1>6 DEF Report

LEMMA TickKeeps ==
  ASSUME FreshInv, Tick
  PROVE  FreshInv'
<1> USE DEF FreshInv, AgesOK
<1>1. /\ sinceTx < INTERVAL /\ sinceDust < CYCLE
      /\ sinceTx' = sinceTx + 1 /\ sinceDust' = sinceDust + 1
      /\ held' = [s \in OnBus |-> Older(held[s])] /\ dust' = Older(dust)
      /\ readings' = [s \in Sensors |-> Aged(readings[s])]
      /\ list' = [s \in Sensors |-> Aged(list[s])]
      /\ UNCHANGED <<missed, dead, pc>>
      /\ pc # "cron" => busy < TIMEOUT
      /\ busy' = IF pc # "cron" THEN busy + 1 ELSE busy
  BY DEF Tick
<1>2. readings' \in Tables /\ NoneOverdue(readings')
  BY <1>1, TableAged
<1>3. /\ list' \in Tables /\ NoneOverdue(list')
      /\ \A s \in Sensors : list'[s] # None =>
           list[s] # None /\ list[s].stamp \in Nat /\ list'[s].stamp \in Nat /\ list'[s].stamp <= list[s].stamp + 1
  BY <1>1, TableAged
<1>4. held' \in [OnBus -> Ages \cup {None}] /\ dust' \in Ages \cup {None}
  <2>1. \A s \in OnBus : Older(held[s]) \in Ages \cup {None}
    BY OlderType
  <2> QED
    BY <1>1, <2>1, OlderType
<1>5. HeldInv'
  <2> SUFFICES ASSUME NEW s \in OnBus, held'[s] # None
               PROVE  s \notin dead /\ held'[s] <= missed[s] * INTERVAL + (sinceTx + 1)
    BY <1>1 DEF HeldInv
  <2>1. held[s] # None /\ held[s] \in Ages /\ held'[s] \in Ages /\ held'[s] <= held[s] + 1
    BY <1>1, <1>4, OlderType
  <2>2. s \notin dead /\ held[s] <= missed[s] * INTERVAL + sinceTx
    BY <2>1 DEF HeldInv
  <2>3. held[s] \in Nat /\ held'[s] \in Nat /\ missed[s] \in Nat /\ INTERVAL \in Nat /\ sinceTx \in Nat
    BY <2>1, Times DEF Sensors, Ages
  <2>4. missed[s] * INTERVAL \in Nat
    BY <2>3, OneMore
  <2> QED
    BY <2>1, <2>2, <2>3, <2>4
<1>6. DustInv'
  <2> SUFFICES ASSUME dust' # None, "dust" \notin dead
               PROVE  dust' <= missed["dust"] * CYCLE + (sinceDust + 1)
    BY <1>1 DEF DustInv
  <2>1. dust # None /\ dust \in Ages /\ dust' \in Ages /\ dust' <= dust + 1
    BY <1>1, <1>4, OlderType
  <2>2. dust <= missed["dust"] * CYCLE + sinceDust
    BY <2>1 DEF DustInv
  <2>3. dust \in Nat /\ dust' \in Nat /\ missed["dust"] \in Nat /\ CYCLE \in Nat /\ sinceDust \in Nat
    BY <2>1, Times DEF Sensors, Ages
  <2>4. missed["dust"] * CYCLE \in Nat
    BY <2>3, OneMore
  <2> QED
    BY <2>1, <2>2, <2>3, <2>4
<1>7. BusyInv'
  <2>1. CASE pc = "cron"
    BY <1>1, <2>1 DEF BusyInv
  <2>2. CASE pc # "cron"
    <3> SUFFICES ASSUME NEW s \in Sensors, list'[s] # None
                 PROVE  list'[s].stamp <= MAXAGE + (busy + 1)
      BY <1>1, <2>2 DEF BusyInv
    <3>1. /\ list[s] # None /\ list[s].stamp \in Nat /\ list'[s].stamp \in Nat
          /\ list'[s].stamp <= list[s].stamp + 1
      BY <1>3
    <3>2. list[s].stamp <= MAXAGE + busy /\ busy \in Nat /\ MAXAGE \in Nat
      BY <2>2, <3>1, Times DEF BusyInv
    <3> QED
      BY <3>1, <3>2
  <2> QED
    BY <2>1, <2>2
<1>8. NoneOverdue(readings)' /\ NoneOverdue(list)'
  BY <1>2, <1>3 DEF NoneOverdue
<1>9. sinceTx' \in 0 .. INTERVAL /\ sinceDust' \in 0 .. CYCLE /\ busy' \in 0 .. TIMEOUT
  BY <1>1, Times
<1> QED
  BY <1>1, <1>2, <1>3, <1>4, <1>5, <1>6, <1>7, <1>8, <1>9

LEMMA FreshStep == FreshInv /\ [Next]_vars => FreshInv'
<1> SUFFICES ASSUME FreshInv, [Next]_vars PROVE FreshInv'
  OBVIOUS
<1>1. CASE UNCHANGED vars
  BY <1>1 DEF vars, FreshInv, AgesOK, HeldInv, DustInv, NoneOverdue, BusyInv
<1>2. CASE Next
  BY <1>2, MeasureKeeps, TransmitKeeps, RestartKeeps, SilenceKeeps, ReportKeeps, TickKeeps, Zenon DEF Next
<1> QED
  BY <1>1, <1>2

LEMMA FreshCorrect == Spec => []FreshInv
BY FreshInit, FreshStep, PTL DEF Spec

\* Whatever is lost, cut short, broken or restarted between the sensors and the
\* services, what is posted is as recent as $maxage and the time-out make it,
\* and its measurement as the failures before it (report-...pl:63).
THEOREM FreshPostsCorrect == Spec => FreshPosts
<1> DEFINE Recent(s) == list[s].stamp <= MAXAGE + TIMEOUT /\ ~list[s].overdue
<1>1. ASSUME FreshInv, pc # "cron", NEW s \in Matched(list) PROVE Recent(s)
  <2>1. s \in Sensors /\ list[s] # None
    BY DEF Matched
  <2>2. list[s].stamp \in Nat
    <3>1. list[s] \in Reading
      BY <1>1, <2>1 DEF FreshInv, AgesOK, Tables
    <3> QED
      BY <3>1, Bounds DEF Reading
  <2>3. list[s].stamp <= MAXAGE + busy /\ busy \in 0 .. TIMEOUT
    BY <1>1, <2>1 DEF FreshInv, AgesOK, BusyInv
  <2>4. ~list[s].overdue
    BY <1>1, <2>1 DEF FreshInv, NoneOverdue
  <2> QED
    BY <2>2, <2>3, <2>4, Times
<1>2. FreshInv /\ [Next]_vars => [\A s \in posted' \ posted : Recent(s)]_vars
  <2> SUFFICES ASSUME FreshInv, Next, NEW s \in posted' \ posted PROVE Recent(s)
    OBVIOUS
  <2> HIDE DEF Recent
  <2>1. CASE PostDust
    <3>1. pc # "cron" /\ s \in Matched(list)
      BY <2>1 DEF PostDust
    <3> QED
      BY <1>1, <3>1
  <2>2. CASE PostClimate
    <3>1. pc # "cron" /\ s \in Matched(list)
      BY <2>2 DEF PostClimate
    <3> QED
      BY <1>1, <3>1
  <2>3. CASE TooOld \/ Fresh
    <3>1. posted' = {}
      BY <2>3 DEF TooOld, Fresh
    <3> QED
      BY <3>1
  <2>4. CASE ~Report
    <3>1. posted' = posted
      BY <2>4, Zenon DEF Next, Measure, Transmit, Restart, Silence, Tick, reporter
    <3> QED
      BY <3>1
  <2> QED
    BY <2>1, <2>2, <2>3, <2>4 DEF Report
<1> QED
  BY <1>2, FreshCorrect, PTL DEF Spec, FreshPosts
=============================================================================

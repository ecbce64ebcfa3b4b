-------------------------- MODULE ConsoleLineProofs --------------------------
(***************************************************************************)
(* What TLAPS proves of ConsoleLine, for every buffer size and every set   *)
(* of keys.                                                                *)
(***************************************************************************)
EXTENDS ConsoleLine, FiniteSetTheorems, WellFoundedInduction, TLAPS

\* A nonempty set of numbers up to n has a least one: the intervals up to its
\* members are well-founded under inclusion.
LEMMA Least ==
  ASSUME NEW n \in Nat, NEW T, T \subseteq 0 .. n, T # {}
  PROVE  \E m \in T : \A i \in T : m <= i
<1> DEFINE R == StrictSubsetOrdering(0 .. n)
           F == {0 .. m : m \in T}
<1>1. IsWellFoundedOn(R, SUBSET (0 .. n))
  <2>1. FiniteSubsetsOf(0 .. n) = SUBSET (0 .. n)
    <3>1. IsFiniteSet(0 .. n)
      BY FS_Interval
    <3> QED
      BY <3>1, FS_FiniteSubsetsOfFinite, Zenon
  <2>2. IsWellFoundedOn(R, FiniteSubsetsOf(0 .. n))
    BY FS_StrictSubsetOrderingWellFounded, Zenon
  <2> QED
    BY <2>1, <2>2, Zenon
<1>2. F \subseteq SUBSET (0 .. n) /\ F # {}
  <2>1. ASSUME NEW m \in T PROVE 0 .. m \in SUBSET (0 .. n)
    OBVIOUS
  <2>2. F \subseteq SUBSET (0 .. n)
    BY <2>1, Zenon
  <2>3. PICK m : m \in T
    BY Zenon
  <2>4. 0 .. m \in F
    BY <2>3, Zenon
  <2> QED
    BY <2>2, <2>4, Zenon
<1>3. PICK x \in F : \A y \in F : <<y, x>> \notin R
  <2> HIDE DEF R, F
  <2> QED
    BY <1>1, <1>2, WFMin, Zenon
<1>4. PICK m \in T : x = 0 .. m
  BY <1>3, Zenon
<1>5. \A i \in T : ~(i < m)
  <2> SUFFICES ASSUME NEW i \in T, i < m PROVE <<0 .. i, 0 .. m>> \in R
    BY <1>3, <1>4, Zenon
  <2>1. i \in Nat /\ m \in Nat
    OBVIOUS
  <2>2. 0 .. i \subseteq 0 .. m
    BY <2>1
  <2>3. m \in 0 .. m /\ m \notin 0 .. i
    BY <2>1
  <2>4. 0 .. i # 0 .. m
    BY <2>3, Zenon
  <2>5. 0 .. i \in SUBSET (0 .. n) /\ 0 .. m \in SUBSET (0 .. n)
    OBVIOUS
  <2> QED
    BY <2>2, <2>4, <2>5 DEF StrictSubsetOrdering
<1>6. \A i \in T : m <= i
  BY <1>5
<1> QED
  BY <1>6

\* The copy of "Up" stops, inside the buffer, at the first 0, which is not
\* before inputpos.
LEMMA StoredFacts ==
  ASSUME TypeOK, Terminated
  PROVE  /\ Stored \in inputpos .. INPUTBUFSIZE - 1
         /\ inputbuf[Stored] = "nul"
         /\ \A i \in 0 .. Stored - 1 : inputbuf[i] # "nul"
<1> DEFINE T == {i \in Cells : inputbuf[i] = "nul"}
<1>1. inputpos \in 0 .. INPUTBUFSIZE - 1 /\ INPUTBUFSIZE - 1 \in Nat
  BY BufferAssumption DEF TypeOK, Cells
<1>2. T \subseteq 0 .. INPUTBUFSIZE - 1
  BY DEF Cells
<1>3. T # {}
  BY <1>1 DEF Terminated, Cells
<1>4. PICK m \in T : \A i \in T : m <= i
  <2> HIDE DEF T
  <2> QED
    BY <1>1, <1>2, <1>3, Least
<1>5. m \in Cells /\ inputbuf[m] = "nul"
  BY <1>4
<1>6. \A i \in 0 .. m - 1 : inputbuf[i] # "nul"
  <2> SUFFICES ASSUME NEW i \in 0 .. m - 1, inputbuf[i] = "nul" PROVE FALSE
    OBVIOUS
  <2>1. i \in T
    BY <1>5, BufferAssumption DEF Cells
  <2> QED
    BY <2>1, <1>4, <1>5 DEF Cells
<1>7. /\ Stored \in Cells
      /\ inputbuf[Stored] = "nul"
      /\ \A i \in 0 .. Stored - 1 : inputbuf[i] # "nul"
  BY <1>5, <1>6 DEF Stored
<1>8. ~(Stored < inputpos)
  BY <1>1, <1>7 DEF Terminated, Cells
<1> QED
  BY <1>1, <1>7, <1>8 DEF Cells

-----------------------------------------------------------------------------
\* The last cell is never used for text, which keeps a 0 behind the line when a
\* character is typed; the cursor and the line move together, so the cursor
\* stays on the screen.
LastFree == inputbuf[INPUTBUFSIZE - 1] = "nul"
LineInv == /\ TypeOK
           /\ Terminated
           /\ LineShown
           /\ LastFree

LEMMA LineInvInit == Init => LineInv
<1> SUFFICES ASSUME Init PROVE LineInv
  OBVIOUS
<1>1. 0 \in Cells /\ 0 \in Columns
  BY BufferAssumption, OtherAssumption DEF Cells, Columns
<1>2. touched \in BOOLEAN /\ recalled \in BOOLEAN
  BY Zenon DEF Init
<1>3. TypeOK
  BY <1>1, <1>2, OtherAssumption DEF Init, TypeOK, Blank
<1>4. Terminated
  BY <1>1, BufferAssumption DEF Init, Terminated, Cells
<1>5. LineShown
  BY DEF Init, LineShown, Blank, Columns
<1>6. LastFree
  BY BufferAssumption DEF Init, LastFree, Cells
<1> QED
  BY <1>3, <1>4, <1>5, <1>6 DEF LineInv

\* Keys that are no text are not stored, and 0 is no key.
LEMMA KeyFacts ==
  /\ "nul" \notin Printable
  /\ \A k \in Printable : k # "nul" /\ k # "blank"
BY KeysAssumption DEF Printable

\* Where the line and the cursor are: the cursor is on the screen.
LEMMA Places ==
  ASSUME LineInv
  PROVE  /\ inputpos \in Cells /\ inputpos \in Nat /\ others \in Nat /\ from \in Nat
         /\ inputpos < INPUTBUFSIZE /\ others <= MAXOTHER /\ from <= inputpos
         /\ col = others + inputpos /\ col \in Nat
         /\ Columns \subseteq Nat
         /\ \A i \in Nat : i < INPUTBUFSIZE + others => i \in Columns
BY BufferAssumption, OtherAssumption DEF LineInv, LineShown, TypeOK, Cells, Columns

LEMMA UpKept == ASSUME LineInv, NEW k \in Keys, Up(k) PROVE LineInv'
<1>1. /\ Stored \in inputpos .. INPUTBUFSIZE - 1
      /\ inputbuf[Stored] = "nul"
      /\ \A i \in 0 .. Stored - 1 : inputbuf[i] # "nul"
  BY StoredFacts DEF LineInv
<1>2. Stored \in Cells /\ Stored \in Nat /\ inputpos <= Stored
  BY <1>1, Places, BufferAssumption DEF Cells
<1>3. col - inputpos = others
  BY Places
<1>4. others + Stored \in Columns
  BY <1>1, <1>2, Places, BufferAssumption
<1>5. /\ inputpos' = Stored /\ col' = others + Stored /\ escstatus' = 0
      /\ text' = [i \in Columns |-> IF i \in others .. others + Stored - 1
                                        THEN inputbuf[i - others] ELSE text[i]]
      /\ from' = 0
      /\ UNCHANGED <<inputbuf, lastcmd, touched, others>>
  BY <1>3 DEF Up
<1>6. TypeOK'
  <2>1. recalled' \in BOOLEAN
    BY Zenon DEF Up
  <2>2. ASSUME NEW i \in Columns
        PROVE  text'[i] \in Printable \cup {"nul", "blank", "other"}
    <3>1. CASE i \in others .. others + Stored - 1
      <4>1. i - others \in Cells
        BY <3>1, <1>2, Places, BufferAssumption DEF Cells
      <4> QED
        BY <4>1, <3>1, <1>5 DEF LineInv, TypeOK
    <3>2. CASE i \notin others .. others + Stored - 1
      BY <3>2, <1>5 DEF LineInv, TypeOK
    <3> QED
      BY <3>1, <3>2
  <2>3. text' \in [Columns -> Printable \cup {"nul", "blank", "other"}]
    BY <2>2, <1>5
  <2> QED
    BY <2>1, <2>3, <1>2, <1>4, <1>5 DEF LineInv, TypeOK
<1>7. Terminated'
  BY <1>1, <1>2, <1>5, BufferAssumption DEF Terminated, Cells
<1>8. LineShown'
  <2>1. ASSUME NEW i \in 0 .. Stored - 1 PROVE text'[others + i] = inputbuf[i]
    <3>1. i \in Nat /\ others + i \in Columns
      BY <1>1, <1>2, Places, BufferAssumption
    <3>2. others + i \in others .. others + Stored - 1 /\ (others + i) - others = i
      BY <3>1, <1>2, Places
    <3> QED
      BY <3>1, <3>2, <1>5
  <2>2. ASSUME NEW i \in Columns, i >= others + Stored PROVE text'[i] = "blank"
    <3>1. i >= col /\ i \notin others .. others + Stored - 1
      BY <2>2, <1>2, Places
    <3> QED
      BY <3>1, <1>5 DEF LineInv, LineShown
  <2> QED
    BY <2>1, <2>2, <1>5 DEF LineShown
<1> QED
  BY <1>5, <1>6, <1>7, <1>8 DEF LineInv, LastFree

LEMMA DownKept == ASSUME LineInv, NEW k \in Keys, Down(k) PROVE LineInv'
<1>1. col - inputpos = others
  BY Places
<1>2. /\ inputpos' = 0 /\ col' = others /\ from' = 0 /\ escstatus' = 0
      /\ text' = [i \in Columns |-> IF i \in others .. col - 1 THEN "blank" ELSE text[i]]
      /\ UNCHANGED <<inputbuf, lastcmd, touched, others>>
  BY <1>1 DEF Down
<1>3. TypeOK'
  <2>1. recalled' \in BOOLEAN
    BY Zenon DEF Down
  <2>2. 0 \in Cells /\ others \in Columns
    BY Places, BufferAssumption DEF Cells
  <2> QED
    BY <1>2, <2>1, <2>2 DEF LineInv, TypeOK
<1>4. Terminated'
  BY <1>2, Places, BufferAssumption DEF LineInv, Terminated, Cells
<1>5. LineShown'
  <2>1. ASSUME NEW i \in Columns, i >= others PROVE text'[i] = "blank"
    <3>1. i \in others .. col - 1 \/ i >= col
      BY <2>1, Places
    <3> QED
      BY <3>1, <1>2 DEF LineInv, LineShown
  <2> QED
    BY <1>2, <2>1, Places DEF LineShown
<1> QED
  BY <1>2, <1>3, <1>4, <1>5 DEF LineInv, LastFree

LEMMA BackspaceKept ==
  ASSUME LineInv, NEW k \in Keys, Backspace(k) PROVE LineInv'
<1>1. recalled' \in BOOLEAN
  BY Zenon DEF Backspace
<1>2. CASE inputpos = 0
  BY <1>1, <1>2
  DEF LineInv, TypeOK, Terminated, LineShown, LastFree, Backspace, terminal
<1>3. CASE inputpos > 0
  <2>1. /\ inputpos' = inputpos - 1 /\ col' = col - 1
        /\ text' = [text EXCEPT ![col - 1] = "blank"]
        /\ from' = IF from = inputpos THEN inputpos - 1 ELSE from
        /\ UNCHANGED <<inputbuf, escstatus, lastcmd, touched, others>>
    BY <1>3 DEF Backspace
  <2>2. /\ col - 1 \in Columns /\ inputpos - 1 \in Cells
        /\ from' \in 0 .. inputpos - 1 /\ from <= inputpos
    BY <1>3, <2>1, Places, BufferAssumption DEF Cells
  <2>3. TypeOK'
    BY <1>1, <2>1, <2>2 DEF LineInv, TypeOK
  <2>4. Terminated'
    BY <1>3, <2>1, Places, BufferAssumption DEF LineInv, Terminated
  <2>5. LineShown'
    <3>1. ASSUME NEW i \in from' .. inputpos - 2 PROVE text'[others + i] = inputbuf[i]
      <4>1. /\ i \in from .. inputpos - 1 /\ others + i \in Columns
            /\ others + i # col - 1
        <5>1. i \in Nat /\ i \in from .. inputpos - 1
          BY <1>3, <2>1, <2>2, Places
        <5> QED
          BY <5>1, Places, BufferAssumption
      <4> QED
        BY <4>1, <2>1 DEF LineInv, TypeOK, LineShown
    <3>2. ASSUME NEW i \in Columns, i >= col - 1 PROVE text'[i] = "blank"
      <4>1. i = col - 1 \/ i >= col
        BY <3>2, Places
      <4> QED
        BY <4>1, <2>1 DEF LineInv, TypeOK, LineShown
    <3>3. others = 0 => from' = 0
      BY <1>3, <2>1, Places DEF LineInv, LineShown
    <3>4. col' = others + inputpos'
      BY <2>1, Places
    <3>5. from' .. inputpos' - 1 = from' .. inputpos - 2
      BY <2>1, Places
    <3> QED
      BY <3>1, <3>2, <3>3, <3>4, <3>5, <2>1 DEF LineShown
  <2> QED
    BY <2>1, <2>3, <2>4, <2>5 DEF LineInv, LastFree
<1> QED
  BY <1>2, <1>3, Places

\* What is printed at the cursor moves it on and the line is shown anew from
\* there: by one or two columns.
LEMMA OtherKept ==
  ASSUME LineInv, NEW n \in {1, 2}, others + n <= MAXOTHER,
         UNCHANGED <<editor, lastcmd, touched>>, recalled' \in BOOLEAN,
         others' = others + n, from' = inputpos, col' = col + n,
         text' = [i \in Columns |-> IF i \in col .. col + n - 1 THEN "other" ELSE text[i]]
  PROVE  LineInv'
<1>1. /\ inputpos' = inputpos /\ inputbuf' = inputbuf /\ escstatus' = escstatus
      /\ lastcmd' = lastcmd /\ touched' = touched
  BY DEF editor
<1>2. others' \in 0 .. MAXOTHER /\ col' \in Columns /\ from' \in 0 .. inputpos'
  <2>1. others + n \in 0 .. MAXOTHER /\ inputpos \in 0 .. inputpos
    BY Places, OtherAssumption
  <2>2. col + n \in Columns
    BY Places, BufferAssumption, OtherAssumption DEF Columns
  <2> QED
    BY <1>1, <2>1, <2>2
<1>3. TypeOK'
  BY <1>1, <1>2 DEF LineInv, TypeOK
<1>4. Terminated' /\ LastFree'
  BY <1>1 DEF LineInv, Terminated, LastFree
<1>5. LineShown'
  <2>1. ASSUME NEW i \in Columns, i >= col + n PROVE text'[i] = "blank"
    <3>1. i >= col /\ i \notin col .. col + n - 1
      BY <2>1, Places
    <3> QED
      BY <3>1 DEF LineInv, LineShown
  <2>2. col' = others' + inputpos' /\ others' # 0 /\ from' .. inputpos' - 1 = {}
    BY <1>1, Places
  <2> QED
    BY <2>1, <2>2 DEF LineShown
<1> QED
  BY <1>3, <1>4, <1>5 DEF LineInv

LEMMA NonprintingKept ==
  ASSUME LineInv, NEW k \in Keys, Nonprinting(k) PROVE LineInv'
<1>1. /\ others + 2 <= MAXOTHER /\ others' = others + 2 /\ from' = inputpos
      /\ text' = [text EXCEPT ![col] = "other", ![col + 1] = "other"]
      /\ col' = col + 2 /\ UNCHANGED <<editor, lastcmd, touched>>
  BY DEF Nonprinting
<1>2. recalled' \in BOOLEAN
  BY Zenon DEF Nonprinting
<1>3. text' = [i \in Columns |-> IF i \in col .. col + 2 - 1 THEN "other" ELSE text[i]]
  <2>1. DOMAIN text = Columns
    BY DEF LineInv, TypeOK
  <2>2. ASSUME NEW i \in Columns PROVE i \in col .. col + 2 - 1 <=> i = col \/ i = col + 1
    BY Places
  <2>3. text' = [i \in Columns |-> IF i = col \/ i = col + 1 THEN "other" ELSE text[i]]
    BY <1>1, <2>1
  <2> QED
    BY <2>2, <2>3
<1> QED
  BY <1>1, <1>2, <1>3, OtherKept

LEMMA OtherOutputKept == ASSUME LineInv, OtherOutput PROVE LineInv'
<1>1. /\ others < MAXOTHER /\ others' = others + 1 /\ from' = inputpos
      /\ text' = [text EXCEPT ![col] = "other"]
      /\ col' = col + 1 /\ UNCHANGED <<editor, lastcmd, touched>>
  BY DEF OtherOutput
<1>2. recalled' \in BOOLEAN
  <2>1. recalled' = recalled /\ recalled \in BOOLEAN
    BY Zenon DEF OtherOutput, LineInv, TypeOK
  <2> QED
    BY <2>1, Zenon
<1>3. text' = [i \in Columns |-> IF i \in col .. col + 1 - 1 THEN "other" ELSE text[i]]
  <2>1. DOMAIN text = Columns
    BY DEF LineInv, TypeOK
  <2>2. ASSUME NEW i \in Columns PROVE i \in col .. col + 1 - 1 <=> i = col
    BY Places
  <2>3. text' = [i \in Columns |-> IF i = col THEN "other" ELSE text[i]]
    BY <1>1, <2>1
  <2> QED
    BY <2>2, <2>3
<1>4. others + 1 <= MAXOTHER
  BY <1>1, Places, OtherAssumption
<1> QED
  BY <1>1, <1>2, <1>3, <1>4, OtherKept

LEMMA ReturnKept ==
  ASSUME LineInv, NEW k \in Keys, Return(k) PROVE LineInv'
<1>1. inputpos \in Cells /\ 0 \in Cells /\ 0 \in Columns
  BY BufferAssumption, OtherAssumption DEF LineInv, TypeOK, Cells, Columns
<1>2. recalled' \in BOOLEAN
  BY Zenon DEF Return
<1>3. Line \in Seq(Printable)
  <2>1. ASSUME NEW i \in 1 .. inputpos PROVE inputbuf[i - 1] \in Printable
    <3>1. i - 1 \in 0 .. inputpos - 1 /\ i - 1 \in Cells
      BY <1>1, BufferAssumption DEF Cells
    <3> QED
      BY <3>1 DEF LineInv, TypeOK, Terminated
  <2>2. inputpos \in Nat
    BY <1>1 DEF Cells
  <2>3. Line \in [1 .. inputpos -> Printable]
    BY <2>1 DEF Line
  <2> QED
    BY <2>2, <2>3
<1>4. touched' \in BOOLEAN
  <2>1. CASE inputpos = 0
    BY <2>1 DEF LineInv, TypeOK, Return
  <2>2. CASE inputpos # 0
    BY <2>2, Zenon DEF Return
  <2> QED
    BY <2>1, <2>2
<1>5. TypeOK'
  <2>1. /\ inputpos' = 0 /\ text' = Blank /\ col' = 0
        /\ others' = 0 /\ others' \in 0 .. MAXOTHER /\ from' = 0
        /\ UNCHANGED escstatus
    BY OtherAssumption DEF Return
  <2>2. inputbuf' \in [Cells -> Printable \cup {"nul"}]
    BY <1>1 DEF LineInv, TypeOK, Return
  <2>3. lastcmd' \in Seq(Printable)
    BY <1>3 DEF LineInv, TypeOK, Return
  <2>4. Blank \in [Columns -> Printable \cup {"nul", "blank", "other"}]
    BY DEF Blank
  <2> QED
    BY <1>1, <1>2, <1>4, <2>1, <2>2, <2>3, <2>4 DEF LineInv, TypeOK
<1>6. Terminated'
  <2>1. CASE inputpos = 0
    BY <2>1, <1>1 DEF LineInv, Terminated, Return
  <2>2. CASE inputpos # 0
    <3>1. inputbuf'[inputpos] = "nul"
      BY <2>2, <1>1 DEF LineInv, TypeOK, Return
    <3>2. inputpos \in 0 .. INPUTBUFSIZE - 1 /\ inputpos' = 0
      BY <1>1 DEF Cells, Return
    <3> QED
      BY <3>1, <3>2 DEF Terminated
  <2> QED
    BY <2>1, <2>2
<1>7. LineShown'
  BY DEF Return, LineShown, Blank, Columns
<1>8. LastFree'
  BY <1>1, BufferAssumption DEF LineInv, TypeOK, LastFree, Return, Cells
<1> QED
  BY <1>5, <1>6, <1>7, <1>8 DEF LineInv

LEMMA TextKept ==
  ASSUME LineInv, NEW k \in Keys, Text(k) PROVE LineInv'
<1>1. k \in Printable
  BY DEF Text
<1>2. recalled' \in BOOLEAN
  BY Zenon DEF Text
<1>3. CASE ~HasRoom
  BY <1>2, <1>3
  DEF LineInv, TypeOK, Terminated, LineShown, LastFree, Text, terminal
<1>4. CASE HasRoom
  <2>1. /\ inputbuf' = [inputbuf EXCEPT ![inputpos] = k]
        /\ inputpos' = inputpos + 1
        /\ text' = [text EXCEPT ![col] = k]
        /\ col' = col + 1
        /\ UNCHANGED <<escstatus, lastcmd, others, from>>
    BY <1>4 DEF Text
  <2>2. touched' \in BOOLEAN
    BY <1>4, Zenon DEF Text
  <2>3. inputpos + 1 \in Cells /\ col \in Columns /\ col + 1 \in Columns
    BY <1>4, Places, BufferAssumption DEF HasRoom, Cells
  <2>4. TypeOK'
    <3>1. from \in 0 .. inputpos + 1
      BY Places
    <3> QED
      BY <1>1, <1>2, <2>1, <2>2, <2>3, <3>1, Places DEF LineInv, TypeOK
  <2>5. LineShown'
    <3>1. ASSUME NEW i \in from .. inputpos PROVE text'[others + i] = inputbuf'[i]
      <4>1. CASE i = inputpos
        BY <4>1, <2>1, <2>3, Places DEF LineInv, TypeOK
      <4>2. CASE i # inputpos
        <5>1. /\ i \in from .. inputpos - 1 /\ i \in Cells
              /\ others + i # col /\ others + i \in Columns
          BY <4>2, Places, BufferAssumption DEF Cells
        <5> QED
          BY <4>2, <5>1, <2>1 DEF LineInv, TypeOK, LineShown
      <4> QED
        BY <4>1, <4>2
    <3>2. ASSUME NEW i \in Columns, i >= col + 1 PROVE text'[i] = "blank"
      <4>1. i # col /\ i >= col
        BY <3>2, Places
      <4> QED
        BY <4>1, <2>1 DEF LineInv, TypeOK, LineShown
    <3>3. col' = others + inputpos' /\ from .. inputpos' - 1 = from .. inputpos
      BY <2>1, Places
    <3> QED
      BY <3>1, <3>2, <3>3, <2>1 DEF LineInv, LineShown
  <2>6. LastFree'
    BY <1>4, <2>1, Places, BufferAssumption
    DEF LineInv, TypeOK, LastFree, HasRoom, Cells
  <2>7. Terminated'
    <3>1. INPUTBUFSIZE - 1 \in inputpos' .. INPUTBUFSIZE - 1
      BY <2>1, <2>3, Places, BufferAssumption DEF Cells
    <3>2. ASSUME NEW i \in 0 .. inputpos PROVE inputbuf'[i] # "nul"
      <4>1. i \in Cells
        BY Places, BufferAssumption DEF Cells
      <4>2. CASE i = inputpos
        BY <4>1, <4>2, <1>1, <2>1, KeyFacts DEF LineInv, TypeOK
      <4>3. CASE i # inputpos
        <5>1. i \in 0 .. inputpos - 1
          BY <4>3, Places
        <5> QED
          BY <5>1, <4>1, <4>3, <2>1 DEF LineInv, TypeOK, Terminated
      <4> QED
        BY <4>2, <4>3
    <3> QED
      BY <3>1, <3>2, Places, <2>1, <2>6 DEF Terminated, LastFree
  <2> QED
    BY <2>4, <2>5, <2>6, <2>7 DEF LineInv
<1> QED
  BY <1>3, <1>4

\* The joint invariant of the line editor, every key in turn.
THEOREM LineCorrect == Spec => []LineInv
<1>1. LineInv /\ [Next]_vars => LineInv'
  <2> SUFFICES ASSUME LineInv, [Next]_vars PROVE LineInv'
    OBVIOUS
  <2>1. ASSUME NEW k \in Keys, InputChar(k) PROVE LineInv'
    <3>1. CASE EscapeBegun(k) \/ OtherEscape(k) \/ Escape(k) \/ TabKey(k)
      <4>1. recalled' \in BOOLEAN /\ escstatus' \in 0 .. 2
        <5>1. recalled' \in BOOLEAN
          BY <3>1, Zenon DEF EscapeBegun, OtherEscape, Escape, TabKey
        <5>2. escstatus' \in 0 .. 2
          BY <3>1 DEF EscapeBegun, OtherEscape, Escape, TabKey, editor,
                      LineInv, TypeOK
        <5> QED
          BY <5>1, <5>2
      <4>2. UNCHANGED <<inputbuf, inputpos, text, col, lastcmd, touched,
                        others, from>>
        BY <3>1 DEF EscapeBegun, OtherEscape, Escape, TabKey, editor, terminal
      <4> QED
        BY <4>1, <4>2
        DEF LineInv, TypeOK, Terminated, LineShown, LastFree
    <3> QED
      BY <2>1, <3>1, UpKept, DownKept, NonprintingKept, BackspaceKept,
         ReturnKept, TextKept, Zenon DEF InputChar
  <2>2. CASE Disconnect
    <3>1. recalled' \in BOOLEAN
      BY <2>2, Zenon DEF Disconnect
    <3>2. 0 \in Cells /\ 0 \in Columns /\ 0 \in 0 .. MAXOTHER
      BY BufferAssumption, OtherAssumption DEF Cells, Columns
    <3>3. TypeOK'
      BY <2>2, <3>1, <3>2 DEF LineInv, TypeOK, Disconnect, Blank
    <3>4. Terminated'
      BY <2>2, BufferAssumption DEF LineInv, Terminated, LastFree, Disconnect
    <3>5. LineShown' /\ LastFree'
      BY <2>2
      DEF LineInv, LineShown, LastFree, Disconnect, Blank, Columns
    <3> QED
      BY <3>3, <3>4, <3>5 DEF LineInv
  <2>3. CASE UNCHANGED vars
    BY <2>3 DEF LineInv, TypeOK, Terminated, LineShown, LastFree, vars, editor,
                terminal, history
  <2> QED
    BY <2>1, <2>2, <2>3, OtherOutputKept DEF Next
<1> QED
  BY LineInvInit, <1>1, PTL DEF Spec

\* Types, with inputpos inside the buffer and room for the final 0.
THEOREM LineTypeCorrect == Spec => []TypeOK
<1>1. LineInv => TypeOK
  BY DEF LineInv
<1> QED
  BY <1>1, LineCorrect, PTL

\* The unbounded copy of "Up" always ends inside the buffer.
THEOREM TerminatedCorrect == Spec => []Terminated
<1>1. LineInv => Terminated
  BY DEF LineInv
<1> QED
  BY <1>1, LineCorrect, PTL

\* Whatever is typed, recalled, erased and printed in between, the user sees the
\* line Return would execute as far as it was typed after the last output of
\* anything else, and the whole of it after "Up" or if there was none.
THEOREM LineShownCorrect == Spec => []LineShown
<1>1. LineInv => LineShown
  BY DEF LineInv
<1> QED
  BY <1>1, LineCorrect, PTL

-----------------------------------------------------------------------------
\* While nothing is typed inputbuf holds the last command, closed by a 0,
\* whatever the keys did to the line: only inputpos and the screen move.
Kept == /\ Len(lastcmd) \in Cells
        /\ inputbuf[Len(lastcmd)] = "nul"
        /\ \A i \in 0 .. Len(lastcmd) - 1 : inputbuf[i] = lastcmd[i + 1]
RecallInv == /\ ~touched => Kept
             /\ recalled /\ ~touched => inputpos = Len(lastcmd)

LEMMA RecallInit == Init => RecallInv
<1> SUFFICES ASSUME Init PROVE RecallInv
  OBVIOUS
<1>1. lastcmd = << >> /\ Len(lastcmd) = 0 /\ 0 \in Cells
  BY BufferAssumption DEF Init, Cells
<1>2. Kept
  BY <1>1 DEF Init, Kept
<1>3. ~recalled
  BY Zenon DEF Init
<1> QED
  BY <1>2, <1>3 DEF RecallInv

\* The copy stops where the last command does.
LEMMA RecallUp ==
  ASSUME LineInv, RecallInv, NEW k \in Keys, Up(k) PROVE RecallInv'
<1>1. inputpos' = Stored /\ UNCHANGED <<inputbuf, lastcmd, touched>>
  BY DEF Up
<1>2. ASSUME ~touched PROVE Stored = Len(lastcmd)
  <2>1. Kept
    BY <1>2 DEF RecallInv
  <2>2. /\ Stored \in Cells /\ inputbuf[Stored] = "nul"
        /\ \A i \in 0 .. Stored - 1 : inputbuf[i] # "nul"
    <3>1. inputpos \in Cells
      BY DEF LineInv, TypeOK
    <3> QED
      BY <3>1, StoredFacts, BufferAssumption DEF LineInv, Cells
  <2>3. Len(lastcmd) \in Nat /\ Stored \in Nat
    BY <2>1, <2>2 DEF Kept, Cells
  <2>4. ~(Len(lastcmd) < Stored)
    BY <2>1, <2>2, <2>3 DEF Kept
  <2>5. ~(Stored < Len(lastcmd))
    <3> SUFFICES ASSUME Stored < Len(lastcmd) PROVE FALSE
      OBVIOUS
    <3>1. inputbuf[Stored] = lastcmd[Stored + 1]
      BY <2>1, <2>3 DEF Kept
    <3>2. lastcmd[Stored + 1] \in Printable
      BY <2>3 DEF LineInv, TypeOK
    <3> QED
      BY <3>1, <3>2, <2>2, KeyFacts
  <2> QED
    BY <2>3, <2>4, <2>5
<1> QED
  BY <1>1, <1>2 DEF RecallInv, Kept

LEMMA RecallReturn ==
  ASSUME LineInv, RecallInv, NEW k \in Keys, Return(k) PROVE RecallInv'
<1>1. ~recalled'
  BY Zenon DEF Return
<1>2. CASE inputpos = 0
  BY <1>1, <1>2 DEF Return, RecallInv, Kept
<1>3. CASE inputpos # 0
  <2>1. inputpos \in Cells /\ inputpos \in Nat
    BY DEF LineInv, TypeOK, Cells
  <2>2. lastcmd' = Line /\ inputbuf' = [inputbuf EXCEPT ![inputpos] = "nul"]
    BY <1>3 DEF Return
  <2>3. Len(lastcmd') = inputpos
    BY <2>1, <2>2 DEF Line
  <2>4. inputbuf'[inputpos] = "nul"
    BY <2>1, <2>2 DEF LineInv, TypeOK
  <2>5. ASSUME NEW i \in 0 .. inputpos - 1
        PROVE  inputbuf'[i] = lastcmd'[i + 1]
    <3>1. i \in Cells /\ i # inputpos /\ i + 1 \in 1 .. inputpos
      BY <2>1, BufferAssumption DEF Cells
    <3>2. inputbuf'[i] = inputbuf[i]
      BY <3>1, <2>2 DEF LineInv, TypeOK
    <3>3. lastcmd'[i + 1] = inputbuf[i]
      BY <3>1, <2>1, <2>2 DEF Line
    <3> QED
      BY <3>2, <3>3
  <2> QED
    BY <1>1, <2>1, <2>3, <2>4, <2>5 DEF RecallInv, Kept
<1> QED
  BY <1>2, <1>3

\* "Up" after a command always shows that command, if nothing else was typed.
THEOREM RecallCorrect == Spec => []Recall
<1>1. LineInv /\ RecallInv /\ [Next]_vars => RecallInv'
  <2> SUFFICES ASSUME LineInv, RecallInv, [Next]_vars PROVE RecallInv'
    OBVIOUS
  <2>1. ASSUME ~recalled', UNCHANGED <<inputbuf, lastcmd, touched>>
        PROVE  RecallInv'
    BY <2>1 DEF RecallInv, Kept
  <2>2. ASSUME NEW k \in Keys, InputChar(k) PROVE RecallInv'
    <3>1. CASE \/ EscapeBegun(k) \/ Down(k) \/ OtherEscape(k) \/ Escape(k)
               \/ TabKey(k) \/ Nonprinting(k) \/ Backspace(k)
      <4>1. ~recalled'
        BY <3>1, Zenon DEF EscapeBegun, Down, OtherEscape, Escape, TabKey,
                           Nonprinting, Backspace
      <4>2. UNCHANGED <<inputbuf, lastcmd, touched>>
        BY <3>1 DEF EscapeBegun, Down, OtherEscape, Escape, TabKey,
                    Nonprinting, Backspace, editor
      <4> QED
        BY <4>1, <4>2, <2>1
    <3>2. CASE Text(k)
      <4>1. ~recalled'
        BY <3>2, Zenon DEF Text
      <4>2. CASE HasRoom
        <5>1. touched'
          BY <3>2, <4>2, Zenon DEF Text
        <5> QED
          BY <4>1, <5>1 DEF RecallInv
      <4>3. CASE ~HasRoom
        BY <3>2, <4>1, <4>3, <2>1 DEF Text
      <4> QED
        BY <4>2, <4>3
    <3> QED
      BY <2>2, <3>1, <3>2, RecallUp, RecallReturn, Zenon DEF InputChar
  <2>3. CASE Disconnect
    <3>1. ~recalled'
      BY <2>3, Zenon DEF Disconnect
    <3> QED
      BY <2>3, <3>1, <2>1 DEF Disconnect
  <2>4. CASE OtherOutput
    BY <2>4 DEF OtherOutput, editor, RecallInv, Kept
  <2>5. CASE UNCHANGED vars
    BY <2>5 DEF RecallInv, Kept, vars, editor, history
  <2> QED
    BY <2>2, <2>3, <2>4, <2>5 DEF Next
<1>2. LineInv /\ RecallInv => Recall
  <2> SUFFICES ASSUME LineInv, RecallInv, recalled, ~touched
               PROVE  Line = lastcmd
    BY DEF Recall
  <2>1. inputpos = Len(lastcmd) /\ Kept
    BY DEF RecallInv
  <2>2. lastcmd \in Seq(Printable) /\ Len(lastcmd) \in Nat
    BY DEF LineInv, TypeOK
  <2>3. ASSUME NEW i \in 1 .. Len(lastcmd)
        PROVE  inputbuf[i - 1] = lastcmd[i]
    <3>1. i - 1 \in 0 .. Len(lastcmd) - 1 /\ (i - 1) + 1 = i
      BY <2>2
    <3> QED
      BY <3>1, <2>1 DEF Kept
  <2>4. lastcmd = [i \in 1 .. Len(lastcmd) |-> lastcmd[i]]
    BY <2>2
  <2> QED
    BY <2>1, <2>3, <2>4 DEF Line
<1> QED
  BY RecallInit, LineCorrect, <1>1, <1>2, PTL DEF Spec
=============================================================================

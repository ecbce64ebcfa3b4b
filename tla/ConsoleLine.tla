----------------------------- MODULE ConsoleLine -----------------------------
(***************************************************************************)
(* The line editor of the USB console: console_inputchar() of              *)
(* lufa/console.c, called for every byte the host sends, and the terminal  *)
(* on which the user sees what it echoes, and what the rest of the station *)
(* prints in the middle of a line: nothing draws the line again then.  The *)
(* words a command prints are left out: it ends on a fresh prompt.  The    *)
(* output ring is a module of its own; here it has room for every echo,    *)
(* and the terminal is wide enough for the line.                           *)
(***************************************************************************)
EXTENDS Naturals, Sequences

CONSTANTS INPUTBUFSIZE,  \* 30 in the code
          Keys,          \* the bytes the host may send
          MAXOTHER       \* bound: columns of other output in a line

\* Bytes that are no text: Escape, Backspace, Return, Tab and the
\* "nonprinting" rest.  "[", "A" and "B" are text, but also end escapes.
Special == {"ESC", "BS", "CR", "TAB", "CTL"}
Printable == Keys \ Special

ASSUME BufferAssumption == INPUTBUFSIZE \in Nat /\ INPUTBUFSIZE >= 2
ASSUME OtherAssumption == MAXOTHER \in Nat
ASSUME KeysAssumption == "nul" \notin Keys /\ "blank" \notin Keys

VARIABLES
  inputbuf, inputpos, escstatus,  \* the statics of console.c
  text, col,  \* the terminal: the cells after the prompt, and the cursor
  lastcmd,    \* history: the command executed last
  touched,    \* history: text put into inputbuf since?
  recalled,   \* history: was "Up" the last key?
  others,     \* history: columns of other output since the prompt
  from        \* history: the characters of the line typed before the last of
              \* it, unless "Up" or "Down" drew the line again

editor == <<inputbuf, inputpos, escstatus>>
terminal == <<text, col>>
history == <<lastcmd, touched, recalled, others, from>>
vars == <<editor, terminal, history>>

Cells == 0 .. INPUTBUFSIZE - 1
Columns == 0 .. INPUTBUFSIZE - 1 + MAXOTHER
Blank == [i \in Columns |-> "blank"]

Line == [i \in 1 .. inputpos |-> inputbuf[i - 1]]

Init == /\ inputbuf = [i \in Cells |-> "nul"]
        /\ inputpos = 0 /\ escstatus = 0
        /\ text = Blank /\ col = 0
        /\ lastcmd = << >> /\ touched = FALSE
        /\ recalled = FALSE /\ others = 0 /\ from = 0

-----------------------------------------------------------------------------
(* Escape sequences *)

EscapeBegun(k) == /\ escstatus = 1
                  /\ escstatus' = IF k = "[" THEN 2 ELSE 0
                  /\ recalled' = FALSE
                  /\ UNCHANGED <<inputbuf, inputpos, terminal, lastcmd, touched, others, from>>

Bug_Stored == 1 + CHOOSE n \in Cells : /\ inputbuf[n] = "nul"
                                       /\ \A i \in 0 .. n - 1 : inputbuf[i] # "nul"
\* Where the loop that copies inputbuf to the line stops: at the first 0.
Stored == CHOOSE n \in Cells : /\ inputbuf[n] = "nul"
                               /\ \A i \in 0 .. n - 1 : inputbuf[i] # "nul"

\* "Up": back to the prompt, then write what inputbuf holds over the line.
Up(k) == /\ escstatus = 2 /\ k = "A"
         /\ escstatus' = 0
         /\ inputpos' = Stored
         /\ LET start == col - inputpos IN
              /\ text' = [i \in Columns |-> IF i \in start .. start + Stored - 1
                                              THEN inputbuf[i - start]
                                              ELSE text[i]]
              /\ col' = start + Stored
         /\ recalled' = TRUE /\ from' = 0
         /\ UNCHANGED <<inputbuf, lastcmd, touched, others>>

\* "Down": wipe the line.
Down(k) == /\ escstatus = 2 /\ k = "B"
           /\ escstatus' = 0
           /\ inputpos' = 0
           /\ text' = [i \in Columns |-> IF i \in col - inputpos .. col - 1
                                           THEN "blank" ELSE text[i]]
           /\ col' = col - inputpos
           /\ recalled' = FALSE /\ from' = 0
           /\ UNCHANGED <<inputbuf, lastcmd, touched, others>>

OtherEscape(k) == /\ escstatus = 2 /\ k \notin {"A", "B"}
                  /\ escstatus' = 0
                  /\ recalled' = FALSE
                  /\ UNCHANGED <<inputbuf, inputpos, terminal, lastcmd, touched, others, from>>

-----------------------------------------------------------------------------
(* Plain keys *)

Escape(k) == /\ escstatus = 0 /\ k = "ESC"
             /\ escstatus' = 1
             /\ recalled' = FALSE
             /\ UNCHANGED <<inputbuf, inputpos, terminal, lastcmd, touched, others, from>>

\* Only the bell rings.
TabKey(k) == /\ escstatus = 0 /\ k = "TAB"
             /\ recalled' = FALSE
             /\ UNCHANGED <<editor, terminal, lastcmd, touched, others, from>>

\* The two hexadecimal digits of the byte are printed.
Nonprinting(k) == /\ escstatus = 0 /\ k = "CTL"
                  /\ others + 2 <= MAXOTHER
                  /\ text' = [text EXCEPT ![col] = "other", ![col + 1] = "other"]
                  /\ col' = col + 2
                  /\ recalled' = FALSE
                  /\ others' = others + 2 /\ from' = inputpos
                  /\ UNCHANGED <<editor, lastcmd, touched>>

Bug_BackspaceNoErase(k) ==
  /\ escstatus = 0 /\ k = "BS"
  /\ IF inputpos > 0
       THEN /\ inputpos' = inputpos - 1 /\ col' = col - 1 /\ UNCHANGED text
            /\ from' = IF from = inputpos THEN inputpos - 1 ELSE from
       ELSE UNCHANGED <<inputpos, terminal, from>>
  /\ recalled' = FALSE
  /\ UNCHANGED <<inputbuf, escstatus, lastcmd, touched, others>>
\* Step back, blank the cell, step back.
Backspace(k) == /\ escstatus = 0 /\ k = "BS"
                /\ IF inputpos > 0
                     THEN /\ inputpos' = inputpos - 1
                          /\ text' = [text EXCEPT ![col - 1] = "blank"]
                          /\ col' = col - 1
                          /\ from' = IF from = inputpos THEN inputpos - 1 ELSE from
                     ELSE UNCHANGED <<inputpos, terminal, from>>
                /\ recalled' = FALSE
                /\ UNCHANGED <<inputbuf, escstatus, lastcmd, touched, others>>

Bug_ReturnNoNul(k) ==
  /\ escstatus = 0 /\ k = "CR"
  /\ IF inputpos = 0
       THEN UNCHANGED <<inputbuf, lastcmd, touched>>
       ELSE lastcmd' = Line /\ touched' = FALSE /\ UNCHANGED inputbuf
  /\ inputpos' = 0 /\ text' = Blank /\ col' = 0 /\ recalled' = FALSE
  /\ others' = 0 /\ from' = 0
  /\ UNCHANGED escstatus
\* Execute the command, if there is one, and show a new prompt.
Return(k) == /\ escstatus = 0 /\ k = "CR"
             /\ IF inputpos = 0
                  THEN UNCHANGED <<inputbuf, lastcmd, touched>>
                  ELSE /\ inputbuf' = [inputbuf EXCEPT ![inputpos] = "nul"]
                       /\ lastcmd' = Line
                       /\ touched' = FALSE
             /\ inputpos' = 0
             /\ text' = Blank /\ col' = 0
             /\ recalled' = FALSE /\ others' = 0 /\ from' = 0
             /\ UNCHANGED escstatus

\* One cell is kept for the final 0.
Bug_HasRoom == inputpos < INPUTBUFSIZE
HasRoom == inputpos < INPUTBUFSIZE - 1

\* Store and echo; with the buffer full, ring the bell.
Text(k) == /\ escstatus = 0 /\ k \in Printable
           /\ IF HasRoom
                THEN /\ inputbuf' = [inputbuf EXCEPT ![inputpos] = k]
                     /\ inputpos' = inputpos + 1
                     /\ text' = [text EXCEPT ![col] = k]
                     /\ col' = col + 1
                     /\ touched' = TRUE
                ELSE UNCHANGED <<inputbuf, inputpos, terminal, touched>>
           /\ recalled' = FALSE
           /\ UNCHANGED <<escstatus, lastcmd, others, from>>

-----------------------------------------------------------------------------
InputChar(k) == \/ EscapeBegun(k) \/ Up(k) \/ Down(k) \/ OtherEscape(k)
                \/ Escape(k) \/ TabKey(k) \/ Nonprinting(k) \/ Backspace(k)
                \/ Return(k) \/ Text(k)

\* EVENT_USB_Device_Disconnect(); the next user has a fresh terminal.
Disconnect == /\ inputpos' = 0
              /\ text' = Blank /\ col' = 0
              /\ recalled' = FALSE /\ others' = 0 /\ from' = 0
              /\ UNCHANGED <<inputbuf, escstatus, lastcmd, touched>>

\* A character that another part of the station prints: " TX " after each
\* frame, the "!W" and "!C" of a TWI time-out, the errors of the SDS011.
OtherOutput == /\ others < MAXOTHER
               /\ text' = [text EXCEPT ![col] = "other"]
               /\ col' = col + 1
               /\ others' = others + 1 /\ from' = inputpos
               /\ UNCHANGED <<editor, lastcmd, touched, recalled>>

Next == \/ \E k \in Keys : InputChar(k)
        \/ OtherOutput
        \/ Disconnect

Spec == Init /\ [][Next]_vars

-----------------------------------------------------------------------------
(* Properties *)

\* Types; inputpos always leaves a cell for the terminating 0.
TypeOK == /\ inputbuf \in [Cells -> Printable \cup {"nul"}]
          /\ inputpos \in Cells /\ escstatus \in 0 .. 2
          /\ text \in [Columns -> Printable \cup {"nul", "blank", "other"}]
          /\ col \in Columns
          /\ lastcmd \in Seq(Printable)
          /\ touched \in BOOLEAN /\ recalled \in BOOLEAN
          /\ others \in 0 .. MAXOTHER /\ from \in 0 .. inputpos

\* "Up" copies inputbuf to the line until it meets a 0, with no other bound:
\* whatever was typed and erased before, there is a 0 at or after inputpos,
\* and none before it, so the copy ends inside the buffer.
Terminated == /\ \E i \in inputpos .. INPUTBUFSIZE - 1 : inputbuf[i] = "nul"
              /\ \A i \in 0 .. inputpos - 1 : inputbuf[i] # "nul"

\* What the user sees left of the cursor is the line that Return would
\* execute, as far as it was typed after the last output of anything else
\* (a nonprinting byte, main.c:229, twi.c:29, sds011.c:144), and the whole of
\* it if there was none, or since "Up" or "Down"; right of the cursor nothing
\* is ever left.  Other output stays in the line until the next prompt, and
\* Backspace may eat it instead of what it deletes.
LineShown == /\ col = others + inputpos
             /\ others = 0 => from = 0
             /\ \A i \in from .. inputpos - 1 : text[others + i] = inputbuf[i]
             /\ \A i \in Columns : i >= col => text[i] = "blank"

\* "Up" brings back the command executed last, however often the line was
\* recalled, shortened or wiped since, as long as nothing else was typed.
Recall == recalled /\ ~touched => Line = lastcmd
=============================================================================

------------------------------ MODULE LossyFifo ------------------------------
(***************************************************************************)
(* What an output buffer of the firmware promises its callers: values come *)
(* out in the order they went in, none is altered, duplicated or invented, *)
(* and one is refused only when the buffer really is full.  A refusal is   *)
(* remembered in lost, since the callers of appendchar() are never told.   *)
(***************************************************************************)
EXTENDS Naturals, Sequences

CONSTANTS Values,        \* what may be queued
          Capacity,      \* never more than this many values are held
          NoDropBelow    \* with fewer values than this, none is refused

VARIABLES fifo,          \* the values accepted and not yet delivered
          lost           \* has a value been refused since the last Clear?

fifoVars == <<fifo, lost>>

FifoInit == fifo = << >> /\ lost = FALSE

Put(v) == /\ Len(fifo) < Capacity
          /\ fifo' = Append(fifo, v)
          /\ UNCHANGED lost

Refuse == /\ Len(fifo) >= NoDropBelow
          /\ lost' = TRUE
          /\ UNCHANGED fifo

Get == /\ fifo # << >>
       /\ fifo' = Tail(fifo)
       /\ UNCHANGED lost

Clear == fifo' = << >> /\ lost' = FALSE

FifoNext == \/ \E v \in Values : Put(v)
            \/ Refuse
            \/ Get
            \/ Clear

FifoSpec == FifoInit /\ [][FifoNext]_fifoVars
=============================================================================

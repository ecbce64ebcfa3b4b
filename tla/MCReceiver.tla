----------------------------- MODULE MCReceiver -----------------------------
(* Values for the constants of Receiver.                                    *)
EXTENDS Receiver

\* Two identities; one of them typed in decimal, in both kinds of hexadecimal
\* digits, and with a capital X; a number no station can have.
MCIds == {71, 79}
MCTyped == [digits : {"dec"}, n : {71, 300}] \cup [digits : {"hex", "HEX", "0X"}, n : {79}]
=============================================================================

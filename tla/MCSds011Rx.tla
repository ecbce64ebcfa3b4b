------------------------------ MODULE MCSds011Rx ------------------------------
(* Small sets of packets for Sds011Rx. *)
EXTENDS Sds011Rx

Data(a, b, c, d, e, f) == [cmd |-> 192, data |-> <<a, b, c, d, e, f>>]
Reply(a, b, c, d, e, f) == [cmd |-> 197, data |-> <<a, b, c, d, e, f>>]

\* Readings that differ in both bytes, one of which holds the tail marker and
\* one has it as its sum; the reply to a request to stop measuring; sensor
\* 0x1101.
PlainPackets == {Data(1, 0, 0, 1, 17, 1), Data(0, 1, 171, 0, 17, 1),
                 Data(0, 1, 151, 1, 17, 1), Reply(6, 1, 0, 0, 17, 1)}

\* From a sensor whose serial number holds the header byte: Resync and Stored do
\* not hold for them.
HeaderPackets == {Data(1, 0, 0, 1, 170, 1), Reply(6, 1, 0, 0, 170, 1)}

NoiseBytes == {0, 170, 171}
=============================================================================

----------------------------- MODULE MCTransmit -----------------------------
(* Values for the constants of Transmit.                                    *)
EXTENDS Transmit

\* Ordinary weather, and two that a cut may turn into another: by the high
\* bytes 0x2b and 0xa3; by the checksum 0x2b of one of the lowest temperatures.
MCClimates == {<<25000, 33000>>, <<11015, 41733>>, <<71, 11010>>}

\* 1011.7 hPa; 1024 hPa, whose low bytes are 0; both differ in every byte.
MCPressures == {4144100, 4194304}

\* No dust measured yet, and a measurement.
MCDusts == {<<65535, 65535>>, <<123, 4567>>}

MCBatteries == {112}

\* A matching pair, and an erased EEPROM.
MCEeproms == {<<71, 184>>, <<255, 255>>}

MCBeyond == {0, 255}

\* The last byte of lps25hb_startmeas(), and a checksum byte of the SHT31 that
\* is its own checksum.
MCHeld == {1, 43}

\* CTRL_REG2, RES_CONF, and a temperature that looks like a valid status.
MCRegisters == {<<0, 0, 0, 0>>, <<3, 3, 3, 3>>, <<18, 245, 0, 0>>}

\* Nothing; one bit or several neighbouring bits in each field.
MCBursts == {{}, {8}, {20, 21, 22, 23}, {22, 23}, {31}, {32, 39}, {63}, {64, 65, 71}, {88}, {127, 128}, {135}, {136}}
=============================================================================

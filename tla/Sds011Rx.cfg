SPECIFICATION Spec
CONSTANTS Packets <- PlainPackets
          Noise <- NoiseBytes
          MaxFaults = 1
INVARIANTS TypeOK WholeReading Authentic Resync
PROPERTY Stored

SPECIFICATION FairSpec
CONSTANTS TICKMOD = 16
          CYCLELENGTH = 7
          CYCLEONTIME = 3
          INTERVAL = 3
          FIRSTTX = 8
          WDTICKS = 3
          MaxLate = 1
          RadioMayHang = TRUE
INVARIANTS TypeOK OnTimeKept
PROPERTIES CycleKept CadenceKept WatchdogQuiet Recovers KeepsSending KeepsMeasuring

SPECIFICATION Spec
CONSTANTS TICKMOD = 32
          CYCLELENGTH = 9
          CYCLEONTIME = 3
          INTERVAL = 4
          FIRSTTX = 16
          WDTICKS = 3
          MaxLate = 1
          RadioMayHang = FALSE
INVARIANT OnTime

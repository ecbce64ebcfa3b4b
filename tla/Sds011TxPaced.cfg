SPECIFICATION Spec
CONSTANTS OUTPUTBUFSIZE = 7
          CMDLEN = 2
          Requests = {"requestdata", "sensoron"}
          MaxBacklog = 4
          BootIrq = FALSE
INVARIANTS NothingLost AppendSafely
PROPERTY WholeCommands

SPECIFICATION FairSpec
CONSTANTS OUTPUTBUFSIZE = 4
          CMDLEN = 3
          Requests = {"requestdata", "sensoron"}
          MaxBacklog = 100
          BootIrq = FALSE
INVARIANTS TypeOK OutputInProgress
PROPERTIES ImplementsFifo EveryByteSent

SPECIFICATION Spec
CONSTANTS OUTPUTBUFSIZE = 5
          CDC_TXRX_EPSIZE = 3
          Texts <- TwoTexts
          Errors <- OneError
          MaxSessions = 1
INVARIANTS TypeOK TextsWhole
PROPERTIES ImplementsFifo FreshPackets

SPECIFICATION Spec
CONSTANTS INPUTBUFSIZE = 4
          Keys = {"[", "A", "B", "ESC", "BS", "CR", "TAB", "CTL"}
          MAXOTHER = 2
INVARIANTS TypeOK Terminated LineShown Recall

CONSTANTS MIRROR_CAP = 3
          MAX_PAYLOAD = 2
          Masks = {{"rx", "tx"}}
          Scripts <- MCScripts
          MaxPrinted = 5
          MaxAsked = 1
          MaxTermios = 1
SPECIFICATION PartSpec
INVARIANTS KeysExact TranscriptTrue
PROPERTIES KeyIsRead
CHECK_DEADLOCK FALSE

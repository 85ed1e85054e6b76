CONSTANTS RamPages = 3
          PAGE = 1
          Byte = {0, 1}
          Zero = 0
          MaxLen = 2
          Capacity = 2
          Pinnable = {0, 1}
SPECIFICATION FairSpec
INVARIANTS Coherent SweepIsTheLoop
PROPERTIES PinnedStays ImplementsFlatMemory EveryCallEnds
CHECK_DEADLOCK FALSE

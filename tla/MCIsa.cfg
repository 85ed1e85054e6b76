CONSTANTS LEVELS = 2
          FAN = 2
          TLB_ENTRIES = 2
          Tables = {0, 1}
          Ptes <- MCPtes
          MaxEdits = 3
          PAGE = 3
          VPages = {0, 1}
          PhysPages = 2
          GRANULE = 2
          Widths = {1, 2}
          StoreSizes = {1, 2}
          XLEN = 8
          MEM = 12
          Operands = {0, 1, 2, 7, 8, 15, 127, 128, 129, 248, 255}
          Immediates = {0, 1, 4, 7, 127, 128, 254, 255}
          Memories <- MCMemories
SPECIFICATION IsaSpec
INVARIANTS TlbIsTransparent ReservationsSound CompressedIsItsExpansion
PROPERTIES StepIsTheIsa
CHECK_DEADLOCK FALSE

CONSTANTS RamPages = 3
          PAGE = 1
          Byte = {0, 1}
          Zero = 0
          MaxLen = 1
          Capacity = 2
          Pinnable = {}
          NoVal = NoVal
          RETRY_BUDGET = 0
          MaxBatch = 0
          Refusable = {}
          Lossy = TRUE
          MaxExchanges = 6
          MaxFailed = 1
SPECIFICATION Spec
INVARIANTS AcknowledgedIsStored
PROPERTIES ImplementsFlatMemory
CHECK_DEADLOCK FALSE

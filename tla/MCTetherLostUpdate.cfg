CONSTANTS RamPages = 3
          PAGE = 1
          Byte = {0, 1}
          Zero = 0
          MaxLen = 1
          Capacity = 2
          Pinnable = {}
          NoVal = NoVal
          RETRY_BUDGET = 0
          MaxBatch = 1
          Refusable = {}
          Lossy = TRUE
          MaxExchanges = 6
          MaxFailed = 1
SPECIFICATION Spec
INVARIANTS AcknowledgedIsStored
CHECK_DEADLOCK FALSE

CONSTANTS RamPages = 2
          PAGE = 1
          Byte = {0, 1}
          Zero = 0
          MaxLen = 1
          Capacity = 1
          Pinnable = {}
          NoVal = NoVal
          RETRY_BUDGET = 1
          MaxBatch = 1
          Refusable = {}
          Lossy = TRUE
          MaxExchanges = 7
          MaxFailed = 0
SPECIFICATION Spec
INVARIANTS NoStaleAnswer
CHECK_DEADLOCK FALSE

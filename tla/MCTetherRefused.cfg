CONSTANTS RamPages = 3
          PAGE = 1
          Byte = {0}
          Zero = 0
          MaxLen = 1
          Capacity = 2
          Pinnable = {}
          NoVal = NoVal
          RETRY_BUDGET = 1
          MaxBatch = 0
          Refusable = {2}
          Lossy = FALSE
          MaxExchanges = 6
          MaxFailed = 1
SPECIFICATION Spec
INVARIANTS FaultNamesTheFailure
CHECK_DEADLOCK FALSE

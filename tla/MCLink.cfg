CONSTANTS Pages = {0, 1}
          Val = {0}
          Initial = 0
          NoVal = NoVal
          RETRY_BUDGET = 1
          MaxBatch = 1
          Refusable = {1}
          Lossy = TRUE
          MaxExchanges = 2
          MaxFailed = 2
SPECIFICATION FairSpec
INVARIANTS OwnAckDrains
PROPERTIES StoreNeverRegresses ExchangeEnds
CHECK_DEADLOCK FALSE

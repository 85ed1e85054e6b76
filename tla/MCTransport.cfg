CONSTANTS Reply = 3
          BUFLEN = 2
          RX_ERR_BUDGET = 2
          MaxRequests = 2
          Lengths = {1, 3}
          TX_PACKET = 2
          SEND_RETRY_BUDGET = 1
          RING = 2
SPECIFICATION FairSpec
INVARIANTS ReceivesIntact HandedOver
PROPERTIES NoConfirmAfterStop ReplyIsReceived
CHECK_DEADLOCK FALSE

CONSTANTS Pcs = {0, 1}
          Deadlines = {0, 3}
          Never = 99
          StartPrivs = {"S", "M"}
          max_insns = 4
          slice_insns = 2
SPECIFICATION FairSpec
INVARIANTS MachineModeIsADeadEnd FirstArrivalReported TimerIsPrecise
PROPERTIES HandlerReturns RunEnds
CHECK_DEADLOCK FALSE

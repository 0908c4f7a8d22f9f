SPECIFICATION RuntimeSpec
CONSTANTS
  Commands = {"q1", "q2", "q3", "i", "d"}
  KindOf <- MCKindOf
  NoCommand = NoCommand
  Sessions = {"a", "b"}
  Requests = {"r1", "r2"}
  Keys = {"k", "l"}
  Calls <- MCCalls
  Insts = {1, 2}
  MaxConcurrent = 1
  MaxFaults = 1
  Nobody = Nobody
  Users = {1, 2}
  MaxMessages = 1
  QueueMax = 2
  MaxOpens = 2
  MaxLosses = 1
INVARIANTS
  RuntimeTypeOK
  DrainBeforeNext
  ReleasedButOne
  DeliveredOnce
  BusyHasCause
  RunningRowHasCause
  LeakHasCause
  CursorMeansSeen
  EndIsComplete
  GivenOnce
CHECK_DEADLOCK FALSE

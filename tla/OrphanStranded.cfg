SPECIFICATION FairLedgerSpec
CONSTANTS
  p1 = p1
  p2 = p2
  v1 = v1
  Procs = {p1, p2}
  NoProc = NoProc
  Ghost = Ghost
  VideoTasks = {v1}
  MaxBookFaults = 0
  MaxCrashes = 1
PROPERTY RunningEnds

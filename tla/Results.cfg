SPECIFICATION ResultSpec
CONSTANTS
  video = video
  clip = clip
  board = board
  paid = paid
  take = take
  image = image
  restore = restore
  redo = redo
  upload = upload
  edit = edit
  Resources = {video, board}
  Videos = {video}
  PaidTasks = {paid}
  ImageTasks = {image}
  Restorers = {restore, redo}
  Uploaders = {upload}
  Editors = {edit}
  TtsTasks = {paid}
  Target <- MCTarget
  Bases = {"b1", "b2"}
  Legacy = Legacy
  NoBytes = NoBytes
  NoClaim = NoClaim
  NoThread = NoThread
  MaxFaults = 1
  MaxActors = 3
  p1 = p1
  p2 = p2
  v1 = v1
  Procs = {p1, p2}
  NoProc = NoProc
  Ghost = Ghost
  VideoTasks = {v1}
  MaxBookFaults = 1
  MaxCrashes = 1
CHECK_DEADLOCK FALSE
INVARIANTS
  ResultTypeOK
  PaidIsKept
  CancelledNotClaimed
  OrderedOtherwise
  PointerLeaksOnlyLate
  SucceededIsBooked
  PendingHasCause
PROPERTIES
  NoStaleSelection
  SelectionIsOneTransition
  RewrittenOnlyWhenShared
  NoTheft
SYMMETRY ProcSymmetry

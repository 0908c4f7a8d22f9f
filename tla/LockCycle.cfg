SPECIFICATION ArtifactSpec
CONSTANTS
  video = video
  clip = clip
  board = board
  paid = paid
  take = take
  image = image
  restore = restore
  redo = redo
  upload = upload
  edit = edit
  Resources = {video, clip, board}
  Videos = {video, clip}
  PaidTasks = {}
  ImageTasks = {image}
  Restorers = {redo}
  Uploaders = {}
  Editors = {}
  TtsTasks = {}
  Target <- MCTarget
  Bases = {"b1", "b2"}
  Legacy = Legacy
  NoBytes = NoBytes
  NoClaim = NoClaim
  NoThread = NoThread
  MaxFaults = 0
  MaxActors = 2
CHECK_DEADLOCK FALSE
INVARIANT NoLockCycle

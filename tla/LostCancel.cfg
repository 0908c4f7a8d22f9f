SPECIFICATION WorkerSpec
CONSTANTS
  v1 = v1
  v2 = v2
  i1 = i1
  i2 = i2
  k1 = k1
  k2 = k2
  k3 = k3
  Tasks = {v1, v2}
  NoTask = NoTask
  Keys = {k1, k2, k3}
  KeyOf <- MCKeyOf
  Projects = {"prj"}
  ProjectOf <- MCProjectOf
  Media = {"video"}
  MediaOf <- MCMediaOf
  VideoMedia = "video"
  ReferenceVideos = {}
  Providers = {"p", "q"}
  NoProvider = NoProvider
  Derived = {"p", "q", NoProvider}
  Cancellers = {"c"}
  CapacityTables <- MCCapacity
  CapacityOf <- MCTight
  NonResumable = {}
  Repeating <- MCRepeating
  MaxAttempts = 2
  Lanes <- MCVideoLane
  MaxRestarts = 0
INVARIANT CancellingIsOwned

SPECIFICATION Spec
CONSTANTS
  t1 = t1
  t2 = t2
  t3 = t3
  t4 = t4
  k1 = k1
  k2 = k2
  k3 = k3
  Tasks = {t1, t3}
  NoTask = NoTask
  Keys = {k1, k2, k3}
  KeyOf <- MCKeyOf
  Projects = {"prj"}
  ProjectOf <- MCProjectOf
  Media = {"video", "image"}
  MediaOf <- MCMediaOf
  VideoMedia = "video"
  ReferenceVideos = {}
  Providers = {"p"}
  NoProvider = NoProvider
  Derived = {"p", NoProvider}
  Cancellers = {c, d}
  c = c
  d = d
INVARIANTS
  TypeOK
  OneActivePerKey
  EventsTellTheEnd
PROPERTIES
  CancelWins
  CancelLands
SYMMETRY CancellerSymmetry

SPECIFICATION Spec
CONSTANTS
  t1 = t1
  t2 = t2
  t3 = t3
  t4 = t4
  k1 = k1
  k2 = k2
  k3 = k3
  Tasks = {t1, t2, t4}
  NoTask = NoTask
  Keys = {k1, k2, k3}
  KeyOf <- MCKeyOf
  Projects = {"prj"}
  ProjectOf <- MCProjectOf
  Media = {"video", "image"}
  MediaOf <- MCImageOnly
  VideoMedia = "video"
  ReferenceVideos = {}
  Providers = {}
  NoProvider = NoProvider
  Derived = {NoProvider}
  Cancellers = {c}
  c = c
  d = d
INVARIANTS
  DependencyGate
PROPERTIES
  StrandedOnlyLate

SPECIFICATION FairSpec
CONSTANTS
  view1 = view1  view2 = view2  camera1 = camera1  camera2 = camera2
  Views = {view1, view2}
  Cameras = {camera1}
  CameraOf <- SameCamera
  Sessions = {s1, s2}
  Qualities = {auto, high}
  First = auto
  Tabs = 2
  Overlap = TRUE
  Faults = TRUE
  NoSession = NoSession
  NoSource = NoSource
CHECK_DEADLOCK FALSE
INVARIANTS RemovingIsStopped
PROPERTIES SetupEnds

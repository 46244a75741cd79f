SPECIFICATION Spec
CONSTANTS
  view1 = view1  view2 = view2  camera1 = camera1  camera2 = camera2
  Views = {view1, view2}
  Cameras = {camera1, camera2}
  CameraOf <- TwoCameras
  Sessions = {s1, s2}
  Qualities = {auto, high}
  First = auto
  Tabs = 2
  Overlap = FALSE
  Faults = FALSE
  NoSession = NoSession
  NoSource = NoSource
CHECK_DEADLOCK FALSE
INVARIANTS PlayerHasStream

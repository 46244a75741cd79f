SPECIFICATION Spec
CONSTANTS
  view1 = view1  view2 = view2  camera1 = camera1  camera2 = camera2
  Views = {view1, view2}
  Cameras = {camera1}
  CameraOf <- SameCamera
  Sessions = {s1, s2}
  Qualities = {auto, high}
  First = auto
  Tabs = 1
  Overlap = FALSE
  Faults = FALSE
  NoSession = NoSession
  NoSource = NoSource
SYMMETRY Symmetry
CHECK_DEADLOCK FALSE
INVARIANTS PlayerHasStream QualityApplied OnePlayer ClosedIsFreed

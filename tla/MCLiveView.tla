----------------------------- MODULE MCLiveView -----------------------------
(* Small instances of LiveView.                                            *)
EXTENDS LiveView, TLC

CONSTANTS view1, view2, camera1, camera2

\* Two pages that show one camera, or one each.
SameCamera == [v \in {view1, view2} |-> camera1]
TwoCameras == view1 :> camera1 @@ view2 :> camera2

Symmetry == Permutations(Sessions)
=============================================================================

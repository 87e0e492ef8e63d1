----------------------------- MODULE MCTargets -----------------------------
(* Two images, unreadable or of up to two boxes; two anchors; two classes  *)
(* beside the background; level 2 is iou_thres, level 1 lies in the        *)
(* ignored band.                                                           *)
EXTENDS Targets
TwoAnchors == {1, 2}
Box(c, s, p, q) == [cls |-> c, shaped |-> s, iou |-> <<p, q>>]
Boxes == {Box(1, TRUE, 3, 2), Box(2, TRUE, 2, 0), Box(2, TRUE, 2, 3), Box(1, TRUE, 1, 0),
          Box(1, TRUE, 1, 1), Box(2, TRUE, 0, 0), Box(0, TRUE, 3, 3), Box(1, FALSE, 1, 2)}
UpToTwo == {<<>>} \cup {<<b>> : b \in Boxes} \cup {<<b, c>> : b, c \in Boxes}
=============================================================================

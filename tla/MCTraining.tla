----------------------------- MODULE MCTraining -----------------------------
(***************************************************************************)
(* Small instances of Training for TLC.  With test_interval 2 and an       *)
(* `epoch > -1` threshold a training of four epochs is evaluated at 0 and  *)
(* 2 and, like the real one of 120, not at its final epoch.                *)
(***************************************************************************)
EXTENDS Training

M(p, q, r) == [map |-> p, miou |-> q, dice |-> r]

(* Scores 1, 1 and 2, the tie broken by miou. *)
ThreeMetrics == {M(1, 0, 1), M(0, 1, 0), M(0, 1, 1)}
(* A tie that only mAP breaks, and a better mAP with a lower score. *)
TieMetrics == {M(0, 1, 0), M(1, 1, 0), M(2, 0, 0)}
TwoMetrics == {M(0, 1, 0), M(0, 1, 1)}

JustFour == {4}
JustThree == {3}
TwoOrThree == {2, 3}
Never == -1
=============================================================================

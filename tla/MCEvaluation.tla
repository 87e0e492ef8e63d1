---------------------------- MODULE MCEvaluation ----------------------------
(* Images 1 and 2 with up to two objects, classes 1 and 2, up to two       *)
(* detections per image.  Level 2 of overlap is MINOVERLAP, 3 is more.     *)
EXTENDS Evaluation, TLC
TwoImages == {1, 2}
TwoClasses == {1, 2}
Obj(c, d) == [cls |-> c, difficult |-> d]
Det(c, p, v) == [cls |-> c, conf |-> p, ov |-> v]

Countable == (1 :> <<Obj(1, FALSE), Obj(1, FALSE)>>) @@ (2 :> <<Obj(1, FALSE), Obj(2, FALSE)>>)
Difficult == (1 :> <<Obj(1, FALSE), Obj(1, TRUE)>>) @@ (2 :> <<Obj(2, TRUE)>>)
Uncountable == (1 :> <<Obj(2, TRUE)>>) @@ (2 :> <<>>)
(* The second annotation has a blank line at its end.                      *)
BlankLine == (1 :> <<Obj(1, FALSE)>>) @@ (2 :> <<Obj(1, FALSE), Obj(Unparsable, FALSE)>>)
SomeGroundTruths == {Countable, Difficult, BlankLine, 2 :> <<Obj(1, FALSE)>>, Uncountable, <<>>}

AnyList == SUBSET {1, 2}

(* Nothing; a lone detection below the threshold; two that claim one       *)
(* object, with equal confidence and not; a tie of overlaps; two objects,  *)
(* the better one found second; a detection of the other class; one of a   *)
(* class whose name has a blank (map.py expects such names, the datasets   *)
(* of the repository have none).                                           *)
SomeDetections ==
  {<<>>,
   <<Det(1, 90, <<1, 0>>)>>,
   <<Det(1, 50, <<3, 2>>), Det(1, 50, <<2, 1>>)>>,
   <<Det(1, 90, <<2, 2>>), Det(1, 50, <<3, 0>>)>>,
   <<Det(1, 90, <<0, 1>>), Det(1, 50, <<0, 3>>)>>,
   <<Det(2, 90, <<3, 2>>), Det(1, 90, <<2, 0>>)>>,
   <<Det(1, 90, <<3, 0>>), Det(Unparsable, 50, <<0, 0>>)>>}
=============================================================================

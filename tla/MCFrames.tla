------------------------------ MODULE MCFrames ------------------------------
(* The top frame, one child frame, two zones per frame, two backend ids. *)
EXTENDS Frames

CONSTANTS c1, a, d, body

MCChildren == {c1}
MCElements == {a, body}
MCLinks == {a}
MCInvalid == {body}
MCLabels == {"", "x"}

(* Two instances in the top frame (a type switch creates a second one), *)
(* one in each child frame. *)
MCMaxZones == [c \in Ctx |-> IF c = Top THEN 2 ELSE 1]

(* One instance per frame: the selection zone of each frame. *)
MCOneZone == [c \in Ctx |-> 1]

(* Bound on the messages queued on each channel. *)
MaxQueue == 2
ChanBound == \A p \in Pairs : Len(chan[p]) <= MaxQueue
=============================================================================

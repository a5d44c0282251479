---------------------------- MODULE MCTransport ----------------------------
(* The registration handshake of two child frames with the top frame. *)
EXTENDS Transport

CONSTANTS c1, c2

MCChildren == {c1, c2}
=============================================================================

---------------------------- MODULE MCRefSelection ----------------------------
(***************************************************************************)
(* A page whose body holds a text node t1, a positioned div d1 (text t2,  *)
(* a span s1 with text t3, an image i1) and a div d2 (a link a1 with text *)
(* t4).  A link zone on a1 and an image zone on i1 (both with a ref       *)
(* button), a base zone on d1 (with move buttons).  The user can select   *)
(* t2..t3 inside d1 or click into t4; a press on an interface button      *)
(* leaves a caret in the toolbar's text.                                   *)
(***************************************************************************)
EXTENDS RefSelection

CONSTANTS z1, z2, z3, r1, c1, tc, t1, t2, t3, t4, d1, d2, s1, i1, a1,
          ov, tb, tt, zd1, zd2, zd3, rd1, rd2, rd3

MCTypeOf == [z \in Zones |-> CASE z = z1 -> "link" [] z = z2 -> "image" [] OTHER -> "default"]

MCStartOf == [s \in Ranges \cup Carets |-> CASE s = r1 -> t2 [] s = c1 -> t4 [] OTHER -> tt]
MCEndOf == [s \in Ranges \cup Carets |-> CASE s = r1 -> t3 [] s = c1 -> t4 [] OTHER -> tt]

MCPageKids == (Body :> <<t1, d1, d2>>) @@ (d1 :> <<t2, s1, i1>>) @@ (s1 :> <<t3>>)
              @@ (i1 :> <<>>) @@ (d2 :> <<a1>>) @@ (a1 :> <<t4>>)

MCNameOf ==
  [n \in Nodes |->
     CASE n \in {t1, t2, t3, t4, tt} -> "#text"
       [] n = Body -> "body"
       [] n = s1 -> "span"
       [] n = i1 -> "img"
       [] n = a1 -> "a"
       [] OTHER -> "div"]

MCZoneDiv == [z \in Zones |-> CASE z = z1 -> zd1 [] z = z2 -> zd2 [] OTHER -> zd3]
MCRefDiv == [z \in Zones |-> CASE z = z1 -> rd1 [] z = z2 -> rd2 [] OTHER -> rd3]
MCTargetOf == [z \in Zones |-> CASE z = z1 -> a1 [] z = z2 -> i1 [] OTHER -> d1]
MCFilter == [z \in Zones |-> CASE z = z1 -> {"a"} [] z = z2 -> {"img"} [] OTHER -> {"div", "span", "a", "img"}]
MCPositioned == {d1, tb} \cup {MCZoneDiv[z] : z \in Zones}
=============================================================================

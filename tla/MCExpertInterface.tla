-------------------------- MODULE MCExpertInterface --------------------------
(* The top frame on two small pages built of a link a, a paragraph p and   *)
(* <body>.                                                                 *)
EXTENDS ExpertInterface

CONSTANTS a, p, body

MCLabels == {"", "x"}

(* One saved zone of type null, on a; ZoneLink.load then finds a targeted. *)
SavedPage ==
  [stored |-> <<[type |-> "default", label |-> "x", target |-> a, pid |-> 1]>>,
   anchors |-> <<>>, linkText |-> "x", elements |-> {a, body}]

(* No saved zone; ZoneLink.load discovers a, whose text is empty. *)
LinkPage == [stored |-> <<>>, anchors |-> <<a>>, linkText |-> "", elements |-> {a, p, body}]

MCPages == {SavedPage, LinkPage}

MCSavedPage == {SavedPage}
=============================================================================

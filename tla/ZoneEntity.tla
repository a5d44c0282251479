----------------------------- MODULE ZoneEntity -----------------------------
(***************************************************************************)
(* The Zone entity of Zone.js (and the ZoneLink variant of ZoneLink.js)   *)
(* as pure operators on a zone record.  Each operation returns            *)
(* <<zone', events>>: the new record and the events the zone emits, in    *)
(* order, through Zone._emit -> Zone.emit.  Which listener sees them      *)
(* depends on the frame (Zones.js on top, ZonesWorker.js in a child), so  *)
(* the composing module dispatches them.                                  *)
(*                                                                         *)
(* Events keep the names Zone._emit gives them.                           *)
(***************************************************************************)
EXTENDS Naturals, Sequences

CONSTANTS
  Elements,     \* page elements the pointer can be over (model values)
  Links,        \* the <a> elements: what filter 'a' of a link zone accepts
  Invalid,      \* <html> and <body>, never a valid target
  NoTarget,     \* null target
  Labels,       \* label values; "" is the empty label
  MaxPid        \* persistent ids the backend hands out are 1..MaxPid

ASSUME Links \subseteq Elements /\ Invalid \subseteq Elements
ASSUME NoTarget \notin Elements
ASSUME "" \in Labels

(* Zone types: "default" is the base Zone (type null), "link" is ZoneLink. *)
Types == {"default", "link"}

Events == {"new", "targetChanged", "labelChanged", "selectionStarted", "selectionEnded",
           "saved", "saveFailed", "focus", "removed"}

(* id 0 is this.id = null: never saved. *)
ZoneRec == [type : Types, target : Elements \cup {NoTarget}, label : Labels,
            saved : BOOLEAN, saving : BOOLEAN, removed : BOOLEAN,
            selecting : BOOLEAN, pid : 0..MaxPid]

(***************************************************************************)
(* new Zone(options) / ZoneLink: no target, empty label, unsaved.  The    *)
(* base Zone emits `new` unless options.emitNew === false; ZoneLink calls *)
(* this._created() at the end of its constructor whatever the options.    *)
(***************************************************************************)
NewZone(type, emitNew) ==
  << [type |-> type, target |-> NoTarget, label |-> "", saved |-> FALSE,
      saving |-> FALSE, removed |-> FALSE, selecting |-> FALSE, pid |-> 0],
     IF type = "link" \/ emitNew THEN <<"new">> ELSE <<>> >>

(* isValidZoneTarget: not html/body, and for a link zone an <a>. *)
IsValidZoneTarget(z, e) ==
  /\ e \in Elements
  /\ e \notin Invalid
  /\ z.type = "link" => e \in Links

(***************************************************************************)
(* set target(element): an invalid element becomes null; setting the same *)
(* target is a no-op without event; otherwise the target changes and      *)
(* targetChanged is emitted.  The setter does not look at `removed`.      *)
(***************************************************************************)
SetTarget(z, e) ==
  LET v == IF IsValidZoneTarget(z, e) THEN e ELSE NoTarget
  IN  IF v = z.target THEN <<z, <<>>>>
      ELSE <<[z EXCEPT !.target = v], <<"targetChanged">>>>

(* set label(value): unchanged value is a no-op, else labelChanged. *)
SetLabel(z, l) ==
  IF l = z.label THEN <<z, <<>>>>
  ELSE <<[z EXCEPT !.label = l], <<"labelChanged">>>>

(***************************************************************************)
(* startSelection(): refused while a selection is in progress; otherwise  *)
(* this.target = null, _selectionInProgress = true, the mouse listeners   *)
(* are attached and selectionStarted is emitted.                          *)
(***************************************************************************)
StartSelection(z) ==
  IF z.selecting THEN <<z, <<>>>>
  ELSE LET r == SetTarget(z, NoTarget)
       IN  <<[r[1] EXCEPT !.selecting = TRUE], r[2] \o <<"selectionStarted">>>>

(* stopSelection() -> _stopSelect(): detach, clear the flag, selectionEnded. *)
StopSelection(z) ==
  IF z.selecting
  THEN <<[z EXCEPT !.selecting = FALSE], <<"selectionEnded">>>>
  ELSE <<z, <<>>>>

(* toggleSelection(): startSelection(), or stopSelection() when it refuses. *)
ToggleSelection(z) == IF z.selecting THEN StopSelection(z) ELSE StartSelection(z)

(***************************************************************************)
(* onMouseMove: findTarget() hides the excluded containers and probes     *)
(* again, so the resolved element is a page element; if it differs from   *)
(* the target it is assigned through the setter.                          *)
(***************************************************************************)
OnMouseMove(z, e) == SetTarget(z, e)

(* onClick: onMouseMove(event) then self._stopSelect(). *)
OnClick(z, e) ==
  LET m == OnMouseMove(z, e)
      s == StopSelection(m[1])
  IN  <<s[1], m[2] \o s[2]>>

(* moveTo(element): only a valid target is assigned, through the setter. *)
MoveTo(z, e) == IF IsValidZoneTarget(z, e) THEN SetTarget(z, e) ELSE <<z, <<>>>>

(***************************************************************************)
(* save(options): when no save is in flight, a target is bound and the    *)
(* label is non-empty, mark _saving and post zones/set carrying this.id;  *)
(* otherwise emit saveFailed at once.  Returns <<zone', events, posted>>. *)
(***************************************************************************)
CanSave(z) == ~z.saving /\ z.target # NoTarget /\ z.label # ""

(* Variant: a refused save returns without emitting saveFailed. *)
SaveNoEvent(z) ==
  IF CanSave(z) THEN <<[z EXCEPT !.saving = TRUE], <<>>, TRUE>>
  ELSE <<z, <<>>, FALSE>>

Save(z) ==
  IF CanSave(z) THEN <<[z EXCEPT !.saving = TRUE], <<>>, TRUE>>
  ELSE <<z, <<"saveFailed">>, FALSE>>

(***************************************************************************)
(* The zones/set callbacks.  done: a numeric zoneid makes the zone saved  *)
(* under that id (`saved`), any other body is `saveFailed`; fail: network  *)
(* error, `saveFailed`.  Both clear _saving.  res is the id or 0.         *)
(***************************************************************************)
(* Variant: a body without zoneid is reported as `saved` too. *)
SaveDoneBadBodySaved(z, res) ==
  IF res # 0
  THEN <<[z EXCEPT !.saving = FALSE, !.pid = res, !.saved = TRUE], <<"saved">>>>
  ELSE <<[z EXCEPT !.saving = FALSE], <<"saved">>>>

(* Variant: a numeric zoneid marks the zone saved without taking the id. *)
SaveDoneKeepsId(z, res) ==
  IF res # 0
  THEN <<[z EXCEPT !.saving = FALSE, !.saved = TRUE], <<"saved">>>>
  ELSE <<[z EXCEPT !.saving = FALSE], <<"saveFailed">>>>

SaveDone(z, res) ==
  IF res # 0
  THEN <<[z EXCEPT !.saving = FALSE, !.pid = res, !.saved = TRUE], <<"saved">>>>
  ELSE <<[z EXCEPT !.saving = FALSE], <<"saveFailed">>>>

SaveFail(z) == <<[z EXCEPT !.saving = FALSE], <<"saveFailed">>>>

(***************************************************************************)
(* remove(): unlist, drop the overlay, post zones/remove if saved and     *)
(* clear _saved, null the target, mark removed, emit `removed`.  It       *)
(* neither stops a running selection nor waits for a save in flight.      *)
(* Returns <<zone', events, pid to delete or 0>>.                         *)
(***************************************************************************)
ZoneRemove(z) ==
  << [z EXCEPT !.saved = FALSE, !.target = NoTarget, !.removed = TRUE],
     <<"removed">>,
     IF z.saved THEN z.pid ELSE 0 >>
=============================================================================

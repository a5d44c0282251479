--------------------------- MODULE ExpertInterface ---------------------------
(***************************************************************************)
(* The top frame as the operator uses it: the coordinator of Zones.js, the *)
(* zones of the page (ZoneEntity), and the interface of ExpertInterface.js *)
(* with its panels ZoneInterface (type null) and ZoneLinkInterface, whose  *)
(* rows hold a LockAction (ui/LockAction.js).  Child frames are left to    *)
(* Frames; here every zone is local, so RemoteZone.set/run act at once.   *)
(*                                                                         *)
(* The interface listens to the coordinator (Zones.on), and the           *)
(* coordinator to every zone (Zone.onEvent), so one zone operation runs   *)
(* the whole chain synchronously.  No code on that path catches: an       *)
(* exception thrown by an interface handler ends the JS task, and every   *)
(* step of it not yet run is skipped (`thrown`).                          *)
(***************************************************************************)
EXTENDS ZoneEntity, FiniteSets

CONSTANTS
  MaxZones,     \* Zone instances the top frame may create (instanceCounter bound)
  NoZone,       \* null RemoteZone
  Pages         \* the pages the frame may show (PageRec)

ZoneIds == 1..MaxZones

StoredRec == [type : Types, label : Labels, target : Elements \cup {NoTarget}, pid : 1..MaxPid]

(***************************************************************************)
(* A page: `stored` is the zones/listactives answer (its saved zones, in  *)
(* order), `anchors` its <a> elements in document order ($('a')),         *)
(* `linkText` their textContent, the label ZoneLink.load gives a link     *)
(* zone, and `elements` the elements a pointer or a moveTo can reach.     *)
(***************************************************************************)
PageRec == [stored : Seq(StoredRec), anchors : Seq(Links), linkText : Labels,
            elements : SUBSET Elements]

ASSUME MaxZones \in Nat /\ Pages \subseteq PageRec /\ Pages # {} /\ NoZone \notin ZoneIds

(* The ManagerActions of the toolbar: a zone panel per type, and settings. *)
Panels == Types \cup {"settings"}

LockStates == {"locked", "unlocked", "locking"}

(* remotezone.dom: the row ZoneInterface.onnew built for a handle. *)
NoRow == [iface |-> "none", lock |-> "none", enabled |-> FALSE]
Rows == [iface : Types, lock : LockStates, enabled : BOOLEAN] \cup {NoRow}

VARIABLES
  zone,         \* zone[i]: Zone instance i (ZoneEntity!ZoneRec)
  nInst,        \* instanceCounter: instances 1..nInst exist
  hidden,       \* hidden[i]: the zone's _hidden flag (overlay not displayed)
  selZone,      \* Zones.js selectionZone, 0 = null
  selIP,        \* Zones.js selectionInProgress
  listen,       \* registrations of onTargetChanged/onSelectionEnded on Zones
  current,      \* Zones.js currentZone
  handles,      \* Zones.js `zones`: the zones that have a RemoteZone handle
  newCalled,    \* handles whose _newEventCalled is set
  row,          \* row[i]: the handle's row (dom, lockAction state, lockAction.enabled)
  built,        \* the panels whose `dom` exists (activated once)
  active,       \* the activated ManagerAction, "none" if none
  uiCurrent,    \* ZoneInterfaces.currentZone
  reqs,         \* zones whose zones/set request is in flight
  loading,      \* the zones/listactives request: "pending", "answered" or "failed"
  page          \* the page the frame shows

uiVars == <<row, built, active, uiCurrent>>
vars == <<zone, nInst, hidden, selZone, selIP, listen, current, handles, newCalled,
          uiVars, reqs, loading, page>>

-----------------------------------------------------------------------------
(***************************************************************************)
(* The world of one JS task, and its commit.  `ok` turns FALSE when the   *)
(* task would create more than MaxZones instances.                        *)
(***************************************************************************)
Snapshot ==
  [zone |-> zone, nInst |-> nInst, hidden |-> hidden, selZone |-> selZone,
   selIP |-> selIP, listen |-> listen, current |-> current, handles |-> handles,
   newCalled |-> newCalled, row |-> row, built |-> built, active |-> active,
   uiCurrent |-> uiCurrent, reqs |-> reqs, thrown |-> FALSE, ok |-> TRUE]

Commit(w) ==
  /\ w.ok
  /\ zone' = w.zone
  /\ nInst' = w.nInst
  /\ hidden' = w.hidden
  /\ selZone' = w.selZone
  /\ selIP' = w.selIP
  /\ listen' = w.listen
  /\ current' = w.current
  /\ handles' = w.handles
  /\ newCalled' = w.newCalled
  /\ row' = w.row
  /\ built' = w.built
  /\ active' = w.active
  /\ uiCurrent' = w.uiCurrent
  /\ reqs' = w.reqs
  /\ UNCHANGED page

(* A TypeError in a handler: the rest of the task does not run. *)
Throw(w) == [w EXCEPT !.thrown = TRUE]

HasRow(w, h) == w.row[h] # NoRow

(* Zone._info, the remotezone.info the interface reads, in the fields it  *)
(* uses: the id is the handle, and subzones and ref are not modelled.     *)
Info(z) ==
  [type |-> z.type, label |-> z.label, saved |-> z.saved, hasTarget |-> z.target # NoTarget,
   allowSave |-> z.saved \/ (z.target # NoTarget /\ z.label # "")]

(* ZoneInterfaces.getFor: the panel registered for info.type, ZoneInterface for null. *)
IfaceOf(w, h) == Info(w.zone[h]).type

-----------------------------------------------------------------------------
(***************************************************************************)
(* The panels (ZoneInterface.js, ZoneLinkInterface.js).  A row starts     *)
(* locked if the zone is saved; its lock button is enabled by allowSave.  *)
(***************************************************************************)
NewRow(z, t) ==
  [iface |-> t, lock |-> IF Info(z).saved THEN "locked" ELSE "unlocked",
   enabled |-> Info(z).allowSave]

(* Variant: a row only while the panel is the active one. *)
OnNewIfActive(w, h, t) ==
  IF t = w.active /\ ~HasRow(w, h) THEN [w EXCEPT !.row[h] = NewRow(w.zone[h], t)] ELSE w

(* onnew: a row only once the panel has its dom, and once per handle. *)
OnNew(w, h, t) ==
  IF t \in w.built /\ ~HasRow(w, h) THEN [w EXCEPT !.row[h] = NewRow(w.zone[h], t)] ELSE w

(* The first activate lists the panel's handles (Zones.list(type)) through onnew. *)
ListRows(w, t) ==
  [w EXCEPT !.row = [h \in ZoneIds |->
                       IF h \in w.handles /\ w.zone[h].type = t /\ w.row[h] = NoRow
                       THEN NewRow(w.zone[h], t) ELSE w.row[h]]]

(* Variant: the first activate builds the dom without listing the zones. *)
UIActivateNoList(w, t) ==
  IF t = "settings" \/ t \in w.built THEN [w EXCEPT !.uiCurrent = NoZone]
  ELSE [w EXCEPT !.uiCurrent = NoZone, !.built = @ \cup {t}]

(* activate of a panel: currentZone = null, and the dom on first use. *)
UIActivate(w, t) ==
  IF t = "settings" \/ t \in w.built THEN [w EXCEPT !.uiCurrent = NoZone]
  ELSE ListRows([w EXCEPT !.uiCurrent = NoZone, !.built = @ \cup {t}], t)

(* ManagerAction.activate: the others are desactivated, this one activated. *)
Activate(w, t) == IF w.active = t THEN w ELSE UIActivate([w EXCEPT !.active = t], t)

(* onfocus(remotezone) of panel t; remotezone may be null. *)
OnFocus(w, h, t) == IF h = w.uiCurrent THEN w ELSE [Activate(w, t) EXCEPT !.uiCurrent = h]

RefreshLock(w, h) == [w EXCEPT !.row[h].enabled = Info(w.zone[h]).allowSave]

(* ontargetchanged: guarded by remotezone.dom; a no-op in ZoneLinkInterface. *)
OnTargetChangedUI(w, h, t) == IF t = "default" /\ HasRow(w, h) THEN RefreshLock(w, h) ELSE w

(* The stateChanged listeners of a row that touch more than its look:     *)
(* ZoneInterface's calls ontargetchanged.                                  *)
StateChanged(w, h, t) == OnTargetChangedUI(w, h, t)

(* onlabelchanged: guarded by this.dom only, then reads remotezone.dom. *)
OnLabelChangedUI(w, h, t) ==
  IF t \notin w.built THEN w
  ELSE IF HasRow(w, h) THEN RefreshLock(w, h) ELSE Throw(w)

(* LockAction.lock() and lockFailed() *)
Lock(w, h, t) ==
  IF w.row[h].lock = "locked" THEN w
  ELSE StateChanged([w EXCEPT !.row[h].lock = "locked"], h, t)

LockFailed(w, h, t) ==
  IF w.row[h].lock # "locking" THEN w
  ELSE StateChanged([w EXCEPT !.row[h].lock = "unlocked"], h, t)

(* onsaved: onfocus of the current zone changes nothing; then, guarded by *)
(* this.dom only, remotezone.dom.lockAction.lock().                        *)
OnSavedUI(w, h, t) ==
  IF t \notin w.built THEN w
  ELSE IF HasRow(w, h) THEN Lock(w, h, t) ELSE Throw(w)

(* onsavefailed: guarded by remotezone.dom. *)
OnSaveFailedUI(w, h, t) == IF HasRow(w, h) THEN LockFailed(w, h, t) ELSE w

(* onremoved: onfocus(null) if it is the current zone, then the row goes, unguarded. *)
DropRow(w, h) == IF HasRow(w, h) THEN [w EXCEPT !.row[h] = NoRow] ELSE Throw(w)

OnRemovedUI(w, h, t) == DropRow(IF h = w.uiCurrent THEN OnFocus(w, NoZone, t) ELSE w, h)

(* The 'new' listener of ExpertInterface.js shows a zone of type null first. *)
ShowIfDefault(w, h) == IF w.zone[h].type = "default" THEN [w EXCEPT !.hidden[h] = FALSE] ELSE w

(***************************************************************************)
(* The listeners ExpertInterface.js registers on Zones: each event goes   *)
(* to "on" + event of the handle's panel.                                 *)
(***************************************************************************)
UIOn(w, h, ev) ==
  CASE ev = "new" -> OnNew(ShowIfDefault(w, h), h, IfaceOf(w, h))
    [] ev = "focus" -> OnFocus(w, h, IfaceOf(w, h))
    [] ev = "targetChanged" -> OnTargetChangedUI(w, h, IfaceOf(w, h))
    [] ev = "labelChanged" -> OnLabelChangedUI(w, h, IfaceOf(w, h))
    [] ev = "removed" -> OnRemovedUI(w, h, IfaceOf(w, h))
    [] ev = "saved" -> OnSavedUI(w, h, IfaceOf(w, h))
    [] ev = "saveFailed" -> OnSaveFailedUI(w, h, IfaceOf(w, h))
    [] OTHER -> w

-----------------------------------------------------------------------------
(***************************************************************************)
(* The coordinator (Zones.js), as Frames has it for the top frame, with   *)
(* the interface's listeners registered first on every event.             *)
(***************************************************************************)
RECURSIVE ApplyZone(_, _, _), ZonesEmit(_, _, _)

(* new RemoteZone(window, info, zone) pushes itself into `zones`. *)
NewRemoteZone(w, h) == [w EXCEPT !.handles = @ \cup {h}]

(* getLocalZone(): the zone's handle (its info refreshed), created on its *)
(* first event. *)
GetLocalZone(w, h) == IF h \in w.handles THEN w ELSE NewRemoteZone(w, h)

BecomeCurrent(w, h) == IF w.thrown THEN w ELSE [w EXCEPT !.current = h]

(* onTargetChanged: clearing the previous candidate re-enters here while  *)
(* it is still currentZone, so the nested call only returns.              *)
OnTargetChanged(w, h) ==
  IF ~w.selIP \/ w.current = h THEN w
  ELSE BecomeCurrent(IF w.current = NoZone THEN w
                     ELSE ApplyZone(w, w.current, SetTarget(w.zone[w.current], NoTarget)), h)

StopTopZone(w) ==
  IF w.selZone = 0 THEN w ELSE ApplyZone(w, w.selZone, StopSelection(w.zone[w.selZone]))

(* EventEmitter.on(event, listener) appends the listener, even if it is *)
(* registered already; off(event, listener) removes its first occurrence. *)
(* `listen` counts the registrations of onTargetChanged (and, by the same *)
(* calls, of onSelectionEnded); Relay runs them once, which is what the   *)
(* code does as long as the count stays at most 1 (TypeOK).               *)
On(w) == [w EXCEPT !.listen = @ + 1]

Off(w) == IF w.listen > 0 THEN [w EXCEPT !.listen = @ - 1] ELSE w

Unlisten(w) == IF w.thrown THEN w ELSE Off(w)

(* Zones.stopSelection() *)
StopSelectionW(w) == IF w.thrown THEN w ELSE Unlisten(StopTopZone([w EXCEPT !.selIP = FALSE]))

EmitNewOnce(w, h) ==
  IF w.thrown \/ h \in w.newCalled THEN w
  ELSE ZonesEmit([w EXCEPT !.newCalled = @ \cup {h}], h, "new")

EmitFocus(w, h) == IF w.thrown THEN w ELSE ZonesEmit(w, h, "focus")

(* onSelectionEnded: the zone becomes current, the selection stops, then  *)
(* Zones.emit('new') once per handle and Zones.emit('focus').             *)
OnSelectionEnded(w, h) ==
  IF ~w.selIP THEN w
  ELSE EmitFocus(EmitNewOnce(StopSelectionW(OnTargetChanged(w, h)), h), h)

Relay(w, h, ev) ==
  CASE w.thrown \/ w.listen = 0 -> w
    [] ev = "targetChanged" -> OnTargetChanged(w, h)
    [] ev = "selectionEnded" -> OnSelectionEnded(w, h)
    [] OTHER -> w

(* Zones.emit(event, remotezone): the interface, then the coordinator's own. *)
ZonesEmit(w, h, ev) == Relay(UIOn(w, h, ev), h, ev)

MarkNew(w, h, ev) == IF ev = "new" THEN [w EXCEPT !.newCalled = @ \cup {h}] ELSE w

(* Variant: the handle goes but its _newEventCalled mark stays. *)
ForgetKeepsNew(w, h, ev) ==
  IF ev = "removed" /\ ~w.thrown
  THEN [w EXCEPT !.handles = @ \ {h}, !.row[h] = NoRow]
  ELSE w

(* removeLocalZone after a `removed`: the handle and its dom are dropped. *)
Forget(w, h, ev) ==
  IF ev = "removed" /\ ~w.thrown
  THEN [w EXCEPT !.handles = @ \ {h}, !.newCalled = @ \ {h}, !.row[h] = NoRow]
  ELSE w

(* Zone.onEvent -> getLocalZone -> onZoneEvent *)
OnZoneEvent(w, h, ev) == Forget(ZonesEmit(MarkNew(GetLocalZone(w, h), h, ev), h, ev), h, ev)

RECURSIVE DispatchFrom(_, _, _, _)
DispatchFrom(w, h, evs, k) ==
  IF w.thrown \/ k > Len(evs) THEN w ELSE DispatchFrom(OnZoneEvent(w, h, evs[k]), h, evs, k + 1)

(* Apply a ZoneEntity result <<zone', events>> to zone h: Zone._emit per event. *)
ApplyZone(w, h, r) ==
  IF w.thrown THEN w ELSE DispatchFrom([w EXCEPT !.zone[h] = r[1]], h, r[2], 1)

-----------------------------------------------------------------------------
(***************************************************************************)
(* Zone operations the interface reaches (remotezone.run/set).            *)
(***************************************************************************)
(* save(): a posted request is in flight until its callback. *)
SaveW(w, h) ==
  ApplyZone(IF CanSave(w.zone[h]) THEN [w EXCEPT !.reqs = @ \cup {h}] ELSE w, h, Save(w.zone[h]))

RemoveW(w, h) == ApplyZone(w, h, ZoneRemove(w.zone[h]))

(* startSelection() also calls this.show(). *)
ShowZone(w, h) == IF w.thrown THEN w ELSE [w EXCEPT !.hidden[h] = FALSE]

ToggleZoneW(w, h) ==
  IF w.zone[h].selecting THEN ApplyZone(w, h, StopSelection(w.zone[h]))
  ELSE ShowZone(ApplyZone(w, h, StartSelection(w.zone[h])), h)

(* Zone.create(type, {emitNew : false}), the new selectionZone. *)
CreateW(w, t) ==
  IF w.nInst = MaxZones THEN [w EXCEPT !.ok = FALSE]
  ELSE [w EXCEPT !.nInst = @ + 1, !.selZone = w.nInst + 1,
                 !.zone[w.nInst + 1] = NewZone(t, FALSE)[1],
                 !.hidden[w.nInst + 1] = FALSE]

(***************************************************************************)
(* Zones.startSelection(type).  The only caller, the selection button of  *)
(* ZoneInterface, passes type null, and the selection zone is always a    *)
(* base Zone, so the discard of one of another type never applies here.  *)
(***************************************************************************)
EnsureSelectionZone(w) ==
  IF w.selZone = 0 \/ w.zone[w.selZone].saved \/ w.zone[w.selZone].removed
  THEN CreateW(w, "default") ELSE w

ClearLabel(w) ==
  ApplyZone([w EXCEPT !.current = NoZone], w.selZone, SetLabel(w.zone[w.selZone], ""))

StartSelZone(w) == IF w.thrown THEN w ELSE ShowZone(ApplyZone(w, w.selZone, StartSelection(w.zone[w.selZone])), w.selZone)

Listen(w) == IF w.thrown THEN w ELSE On(w)

StartSelectionW(w) == Listen(StartSelZone(ClearLabel(EnsureSelectionZone([w EXCEPT !.selIP = TRUE]))))

(* Zones.toggleSelection(type) *)
ToggleSelectionW(w) == IF w.selIP THEN StopSelectionW(w) ELSE StartSelectionW(w)

(***************************************************************************)
(* LockAction 'run': unlock() if locked, else locking(), which emits      *)
(* 'locking' (the row calls remotezone.run('save')) then 'stateChanged'.  *)
(* The panels are editable, so a lock is always unlockable.               *)
(***************************************************************************)
Unlock(w, h, t) ==
  IF w.row[h].lock # "locked" THEN w
  ELSE StateChanged([w EXCEPT !.row[h].lock = "unlocked"], h, t)

AfterLocking(w, h, t) == IF w.thrown THEN w ELSE StateChanged(w, h, t)

Locking(w, h, t) ==
  IF w.row[h].lock # "unlocked" THEN w
  ELSE AfterLocking(SaveW([w EXCEPT !.row[h].lock = "locking"], h), h, t)

LockRun(w, h, t) == IF w.row[h].lock = "locked" THEN Unlock(w, h, t) ELSE Locking(w, h, t)

-----------------------------------------------------------------------------
(***************************************************************************)
(* Zone.load: for each record, new (findType(type))({hidden : true}, rec): *)
(* _saved = true, then loadData sets id, label (labelChanged), xpath      *)
(* (targetChanged) and type, and the constructor ends with _created, that *)
(* is `new`.  `.always` then runs each type's load; ZoneLink.load creates *)
(* a hidden link zone for every <a> no listed zone targets.  An exception *)
(* in `.done` ends the task before `.always` runs.                         *)
(***************************************************************************)
LoadedZone(r) ==
  [type |-> "default", target |-> NoTarget, label |-> "", saved |-> TRUE,
   saving |-> FALSE, removed |-> FALSE, selecting |-> FALSE, pid |-> r.pid]

(* The constructor up to loadData: a new hidden instance. *)
Construct(w, z) ==
  IF w.nInst = MaxZones THEN [w EXCEPT !.ok = FALSE]
  ELSE [w EXCEPT !.nInst = @ + 1, !.zone[w.nInst + 1] = z, !.hidden[w.nInst + 1] = TRUE]

LoadLabel(w, l) == ApplyZone(w, w.nInst, SetLabel(w.zone[w.nInst], l))

LoadTarget(w, e) == ApplyZone(w, w.nInst, SetTarget(w.zone[w.nInst], e))

LoadType(w, t) == IF w.thrown THEN w ELSE [w EXCEPT !.zone[w.nInst].type = t]

(* _created(): this._emit('new') *)
Created(w) == ApplyZone(w, w.nInst, <<w.zone[w.nInst], <<"new">>>>)

LoadRecord(w, r) ==
  Created(LoadType(LoadTarget(LoadLabel(Construct(w, LoadedZone(r)), r.label), r.target), r.type))

RECURSIVE LoadRecords(_, _)
LoadRecords(w, k) ==
  IF w.thrown \/ k > Len(page.stored) THEN w
  ELSE LoadRecords(LoadRecord(w, page.stored[k]), k + 1)

(* Zone.zones: every constructed zone, until remove() takes it out with  *)
(* removeFromGlobalList. *)
ZoneZones(w) == {i \in 1..w.nInst : ~w.zone[i].removed}

(* A zone of Zone.zones targets element a. *)
Targeted(w, a) == \E i \in ZoneZones(w) : w.zone[i].target = a

(* new ZoneLink({hidden : true, target : a, label : a.textContent}) *)
NewZoneLink(w, a) ==
  Created(Construct(w, [NewZone("link", TRUE)[1] EXCEPT !.target = a, !.label = page.linkText]))

RECURSIVE LinkLoad(_, _)
LinkLoad(w, k) ==
  IF w.thrown \/ k > Len(page.anchors) THEN w
  ELSE LinkLoad(IF Targeted(w, page.anchors[k]) THEN w ELSE NewZoneLink(w, page.anchors[k]), k + 1)

-----------------------------------------------------------------------------
(***************************************************************************)
(* The steps: one JS task each.  While a zone selects, its mousedown      *)
(* listener on window sees every press first: a click on the interface    *)
(* (Action stops only the click) is then preceded by MouseDown, which     *)
(* ends the selection.  Only the ManagerAction buttons stop the mousedown. *)
(* So the other clicks need no zone selecting.                            *)
(***************************************************************************)
Free == \A i \in 1..nInst : ~zone[i].selecting

RowShown(h) == row[h] # NoRow /\ active = row[h].iface

(* Zones.runForAll(type, 'show' | 'hide'): the handles listed for that type. *)
ShowAll(w, t, show) ==
  [w EXCEPT !.hidden = [i \in ZoneIds |->
                          IF i \in w.handles /\ w.zone[i].type = t THEN ~show ELSE w.hidden[i]]]

(* The zones/listactives answer: the `.done` loop, then `.always`. *)
LoadAnswer ==
  /\ loading = "pending"
  /\ loading' = "answered"
  /\ Commit(LinkLoad(LoadRecords(Snapshot, 1), 1))

(* The request fails: `.always` only. *)
LoadFail ==
  /\ loading = "pending"
  /\ loading' = "failed"
  /\ Commit(LinkLoad(Snapshot, 1))

(* The 'run' of a ManagerAction toggles it; markLink's own 'run' listener *)
(* then shows the link zones (markLink.show()).                           *)
ManagerRun(t) ==
  /\ LET w == IF active = t THEN [Snapshot EXCEPT !.active = "none"] ELSE Activate(Snapshot, t)
     IN  Commit(IF t = "link" THEN ShowAll(w, "link", TRUE) ELSE w)
  /\ UNCHANGED loading

(* The show/hide toggle of a panel's ManagerAction.  Two clicks reach     *)
(* either direction, so the direction is chosen freely.                   *)
ShowHide(t, show) ==
  /\ Commit(ShowAll(Snapshot, t, show))
  /\ UNCHANGED loading

(* The selection button of ZoneInterface: Zones.toggleSelection(null). *)
SelectionButton ==
  /\ Free /\ active = "default"
  /\ Commit(ToggleSelectionW(Snapshot))
  /\ UNCHANGED loading

LockClick(h) ==
  /\ Free /\ RowShown(h) /\ row[h].enabled
  /\ Commit(LockRun(Snapshot, h, row[h].iface))
  /\ UNCHANGED loading

(* keyup in the label input, which is readOnly unless unlocked; focus can *)
(* come from the keyboard, so no press is implied.                        *)
LabelKeyUp(h, l) ==
  /\ RowShown(h) /\ row[h].lock = "unlocked"
  /\ Commit(ApplyZone(Snapshot, h, SetLabel(zone[h], l)))
  /\ UNCHANGED loading

(* The delete button of a ZoneInterface row (removable). *)
DeleteClick(h) ==
  /\ Free /\ RowShown(h) /\ row[h].iface = "default"
  /\ Commit(RemoveW(Snapshot, h))
  /\ UNCHANGED loading

(* The select button: remotezone.run('toggleSelection'), enabled when unlocked. *)
SelectClick(h) ==
  /\ Free /\ RowShown(h) /\ row[h].iface = "default" /\ row[h].lock = "unlocked"
  /\ Commit(ToggleZoneW(Snapshot, h))
  /\ UNCHANGED loading

(* A moveTo button: the parent, a sibling or the first child, which exist *)
(* only for a bound target; e stands for the element it names.            *)
MoveToClick(h, e) ==
  /\ Free /\ RowShown(h) /\ row[h].iface = "default" /\ row[h].lock = "unlocked"
  /\ zone[h].target # NoTarget
  /\ Commit(ApplyZone(Snapshot, h, MoveTo(zone[h], e)))
  /\ UNCHANGED loading

(* A click on a displayed zone overlay: zone.focus(). *)
ZoneClick(h) ==
  /\ Free /\ h <= nInst
  /\ ~zone[h].removed /\ zone[h].target # NoTarget /\ ~hidden[h]
  /\ Commit(ApplyZone(Snapshot, h, <<zone[h], <<"focus">>>>))
  /\ UNCHANGED loading

(* The pointer while zone h selects: onMouseMove and onClick (mousedown). *)
MouseMove(h, e) ==
  /\ h <= nInst /\ zone[h].selecting
  /\ Commit(ApplyZone(Snapshot, h, OnMouseMove(zone[h], e)))
  /\ UNCHANGED loading

MouseDown(h, e) ==
  /\ h <= nInst /\ zone[h].selecting
  /\ Commit(ApplyZone(Snapshot, h, OnClick(zone[h], e)))
  /\ UNCHANGED loading

(* The zones/set callbacks; res is the zoneid, 0 for any other body. *)
SaveAnswer(h, res) ==
  /\ h \in reqs
  /\ Commit(ApplyZone([Snapshot EXCEPT !.reqs = @ \ {h}], h, SaveDone(zone[h], res)))
  /\ UNCHANGED loading

SaveError(h) ==
  /\ h \in reqs
  /\ Commit(ApplyZone([Snapshot EXCEPT !.reqs = @ \ {h}], h, SaveFail(zone[h])))
  /\ UNCHANGED loading

-----------------------------------------------------------------------------
(* Overlay.ready has run: the toolbar exists, no panel is active, and     *)
(* Zone.load() has posted zones/listactives.                               *)
Init ==
  /\ zone = [i \in ZoneIds |-> NewZone("default", FALSE)[1]]
  /\ nInst = 0
  /\ hidden = [i \in ZoneIds |-> FALSE]
  /\ selZone = 0 /\ selIP = FALSE /\ listen = 0 /\ current = NoZone
  /\ handles = {} /\ newCalled = {}
  /\ row = [i \in ZoneIds |-> NoRow]
  /\ built = {} /\ active = "none" /\ uiCurrent = NoZone
  /\ reqs = {}
  /\ loading = "pending"
  /\ page \in Pages

Next ==
  \/ LoadAnswer \/ LoadFail \/ SelectionButton
  \/ \E t \in Panels : ManagerRun(t)
  \/ \E t \in Types, show \in BOOLEAN : ShowHide(t, show)
  \/ \E h \in ZoneIds :
       \/ LockClick(h) \/ DeleteClick(h) \/ SelectClick(h) \/ ZoneClick(h) \/ SaveError(h)
       \/ \E l \in Labels : LabelKeyUp(h, l)
       \/ \E res \in 0..MaxPid : SaveAnswer(h, res)
       \/ \E e \in page.elements : MoveToClick(h, e) \/ MouseMove(h, e) \/ MouseDown(h, e)

Spec == Init /\ [][Next]_vars

-----------------------------------------------------------------------------
(***************************************************************************)
(* Every variable holds a value the code can give it.  Among them: the    *)
(* coordinator's listeners are registered at most once, although          *)
(* Zones.startSelection adds them on every call without removing earlier  *)
(* ones; and the marked handles are handles.                              *)
(***************************************************************************)
TypeOK ==
  /\ nInst \in 0..MaxZones
  /\ zone \in [ZoneIds -> ZoneRec]
  /\ hidden \in [ZoneIds -> BOOLEAN]
  /\ selZone \in 0..nInst /\ selIP \in BOOLEAN /\ listen \in 0..1
  /\ current \in ZoneIds \cup {NoZone}
  /\ handles \subseteq 1..nInst /\ newCalled \subseteq handles
  /\ row \in [ZoneIds -> Rows] /\ built \subseteq Types
  /\ active \in Panels \cup {"none"} /\ uiCurrent \in ZoneIds \cup {NoZone}
  /\ reqs \subseteq 1..nInst
  /\ loading \in {"pending", "answered", "failed"} /\ page \in Pages

(***************************************************************************)
(* The lock button tells the truth about the zone: a row shows `locking`  *)
(* only while its zones/set is in flight, and `locked` only for a saved   *)
(* zone.  The lock state is driven by events (saveFailed from a refused   *)
(* save, saved/saveFailed from the answer) that reach the row through     *)
(* Zone.onEvent, Zones.emit and getFor, and it is initialised from the    *)
(* handle's info when the row is built.                                   *)
(***************************************************************************)
LockTracksZone ==
  \A h \in ZoneIds :
    /\ row[h].lock = "locking" => zone[h].saving
    /\ row[h].lock = "locked" => zone[h].saved

(***************************************************************************)
(* Every announced zone is listed: once a handle has had its `new` and    *)
(* its panel has been built, the handle has a row, whether `new` came     *)
(* before the panel's first activation (Zones.list in activate) or after  *)
(* (onnew).                                                                *)
(***************************************************************************)
ListComplete == \A h \in newCalled : zone[h].type \in built => row[h] # NoRow

(***************************************************************************)
(* Loading the page's zones announces them all: the step that handles the *)
(* zones/listactives answer leaves every stored zone constructed and      *)
(* announced (`new`), and every <a> of the page targeted by a zone.       *)
(***************************************************************************)
LoadAnnouncesAll ==
  [][loading = "pending" /\ loading' = "answered" =>
       /\ \A k \in DOMAIN page.stored :
            \E i \in newCalled' : zone'[i].saved /\ zone'[i].pid = page.stored[k].pid
       /\ \A k \in DOMAIN page.anchors :
            \E i \in 1..nInst' : ~zone'[i].removed /\ zone'[i].target = page.anchors[k]]_vars
=============================================================================

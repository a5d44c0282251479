------------------------------- MODULE Frames -------------------------------
(***************************************************************************)
(* The frame tree of the expert interface: the top frame runs the zone    *)
(* coordinator of Zones.js, every child frame runs ZonesWorker.js, each    *)
(* frame owns its Zone instances (ZoneEntity), and they talk through       *)
(* CrossSiteCommunication (Transport).  The persistence API is an          *)
(* external collaborator reached by HTTP requests that may fail.          *)
(*                                                                         *)
(* A handler runs to completion in its frame (one JS task), so every      *)
(* handler is one action.  A handler is written as a function of the      *)
(* frame-local "world" record W: the zone operations it calls and the     *)
(* listeners those operations fire synchronously are composed in program  *)
(* order, then Commit writes the result to the variables.                 *)
(***************************************************************************)
EXTENDS Transport, ZoneEntity, FiniteSets

CONSTANTS
  MaxZones,     \* MaxZones[c]: Zone instances frame c may create (instanceCounter bound)
  NoZone,       \* null RemoteZone / no owner
  Undefined     \* the JS value undefined (a type argument that was dropped)

ASSUME MaxZones \in [Ctx -> Nat \ {0}]

VARIABLES
  zone,         \* zone[<<c, i>>]: Zone instance i of frame c (ZoneEntity!ZoneRec)
  nInst,        \* nInst[c]: instanceCounter of frame c; instances 1..nInst[c] exist
  selZone,      \* selZone[c]: the `selectionZone` of Zones.js / ZonesWorker.js, 0 = null
  selIP,        \* Zones.js selectionInProgress
  listen,       \* Zones.js onTargetChanged/onSelectionEnded are registered
  current,      \* Zones.js currentZone
  handles,      \* Zones.js `zones`: the RemoteZone list, as <<frame, idInstance>>
  newCalled,    \* handles whose _newEventCalled is set
  clicked,      \* history: zones whose selection ended by a pointer-down since the last start
  setReqs,      \* zones/set requests in flight
  delReqs,      \* zones/remove requests in flight (ids)
  records,      \* backend: records[id] = zone that saved it, NoZone if absent
  nextPid       \* backend: next fresh id

zoneVars == <<zone, nInst, selZone, selIP, listen, current, handles, newCalled,
              clicked, setReqs, delReqs>>
backendVars == <<records, nextPid>>
vars == <<transportVars, zoneVars, backendVars>>

ZoneIds == UNION {{c} \X (1..MaxZones[c]) : c \in Ctx}

Exists(h) == h[2] <= nInst[h[1]]

SelZoneOf(c) == <<c, selZone[c]>>

SelOf(w, c) == <<c, w.selZone[c]>>

(* The messages the zone layer puts on the wire. *)
StartMsg(args) == [ev |-> "zoneStartSelection",
                   type |-> IF args = <<>> THEN Undefined ELSE args[1]]
StopMsg == [ev |-> "zoneStopSelection"]
PropMsg(i, p, v) == [ev |-> "zoneSetProperty", z |-> i, prop |-> p, val |-> v]
CallMsg(i, f) == [ev |-> "zoneFunctionCall", z |-> i, fn |-> f]
EventMsg(i, e) == [ev |-> "zoneEvent", z |-> i, e |-> e]

SetReq == [z : ZoneIds, pid : 0..MaxPid, st : {"pending", "ok", "bad"}, res : 0..MaxPid]

-----------------------------------------------------------------------------
(***************************************************************************)
(* The frame-local world and its commit.  `ok` turns FALSE when the       *)
(* handler would create more than MaxZones instances in a frame.          *)
(***************************************************************************)
Snapshot ==
  [zone |-> zone, nInst |-> nInst, selZone |-> selZone, selIP |-> selIP,
   listen |-> listen, current |-> current, handles |-> handles,
   newCalled |-> newCalled, clicked |-> clicked, outs |-> <<>>,
   sets |-> <<>>, dels |-> {}, ok |-> TRUE]

Commit(w, ch) ==
  /\ w.ok
  /\ zone' = w.zone
  /\ nInst' = w.nInst
  /\ selZone' = w.selZone
  /\ selIP' = w.selIP
  /\ listen' = w.listen
  /\ current' = w.current
  /\ handles' = w.handles
  /\ newCalled' = w.newCalled
  /\ clicked' = w.clicked
  /\ chan' = Post(ch, w.outs)
  /\ setReqs' = setReqs \o w.sets
  /\ delReqs' = delReqs \cup w.dels

(* getLocalZone(): find the handle of <<frame, id>> or push a new one. *)
GetLocalZone(w, h) == [w EXCEPT !.handles = @ \cup {h}]

(***************************************************************************)
(* onTargetChanged(remotezone): outside a selection nothing; the current  *)
(* zone itself nothing; otherwise currentZone.set('target', null) and the *)
(* new zone becomes current.  Clearing a local zone fires its             *)
(* targetChanged synchronously, which reaches onTargetChanged again while *)
(* currentZone is still the cleared zone, so it only refreshes its handle.*)
(* Clearing a remote zone posts zoneSetProperty to its frame.             *)
(***************************************************************************)
ClearedTop(w, cur, r) ==
  [w EXCEPT !.zone[cur] = r[1], !.handles = IF r[2] = <<>> THEN @ ELSE @ \cup {cur}]

ClearCurrent(w) ==
  IF w.current[1] = Top
  THEN ClearedTop(w, w.current, SetTarget(w.zone[w.current], NoTarget))
  ELSE [w EXCEPT !.outs = @ \o Emit(Top, w.current[1],
                                    PropMsg(w.current[2], "target", NoTarget))]

(* Variant: the new candidate is taken without clearing the previous one. *)
OnTargetChangedNoClear(w, h) ==
  IF ~w.selIP \/ w.current = h THEN w ELSE [w EXCEPT !.current = h]

OnTargetChanged(w, h) ==
  IF ~w.selIP \/ w.current = h THEN w
  ELSE [IF w.current = NoZone THEN w ELSE ClearCurrent(w) EXCEPT !.current = h]

(***************************************************************************)
(* Zones.stopSelection(): clear the flag, stop the top selection zone     *)
(* (its selectionEnded comes back synchronously and, the flag being       *)
(* down, only refreshes the handle), broadcast zoneStopSelection, then    *)
(* unregister the selection listeners.                                    *)
(***************************************************************************)
StoppedTop(w, h, r) ==
  IF r[2] = <<>> THEN [w EXCEPT !.zone[h] = r[1]]
  ELSE GetLocalZone([w EXCEPT !.zone[h] = r[1]], h)

StopTopZone(w) ==
  IF w.selZone[Top] = 0 THEN w
  ELSE StoppedTop(w, SelOf(w, Top), StopSelection(w.zone[SelOf(w, Top)]))

StopSelectionW(w) ==
  [StopTopZone([w EXCEPT !.selIP = FALSE])
     EXCEPT !.outs = @ \o Broadcast(LAMBDA d : StopMsg), !.listen = FALSE]

(***************************************************************************)
(* onSelectionEnded(remotezone): only during a selection; the zone        *)
(* becomes current (onTargetChanged), the selection stops, and `new`      *)
(* (once per handle) and `focus` go to the interface.                     *)
(***************************************************************************)
OnSelectionEnded(w, h) ==
  IF ~w.selIP THEN w
  ELSE [StopSelectionW(OnTargetChanged(w, h)) EXCEPT !.newCalled = @ \cup {h}]

(* The `new` mark of getLocalZone's caller, and the re-emit to listeners. *)
MarkNew(w, h, ev) ==
  IF ev = "new" THEN [w EXCEPT !.newCalled = @ \cup {h}] ELSE w

Relay(w, h, ev) ==
  CASE ~w.listen -> w
    [] ev = "targetChanged" -> OnTargetChanged(w, h)
    [] ev = "selectionEnded" -> OnSelectionEnded(w, h)
    [] OTHER -> w

(* Variant: on `removed` the handle goes but its _newEventCalled mark stays. *)
ForgetKeepsNew(w, h, ev) ==
  IF ev = "removed" THEN [w EXCEPT !.handles = @ \ {h}] ELSE w

OnZoneEventKeepsNew(w, h, ev) ==
  ForgetKeepsNew(Relay(MarkNew(GetLocalZone(w, h), h, ev), h, ev), h, ev)

(***************************************************************************)
(* onZoneEvent(event, remotezone), reached through getLocalZone from      *)
(* Zone.onEvent (a top zone) or the zoneEvent message (a child zone):     *)
(* mark `new`, re-emit to the listeners, forget the handle on `removed`.  *)
(***************************************************************************)
Forget(w, h, ev) ==
  IF ev = "removed" THEN [w EXCEPT !.handles = @ \ {h}, !.newCalled = @ \ {h}]
  ELSE w

OnZoneEvent(w, h, ev) ==
  Forget(Relay(MarkNew(GetLocalZone(w, h), h, ev), h, ev), h, ev)

(***************************************************************************)
(* Where a zone's events go: on top, Zone.onEvent of Zones.js, one event  *)
(* after the other; in a child, Zone.onEvent of ZonesWorker.js posts a    *)
(* zoneEvent to window.top for each.  No zone operation emits more than  *)
(* two events (startSelection and onClick emit two).                      *)
(***************************************************************************)
OnEventAt(w, h, evs, k) == IF k <= Len(evs) THEN OnZoneEvent(w, h, evs[k]) ELSE w

Dispatch(w, h, evs) ==
  IF h[1] = Top
  THEN OnEventAt(OnEventAt(w, h, evs, 1), h, evs, 2)
  ELSE [w EXCEPT !.outs = @ \o [k \in 1..Len(evs) |-> <<h[1], Top, EventMsg(h[2], evs[k])>>]]

(* Apply a ZoneEntity result <<zone', events>> to zone h. *)
ApplyZone(w, h, r) == Dispatch([w EXCEPT !.zone[h] = r[1]], h, r[2])

SaveW(w, h) ==
  LET r == Save(w.zone[h])
      w1 == IF r[3]
            THEN [w EXCEPT !.sets = @ \o <<[z |-> h, pid |-> w.zone[h].pid,
                                              st |-> "pending", res |-> 0]>>]
            ELSE w
  IN  ApplyZone(w1, h, <<r[1], r[2]>>)

RemoveW(w, h) ==
  LET r == ZoneRemove(w.zone[h])
      w1 == IF r[3] # 0 THEN [w EXCEPT !.dels = @ \cup {r[3]}] ELSE w
  IN  ApplyZone(w1, h, <<r[1], r[2]>>)

(* Zone.create(type, {emitNew : false}); it becomes the frame's selectionZone. *)
CreateW(w, c, type) ==
  IF w.nInst[c] = MaxZones[c] THEN [w EXCEPT !.ok = FALSE]
  ELSE LET i == w.nInst[c] + 1
           r == NewZone(type, FALSE)
       IN  ApplyZone([w EXCEPT !.nInst[c] = i, !.selZone[c] = i], <<c, i>>, r)

(* Variant: findType returning its argument, without the base-Zone fallback. *)
FindTypeNoFallback(t) == t

(* Zone.findType(type): a registered type, else the base Zone. *)
FindType(t) == IF t = "link" THEN "link" ELSE "default"

(* JS `a != b` on types: null (base Zone) and undefined are loosely equal. *)
TypeNe(zt, t) == IF zt = "default" THEN t \notin {"default", Undefined} ELSE zt # t

(***************************************************************************)
(* The common part of Zones.startSelection and the worker's               *)
(* zoneStartSelection listener: drop a selection zone of another type,    *)
(* create one if there is none or it is saved or removed, clear its label *)
(* and start its selection.                                               *)
(***************************************************************************)
DropOtherType(w, c, type) ==
  IF w.selZone[c] # 0 /\ TypeNe(w.zone[SelOf(w, c)].type, type)
  THEN RemoveW(w, SelOf(w, c)) ELSE w

EnsureSelectionZone(w, c, type) ==
  IF w.selZone[c] = 0 \/ w.zone[SelOf(w, c)].saved \/ w.zone[SelOf(w, c)].removed
  THEN CreateW(w, c, FindType(type)) ELSE w

StartAt(w, h) == ApplyZone(w, h, StartSelection(w.zone[h]))

ClearLabelAndStart(w, h) == StartAt(ApplyZone(w, h, SetLabel(w.zone[h], "")), h)

PrepareSelectionZone(w, c, type) ==
  LET w2 == EnsureSelectionZone(DropOtherType(w, c, type), c, type)
  IN  ClearLabelAndStart(w2, SelOf(w2, c))

-----------------------------------------------------------------------------
(***************************************************************************)
(* Loading of the zone modules: Zones.js on top (with the interface),     *)
(* ZonesWorker.js in a child.  Their listeners exist from then on.        *)
(***************************************************************************)
LoadZones(c) ==
  /\ phase[c] = 1
  /\ phase' = [phase EXCEPT ![c] = 2]
  /\ UNCHANGED <<chan, subwindows, acked, zoneVars, backendVars>>

(***************************************************************************)
(* The interface (top frame): the selection button toggles                *)
(* Zones.toggleSelection(type); a zone row calls run/set on its handle.   *)
(***************************************************************************)
UserStartSelection(t) ==
  /\ phase[Top] = 2
  /\ ~selIP
  /\ LET w0 == [Snapshot EXCEPT !.selIP = TRUE]
         w1 == PrepareSelectionZone(w0, Top, t)
         w2 == [w1 EXCEPT !.current = NoZone,
                          !.outs = @ \o Broadcast(LAMBDA d : StartMsg(BroadcastArgs(<<t>>))),
                          !.listen = TRUE, !.clicked = {}]
     IN  Commit(w2, chan)
  /\ UNCHANGED <<phase, subwindows, acked, backendVars>>

UserStopSelection ==
  /\ phase[Top] = 2
  /\ selIP
  /\ Commit(StopSelectionW(Snapshot), chan)
  /\ UNCHANGED <<phase, subwindows, acked, backendVars>>

(***************************************************************************)
(* The zone rows of ZoneInterface: a row is built on the `new` event of a *)
(* handle (newCalled) and dropped on `removed`; its label input, lock      *)
(* (save) and delete buttons call set/run on the row's RemoteZone, which   *)
(* acts directly on a top zone and posts a message otherwise.              *)
(***************************************************************************)
RemoteSet(w, h, p, v) ==
  IF h[1] = Top
  THEN ApplyZone(w, h, IF p = "label" THEN SetLabel(w.zone[h], v)
                                      ELSE SetTarget(w.zone[h], v))
  ELSE [w EXCEPT !.outs = @ \o Emit(Top, h[1], PropMsg(h[2], p, v))]

RemoteRun(w, h, f) ==
  IF h[1] = Top
  THEN IF f = "save" THEN SaveW(w, h) ELSE RemoveW(w, h)
  ELSE [w EXCEPT !.outs = @ \o Emit(Top, h[1], CallMsg(h[2], f))]

UserSetLabel(h, l) ==
  /\ phase[Top] = 2
  /\ h \in newCalled
  /\ Commit(RemoteSet(Snapshot, h, "label", l), chan)
  /\ UNCHANGED <<phase, subwindows, acked, backendVars>>

UserSave(h) ==
  /\ phase[Top] = 2
  /\ h \in newCalled
  /\ Commit(RemoteRun(Snapshot, h, "save"), chan)
  /\ UNCHANGED <<phase, subwindows, acked, backendVars>>

UserRemove(h) ==
  /\ phase[Top] = 2
  /\ h \in newCalled
  /\ Commit(RemoteRun(Snapshot, h, "remove"), chan)
  /\ UNCHANGED <<phase, subwindows, acked, backendVars>>

(***************************************************************************)
(* The pointer in frame c while a zone of c is selecting: onMouseMove and *)
(* onClick (mousedown) of Zone.startSelection.  Any zone whose listeners  *)
(* are attached receives them, a removed one included.                    *)
(***************************************************************************)
MouseMove(h, e) ==
  /\ Exists(h)
  /\ zone[h].selecting
  /\ Commit(ApplyZone(Snapshot, h, OnMouseMove(zone[h], e)), chan)
  /\ UNCHANGED <<phase, subwindows, acked, backendVars>>

MouseDown(h, e) ==
  /\ Exists(h)
  /\ zone[h].selecting
  /\ LET w == ApplyZone(Snapshot, h, OnClick(zone[h], e))
     IN  Commit([w EXCEPT !.clicked = @ \cup {h}], chan)
  /\ UNCHANGED <<phase, subwindows, acked, backendVars>>

-----------------------------------------------------------------------------
(***************************************************************************)
(* Message reception.  Each action handles the head of one channel in    *)
(* the receiving frame: the CrossSiteCommunication listeners and, from    *)
(* phase 2, the zone listeners.  A message no listener takes is dropped.  *)
(***************************************************************************)
RecvOK(p, ev, ph) ==
  /\ chan[p] # <<>>
  /\ Head(chan[p]).ev = ev
  /\ phase[p[2]] >= ph

(* Top: CrossSiteCommunication's `register` listener, then the one of    *)
(* Zones.js that re-sends zoneStartSelection (without type) mid-selection. *)
TopRecvRegister(c) ==
  /\ RecvOK(<<c, Top>>, "register", 1)
  /\ LET reg == OnRegister(c)
         replay == IF phase[Top] = 2 /\ selIP
                   THEN Emit(Top, c, StartMsg(<<>>)) ELSE <<>>
     IN  /\ subwindows' = reg.sub
         /\ chan' = Post(Pop(chan, <<c, Top>>), reg.outs \o replay)
  /\ UNCHANGED <<phase, acked, zoneVars, backendVars>>

ChildRecvRegistered(c) ==
  /\ RecvOK(<<Top, c>>, "registered", 1)
  /\ OnRegistered(c)
  /\ chan' = Pop(chan, <<Top, c>>)
  /\ UNCHANGED <<phase, subwindows, zoneVars, backendVars>>

(* Top: the zoneEvent listener of Zones.js. *)
TopRecvZoneEvent(c) ==
  /\ RecvOK(<<c, Top>>, "zoneEvent", 2)
  /\ LET m == Head(chan[<<c, Top>>])
     IN  Commit(OnZoneEvent(Snapshot, <<c, m.z>>, m.e), Pop(chan, <<c, Top>>))
  /\ UNCHANGED <<phase, subwindows, acked, backendVars>>

(* Child: the listeners of ZonesWorker.js.  findLocalZone finds every id *)
(* the top frame can name, since the worker lists a zone before it        *)
(* forwards the zone's first event.                                       *)
ChildRecvStart(c) ==
  /\ RecvOK(<<Top, c>>, "zoneStartSelection", 2)
  /\ LET m == Head(chan[<<Top, c>>])
     IN  Commit(PrepareSelectionZone(Snapshot, c, m.type), Pop(chan, <<Top, c>>))
  /\ UNCHANGED <<phase, subwindows, acked, backendVars>>

ChildRecvStop(c) ==
  /\ RecvOK(<<Top, c>>, "zoneStopSelection", 2)
  /\ LET w == IF selZone[c] = 0 THEN Snapshot
              ELSE ApplyZone(Snapshot, SelZoneOf(c), StopSelection(zone[SelZoneOf(c)]))
     IN  Commit(w, Pop(chan, <<Top, c>>))
  /\ UNCHANGED <<phase, subwindows, acked, backendVars>>

ChildRecvSetProperty(c) ==
  /\ RecvOK(<<Top, c>>, "zoneSetProperty", 2)
  /\ LET m == Head(chan[<<Top, c>>])
         h == <<c, m.z>>
         r == IF m.prop = "label" THEN SetLabel(zone[h], m.val)
              ELSE SetTarget(zone[h], m.val)
     IN  Commit(ApplyZone(Snapshot, h, r), Pop(chan, <<Top, c>>))
  /\ UNCHANGED <<phase, subwindows, acked, backendVars>>

ChildRecvFunctionCall(c) ==
  /\ RecvOK(<<Top, c>>, "zoneFunctionCall", 2)
  /\ LET m == Head(chan[<<Top, c>>])
         h == <<c, m.z>>
     IN  Commit(IF m.fn = "save" THEN SaveW(Snapshot, h) ELSE RemoveW(Snapshot, h),
                Pop(chan, <<Top, c>>))
  /\ UNCHANGED <<phase, subwindows, acked, backendVars>>

(* A message that reaches a frame before the listener for it exists. *)
DropUnheard(p) ==
  /\ chan[p] # <<>>
  /\ LET need == IF Head(chan[p]).ev \in {"register", "registered"} THEN 1 ELSE 2
     IN  phase[p[2]] < need
  /\ chan' = Pop(chan, p)
  /\ UNCHANGED <<phase, subwindows, acked, zoneVars, backendVars>>

-----------------------------------------------------------------------------
(***************************************************************************)
(* HTTP and the persistence API (ProxyCommunication.post).  zones/set     *)
(* with id null creates a record, with a known id updates it, otherwise   *)
(* answers a body without zoneid.  A request can fail before or after    *)
(* the backend applied it (.fail either way); zones/remove is not awaited *)
(* and may be lost.                                                       *)
(***************************************************************************)
BackendSet(k) ==
  /\ k \in DOMAIN setReqs
  /\ setReqs[k].st = "pending"
  /\ setReqs[k].pid = 0 => nextPid <= MaxPid
  /\ LET r == setReqs[k]
     IN  CASE r.pid = 0 /\ nextPid <= MaxPid ->
                /\ records' = [records EXCEPT ![nextPid] = r.z]
                /\ nextPid' = nextPid + 1
                /\ setReqs' = [setReqs EXCEPT ![k].st = "ok", ![k].res = nextPid]
           [] r.pid # 0 /\ records[r.pid] # NoZone ->
                /\ setReqs' = [setReqs EXCEPT ![k].st = "ok", ![k].res = r.pid]
                /\ UNCHANGED backendVars
           [] r.pid # 0 /\ records[r.pid] = NoZone ->
                /\ setReqs' = [setReqs EXCEPT ![k].st = "bad"]
                /\ UNCHANGED backendVars
  /\ UNCHANGED <<transportVars, zone, nInst, selZone, selIP, listen, current,
                 handles, newCalled, clicked, delReqs>>

(* A zones/set callback in its frame: the request k is answered. *)
CommitCallback(w, k) ==
  /\ w.ok
  /\ zone' = w.zone
  /\ handles' = w.handles
  /\ newCalled' = w.newCalled
  /\ chan' = Post(chan, w.outs)
  /\ setReqs' = RemoveAt(setReqs, k)
  /\ UNCHANGED <<phase, subwindows, acked, nInst, selZone, selIP, listen,
                 current, clicked, delReqs, backendVars>>

(* The .done callback of zones/set runs in the zone's frame. *)
SaveResponse(k) ==
  /\ k \in DOMAIN setReqs
  /\ setReqs[k].st # "pending"
  /\ CommitCallback(ApplyZone(Snapshot, setReqs[k].z,
                               SaveDone(zone[setReqs[k].z], setReqs[k].res)), k)

(* The .fail callback: the request or its answer was lost. *)
SaveNetworkFail(k) ==
  /\ k \in DOMAIN setReqs
  /\ CommitCallback(ApplyZone(Snapshot, setReqs[k].z, SaveFail(zone[setReqs[k].z])), k)

BackendRemove(id) ==
  /\ id \in delReqs
  /\ records' = [records EXCEPT ![id] = NoZone]
  /\ delReqs' = delReqs \ {id}
  /\ UNCHANGED <<transportVars, zone, nInst, selZone, selIP, listen, current,
                 handles, newCalled, clicked, setReqs, nextPid>>

RemoveLost(id) ==
  /\ id \in delReqs
  /\ delReqs' = delReqs \ {id}
  /\ UNCHANGED <<transportVars, zone, nInst, selZone, selIP, listen, current,
                 handles, newCalled, clicked, setReqs, backendVars>>

-----------------------------------------------------------------------------
Init ==
  /\ TransportInit
  /\ zone = [h \in ZoneIds |-> NewZone("default", FALSE)[1]]
  /\ nInst = [c \in Ctx |-> 0]
  /\ selZone = [c \in Ctx |-> 0]
  /\ selIP = FALSE
  /\ listen = FALSE
  /\ current = NoZone
  /\ handles = {}
  /\ newCalled = {}
  /\ clicked = {}
  /\ setReqs = <<>>
  /\ delReqs = {}
  /\ records = [id \in 1..MaxPid |-> NoZone]
  /\ nextPid = 1

(* The CrossSiteCommunication steps of a frame leave the zone layer alone. *)
FrameLoadCSC(c) == LoadCSC(c) /\ UNCHANGED <<zoneVars, backendVars>>

FrameRegisterRetry(c) == RegisterRetry(c) /\ UNCHANGED <<zoneVars, backendVars>>

FrameLoad ==
  \/ \E c \in Ctx : FrameLoadCSC(c)
  \/ \E c \in Ctx : LoadZones(c)
  \/ \E c \in Ctx : FrameRegisterRetry(c)

UserStep ==
  \/ \E t \in Types : UserStartSelection(t)
  \/ UserStopSelection
  \/ \E h \in newCalled, l \in Labels : UserSetLabel(h, l)
  \/ \E h \in newCalled : UserSave(h)
  \/ \E h \in newCalled : UserRemove(h)
  \/ \E h \in ZoneIds, e \in Elements : MouseMove(h, e)
  \/ \E h \in ZoneIds, e \in Elements : MouseDown(h, e)

Delivery ==
  \/ \E c \in Children : TopRecvRegister(c)
  \/ \E c \in Children : ChildRecvRegistered(c)
  \/ \E c \in Children : TopRecvZoneEvent(c)
  \/ \E c \in Children : ChildRecvStart(c)
  \/ \E c \in Children : ChildRecvStop(c)
  \/ \E c \in Children : ChildRecvSetProperty(c)
  \/ \E c \in Children : ChildRecvFunctionCall(c)
  \/ \E p \in Pairs : DropUnheard(p)

Http ==
  \/ \E k \in DOMAIN setReqs : BackendSet(k)
  \/ \E k \in DOMAIN setReqs : SaveResponse(k)
  \/ \E k \in DOMAIN setReqs : SaveNetworkFail(k)
  \/ \E id \in delReqs : BackendRemove(id)
  \/ \E id \in delReqs : RemoveLost(id)

Next == FrameLoad \/ UserStep \/ Delivery \/ Http

Spec == Init /\ [][Next]_vars
-----------------------------------------------------------------------------
(* Every variable holds a value the code can give it. *)
TypeOK ==
  /\ TransportTypeOK
  /\ zone \in [ZoneIds -> ZoneRec]
  /\ nInst \in [Ctx -> Nat] /\ selZone \in [Ctx -> Nat]
  /\ \A c \in Ctx : nInst[c] <= MaxZones[c] /\ selZone[c] <= nInst[c]
  /\ selIP \in BOOLEAN /\ listen \in BOOLEAN
  /\ current \in ZoneIds \cup {NoZone}
  /\ handles \subseteq ZoneIds /\ newCalled \subseteq handles
  /\ clicked \subseteq ZoneIds
  /\ setReqs \in Seq(SetReq)
  /\ delReqs \subseteq 1..MaxPid
  /\ records \in [1..MaxPid -> ZoneIds \cup {NoZone}]
  /\ nextPid \in 1..MaxPid + 1

(* No message is on its way between the frames. *)
Quiescent == \A p \in Pairs : chan[p] = <<>>

SelectingTarget(c) ==
  /\ selZone[c] # 0
  /\ zone[SelZoneOf(c)].selecting
  /\ zone[SelZoneOf(c)].target # NoTarget

(***************************************************************************)
(* Zones.js onTargetChanged keeps one candidate across the frames: when   *)
(* the pointer binds a target in another frame, the previous currentZone  *)
(* is cleared with set('target', null), possibly through a                *)
(* zoneSetProperty message that crosses the other frame's own             *)
(* targetChanged.  Once the messages have settled, during a selection at  *)
(* most one frame's selecting zone has a target.                          *)
(***************************************************************************)
SelectionSingleTarget ==
  (selIP /\ Quiescent) => Cardinality({c \in Ctx : SelectingTarget(c)}) <= 1

(***************************************************************************)
(* A zone that believes itself saved under id (Zone._saved, this.id) and  *)
(* was not removed owns that backend record: zones/set answers, retries,  *)
(* lost requests and zones/remove never leave it pointing at a record of  *)
(* another zone or at none.                                                *)
(***************************************************************************)
SavedRecordOwned ==
  \A h \in ZoneIds :
    (Exists(h) /\ zone[h].saved /\ ~zone[h].removed) =>
      zone[h].pid \in 1..MaxPid /\ records[zone[h].pid] = h

-----------------------------------------------------------------------------
(***************************************************************************)
(* Properties the spec states of the code, which the code does not meet. *)
(***************************************************************************)

(***************************************************************************)
(* A coordinator-level selection ends only by the user's toggle or by a   *)
(* pointer-down on a zone while this selection runs: a step that lowers   *)
(* selectionInProgress is Zones.stopSelection from the interface, or      *)
(* makes current a zone clicked since the selection started.              *)
(***************************************************************************)
SelectionEndsByUser ==
  [][(selIP /\ ~selIP') => (UserStopSelection \/ current' \in clicked')]_vars

(***************************************************************************)
(* remove() makes a zone terminal and Zones.js drops its RemoteZone on    *)
(* `removed`.  Once no message and no zones/set request is in flight, no  *)
(* handle of the coordinator names a removed zone.                        *)
(***************************************************************************)
NoHandleForRemovedZone ==
  (Quiescent /\ setReqs = <<>>) => \A h \in handles : ~zone[h].removed

=============================================================================

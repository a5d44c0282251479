----------------------------- MODULE RefSelection -----------------------------
(***************************************************************************)
(* The text-range reference of a zone (ZoneSelection.js), as the link and  *)
(* image rows start it with their ref button (remotezone.run('selectRef')). *)
(* ZoneSelection.startSelection hides every other zone of Zone.zones with  *)
(* Zone.tmpHideOthers(true) and adds a mouseup listener on window.  Each   *)
(* mouseup gives the listener the document selection: the zone's range    *)
(* becomes it, the others are restored (tmpHideOthers(false)), and the     *)
(* listener goes only when the range is not collapsed.                     *)
(*                                                                         *)
(* Every click of the interface is preceded by its mouseup, which reaches  *)
(* the window listeners (Action stops only the click).  A press on an     *)
(* interface button leaves a collapsed selection, since no style of the   *)
(* interface disables text selection.                                      *)
(***************************************************************************)
EXTENDS Naturals, Sequences, SequencesExt, FiniteSets

CONSTANTS
  Zones,        \* Zone.zones of the frame
  RefZones,     \* the zones whose row has a ref button (link and image zones)
  TypeOf,       \* TypeOf[z]: the zone's info.type, the key of Zones.runForAll
  Ranges,       \* non-collapsed text selections the user can make (model values)
  Carets,       \* collapsed selections (carets) a press can leave
  ToolCaret,    \* the caret a press on an interface button leaves
  StartOf,      \* StartOf[s], EndOf[s]: the start and end containers of selection s
  EndOf,
  NoRange,      \* no range yet: startContainer null, displayedRange null
  Undefined     \* _tmpHiddenPreviousState not set

(***************************************************************************)
(* The document.  Body's subtree as the proxy served it (PageKids gives   *)
(* the child list of each element), the elements the tool adds, and the   *)
(* nodeName of every node ("#text" for a text node).                       *)
(***************************************************************************)
CONSTANTS
  Body,         \* document.body
  PageNodes,    \* the served nodes under body
  PageKids,     \* PageKids[e]: the served children of element e (or of Body)
  NameOf,       \* NameOf[n]: n.nodeName.toLowerCase()
  Positioned,   \* elements whose computed position is not static
  Overlay,      \* the Overlay root div, appended to body at $(ready)
  Toolbar,      \* the interface's toolbar root (position fixed) in Overlay
  ToolText,     \* a text node of the toolbar
  ZoneDiv,      \* ZoneDiv[z]: z.dom.zone, the zone's overlay (position absolute)
  RefDiv,       \* RefDiv[z]: z.ref.domContainer
  TargetOf,     \* TargetOf[z]: the zone's target when the page was left, a served element
  Filter,       \* Filter[z]: the nodeNames $(e).is(z.filter) accepts (all, for no filter)
  NoNode,       \* null
  NoData        \* no save of this zone yet

ToolNodes == {Overlay, Toolbar, ToolText} \cup {ZoneDiv[z] : z \in Zones} \cup {RefDiv[z] : z \in Zones}
Nodes == {Body} \cup PageNodes \cup ToolNodes
Elems == {n \in Nodes : NameOf[n] # "#text"}

ASSUME RefZones \subseteq Zones /\ TypeOf \in [Zones -> STRING]
ASSUME {NoRange, Undefined} \cap (Ranges \cup Carets) = {} /\ ToolCaret \in Carets
ASSUME /\ StartOf \in [Ranges \cup Carets -> Nodes] /\ EndOf \in [Ranges \cup Carets -> Nodes]
       /\ NameOf \in [Nodes -> STRING] /\ Positioned \subseteq Elems
       /\ PageKids \in [{Body} \cup (PageNodes \cap Elems) -> Seq(PageNodes)]
       /\ TargetOf \in [Zones -> PageNodes \cap Elems] /\ NoNode \notin Nodes
       /\ Filter \in [Zones -> SUBSET STRING]

VARIABLES
  hidden,       \* hidden[z]: zone z's _hidden
  prev,         \* prev[z]: zone z's _tmpHiddenPreviousState
  handlers,     \* the window mouseup listeners of pending ref selections, in registration order
  ref,          \* ref[z]: the range of z.ref (its displayedRange)
  kids,         \* kids[e]: e.childNodes, for every element of the document
  posted,       \* the data() the latest zones/set posted, with its zone, or NoData
  target,       \* target[z]: zone z's _target
  lock          \* lock[z]: the state of the LockAction of z's row

vars == <<hidden, prev, handlers, ref, kids, posted, target, lock>>

Types == {TypeOf[z] : z \in Zones}

-----------------------------------------------------------------------------
(***************************************************************************)
(* The DOM.  ParentOf is parentNode; AppendTo is ManagedElement.appendTo: *)
(* nothing if e is a child of p already, else appendChild, which takes e  *)
(* out of its old parent and puts it last in p.                            *)
(***************************************************************************)
ParentOf(k, n) == IF \E e \in DOMAIN k : n \in ToSet(k[e])
                  THEN CHOOSE e \in DOMAIN k : n \in ToSet(k[e]) ELSE NoNode

AppendTo(k, e, p) ==
  IF ParentOf(k, e) = p THEN k
  ELSE [x \in DOMAIN k |-> IF x = p THEN Append(Remove(k[x], e), e) ELSE Remove(k[x], e)]

(* n and its ancestors, innermost first, up to the top or a detached root. *)
RECURSIVE Chain(_, _)
Chain(k, n) == IF n = NoNode THEN <<>> ELSE <<n>> \o Chain(k, ParentOf(k, n))

(* range.commonAncestorContainer: the innermost node containing both ends. *)
CommonAncestor(k, a, b) ==
  LET ca == Chain(k, a)
  IN  ca[SelectInSeq(ca, LAMBDA x : x \in ToSet(Chain(k, b)))]

(* The loop `while(parent && not html && static) parent = parent.offsetParent`, *)
(* then body if it ran out: the innermost positioned element from e up,   *)
(* else body (body.offsetParent is null). *)
RECURSIVE NearestPositioned(_, _)
NearestPositioned(k, e) ==
  IF e = NoNode \/ e = Body THEN Body
  ELSE IF e \in Positioned THEN e ELSE NearestPositioned(k, ParentOf(k, e))

(* Zone._replace: the zone overlay goes into the offsetParent of the target *)
(* t found by the same loop. *)
ZoneAnchor(k, t) == NearestPositioned(k, ParentOf(k, t))

(* setDisplayedRange: the common ancestor, its parent if it is text, then  *)
(* the loop. *)
RangeAnchor(k, s) ==
  LET c == CommonAncestor(k, StartOf[s], EndOf[s])
  IN  NearestPositioned(k, IF NameOf[c] = "#text" THEN ParentOf(k, c) ELSE c)

(***************************************************************************)
(* DOMExport.xpathOf.  A step is the lowercased nodeName ("text()" for a  *)
(* text node) and 1 + the number of previous siblings with the same       *)
(* nodeName; reaching body puts "/html/body" first and stops.  A node     *)
(* outside body gives a path without it; null gives null.  A path is kept *)
(* as its sequence of steps, which the "/"-join determines one to one.    *)
(***************************************************************************)
BodyStep == [name |-> "/html/body", pos |-> 0]
NoXpath == <<>>

(* Variant: the position counts every previous sibling. *)
PosAnySibling(k, n) ==
  SelectInSeq(k[ParentOf(k, n)], LAMBDA x : x = n)

Pos(k, n) ==
  LET sibs == k[ParentOf(k, n)]
      i    == SelectInSeq(sibs, LAMBDA x : x = n)
  IN  1 + Cardinality({j \in 1..(i - 1) : NameOf[sibs[j]] = NameOf[n]})

Step(k, n) ==
  [name |-> IF NameOf[n] = "#text" THEN "text()" ELSE NameOf[n],
   pos  |-> IF ParentOf(k, n) = NoNode THEN 1 ELSE Pos(k, n)]

RECURSIVE XpathSteps(_, _)
XpathSteps(k, n) ==
  CASE n = NoNode -> <<>>
    [] n = Body   -> <<BodyStep>>
    [] OTHER      -> Append(XpathSteps(k, ParentOf(k, n)), Step(k, n))

XpathOf(k, n) == IF n = NoNode THEN NoXpath ELSE XpathSteps(k, n)

(***************************************************************************)
(* DOMExport.elementFromXpath: document.evaluate, first node in document  *)
(* order.  An absolute path walks down from body: name[pos] is the pos-th *)
(* child that is an element of that name, or a text node for text().  A   *)
(* relative path, or null (the string "null"), selects nothing.           *)
(***************************************************************************)
Matches(c, name) == IF name = "text()" THEN NameOf[c] = "#text" ELSE NameOf[c] = name

RECURSIVE Walk(_, _, _, _)
Walk(k, ctx, xp, i) ==
  IF i > Len(xp) THEN ctx
  ELSE LET cs == IF ctx \in DOMAIN k THEN SelectSeq(k[ctx], LAMBDA c : Matches(c, xp[i].name))
                 ELSE <<>>
       IN  IF xp[i].pos \in 1..Len(cs) THEN Walk(k, cs[xp[i].pos], xp, i + 1) ELSE NoNode

ElementFromXpath(k, xp) ==
  IF xp # NoXpath /\ xp[1] = BodyStep THEN Walk(k, Body, xp, 2) ELSE NoNode

(***************************************************************************)
(* DOMExport.export with Zone.data's options: clone the node, visit the   *)
(* clone, serialise it.  The content is kept as the set of original nodes *)
(* whose copies the markup holds (text anonymisation is left out).  The   *)
(* child loop removes a child keepElement refuses and steps back (--i).   *)
(* keepElement asks isManagedElement of a node of the clone, and          *)
(* cloneNode copies no expando property, so it is never managed.          *)
(***************************************************************************)
CloneIsManaged(c) == FALSE

KeepElement(c) == ~CloneIsManaged(c)

RECURSIVE Visit(_, _), VisitKids(_, _, _)
Visit(k, n) == {n} \cup (IF n \in DOMAIN k THEN VisitKids(k, k[n], 1) ELSE {})

VisitKids(k, cs, i) ==
  IF i > Len(cs) THEN {}
  ELSE IF KeepElement(cs[i]) THEN Visit(k, cs[i]) \cup VisitKids(k, cs, i + 1)
  ELSE VisitKids(k, RemoveAt(cs, i), i)

Export(k, n) == Visit(k, n)

(***************************************************************************)
(* Zone.exclude'd elements: the toolbar root (ExpertInterface), and every *)
(* zone's container and ref container (the Zone constructor).  The        *)
(* Overlay root that holds the toolbar is not among them.                 *)
(***************************************************************************)
Excluded == {Toolbar} \cup {ZoneDiv[z] : z \in Zones} \cup {RefDiv[z] : z \in Zones}

(* contains(excluded, e) !== null: e or one of its ancestors is excluded. *)
InExcluded(k, e) == ToSet(Chain(k, e)) \cap Excluded # {}

(* isValidZoneTarget: not html, not body, not excluded, passes the filter. *)
IsValidZoneTarget(k, z, e) ==
  /\ e # NoNode
  /\ NameOf[e] \notin {"html", "body"}
  /\ ~InExcluded(k, e)
  /\ NameOf[e] \in Filter[z]

(* The element children of e (children, as firstElementChild and          *)
(* next/previousElementSibling walk them). *)
ElemKids(k, e) == IF e \in DOMAIN k THEN SelectSeq(k[e], LAMBDA c : NameOf[c] # "#text") ELSE <<>>

(* The first valid element of a sequence of candidates, or null. *)
FirstValid(k, z, cs) ==
  LET i == SelectInSeq(cs, LAMBDA c : IsValidZoneTarget(k, z, c))
  IN  IF i = 0 THEN NoNode ELSE cs[i]

(***************************************************************************)
(* The navigation getters of Zone, for the target t of zone z.            *)
(* parentElement: the parent if valid.  nextElement / previousElement:     *)
(* the nearest valid element sibling after / before t.                    *)
(* firstChildElement: down the chain of first element children, the      *)
(* first valid one (siblings of an invalid child are not tried).          *)
(***************************************************************************)
ParentElement(k, z, t) ==
  IF IsValidZoneTarget(k, z, ParentOf(k, t)) THEN ParentOf(k, t) ELSE NoNode

Siblings(k, t) == ElemKids(k, ParentOf(k, t))

NextElement(k, z, t) ==
  LET sibs == Siblings(k, t)
      i    == SelectInSeq(sibs, LAMBDA c : c = t)
  IN  FirstValid(k, z, SubSeq(sibs, i + 1, Len(sibs)))

PreviousElement(k, z, t) ==
  LET sibs == Siblings(k, t)
      i    == SelectInSeq(sibs, LAMBDA c : c = t)
  IN  FirstValid(k, z, Reverse(SubSeq(sibs, 1, i - 1)))

RECURSIVE FirstChildElement(_, _, _)
FirstChildElement(k, z, t) ==
  IF ElemKids(k, t) = <<>> THEN NoNode
  ELSE LET c == Head(ElemKids(k, t))
       IN  IF IsValidZoneTarget(k, z, c) THEN c ELSE FirstChildElement(k, z, c)

Dirs == {"parentElement", "nextElement", "previousElement", "firstChildElement"}

(* this[newTarget] for the getter name d. *)
Getter(k, z, t, d) ==
  CASE d = "parentElement"   -> ParentElement(k, z, t)
    [] d = "nextElement"     -> NextElement(k, z, t)
    [] d = "previousElement" -> PreviousElement(k, z, t)
    [] OTHER                 -> FirstChildElement(k, z, t)

-----------------------------------------------------------------------------
(***************************************************************************)
(* The state as a record, so a handler composes the calls it makes.        *)
(***************************************************************************)
World == [hidden |-> hidden, prev |-> prev, handlers |-> handlers, ref |-> ref,
          kids |-> kids, posted |-> posted, target |-> target, lock |-> lock]

(* Zone.hide(): returns at once if hidden; the overlay's display and the  *)
(* ref's are not modelled. *)
Hide(w, y) == [w EXCEPT !.hidden[y] = TRUE]

(* Zone._replace: with a target and not hidden, the overlay goes into    *)
(* the target's offsetParent; its offsets are not modelled. *)
Replace(w, y) ==
  IF w.hidden[y] THEN w
  ELSE [w EXCEPT !.kids = AppendTo(@, ZoneDiv[y], ZoneAnchor(@, w.target[y]))]

(* Zone.show(): returns at once if shown, else _hidden = false, _replace. *)
Show(w, y) ==
  IF ~w.hidden[y] THEN w ELSE Replace([w EXCEPT !.hidden[y] = FALSE], y)

(* Zone.tmpHideOthers(true) for one other zone: the previous state is kept *)
(* with `||`, then hide(). *)
HideOther(w, y) == Hide([w EXCEPT !.prev[y] = IF @ = TRUE THEN TRUE ELSE w.hidden[y]], y)

(* Zone.tmpHideOthers(false) for one other zone: show() if the kept state *)
(* is false, then delete it. *)
RestoreOther(w, y) ==
  [IF w.prev[y] = FALSE THEN Show(w, y) ELSE w EXCEPT !.prev[y] = Undefined]

(* The zones are independent, so the forEach order does not matter. *)
TmpHideOthers(w, z, bHide) ==
  FoldSet(LAMBDA y, acc : IF bHide THEN HideOther(acc, y) ELSE RestoreOther(acc, y),
          w, Zones \ {z})

(* Variant: no `_selectionHandler == null` test; every call adds a listener. *)
SelectRefUnguarded(w, z) == [TmpHideOthers(w, z, TRUE) EXCEPT !.handlers = Append(@, z)]

(* ZoneSelection.startSelection, reached by Zone.selectRef. *)
SelectRef(w, z) ==
  IF z \in ToSet(w.handlers) THEN w
  ELSE [TmpHideOthers(w, z, TRUE) EXCEPT !.handlers = Append(@, z)]

(* setRange(getRangeAt(0)): a Range object, so setDisplayedRange(range), *)
(* which puts domContainer in the offsetParent of the range and keeps it  *)
(* as displayedRange, collapsed or not. *)
SetRange(w, z, s) ==
  [w EXCEPT !.ref[z] = s, !.kids = AppendTo(@, RefDiv[z], RangeAnchor(@, s))]

(* The mouseup listener of z.ref: setRange, tmpHideOthers(false), and the *)
(* listener removes itself once the range is not collapsed. *)
OnMouseUp(w, z, s) ==
  LET v == TmpHideOthers(SetRange(w, z, s), z, FALSE)
  IN  IF s \in Carets THEN v ELSE [v EXCEPT !.handlers = Remove(@, z)]

(* A mouseup on window: the listeners registered when it is dispatched,   *)
(* in order. *)
MouseUpAll(w, s) == FoldLeft(LAMBDA acc, z : OnMouseUp(acc, z, s), w, w.handlers)

(* Zones.runForAll(t, 'show' | 'hide'): hide() or show() on each zone of t. *)
RunForAll(w, t, show) ==
  FoldSet(LAMBDA y, acc : IF show THEN Show(acc, y) ELSE Hide(acc, y),
          w, {y \in Zones : TypeOf[y] = t})

(* The ends of z.ref: startContainer and endContainer, null before the   *)
(* first setRange. *)
RefStart(w, z) == IF w.ref[z] = NoRange THEN NoNode ELSE StartOf[w.ref[z]]
RefEnd(w, z) == IF w.ref[z] = NoRange THEN NoNode ELSE EndOf[w.ref[z]]

(***************************************************************************)
(* Zone.data: the target's content through DOMExport.export, its xpath,   *)
(* and ref.data() = ref.info(), the xpaths of the ref's containers.  The  *)
(* containers themselves are kept beside them to compare.  Zone.save      *)
(* posts this with a full page export, which is not kept.                 *)
(***************************************************************************)
Data(w, z) ==
  [zone |-> z, target |-> w.target[z], xpath |-> XpathOf(w.kids, w.target[z]),
   content |-> Export(w.kids, w.target[z]),
   start |-> XpathOf(w.kids, RefStart(w, z)), startNode |-> RefStart(w, z),
   end |-> XpathOf(w.kids, RefEnd(w, z)), endNode |-> RefEnd(w, z)]

(* Zone.save with its guard passed: data() is built when save is called. *)
SaveData(w, z) == [w EXCEPT !.posted = Data(w, z)]

(* The target setter with a valid element: the same target is a no-op,   *)
(* else _target changes and _replace runs. *)
SetTarget(w, z, e) ==
  IF e = w.target[z] THEN w ELSE Replace([w EXCEPT !.target[z] = e], z)

(* Zone.moveTo(name): the getter's element, assigned only if valid. *)
MoveTo(w, z, d) ==
  LET e == Getter(w.kids, z, w.target[z], d)
  IN  IF IsValidZoneTarget(w.kids, z, e) THEN SetTarget(w, z, e) ELSE w

(* ontargetchanged: a move button is enabled when the lock is unlocked    *)
(* and info.hasX, which info() computes from the same getter. *)
MoveEnabled(w, z, d) ==
  w.lock[z] = "unlocked" /\ Getter(w.kids, z, w.target[z], d) # NoNode

(* LockAction's run: unlock() a locked lock (editable, so unlockable);    *)
(* locking() an unlocked one, whose `locking` listener saves the zone; a  *)
(* lock in `locking` ignores the click. *)
LockRun(w, z) ==
  CASE w.lock[z] = "locked"   -> [w EXCEPT !.lock[z] = "unlocked"]
    [] w.lock[z] = "unlocked" -> SaveData([w EXCEPT !.lock[z] = "locking"], z)
    [] OTHER                  -> w

Commit(w) ==
  /\ hidden' = w.hidden
  /\ prev' = w.prev
  /\ handlers' = w.handlers
  /\ ref' = w.ref
  /\ kids' = w.kids
  /\ posted' = w.posted
  /\ target' = w.target
  /\ lock' = w.lock

-----------------------------------------------------------------------------
(* The user selects text on the page (or clicks it): one mouseup. *)
MouseUp(s) ==
  Commit(MouseUpAll(World, s))

(* The ref button of z's row: the mouseup of the click, then selectRef.  *)
(* The link row enables it only while the lock is unlocked; the image row *)
(* never disables it. *)
RefClick(z) ==
  /\ TypeOf[z] = "link" => lock[z] = "unlocked"
  /\ Commit(SelectRef(MouseUpAll(World, ToolCaret), z))

(* The show/hide toggle of type t's ManagerAction: its mouseup, then      *)
(* ShowHideAction show()/hide(), whose listener calls the panel's         *)
(* show()/hide(), that is Zones.runForAll. *)
ShowHide(t, show) ==
  Commit(RunForAll(MouseUpAll(World, ToolCaret), t, show))

(* The lock button of z's row: its mouseup, then LockAction's run. *)
LockClick(z) ==
  Commit(LockRun(MouseUpAll(World, ToolCaret), z))

(* zones/set answers z's save: onsaved -> lock(), onsavefailed ->        *)
(* lockFailed(), both leaving `locking`. *)
SaveAnswer(z, ok) ==
  /\ lock[z] = "locking"
  /\ lock' = [lock EXCEPT ![z] = IF ok THEN "locked" ELSE "unlocked"]
  /\ UNCHANGED <<hidden, prev, handlers, ref, kids, posted, target>>

(* A move button of a default zone's row (ZoneInterface._onnewcustom; the *)
(* link and image rows have none): its mouseup, then moveTo. *)
MoveClick(z, d) ==
  /\ MoveEnabled(World, z, d)
  /\ Commit(MoveTo(MouseUpAll(World, ToolCaret), z, d))

(***************************************************************************)
(* The document after $(ready): the served page, and the Overlay root     *)
(* appended to body with the toolbar in it.  The same page is what        *)
(* Zone.load of the next visit resolves xpaths in: the zones it loads are *)
(* hidden, so their overlays are not placed.                              *)
(***************************************************************************)
ReadyKids ==
  [e \in Elems |->
     CASE e = Body                 -> PageKids[Body] \o <<Overlay>>
       [] e \in DOMAIN PageKids    -> PageKids[e]
       [] e = Overlay              -> <<Toolbar>>
       [] e = Toolbar              -> <<ToolText>>
       [] OTHER                    -> <<>>]

(***************************************************************************)
(* Zone.load on the next visit: each stored record becomes a hidden zone   *)
(* of its type, whose loadData resolves the xpaths in that visit's        *)
(* document.  The ref containers that earlier records' loadData append go *)
(* last in their parent, after every served node, so ReadyKids resolves   *)
(* the served nodes as that document does.                                *)
(***************************************************************************)
(* `this.xpath = zoneData.xpath`: the target setter keeps the element     *)
(* elementFromXpath finds only if it is a valid target, else null.        *)
LoadTarget(d) ==
  IF IsValidZoneTarget(ReadyKids, d.zone, ElementFromXpath(ReadyKids, d.xpath))
  THEN ElementFromXpath(ReadyKids, d.xpath) ELSE NoNode

(* ZoneSelection.loadData: startContainer and endContainer from their     *)
(* xpaths; createRange's setStart/setEnd throw on null, and the catch     *)
(* displays no range. *)
LoadRefStart(d) == ElementFromXpath(ReadyKids, d.start)
LoadRefEnd(d) == ElementFromXpath(ReadyKids, d.end)

(* Zone.zones as the page left it: each zone shown or hidden, the shown   *)
(* ones placed by _replace in the order they were bound, no ref selection *)
(* pending, no range, nothing posted. *)
Init ==
  /\ hidden \in [Zones -> BOOLEAN]
  /\ prev = [z \in Zones |-> Undefined]
  /\ handlers = <<>>
  /\ ref = [z \in Zones |-> NoRange]
  /\ kids \in {FoldLeft(LAMBDA k, z : AppendTo(k, ZoneDiv[z], ZoneAnchor(k, TargetOf[z])), ReadyKids, o) :
                o \in SetToSeqs({z \in Zones : ~hidden[z]})}
  /\ posted = NoData
  /\ target = TargetOf
  /\ lock \in [Zones -> {"unlocked", "locked"}]

Next ==
  \/ \E s \in Ranges \cup Carets : MouseUp(s)
  \/ \E z \in RefZones : RefClick(z)
  \/ \E z \in Zones : LockClick(z)
  \/ \E z \in Zones, ok \in BOOLEAN : SaveAnswer(z, ok)
  \/ \E z \in Zones \ RefZones, d \in Dirs : MoveClick(z, d)
  \/ \E t \in Types, show \in BOOLEAN : ShowHide(t, show)

Spec == Init /\ [][Next]_vars

-----------------------------------------------------------------------------
(* Every variable holds a value the code can give it. *)
TypeOK ==
  /\ hidden \in [Zones -> BOOLEAN]
  /\ prev \in [Zones -> BOOLEAN \cup {Undefined}]
  /\ handlers \in Seq(RefZones) /\ IsInjective(handlers)
  /\ ref \in [Zones -> Ranges \cup Carets \cup {NoRange}]
  /\ kids \in [Elems -> Seq(Nodes)]
  /\ posted = NoData \/ (posted.zone \in Zones /\ posted.content \subseteq Nodes)
  /\ target \in [Zones -> Elems]
  /\ lock \in [Zones -> {"unlocked", "locking", "locked"}]

(***************************************************************************)
(* A text selection becomes the reference of one zone: the one whose ref  *)
(* button the user pressed.  One mouseup never gives its range to two     *)
(* zones.                                                                  *)
(***************************************************************************)
OneRefPerSelection ==
  [][Cardinality({z \in Zones : ref'[z] # ref[z] /\ ref'[z] \in Ranges}) <= 1]_vars

(***************************************************************************)
(* Spec, Zone round trip: loadData(data(z)) restores the xpath-derived    *)
(* target.  The xpaths a save records are taken in the live document,     *)
(* where the tool has put zone overlays and ref containers into the page; *)
(* Zone.load on the next visit, through elementFromXpath and the target   *)
(* setter's validity test, gives back the zone's target and, where they   *)
(* are served nodes, the ref's containers.                               *)
(***************************************************************************)
XpathRoundTrip ==
  posted # NoData =>
    /\ LoadTarget(posted) = posted.target
    /\ posted.startNode \in PageNodes => LoadRefStart(posted) = posted.startNode
    /\ posted.endNode \in PageNodes => LoadRefEnd(posted) = posted.endNode

(***************************************************************************)
(* Zone.data exports the target with keepElement = not isManagedElement:  *)
(* the content a save posts holds no element of the tool (zone         *)
(* overlays, ref containers), only the page's own nodes.                  *)
(***************************************************************************)
ContentPageOnly ==
  posted # NoData => posted.content \cap ToolNodes = {}

(***************************************************************************)
(* Spec, Zone Registry: the elements excluded from target selection keep *)
(* the interface's own chrome from ever being a zone's target.  No move  *)
(* button (parentElement, next/previousElement, firstChildElement) takes *)
(* a zone onto an element the tool added to the page.                    *)
(***************************************************************************)
NoChromeTarget == \A z \in Zones : target[z] \notin ToolNodes

=============================================================================

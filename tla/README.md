# TLA+ models of the expert-interface zone system

The expert interface (under `src/proxy.expertinterface/.../org.projectsforge.swap.proxy.expertinterface/`)
lets an operator mark zones of a web page, bind each to a DOM element by live
pointer selection, and save them to a backend. Every frame of the page (top
window and iframes) runs its own copy of the zone code. The top frame must
keep a consistent view of all zones, using only one-way `postMessage` traffic.
These modules model that machinery for the TLC model checker.

## The system and how its parts interact

| Part | Source | State | Operations |
|---|---|---|---|
| Transport | `core/CrossSiteCommunication.js` | `subwindows` (top), `registerInterval` (child), messages in flight | load, `register`/`registered` handshake, retry timer, `emit`, `broadcast`, `receiveMessage` |
| Zone entity | `Zone.js`, `ZoneLink.js` | target, label, `_saved`, `_saving`, `_removed`, `_selectionInProgress`, `id`, `idInstance`, `type` | `set target`, `set label`, `startSelection`, `stopSelection`, pointer move/click, `save` (+ done/fail), `remove`, `create`/`findType` |
| Coordinator | `Zones.js` (top frame) | `zones` (RemoteZone handles), `selectionZone`, `currentZone`, `selectionInProgress`, listener registration, `_newEventCalled` per handle | `startSelection`, `stopSelection`, `toggleSelection`, `onTargetChanged`, `onSelectionEnded`, `onZoneEvent`, `getLocalZone`, RemoteZone `set`/`run`, register replay |
| Worker | `ZonesWorker.js` (each child) | `zones`, `selectionZone` | `zoneStartSelection`, `zoneStopSelection`, `zoneSetProperty`, `zoneFunctionCall`, event forwarding |
| Persistence | `core/ProxyCommunication.js` + backend | requests in flight, backend records | `zones/set` (done/fail), `zones/remove` (fire and forget) |
| UI | `ExpertInterface.js`, `ZoneInterface.js`, `ZoneLinkInterface.js`, `ZoneInterfaces.js`, `ui/LockAction.js`, `ui/Action.js`, `ui/ShowHideAction.js` | active panel, built panels, a row per handle (LockAction state, enabled), `ZoneInterfaces.currentZone` | ManagerAction run and show/hide, selection button, lock (save), label input, delete, select, moveTo, overlay click, the `on…` listeners |
| Zone reference | `ZoneSelection.js`, `Zone.tmpHideOthers` | mouseup listeners of pending ref selections, each zone's range, `_tmpHiddenPreviousState` | `selectRef`/`startSelection`, the mouseup listener, `setRange`/`setDisplayedRange`, `tmpHideOthers`, `info`/`data` |
| Page export | `core/DOMExport.js`, `core/ManagedElement.js`, `core/Overlay.js`, `Zone.data`, `Zone._replace` | the document's child lists, with the tool's overlays placed in it | `xpathOf`, `elementFromXpath`, `export`, `appendTo`, `isManagedElement` |
| Module loader | `core/Loader.js` | `modules` (state, waiting), each define's `loaded` counter, XHRs in flight | `require`, `loadScript` (answer, error, timeout), `define`, `setModuleReady` |

The frames are arranged as a star: every child registers directly with
`window.top`. Zone events flow in two ways. In the top frame they reach the
coordinator synchronously, through `Zone.onEvent`. From a child they arrive as
`zoneEvent` messages. Commands flow back as `zoneSetProperty` and
`zoneFunctionCall` messages, and selections as broadcast
`zoneStartSelection`/`zoneStopSelection`. Each JS handler runs to completion,
and the synchronous listener chains it triggers (`_emit` → `Zone.onEvent` →
`onZoneEvent` → `Zones.emit` → `onTargetChanged`…) run inside it.

## Modules

- **`Transport.tla`** models the star of FIFO channels `chan[<<src,dst>>]` and the load phase
  of each frame:
  - 0: nothing loaded;
  - 1: CrossSiteCommunication's listener is installed;
  - 2: the zone modules are loaded.

  A message arriving before its listener exists is dropped. The module also
  defines `Post`/`Emit`, `Broadcast` (with `BroadcastArgs`, the
  `slice(arguments, 2)` of `broadcast`), the handshake (`LoadCSC`,
  `RegisterRetry`, `OnRegister`, `OnRegistered`), and a standalone handshake
  specification `TransportSpec` with fairness, used for liveness.
- **`ZoneEntity.tla`** holds the Zone as pure operators on a record. Each returns the new
  record and the events emitted, in order, under the names `Zone._emit`
  gives them (`new`, `targetChanged`, `labelChanged`, `selectionStarted`,
  `selectionEnded`, `saved`, `saveFailed`, `focus`, `removed`).
- **`Frames.tla`** composes the top frame (coordinator), the child frames (worker),
  their zones, the UI inputs, and HTTP with the backend.
  - **Handlers.** Each handler is one action. It is written as a function over a
    frame-local "world" record (`Snapshot`), in program order, and `Commit`
    writes the result. For example, `UserStartSelection` is `Zones.startSelection`:
    it raises the flag, drops a selection zone of another type, creates one,
    clears the label, starts it, broadcasts, then registers listeners.
  - **Nested synchronous events.** These are modelled as the code runs them. A
    `targetChanged` from clearing the current top zone re-enters
    `onTargetChanged` while `currentZone` is still that zone, and only refreshes
    its handle. The `selectionEnded` from within `stopSelection` arrives with the
    flag already down.
  - **The backend** (outside this repository, modelled from the spec's
    interface) creates a record for `zoneid` null, updates a live one, and
    answers a non-numeric body otherwise. A request can fail before or after
    the backend applied it. `zones/remove` may be lost.
- **`Loader.tla`** models `core/Loader.js` in one frame. `Require`, `Define`,
  `SetModuleReady` and the define callback (`Callback`/`CompleteDefine`) are
  operators on a loader record, mutually recursive as the JS calls are:
  `setModuleReady` calls the queued callbacks synchronously, and the last
  dependency's callback readies its dependent, so one script arrival can
  ready a chain of modules in one step. The actions are the end of a script
  request: `ScriptLoaded(m)` (status 200, `loaderEval`, whose `define(m, ...)`
  runs) and `ScriptFailed(m)` (error status or `xhr.timeout`, which only
  logs). Each script defines the module named by its path with the
  dependency array of its `Loader.define` call (`Deps`).
- **`ModuleLoading.tla`** is the loader's promise without queues or counters:
  requested scripts are evaluated or fail, and the ready modules are always
  the least set of evaluated modules closed under "all dependencies ready"
  (`ReadyOf`), so a module on a dependency cycle is never ready. `Loader`
  implements it under the mapping `requested` = modules with an entry,
  `evaluated` = loading or ready modules whose request ended without
  failing, and `ready` = modules in state `ready`
  (`Abstract == INSTANCE ModuleLoading WITH ...`, checked as the property
  `ImplementsModuleLoading`).
- **`ExpertInterface.tla`** is the top frame as the operator uses it. It
  composes the coordinator of `Zones.js` (with local zones only; the
  cross-frame part is `Frames`), the zones, and the interface: the toolbar's
  ManagerActions, the zone and link panels, and each row's LockAction, label
  input and buttons. It also models `Zone.load` (the `zones/listactives`
  answer, then `ZoneLink.load` discovering the page's anchors).
  - **State.** `row[h]` is `remotezone.dom`: the panel that built it, the
    LockAction state and whether its button is enabled. `built` holds the
    panels whose dom exists, `active` the activated ManagerAction,
    `uiCurrent` `ZoneInterfaces.currentZone`, and `reqs` the zones with a
    `zones/set` in flight.
  - **Steps.** Each step is one JS task, written over a world record like
    `Frames`. The interface's listeners were registered on `Zones` before the
    coordinator's, and `EventEmitter.emit` calls them in that order
    (`ZonesEmit` is `Relay(UIOn(...))`).
  - **Exceptions.** Nothing on the event path catches. When an interface
    handler dereferences a missing `remotezone.dom` (`onlabelchanged`,
    `onsaved`, `onremoved`), the TypeError ends the task: the world's
    `thrown` flag makes every later step of it a no-op, and that includes the
    rest of the `Zone.load` loop and its `.always`.
  - **Clicks during a selection.** While a zone selects, its window
    `mousedown` listener runs before any click on the interface, because an
    Action stops only the click. The press ends the selection first. So the
    interface's click steps require that no zone is selecting (`Free`), and
    the selection button can only start a selection. Only the ManagerAction
    buttons stop the mousedown, and `ManagerRun`/`ShowHide` have no such
    guard.
- **`RefSelection.tla`** models a zone's text-range reference
  (`ZoneSelection.js`), started by the ref button of a link or image row.
  `startSelection` hides the other zones (`Zone.tmpHideOthers(true)`) and
  adds a window `mouseup` listener. Each mouseup sets the range, restores the
  others, and removes the listener once the range is not collapsed. Every
  click of the interface is preceded by its mouseup, with a collapsed
  selection, so `RefClick` and `ShowHide` run the pending listeners first.

  The module also holds the document: `kids[e]` is the child list of each
  element. The served page is a constant, and the tool adds the Overlay root
  at `$(ready)`. `Zone.show` (through `_replace`) and `setDisplayedRange`
  append each zone's overlay and ref container to the nearest positioned
  ancestor, or to body. `LockClick` is the lock button: its mouseup, then
  `LockAction`'s run. A locked lock unlocks. An unlocked one goes to
  `locking` and runs `Zone.save`, whose `data()` is kept in `posted`. That
  record holds the target, its xpath, the content that `DOMExport.export`
  produces, and the ref's container xpaths from `info()`. `SaveAnswer` is
  `onsaved`/`onsavefailed`, which move the lock out of `locking`.
  `MoveClick` is a move button of a base zone's row. The link and image
  rows have none. It is enabled while the lock is unlocked and the getter
  finds an element. It runs the mouseup, then `moveTo`: the getter
  (`parentElement`, `nextElement`, `previousElement`, `firstChildElement`)
  walks the live document and keeps elements that pass `isValidZoneTarget`.
  That check rejects html and body, anything inside a `Zone.exclude`d
  element, and elements the filter refuses. The target setter then calls
  `_replace`. The link row's ref button follows the lock. The image row's
  never does.
  `LoadTarget`, `LoadRefStart` and `LoadRefEnd` are the next visit's
  `Zone.load`: the record is rebuilt by `Zone.loadData`, whose target
  setter resolves the xpath (`elementFromXpath`) and drops a node that
  fails `isValidZoneTarget`, and by `ZoneSelection.loadData`, which
  resolves the ref's two containers.
  - `XpathOf` follows `xpathOf`. A path is kept as its list of steps, which
    the `/`-join determines one to one.
  - `ElementFromXpath` evaluates a path by XPath's location-step rules, as
    `document.evaluate` does. It is the reference that `XpathOf` is checked
    against.
  - `Export` is the clone visit, with its `--i` removal loop. `keepElement`
    is asked of clone nodes, which carry no `ManagedElement` expando, so
    nothing is removed (`CloneIsManaged`).
  - Text anonymisation is left out, since no property reads the text.
- **`MCLoader.tla`** gives the dependency graph of this repository (the 17
  modules `ExpertInterfaceWorker` needs). The `lib/` scripts are not in the
  repository and are taken to define themselves without dependencies.
- **Composition style.** A handler's intermediate worlds are passed from
  operator to operator (`OnZoneEvent` is `Forget(Relay(MarkNew(...)))`)
  rather than named in long `LET` chains. The meaning is the same, and TLC's
  coverage statistics stay linear in the size of the spec.
- **`MCFrames.tla`**, **`MCTransport.tla`**, **`MCExpertInterface.tla`** and **`MCRefSelection.tla`** instantiate these for TLC: model
  values for frames and elements, per-frame instance bounds, and a
  channel-length constraint.

The variants named `...NoFallback`, `...NoClear`, `...KeepsNew`, `...KeepsId`,
`...NoInterval`, `...BeforeCount`, `...NoCall`, `...Unchecked`,
`...BadBodySaved`, `...NoEvent`, `...IfActive`, `...NoList`, `...NotTrue` and
`...Unguarded` each model a plausible bug in one operator. Substituting one
for its operator makes the corresponding property fail. They are not part of
any specification.

## Runs

| Run | cfg | Expect | Shows |
|---|---|---|---|
| selection | `MCSelection.cfg` | pass (0.75M states, ~1 min) | `SelectionSingleTarget`: during a selection, once no message is in flight, at most one frame's selecting zone holds a target. This holds despite lost early messages, register replays, and a `zoneSetProperty` clear crossing the child's own `targetChanged`. |
| persistence | `MCPersistence.cfg` | pass (0.47M states, ~30 s) | `SavedRecordOwned`: a live zone that believes it is saved owns its backend record, across updates, removals, lost requests and lost answers. |
| registration | `MCTransport.cfg` | pass | `RegistrationCompletes`: under fair loading, timer and delivery, every child ends up in `subwindows` with its interval cleared, whatever the load order. |
| stale_end | `MCStaleEnd.cfg` | violation | A `zoneStopSelection` from an earlier selection, delivered late, ends the user's new selection (action property `SelectionEndsByUser`). |
| removed_handle | `MCRemovedHandle.cfg` | violation | `remove()` does not stop a running selection. The removed zone's later `selectionEnded` gives it a coordinator handle again. |
| loader | `MCLoader.cfg` | pass (15.5k states, ~30 s) | On the `ZonesWorker` part of the graph (12 modules), with every script allowed to fail, `Loader` implements `ModuleLoading` (`ImplementsModuleLoading`), and loading settles: once every request has ended, each required module is ready unless a script it needs failed (`LoadingSettles`). |
| interface | `MCExpertInterface.cfg` | pass (438k states, ~25 s) | There are two pages: one with a saved zone, and one whose unlabelled anchor `ZoneLink.load` discovers. Each allows up to two zone instances. Across every order of panel switches, selections, label edits, lock/save, delete, moves and save answers, two invariants hold. `LockTracksZone`: a row is `locking` only while its zone saves, and `locked` only when it is saved. `ListComplete`: every announced zone of a built panel has a row. |
| load_throw | `MCLoadThrow.cfg` | violation | The user opens the Zones panel before `zones/listactives` answers. `loadData`'s `labelChanged` then reaches `onlabelchanged` before `new` has built the row, and the TypeError ends the load. The zone is never announced, and `ZoneLink.load` never runs (`LoadAnnouncesAll`). |
| ref_restore | `MCRefSelection.cfg` | pass (48k states, ~55 s) | With an image zone and a base zone, across every order of ref buttons, lock clicks, save answers, move buttons, text selections, page clicks and toolbar show/hide, `XpathRoundTrip` holds. A posted xpath is taken in the live document, where overlays and ref containers sit inside a positioned `div` and body. Loaded in the next visit's document through `Zone.loadData` (xpath, then the target setter's validity test) and `ZoneSelection.loadData`, it gives back the zone's target, and gives back the ref's ends when those are page nodes. |
| chrome_target | `MCChromeTarget.cfg` | violation | Two clicks on the base zone's next-element button move its target from `d1` to `d2`, then to the Overlay root (`NoChromeTarget`). `core/Overlay.js` appends that `div` to body after the page, and it is never passed to `Zone.exclude`. A zone without a filter therefore accepts it. The spec says the excluded set keeps the UI's own chrome unselectable. |
| export_leak | `MCExportLeak.cfg` | violation | Zone d1's target contains the image zone's overlay, placed there by `_replace`. Saving the zone posts content that includes that overlay (`ContentPageOnly`): `keepElement` runs on the clone, where `isManagedElement` is always false. |
| ref_shared | `MCRefShared.cfg` | violation | The user presses one zone's ref button and then another's. The first listener survives the collapsed mouseup of the second click, so the next text selection becomes the ref of both zones (`OneRefPerSelection`). |

`broadcast` drops its first argument (`CrossSiteCommunication.js:103`), so
a typed selection started on top would run as a default one in a child (the
spec's Scenario C). The interface starts selections only with type null,
which the child handles the same way, so no behaviour of the tool depends on
it. `Transport` keeps the offset.

Further behaviours are listed as hazards, with no run of their own:
- `Zones.startSelection` with another type removes a saved selection zone
  (`Zones.js:294`).
- A late `zones/set` answer marks a removed zone saved. This is listed
  under the hazard at `Zone.js:1052`, which removed_handle covers.
- A child's `targetChanged` that arrives after the selection ended is
  ignored by `onTargetChanged` (`Zones.js:240`), and two frames keep bound
  selection zones. `Frames` reaches this state.
- The image row's ref button ignores the lock (`ZoneImageInterface.js:45`).
  A saved, locked image zone can have its ref replaced. `RefSelection`
  reaches this state. A property stating the lock's promise for the ref
  would be violated, and has no run slot of its own.
- A failed `zones/set` whose backend commit succeeded leaves an orphan
  record after the retry (`Zone.js:1026`). `SavedRecordOwned` shows that
  the zone owns the record of its latest save. The orphan is a backend
  matter that the spec leaves open.
- A press on the lock button while a ref selection is pending makes the
  toolbar caret the ref, and the save posts its xpath
  (`ZoneSelection.js:138`). `RefSelection` reaches this state. The xpath
  resolves back into the toolbar, so `XpathRoundTrip`, which is about page
  nodes, does not reject it.

`TypeOK` is the type invariant of the composed model. It also states
structural facts: each `selectionZone` is an existing instance, and marked
handles are listed.

## Bounds, and why they are enough

- **Frames.** `selection` uses the top frame and one child. Every cross-frame
  race in the code is between the top frame and one child, since messages
  never go child to child. `persistence` uses the top frame alone, because the
  HTTP races do not depend on which frame owns the zone. A child's save goes
  through `zoneFunctionCall`, which the selection run covers.
- **Instances.** Two zone instances in the top frame allow one type switch
  (remove plus create). One in each child is enough, since a child's type
  never changes: `broadcast` drops the type argument, and the interface
  passes none (`CrossSiteCommunication.js:103`).
- **Elements and labels.** The elements are `{a, body}`: a valid link target
  and an invalid one. The labels are `""` and `"x"`, since save needs a
  non-empty label. The selection run keeps only `""`, because label edits
  reach no selection code. There are two backend ids.
- **Channels.** At most two messages per channel, and one retry in flight.
  This is enough for a replayed start to cross a stop, and for a clear to
  cross a `targetChanged`.
- **Loader.** The graph is the real one, entered at `ZonesWorker` (12 of
  the 17 modules), with every script allowed to fail. On the full graph with
  failures, the temporal check does not finish within ten minutes. The
  part checked has the shared dependencies (`core/EventEmitter`,
  `core/ManagedElement`, `lib/jQuery`) with several dependents each.
- **Interface.** `Init` chooses one of two pages, and the page never
  changes. A single page with both a saved zone and an anchor on a third
  element takes over ten minutes.
  - **First page:** a saved default zone on the anchor `a`, with `body`
    invalid.
  - **Second page:** one anchor with empty text, plus the element `p`, so
    that moves change a target.

  Two instances allow a loaded or discovered zone plus a selection zone, or
  a selection zone replaced after it was saved. One backend id is enough,
  since the interface never compares ids. The types are `default` and
  `link`: the image, table and form panels have no zones on these pages.
- **Ref selection.** `ref_restore` uses an image zone, which has a ref
  button, and a base zone, which has move buttons. With the link zone
  added, so that two ref selections can be pending, the state space passes
  300k distinct states within five minutes and keeps growing. The
  restoring of temporarily hidden zones by several pending listeners is
  therefore not checked as an invariant; `ref_shared` shows what two
  pending listeners do to the refs. `ref_shared` and
  `export_leak` keep all three zones. Two zones with a ref button are
  enough for two pending selections there. One
  non-collapsed range and two carets cover each branch of the listener: one
  caret on the page, and the toolbar caret that each interface press
  leaves. The page is `body` holding a text node, a positioned `div` (text
  plus a `span` with text and an `img`) and a static `div` (an `a` with
  text). The link zone targets the `a`, the image zone the `img`, and the
  base zone the positioned `div`. With this page:
  - a text node and an element precede an element, so same-name counting
    and `text()` steps both matter;
  - the image zone's overlay and the range's ref container land inside the
    positioned `div`, and the others land in `body` after the Overlay root;
  - the toolbar caret puts a ref container into the fixed toolbar;
  - the base zone can move to the `span` (first child), from it to the
    `img` (next) and back up (parent), to
    the next `div`, and from there to the Overlay root.

  `posted` keeps the latest save only. Every save is the latest one in
  some state, so an invariant over it covers every save.
- **Deadlock.** `CHECK_DEADLOCK FALSE` is set in the frame runs because the
  page legitimately idles: with no message or request in flight, nothing
  happens until the user acts. The only states without successors are
  instance-bound exhaustion. In `registration` the handshake ends once every
  child is acknowledged.

## Fairness

Fairness is assumed in `TransportSpec`, for these steps:
- script loading;
- the `setInterval` timer while armed;
- delivery (or drop) of posted messages.

In `Loader`, every script request ends (weak fairness on
`ScriptLoaded(m) \/ ScriptFailed(m)`): `loadScript` sets `xhr.timeout = 5000`,
so the browser either answers or times the request out.

The browser guarantees these. User steps are never fair, so
`ExpertInterface` and `RefSelection`, which consist of user steps and the
answers to them, have no fairness and check only safety.

## Not modelled (yet), and the plan

- **Left for later work** (each needs state that the current runs cannot
  afford within their time bound, or a run slot of its own):
  - an abstract coordinator view (the set of zones the UI lists, and the
    single current zone), with `Frames` shown to refine it through a mapping
    from `handles`/`current`;
  - `Zone.load` in child frames (two frames loading the same record);
  - image zones, whose `ZoneImage.load` emits `new` before it sets the
    target;
  - a property for the selection button, which cannot cancel a selection
    (see the hazard at `Zone.js:851`);
  - a hanging `zones/set` (no timeout), as a liveness property;
  - `zonesFunctionCall`, whose only sender, `Zones.run`, no code calls.
- **Out of scope:**
  - subzones (table/form), and the form variant: only the top frame's
    `ExpertInterface.js` loads `ZoneTable` and `ZoneForm`; the worker of a
    child frame loads only `ZoneLink` and `ZoneImage`, so there a stored
    table or form record falls back to the default type (`Zone.findType`).
    Their subzones would multiply the zone state of every run;
  - in the interface: the anonymisation checkboxes and the settings
    checkbox, which only feed the saved data; scrolling and highlight;
    `Zones.sort`, which only orders rows by frame;
  - `CSSStyle` and `CSSDefaultTheme`, which only compute class names and
    style rules, and `DOMExport`'s text anonymisation (a character map);
  - a document the page's own scripts change after load: the served page
    is constant;
  - the loader's debug mode (script tags) and `defineAsync`, which no script
    calls (it would also throw: it passes the module name, not the module,
    to `setModuleReady`); likewise `EventEmitter.once`, which calls a
    `removeListener` that does not exist, is never used;
  - AES/JSON encoding, which is the identity on every message the code builds.

------------------------------- MODULE Loader -------------------------------
(***************************************************************************)
(* The AMD-like module loader of core/Loader.js, as it runs in one frame. *)
(* Loader.require(name, onsuccess) creates the module record, queues the  *)
(* callback and, the first time, fetches the script with an asynchronous  *)
(* XMLHttpRequest.  The script's Loader.define(name, deps, definition)    *)
(* requires every dependency with a callback that counts them; the last   *)
(* one runs the definition and setModuleReady, which calls the queued     *)
(* callbacks synchronously, so one script arrival can make a whole chain  *)
(* of dependents ready inside the same task.                              *)
(*                                                                         *)
(* Every script of this repository defines the module named by its path,  *)
(* so the answer to the request for m evaluates define(m, Deps[m], ...).   *)
(* Module contents are not modelled: a queued callback is the dependent    *)
(* module whose define registered it.                                      *)
(***************************************************************************)
EXTENDS Naturals, Sequences, FiniteSets

CONSTANTS
  Modules,      \* module names (script paths below Loader.url, without .js)
  Deps,         \* Deps[m]: the dependency array m's script passes to Loader.define
  Entry,        \* the module of the start-up call Loader.require('main')
  MayFail       \* the scripts whose request may end without a 200 answer

ASSUME Entry \in Modules /\ Deps \in [Modules -> Seq(Modules)] /\ MayFail \subseteq Modules

VARIABLES
  modState,     \* modules[name].state; "none" while `modules` has no entry for name
  waiting,      \* modules[name].waiting: dependents whose require callback is queued
  loaded,       \* loaded[d]: the `loaded` counter of the define(d, ...) closure
  xhr,          \* scripts requested by loadScript whose request has not ended
  failed        \* scripts whose request ended with an error status or a timeout

vars == <<modState, waiting, loaded, xhr, failed>>

States == {"none", "creation", "loading", "ready"}

(* The modules a define names as dependencies, as a set. *)
DepSet(m) == {Deps[m][i] : i \in DOMAIN Deps[m]}

(* A script was evaluated: it was requested, its request has ended and it  *)
(* did not fail.  Its module is then loading (waiting for dependencies) or *)
(* ready.                                                                   *)
Evaluated == {m \in Modules : modState[m] \in {"loading", "ready"}} \ (xhr \cup failed)

-----------------------------------------------------------------------------
(***************************************************************************)
(* The loader's closure state as a record, and the operations of Loader.js *)
(* on it.  A handler composes them in program order.                       *)
(***************************************************************************)
World == [state |-> modState, waiting |-> waiting, loaded |-> loaded, xhr |-> xhr]

Commit(L) ==
  /\ modState' = L.state
  /\ waiting' = L.waiting
  /\ loaded' = L.loaded
  /\ xhr' = L.xhr

(* getOrCreateModule(name) *)
GetOrCreateModule(L, name) ==
  IF L.state[name] = "none" THEN [L EXCEPT !.state[name] = "creation"] ELSE L

(* loadScript(name): an asynchronous GET of name + ".js" *)
LoadScript(L, name) == [L EXCEPT !.xhr = @ \cup {name}]

MarkReady(L, m) == [L EXCEPT !.state[m] = "ready"]

ClearWaiting(L, m) == [L EXCEPT !.waiting[m] = <<>>]

RECURSIVE SetModuleReady(_, _), CallWaiting(_, _), Callback(_, _)

(***************************************************************************)
(* The require callback registered by define(d, ...): ++loaded; when      *)
(* loaded == len the definition runs and setModuleReady(d) follows.        *)
(***************************************************************************)
(* Variant: the count is compared before it includes this dependency. *)
CompleteDefineBeforeCount(L, d) ==
  IF L.loaded[d] = Len(Deps[d]) - 1 THEN SetModuleReady(L, d) ELSE L

CompleteDefine(L, d) ==
  IF L.loaded[d] = Len(Deps[d]) THEN SetModuleReady(L, d) ELSE L

Callback(L, d) == CompleteDefine([L EXCEPT !.loaded[d] = @ + 1], d)

(* The loop of setModuleReady over module.waiting, in order. *)
CallWaiting(L, ws) ==
  IF ws = <<>> THEN L ELSE CallWaiting(Callback(L, Head(ws)), Tail(ws))

(***************************************************************************)
(* setModuleReady(module): state = 'ready', call every waiting listener,   *)
(* then waiting = null.  No listener is queued during the loop: require   *)
(* of a ready module calls its callback at once.                          *)
(***************************************************************************)
(* Variant: the module is marked ready without calling its listeners. *)
SetModuleReadyNoCall(L, m) == ClearWaiting(MarkReady(L, m), m)

SetModuleReady(L, m) == ClearWaiting(CallWaiting(MarkReady(L, m), L.waiting[m]), m)

(***************************************************************************)
(* require(name, onsuccess): a ready module calls onsuccess at once;       *)
(* otherwise the callback is queued and a module seen for the first time   *)
(* goes to 'loading' and its script is fetched.  cb is <<d>> for the       *)
(* callback of define(d, ...), <<>> for the start-up call, made when no    *)
(* module exists yet.                                                      *)
(***************************************************************************)
StartLoading(L, name) ==
  IF L.state[name] = "creation"
  THEN LoadScript([L EXCEPT !.state[name] = "loading"], name)
  ELSE L

(* Variant: the callback is queued without the typeof onsuccess check. *)
QueueUnchecked(L, name, cb) ==
  [L EXCEPT !.waiting[name] = Append(@, IF cb = <<>> THEN "undefined" ELSE cb[1])]

(* The callback is queued only when onsuccess is a function. *)
Queue(L, name, cb) == [L EXCEPT !.waiting[name] = @ \o cb]

Require(L, name, cb) ==
  IF L.state[name] = "ready"
  THEN Callback(L, cb[1])
  ELSE StartLoading(Queue(GetOrCreateModule(L, name), name, cb), name)

(* The asyncLoader loop of define: require each dependency in order. *)
RECURSIVE RequireDeps(_, _, _)
RequireDeps(L, m, i) ==
  IF i > Len(Deps[m]) THEN L
  ELSE RequireDeps(Require(L, Deps[m][i], <<m>>), m, i + 1)

(***************************************************************************)
(* define(moduleName, dependencies, definition): without dependencies the  *)
(* definition runs and the module is ready at once.                        *)
(***************************************************************************)
Define(L, m) ==
  IF Deps[m] = <<>>
  THEN SetModuleReady(GetOrCreateModule(L, m), m)
  ELSE RequireDeps(GetOrCreateModule(L, m), m, 1)

-----------------------------------------------------------------------------
(***************************************************************************)
(* The empty loader, after which the start-up require('main') runs.       *)
(***************************************************************************)
EmptyWorld ==
  [state |-> [m \in Modules |-> "none"], waiting |-> [m \in Modules |-> <<>>],
   loaded |-> [m \in Modules |-> 0], xhr |-> {}]

InitFrom(L) ==
  /\ modState = L.state
  /\ waiting = L.waiting
  /\ loaded = L.loaded
  /\ xhr = L.xhr

Init ==
  /\ InitFrom(Require(EmptyWorld, Entry, <<>>))
  /\ failed = {}

(***************************************************************************)
(* xhr.onreadystatechange with readyState 4 and status 200: loaderEval    *)
(* evaluates the script, whose define runs.                               *)
(***************************************************************************)
ScriptLoaded(m) ==
  /\ m \in xhr
  /\ Commit(Define([World EXCEPT !.xhr = @ \ {m}], m))
  /\ UNCHANGED failed

(***************************************************************************)
(* Any other end of the request (an error status, or the 5 s xhr.timeout) *)
(* only logs: the module stays 'loading' and its listeners stay queued.    *)
(* The 10 s timer armed by require only logs as well.                      *)
(***************************************************************************)
ScriptFailed(m) ==
  /\ m \in xhr
  /\ m \in MayFail
  /\ xhr' = xhr \ {m}
  /\ failed' = failed \cup {m}
  /\ UNCHANGED <<modState, waiting, loaded>>

Next == \E m \in Modules : ScriptLoaded(m) \/ ScriptFailed(m)

(***************************************************************************)
(* Every request ends: the browser answers it or xhr.timeout fires.        *)
(***************************************************************************)
Fairness == \A m \in Modules : WF_vars(ScriptLoaded(m) \/ ScriptFailed(m))

Spec == Init /\ [][Next]_vars /\ Fairness

-----------------------------------------------------------------------------
(* Every variable holds a value the code can give it. *)
TypeOK ==
  /\ modState \in [Modules -> States]
  /\ waiting \in [Modules -> Seq(Modules)]
  /\ loaded \in [Modules -> Nat]
  /\ xhr \subseteq Modules /\ failed \subseteq Modules

(* The modules m's definition needs, directly or not, m included. *)
DepsOfAll(S) == S \cup UNION {DepSet(m) : m \in S}

RECURSIVE ReachFrom(_)
ReachFrom(S) == IF DepsOfAll(S) = S THEN S ELSE ReachFrom(DepsOfAll(S))

Needs == [m \in Modules |-> ReachFrom({m})]

(***************************************************************************)
(* The counters and queues of Loader.js implement the loader's promise    *)
(* (ModuleLoading): a module becomes ready exactly when its script has     *)
(* been evaluated and all its dependencies are ready, whatever the order  *)
(* in which the scripts arrive and however many dependents share one.     *)
(***************************************************************************)
Abstract == INSTANCE ModuleLoading
  WITH requested <- {m \in Modules : modState[m] # "none"},
       evaluated <- Evaluated,
       ready <- {m \in Modules : modState[m] = "ready"}

ImplementsModuleLoading == Abstract!Spec

(***************************************************************************)
(* Loading never stalls on its own: once every request has ended, each    *)
(* module that was required is ready, unless a script it needs failed to  *)
(* load.  A dependency cycle, or a callback that setModuleReady fails to   *)
(* call, would leave a module loading with nothing left to wait for.      *)
(***************************************************************************)
Settled ==
  /\ xhr = {}
  /\ \A m \in Modules :
       modState[m] # "none" => (modState[m] = "ready" \/ Needs[m] \cap failed # {})

LoadingSettles == <>[]Settled
=============================================================================

---------------------------- MODULE ModuleLoading ----------------------------
(***************************************************************************)
(* What the module loader promises, without queues or counters: modules   *)
(* are requested (the start-up module, then the dependencies each         *)
(* evaluated script names), each requested script is evaluated or its     *)
(* request fails, and the ready modules are exactly those whose script    *)
(* was evaluated and whose dependencies are all ready: the least set      *)
(* closed under that rule, so a dependency cycle is never ready.          *)
(***************************************************************************)
EXTENDS FiniteSets

CONSTANTS Modules, DepSet(_), Entry

VARIABLES requested, evaluated, failed, ready

vars == <<requested, evaluated, failed, ready>>

(* One round of the rule: evaluated modules whose dependencies are in R. *)
ReadyStep(E, R) == {m \in E : DepSet(m) \subseteq R}

RECURSIVE ReadyFrom(_, _)
ReadyFrom(E, R) == IF ReadyStep(E, R) = R THEN R ELSE ReadyFrom(E, ReadyStep(E, R))

(* The least set of E closed under the rule (the rounds grow from {}). *)
ReadyOf(E) == ReadyFrom(E, {})

Pending == requested \ (evaluated \cup failed)

Init ==
  /\ requested = {Entry}
  /\ evaluated = {}
  /\ failed = {}
  /\ ready = {}

Evaluate(m) ==
  /\ m \in Pending
  /\ evaluated' = evaluated \cup {m}
  /\ requested' = requested \cup DepSet(m)
  /\ ready' = ReadyOf(evaluated \cup {m})
  /\ UNCHANGED failed

Fail(m) ==
  /\ m \in Pending
  /\ failed' = failed \cup {m}
  /\ UNCHANGED <<requested, evaluated, ready>>

Next == \E m \in Modules : Evaluate(m) \/ Fail(m)

Spec == Init /\ [][Next]_vars
=============================================================================

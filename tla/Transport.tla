----------------------------- MODULE Transport -----------------------------
(***************************************************************************)
(* Cross-frame messaging of core/CrossSiteCommunication.js.                *)
(*                                                                         *)
(* Every frame registers directly with window.top, so the topology is a   *)
(* star: one FIFO channel per ordered pair <<top, child>> / <<child,top>>. *)
(* postMessage preserves order on one channel and nothing across           *)
(* channels, which is what separate sequences per pair give.              *)
(*                                                                         *)
(* phase[c] is how far the frame's scripts have loaded:                   *)
(*   0  nothing yet: no "message" listener, a message sent to it is lost  *)
(*   1  CrossSiteCommunication defined: listener installed, register      *)
(*      handshake running, zone-level listeners not yet installed         *)
(*   2  Zones (top) / ZonesWorker (child) defined as well                 *)
(***************************************************************************)
EXTENDS Naturals, Sequences, SequencesExt

CONSTANTS
  Top,          \* window.top
  Children,     \* the frames embedded in the page (model values)
  MaxInFlight   \* bound on the messages queued on one channel

ASSUME Top \notin Children
ASSUME MaxInFlight \in Nat \ {0}

VARIABLES
  chan,         \* chan[<<src, dst>>]: messages posted by src, not yet handled by dst
  phase,        \* phase[c] \in 0..2, see above
  subwindows,   \* the `subwindows` array of the top frame (as a set)
  acked         \* acked[c]: the child has cleared its registerInterval

transportVars == <<chan, phase, subwindows, acked>>

Ctx == {Top} \cup Children

Pairs == {<<Top, c>> : c \in Children} \cup {<<c, Top>> : c \in Children}

(* The wire messages of the registration handshake. *)
RegisterMsg   == [ev |-> "register"]
RegisteredMsg == [ev |-> "registered"]

(***************************************************************************)
(* Posting.  A handler produces a sequence of <<src, dst, msg>> sends, in *)
(* program order; Post appends each message to its channel.  encode() and *)
(* decrypt() are inverse on every message the code builds (JSON of plain  *)
(* strings, numbers, null and arrays, AES with the same static key), so a *)
(* message is carried as its decoded record; the malformed-payload branch *)
(* of receiveMessage is dead for messages posted by this code.           *)
(***************************************************************************)
Post(ch, outs) ==
  [p \in DOMAIN ch |->
     LET mine == SelectSeq(outs, LAMBDA o : <<o[1], o[2]>> = p)
     IN  ch[p] \o [k \in 1..Len(mine) |-> mine[k][3]]]

(* CrossSiteCommunication.emit(windowtarget, event, ...): args = slice(arguments, 2). *)
Emit(src, dst, msg) == << <<src, dst, msg>> >>

(***************************************************************************)
(* CrossSiteCommunication.broadcast(event, ...) posts the same message to *)
(* every registered subwindow.  It computes its argument list with        *)
(* Array.prototype.slice.call(arguments, 2), the offset of emit(), whose  *)
(* first parameter is the target window: the first argument after the    *)
(* event name is dropped.  args is the argument list the caller passes.   *)
(***************************************************************************)
BroadcastArgs(args) == SubSeq(args, 2, Len(args))

Broadcast(msgOf(_)) ==
  LET dsts == SetToSeq(subwindows)
  IN  [k \in 1..Len(dsts) |-> <<Top, dsts[k], msgOf(dsts[k])>>]

(***************************************************************************)
(* Loading.  At CrossSiteCommunication definition a child posts a first   *)
(* `register` to window.top and arms a 2.5 s interval that repeats it; the *)
(* top frame installs its `register` listener.  Later the zone modules    *)
(* load (phase 2).                                                        *)
(***************************************************************************)
LoadCSC(c) ==
  /\ phase[c] = 0
  /\ phase' = [phase EXCEPT ![c] = 1]
  /\ chan' = IF c = Top THEN chan ELSE Post(chan, Emit(c, Top, RegisterMsg))
  /\ UNCHANGED <<subwindows, acked>>

(* Variant: no registerInterval, the load-time `register` is the only one. *)
RegisterRetryNoInterval(c) == FALSE /\ c \in Children

(* The registerInterval timer fires: post `register` again until acknowledged. *)
RegisterRetry(c) ==
  /\ c \in Children
  /\ phase[c] >= 1
  /\ ~acked[c]
  /\ Len(chan[<<c, Top>>]) < MaxInFlight
  /\ chan' = Post(chan, Emit(c, Top, RegisterMsg))
  /\ UNCHANGED <<phase, subwindows, acked>>

(***************************************************************************)
(* The top frame's CrossSiteCommunication `register` listener: a known    *)
(* window is ignored, a new one is appended and acknowledged.  Returns    *)
(* the new subwindows set and the sends.                                  *)
(***************************************************************************)
OnRegister(c) ==
  IF c \in subwindows
  THEN [sub |-> subwindows, outs |-> <<>>]
  ELSE [sub |-> subwindows \cup {c}, outs |-> Emit(Top, c, RegisteredMsg)]

(* The child's `registered` listener: window.clearInterval(registerInterval). *)
OnRegistered(c) == acked' = [acked EXCEPT ![c] = TRUE]

(***************************************************************************)
(* Reception.  A message reaches dst's receiveMessage only once dst has a *)
(* "message" listener; before that the browser drops it.                  *)
(***************************************************************************)
Head1(p) == Head(chan[p])
Pop(ch, p) == [ch EXCEPT ![p] = Tail(@)]

Listening(c) == phase[c] >= 1

TransportInit ==
  /\ chan = [p \in Pairs |-> <<>>]
  /\ phase = [c \in Ctx |-> 0]
  /\ subwindows = {}
  /\ acked = [c \in Children |-> FALSE]

TransportTypeOK ==
  /\ phase \in [Ctx -> 0..2]
  /\ subwindows \subseteq Children
  /\ acked \in [Children -> BOOLEAN]
  /\ DOMAIN chan = Pairs

-----------------------------------------------------------------------------
(***************************************************************************)
(* The handshake on its own: the CrossSiteCommunication listeners, before *)
(* any zone module is loaded.  Frames composes the same steps with the    *)
(* zone listeners.                                                         *)
(***************************************************************************)
RecvRegister(c) ==
  /\ chan[<<c, Top>>] # <<>>
  /\ Head1(<<c, Top>>) = RegisterMsg
  /\ Listening(Top)
  /\ LET reg == OnRegister(c)
     IN  /\ subwindows' = reg.sub
         /\ chan' = Post(Pop(chan, <<c, Top>>), reg.outs)
  /\ UNCHANGED <<phase, acked>>

RecvRegistered(c) ==
  /\ chan[<<Top, c>>] # <<>>
  /\ Head1(<<Top, c>>) = RegisteredMsg
  /\ Listening(c)
  /\ OnRegistered(c)
  /\ chan' = Pop(chan, <<Top, c>>)
  /\ UNCHANGED <<phase, subwindows>>

(* postMessage to a window with no "message" listener yet is lost. *)
DropBeforeListener(p) ==
  /\ chan[p] # <<>>
  /\ ~Listening(p[2])
  /\ chan' = Pop(chan, p)
  /\ UNCHANGED <<phase, subwindows, acked>>

TransportNext ==
  \/ \E c \in Ctx : LoadCSC(c) \/ RegisterRetry(c)
  \/ \E c \in Children : RecvRegister(c) \/ RecvRegistered(c)
  \/ \E p \in Pairs : DropBeforeListener(p)

(***************************************************************************)
(* Fairness: every frame's scripts finish loading, the registerInterval   *)
(* timer keeps firing while it is armed, and the browser delivers (or     *)
(* drops) every posted message.  Nothing else is assumed.                 *)
(***************************************************************************)
TransportFairness ==
  /\ \A c \in Ctx : WF_transportVars(LoadCSC(c)) /\ WF_transportVars(RegisterRetry(c))
  /\ \A c \in Children : WF_transportVars(RecvRegister(c)) /\ WF_transportVars(RecvRegistered(c))
  /\ \A p \in Pairs : WF_transportVars(DropBeforeListener(p))

TransportSpec == TransportInit /\ [][TransportNext]_transportVars /\ TransportFairness

(***************************************************************************)
(* The handshake always completes: every child frame ends up in the top  *)
(* frame's subwindows and has cleared its registerInterval, whichever    *)
(* frame loads first and however many early `register` posts are lost.   *)
(***************************************************************************)
RegistrationCompletes ==
  \A c \in Children : <>[](c \in subwindows /\ acked[c])
=============================================================================

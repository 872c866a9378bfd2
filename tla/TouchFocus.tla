------------------------------ MODULE TouchFocus ------------------------------
(***************************************************************************)
(* touch_interface_t (src/src/core/seat/touch.cpp): the node each finger   *)
(* is focused on, across grabs that are transferred while fingers are down *)
(* or after they were lifted.                                              *)
(*                                                                         *)
(* As in PointerFocus, touchCalls is what is left to run of the active     *)
(* calls, innermost first, and a "node" entry is control in the code of a  *)
(* node, a gesture or a signal handler, which may change the scene.        *)
(***************************************************************************)
EXTENDS Integers, Sequences

CONSTANTS
  Fingers,           \* touch ids, a set of naturals: std::map visits them in order
  TouchNodes,        \* scene nodes that take touch input
  TouchGrabs,        \* those that are grab nodes of plugins
  NoTarget,          \* a finger without a node
  Untracked,         \* no entry in the map for this finger
  MaxTouchReactions  \* bound: scene changes made by handlers during one event

ASSUME TouchAssumption ==
  /\ Fingers \subseteq Nat /\ TouchGrabs \subseteq TouchNodes
  /\ NoTarget \notin TouchNodes /\ Untracked \notin TouchNodes \cup {NoTarget}
  /\ MaxTouchReactions \in Nat

VARIABLES
  touchFocus,     \* touch_interface_t::focus
  fingers,        \* finger_state.fingers: the ids in it
  onScreen,       \* fingers on the device
  touchScene,     \* enabled nodes reachable from the scene's root
  rawGrabs,       \* grab nodes with the RAW_INPUT flag
  touchCalls,     \* rest of the active calls
  touchReactions, \* scene changes made by handlers during this event
  touches,        \* history: downs minus ups each node was told, per finger
  lifted          \* history: the node was told of an up it had no down for

touchState == <<touchFocus, fingers, onScreen>>
touchEnv   == <<touchScene, rawGrabs>>
touchVars  == <<touchState, touchEnv, touchCalls, touchReactions, touches, lifted>>

SetTouchFocus(f, n) == [op |-> "set", finger |-> f, node |-> n]
FingerFocused(f, n) == [op |-> "set_end", finger |-> f, node |-> n]
TransferFrom(f, n)  == [op |-> "transfer", finger |-> f, node |-> n]
TransferEnd(f, n)   == [op |-> "transfer_end", finger |-> f, node |-> n]
UpdateFrom(f)       == [op |-> "update", finger |-> f]
Lift(f)             == [op |-> "lift", finger |-> f]
NodeCode            == [op |-> "node"]

TouchIdle == touchCalls = <<>>
Active(op) == touchCalls # <<>> /\ Head(touchCalls).op = op
Then(ops) == touchCalls' = ops \o Tail(touchCalls)
Begin(ops) == TouchIdle /\ touchCalls' = ops /\ touchReactions' = 0

(* Only the code of plugins does more than take note of an event; told of  *)
(* an up it may end its own grab, and does no more.                        *)
CodeOf(n)   == IF n \in TouchGrabs THEN <<NodeCode>> ELSE <<>>
UpCodeOf(n) == IF n \in TouchGrabs THEN <<[op |-> "up_node", node |-> n]>> ELSE <<>>

(* focus[id]: reading an entry creates it.                                 *)
Target(f) == IF touchFocus[f] = Untracked THEN NoTarget ELSE touchFocus[f]
First == 0
NextFinger(f) ==
  CHOOSE g \in Fingers : touchFocus[g] # Untracked /\ g >= f
                           /\ \A h \in Fingers : touchFocus[h] # Untracked /\ h >= f => g <= h
NoMoreFingers(f) == \A g \in Fingers : g >= f => touchFocus[g] = Untracked

(* The history of a grab is not kept apart from whether it ever got an up  *)
(* without a down; that of a client is exact.                              *)
Down(n, f) == touches' = [touches EXCEPT ![n][f] = IF n \in TouchGrabs THEN 1 ELSE @ + 1]
Up(n, f) ==
  /\ touches' = [touches EXCEPT ![n][f] = IF @ > 0 THEN @ - 1 ELSE 0]
  /\ lifted' = IF touches[n][f] > 0 THEN lifted ELSE lifted \cup {n}

-----------------------------------------------------------------------------
(* set_touch_focus(): up to the old node, then the new focus, then down.   *)

TouchFocusStart ==
  /\ Active("set")
  /\ LET f == Head(touchCalls).finger
         n == Head(touchCalls).node
         old == Target(f)
     IN \/ /\ old = n
           /\ Then(<<>>) /\ UNCHANGED <<touches, lifted>>
        \/ /\ old # n /\ old # NoTarget
           /\ Up(old, f) /\ Then(UpCodeOf(old) \o <<FingerFocused(f, n)>>)
        \/ /\ old # n /\ old = NoTarget
           /\ Then(<<FingerFocused(f, n)>>) /\ UNCHANGED <<touches, lifted>>
     /\ touchFocus' = [touchFocus EXCEPT ![f] = old]
  /\ UNCHANGED <<fingers, onScreen, touchEnv, touchReactions>>

(* The last call is the handler of touch_focus_changed_signal.             *)
TouchFocusEnd ==
  /\ Active("set_end")
  /\ LET f == Head(touchCalls).finger
         n == Head(touchCalls).node
     IN /\ touchFocus' = [touchFocus EXCEPT ![f] = n]
        /\ IF n = NoTarget THEN UNCHANGED touches ELSE Down(n, f)
        /\ Then(CodeOf(n))
  /\ UNCHANGED <<fingers, onScreen, touchEnv, touchReactions, lifted>>

-----------------------------------------------------------------------------
(* transfer_grab(): every entry of the map, those of lifted fingers too,   *)
(* goes to a raw grab; a grab that is not raw takes no finger.             *)

\* Mutant of LookedUp: the position is looked up for every entry.
LookedUpAlways(f, told) == fingers \cup {f}

(* finger_state.fingers[id], for the position of the up.                   *)
LookedUp(f, told) == IF told THEN fingers \cup {f} ELSE fingers

TransferFinger ==
  /\ Active("transfer")
  /\ LET from == Head(touchCalls).finger
         n == Head(touchCalls).node
         f == NextFinger(from)
         old == touchFocus[f]
     IN \/ /\ NoMoreFingers(from)
           /\ Then(<<>>) /\ UNCHANGED <<fingers, touches, lifted>>
        \/ /\ ~NoMoreFingers(from)
           /\ old \in {NoTarget, n} \cup rawGrabs
           /\ fingers' = LookedUp(f, FALSE)
           /\ Then(<<TransferEnd(f, n), TransferFrom(f + 1, n)>>)
           /\ UNCHANGED <<touches, lifted>>
        \/ /\ ~NoMoreFingers(from)
           /\ old \notin {NoTarget, n} \cup rawGrabs
           /\ fingers' = LookedUp(f, TRUE)
           /\ Up(old, f)
           /\ Then(UpCodeOf(old) \o <<TransferEnd(f, n), TransferFrom(f + 1, n)>>)
  /\ UNCHANGED <<touchFocus, onScreen, touchEnv, touchReactions>>

TransferFingerEnd ==
  /\ Active("transfer_end")
  /\ touchFocus' = [touchFocus EXCEPT ![Head(touchCalls).finger] = Head(touchCalls).node]
  /\ Then(<<>>)
  /\ UNCHANGED <<fingers, onScreen, touchEnv, touchReactions, touches, lifted>>

(* on_root_node_updated: fingers leave nodes that are gone.                *)
DropDeadFocus ==
  /\ Active("update")
  /\ LET from == Head(touchCalls).finger
         f == NextFinger(from)
     IN \/ NoMoreFingers(from) /\ Then(<<>>)
        \/ /\ ~NoMoreFingers(from)
           /\ Then((IF touchFocus[f] \in TouchNodes \ touchScene
                    THEN <<SetTouchFocus(f, NoTarget)>> ELSE <<>>) \o <<UpdateFrom(f + 1)>>)
  /\ UNCHANGED <<touchState, touchEnv, touchReactions, touches, lifted>>

-----------------------------------------------------------------------------
(* Events of the device.  "mode" is what the handlers of the input event   *)
(* signal left: FULL or NO_CLIENT (nobody in the repository sets IGNORE).  *)

TouchDown(f, mode) ==
  /\ f \notin onScreen
  /\ onScreen' = onScreen \cup {f} /\ fingers' = fingers \cup {f}
  /\ \E n \in touchScene \cup {NoTarget} :  \* surface_at(point)
       Begin((IF mode = "FULL" THEN <<SetTouchFocus(f, n)>> ELSE <<>>) \o <<NodeCode>>)
  /\ UNCHANGED <<touchFocus, touchEnv, touches, lifted>>

TouchMotion(f) ==
  /\ f \in onScreen
  /\ Begin(<<NodeCode>> \o CodeOf(Target(f)))
  /\ touchFocus' = [touchFocus EXCEPT ![f] = Target(f)]
  /\ UNCHANGED <<fingers, onScreen, touchEnv, touches, lifted>>

(* on_up, and on_cancel, which pretends to be one.  The gestures are told  *)
(* before the finger is forgotten.                                         *)
TouchUp(f) ==
  /\ f \in onScreen
  /\ onScreen' = onScreen \ {f}
  /\ Begin(<<NodeCode, Lift(f)>>)
  /\ UNCHANGED <<touchFocus, fingers, touchEnv, touches, lifted>>

TouchLift ==
  /\ Active("lift")
  /\ fingers' = fingers \ {Head(touchCalls).finger}
  /\ Then(<<SetTouchFocus(Head(touchCalls).finger, NoTarget)>>)
  /\ UNCHANGED <<touchFocus, onScreen, touchEnv, touchReactions, touches, lifted>>

-----------------------------------------------------------------------------
(* What others do to the scene, and the calls that it makes here.          *)
SceneOps == {<<>>, <<UpdateFrom(First)>>}
   \cup {<<TransferFrom(First, n)>> : n \in TouchGrabs \cup {NoTarget}}
   \cup {<<TransferFrom(First, n), UpdateFrom(First)>> : n \in TouchGrabs \cup {NoTarget}}

(* input_grab_t::ungrab_input().                                           *)
UngrabInput(g, ops) ==
  /\ g \in touchScene
  /\ touchScene' = touchScene \ {g}
  /\ ops = <<UpdateFrom(First)>>
  /\ UNCHANGED rawGrabs

(* grab_input(), for a grab that set_wants_raw_input() has been called on. *)
(* On another output than the focused one nothing is transferred.          *)
StartGrab(ops) ==
  \E g \in TouchGrabs \ touchScene, raw \in BOOLEAN :
    /\ touchScene' = touchScene \cup {g}
    /\ rawGrabs' = IF raw THEN rawGrabs \cup {g} ELSE rawGrabs \ {g}
    /\ ops \in {<<TransferFrom(First, IF raw THEN g ELSE NoTarget), UpdateFrom(First)>>,
                <<UpdateFrom(First)>>}

(* A grab that asks for raw input later on, as expo does.                  *)
BecomeRaw(ops) ==
  /\ \E g \in TouchGrabs \cap touchScene : rawGrabs' = rawGrabs \cup {g}
  /\ ops = <<>>
  /\ UNCHANGED touchScene

GrabsChange(ops) == (\E g \in TouchGrabs : UngrabInput(g, ops)) \/ StartGrab(ops) \/ BecomeRaw(ops)

TouchSceneChanges ==
  /\ \E ops \in SceneOps : GrabsChange(ops) /\ Begin(ops)
  /\ UNCHANGED <<touchState, touches, lifted>>

(* Views come and go: events of their own, not made by a node's handler.   *)
TouchViewsChange ==
  /\ \E n \in TouchNodes \ TouchGrabs : touchScene' \in {touchScene \ {n}, touchScene \cup {n}}
  /\ Begin(<<UpdateFrom(First)>>)
  /\ UNCHANGED <<touchState, rawGrabs, touches, lifted>>

TouchReact ==
  /\ Active("node") \/ Active("up_node")
  /\ touchReactions < MaxTouchReactions
  /\ touchReactions' = touchReactions + 1
  /\ \E ops \in SceneOps :
       /\ IF Active("node") THEN GrabsChange(ops) ELSE UngrabInput(Head(touchCalls).node, ops)
       /\ Then(ops)
  /\ UNCHANGED <<touchState, touches, lifted>>

TouchReturn ==
  /\ Active("node") \/ Active("up_node")
  /\ Then(<<>>)
  /\ UNCHANGED <<touchState, touchEnv, touchReactions, touches, lifted>>

TouchInit ==
  /\ touchFocus = [f \in Fingers |-> Untracked] /\ fingers = {} /\ onScreen = {}
  /\ touchScene = TouchNodes \ TouchGrabs /\ rawGrabs = {}
  /\ touchCalls = <<>> /\ touchReactions = 0
  /\ touches = [n \in TouchNodes |-> [f \in Fingers |-> 0]] /\ lifted = {}

TouchNext ==
  \/ \E f \in Fingers : \/ \E mode \in {"FULL", "NO_CLIENT"} : TouchDown(f, mode)
                        \/ TouchMotion(f) \/ TouchUp(f)
  \/ TouchLift \/ TouchFocusStart \/ TouchFocusEnd
  \/ TransferFinger \/ TransferFingerEnd \/ DropDeadFocus
  \/ TouchSceneChanges \/ TouchViewsChange \/ TouchReact \/ TouchReturn

TouchSpec == TouchInit /\ [][TouchNext]_touchVars

-----------------------------------------------------------------------------
(* A client is told of every finger it was told of once: no up without a   *)
(* down, no second down, and between events it knows exactly the fingers   *)
(* focused on it, whatever grabs take the fingers over and give them back  *)
(* in the handlers of other nodes.                                         *)
TouchPaired ==
  \A n \in TouchNodes \ TouchGrabs, f \in Fingers :
    /\ n \notin lifted /\ touches[n][f] \in {0, 1}
    /\ TouchIdle => (touches[n][f] = 1 <=> touchFocus[f] = n)

(* Between events no finger is focused on a node that is gone.             *)
TouchFocusAlive ==
  TouchIdle => \A f \in Fingers : touchFocus[f] \in touchScene \cup {NoTarget, Untracked}

(* Between events the fingers that gestures and modifier bindings count    *)
(* are those on the screen: transfer_grab(), which looks a finger up by    *)
(* operator[], never invents one.                                          *)
FingersKnown == TouchIdle => fingers = onScreen

(* touch_interaction_t says of handle_touch_up: "It is guaranteed that the *)
(* finger will have been pressed on the node before."                      *)
UpsHaveDowns == lifted = {}
=============================================================================

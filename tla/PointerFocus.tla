---------------------------- MODULE PointerFocus ----------------------------
(***************************************************************************)
(* pointer_t (src/src/core/seat/pointer.cpp): which scene node has the     *)
(* pointer focus, which buttons it was told are pressed, and the implicit  *)
(* grab that keeps the focus while a button is held.                       *)
(*                                                                         *)
(* Handlers of compositor nodes (decorations, input grabs of plugins) may  *)
(* change the scene or start a grab while an event is being delivered to   *)
(* them, which re-enters pointer_t.  "todo" is what is left to run of the  *)
(* active calls, innermost first; a "handler" entry is a point where       *)
(* control is in a node's code.  The environment decides which nodes are   *)
(* in the scene and which one is under the cursor (find_node_at).          *)
(***************************************************************************)
EXTENDS Integers, Sequences, FiniteSets

CONSTANTS
  Nodes,          \* scene nodes that take pointer input
  Grabs,          \* those that are grab nodes of plugins (input-grab.hpp)
  Raw,            \* those with the RAW_INPUT flag
  Reactive,       \* those whose handlers may change the scene
  ReactToForced,  \* those that also do so on a synthetic button release
  Buttons,
  NoNode,
  MaxDisabled,    \* bound: set_enable_focus(false) calls not yet undone
  MaxReactions    \* bound: scene changes made by handlers during one event

ASSUME NodesAssumption ==
  /\ NoNode \notin Nodes /\ IsFiniteSet(Buttons)
  /\ Grabs \subseteq Nodes /\ Raw \subseteq Nodes
  /\ ReactToForced \subseteq Reactive /\ Reactive \subseteq Nodes
ASSUME BoundsAssumption == MaxDisabled \in Nat /\ MaxReactions \in Nat

VARIABLES
  focus,          \* pointer_t::cursor_focus
  grabbed,        \* pointer_t::grabbed_node
  sent,           \* pointer_t::currently_sent_buttons, a multiset
  enabled,        \* pointer_t::focus_enabled_count
  held,           \* buttons down; count_pressed_buttons is their number
  alive,          \* enabled nodes reachable from the scene's root
  under,          \* the node find_node_at(cursor) returns
  todo,           \* rest of the active calls
  reactions,      \* scene changes made by handlers during this event
  owed,           \* history: presses minus releases a node was told, unless raw
  inside          \* history: enters minus leaves delivered to a node

ptrvars == <<focus, grabbed, sent, enabled, held>>
scene   == <<alive, under>>
calls   == <<todo, reactions>>
history == <<owed, inside>>
vars    == <<ptrvars, scene, calls, history>>

NoButtons == [b \in Buttons |-> 0]
IsEmpty(bag) == bag = NoButtons
count_pressed_buttons == Cardinality(held)
focus_enabled == enabled > 0

(* What can be left to do of a call.                                       *)
Update         == [op |-> "update"]                        \* on_root_node_updated
Position       == [op |-> "position"]                      \* update_cursor_position
EndGrab        == [op |-> "end_grab"]                      \* grab_surface(nullptr)
SetFocus(n)    == [op |-> "focus", node |-> n]             \* update_cursor_focus
Leave(n, bag)  == [op |-> "leave", node |-> n, bag |-> bag] \* send_leave_to_focus
Focused        == [op |-> "focused"]       \* update_cursor_focus after the leave
Transfer(n)    == [op |-> "transfer", node |-> n]          \* transfer_grab
Transferred(n) == [op |-> "transferred", node |-> n]       \* ... after the leave
SendPress(b)   == [op |-> "press", button |-> b]           \* send_button
SendRelease(b) == [op |-> "release", button |-> b]
CheckGrab      == [op |-> "check_grab"]                    \* check_implicit_grab
Handler        == [op |-> "handler"]                       \* a node's own code

Idle      == todo = <<>>
AtTop(op) == todo # <<>> /\ Head(todo).op = op
Run(ops)  == todo' = ops \o Tail(todo)
Start(ops) == Idle /\ todo' = ops /\ reactions' = 0

(* The node's handler runs; only compositor nodes do more than take note.  *)
HandlerOf(n)       == IF n \in Reactive THEN <<Handler>> ELSE <<>>
ForcedHandlerOf(n) == IF n \in ReactToForced THEN <<Handler>> ELSE <<>>

Insert(bag, b) == [bag EXCEPT ![b] = @ + 1]
Erase(bag, b)  == [bag EXCEPT ![b] = @ - 1]

(* Raw nodes get unmatched buttons: nobody keeps accounts for them.        *)
Told(n, bag) == IF n \in Raw THEN owed ELSE [owed EXCEPT ![n] = bag]

-----------------------------------------------------------------------------
(* A node takes the focus away from old: force-release loop, then leave.   *)

LeaveOld(old) ==
  IF old = NoNode THEN <<>> ELSE <<Leave(old, IF old \in Raw THEN NoButtons ELSE sent)>>

ForceRelease ==
  /\ AtTop("leave")
  /\ LET n == Head(todo).node
         bag == Head(todo).bag
     IN \E b \in Buttons :
          /\ bag[b] > 0
          /\ owed' = Told(n, Erase(owed[n], b))
          /\ Run(ForcedHandlerOf(n) \o <<Leave(n, Erase(bag, b))>>)
  /\ UNCHANGED <<ptrvars, scene, reactions, inside>>

SendLeave ==
  /\ AtTop("leave") /\ IsEmpty(Head(todo).bag)
  /\ inside' = [inside EXCEPT ![Head(todo).node] = @ - 1]
  /\ Run(<<>>)
  /\ UNCHANGED <<ptrvars, scene, reactions, owed>>

UpdateCursorFocus ==
  /\ AtTop("focus")
  /\ LET n == Head(todo).node
     IN IF focus = n
        THEN Run(<<>>) /\ UNCHANGED focus
        ELSE focus' = n /\ Run(LeaveOld(focus) \o <<Focused>>)
  /\ UNCHANGED <<grabbed, sent, enabled, held, scene, reactions, history>>

(* send_enter_to_focus() enters whatever cursor_focus is by now.           *)
Entered == IF focus = NoNode THEN inside ELSE [inside EXCEPT ![focus] = @ + 1]

UpdateCursorFocusEnd ==
  /\ AtTop("focused")
  /\ sent' = NoButtons
  /\ inside' = Entered
  /\ Run(<<>>)
  /\ UNCHANGED <<focus, grabbed, enabled, held, scene, reactions, owed>>

TransferGrab ==
  /\ AtTop("transfer")
  /\ LET n == Head(todo).node
     IN IF focus = n
        THEN Run(<<>>) /\ UNCHANGED focus
        ELSE focus' = n /\ Run(LeaveOld(focus) \o <<Transferred(n)>>)
  /\ UNCHANGED <<grabbed, sent, enabled, held, scene, reactions, history>>

TransferGrabEnd ==
  /\ AtTop("transferred")
  /\ LET n == Head(todo).node
     IN /\ sent' = IF n \in Raw THEN sent ELSE NoButtons
        /\ grabbed' = IF IsEmpty(sent') THEN NoNode ELSE n
  /\ inside' = Entered
  /\ Run(<<>>)
  /\ UNCHANGED <<focus, enabled, held, scene, reactions, owed>>

-----------------------------------------------------------------------------
(* Refocusing.                                                             *)

UpdateCursorPosition ==
  /\ AtTop("position")
  /\ Run((IF grabbed = NoNode /\ focus_enabled THEN <<SetFocus(under)>> ELSE <<>>)
           \o <<[op |-> "motion"]>>)
  /\ UNCHANGED <<ptrvars, scene, reactions, history>>

(* send_motion(): skipped when the local coordinates did not change, which *)
(* is the same as a handler that does nothing.                             *)
SendMotion ==
  /\ AtTop("motion")
  /\ Run(HandlerOf(focus))
  /\ UNCHANGED <<ptrvars, scene, reactions, history>>

\* Mutant of GrabSurfaceNull: the focus is not updated when a grab ends.
GrabSurfaceNullStale ==
  /\ AtTop("end_grab")
  /\ grabbed' = NoNode
  /\ Run(<<>>)
  /\ UNCHANGED <<focus, sent, enabled, held, scene, reactions, history>>

GrabSurfaceNull ==
  /\ AtTop("end_grab")
  /\ grabbed' = NoNode
  /\ Run(IF grabbed = NoNode THEN <<>> ELSE <<Position>>)
  /\ UNCHANGED <<focus, sent, enabled, held, scene, reactions, history>>

\* Mutant of OnRootNodeUpdated: a removed node keeps its implicit grab.
OnRootNodeUpdatedKeep ==
  /\ AtTop("update")
  /\ Run(<<Position>>)
  /\ UNCHANGED <<ptrvars, scene, reactions, history>>

OnRootNodeUpdated ==
  /\ AtTop("update")
  /\ Run((IF grabbed # NoNode /\ grabbed \notin alive THEN <<EndGrab>> ELSE <<>>)
           \o <<Position>>)
  /\ UNCHANGED <<ptrvars, scene, reactions, history>>

-----------------------------------------------------------------------------
(* Button events.                                                          *)

SendButtonPress ==
  /\ AtTop("press")
  /\ LET b == Head(todo).button
     IN IF focus = NoNode
        THEN Run(<<>>) /\ UNCHANGED <<sent, owed>>
        ELSE /\ sent' = Insert(sent, b)
             /\ owed' = Told(focus, Insert(owed[focus], b))
             /\ Run(HandlerOf(focus))
  /\ UNCHANGED <<focus, grabbed, enabled, held, scene, reactions, inside>>

\* Mutant of SendButtonRelease: buttons the node has not received are not ignored.
SendButtonReleaseAll ==
  /\ AtTop("release")
  /\ LET b == Head(todo).button
     IN IF focus # NoNode
        THEN /\ sent' = IF sent[b] > 0 THEN Erase(sent, b) ELSE sent
             /\ owed' = Told(focus, Erase(owed[focus], b))
             /\ Run(HandlerOf(focus))
        ELSE Run(<<>>) /\ UNCHANGED <<sent, owed>>
  /\ UNCHANGED <<focus, grabbed, enabled, held, scene, reactions, inside>>

(* The button leaves currently_sent_buttons before the node is told.       *)
SendButtonRelease ==
  /\ AtTop("release")
  /\ LET b == Head(todo).button
     IN IF focus # NoNode /\ (sent[b] > 0 \/ focus \in Raw)
        THEN /\ sent' = IF sent[b] > 0 THEN Erase(sent, b) ELSE sent
             /\ owed' = Told(focus, Erase(owed[focus], b))
             /\ Run(HandlerOf(focus))
        ELSE Run(<<>>) /\ UNCHANGED <<sent, owed>>
  /\ UNCHANGED <<focus, grabbed, enabled, held, scene, reactions, inside>>

CheckImplicitGrab ==
  /\ AtTop("check_grab")
  /\ grabbed' = IF count_pressed_buttons = 1 /\ focus # NoNode THEN focus ELSE grabbed
  /\ Run(IF count_pressed_buttons = 0 THEN <<EndGrab>> ELSE <<>>)
  /\ UNCHANGED <<focus, sent, enabled, held, scene, reactions, history>>

(* handle_pointer_button(): a press is consumed by a binding, or by the    *)
(* NO_CLIENT mode wm-focus sets; a binding may start a grab and still let  *)
(* the press through.  Releases are always in mode FULL.                   *)
Press(b) ==
  /\ b \notin held
  /\ held' = held \cup {b}
  /\ \/ Start(<<Handler>>)
     \/ Start(<<Handler, SendPress(b), CheckGrab>>)
  /\ UNCHANGED <<focus, grabbed, sent, enabled, scene, history>>

Release(b) ==
  /\ b \in held
  /\ held' = held \ {b}
  /\ Start(<<SendRelease(b), CheckGrab>>)
  /\ UNCHANGED <<focus, grabbed, sent, enabled, scene, history>>

-----------------------------------------------------------------------------
(* Events from elsewhere.                                                  *)

(* handle_pointer_motion(), warp_cursor().                                 *)
Motion ==
  /\ under' \in alive \cup {NoNode}
  /\ Start(<<Position>>)
  /\ UNCHANGED <<ptrvars, alive, history>>

(* set_enable_focus(), called by tablet_t::handle_proximity().             *)
SetEnableFocus(e) ==
  /\ enabled' = IF e THEN enabled + 1 ELSE enabled - 1
  /\ enabled' \in 1 - MaxDisabled .. 1
  /\ Start(IF enabled' > 0 THEN <<Position>> ELSE <<EndGrab, SetFocus(NoNode)>>)
  /\ UNCHANGED <<focus, grabbed, sent, held, scene, history>>

(* Whoever owns the scene: the calls each change makes into pointer_t.     *)
(* Nodes are added, removed, enabled, disabled, moved: INPUT_STATE.        *)
SceneChange(A, ops) ==
  /\ alive' = A /\ under' \in A \cup {NoNode}
  /\ ops = <<Update>>

(* input_grab_t::grab_input(): the node is in the scene before the grab is *)
(* transferred, and the scene is updated last.                             *)
GrabInput(g, ops) ==
  /\ g \notin alive
  /\ alive' = alive \cup {g} /\ under' \in {under, g}
  /\ ops \in {<<Transfer(g), Update>>, <<Update>>}

(* input_grab_t::regrab_input(): only a keyboard refocus follows.          *)
RegrabInput(g, ops) ==
  /\ g \in alive /\ focus # g
  /\ ops = <<Transfer(g)>>
  /\ UNCHANGED scene

ChangeOps == {<<Update>>} \cup {<<Transfer(g)>> : g \in Grabs}
                          \cup {<<Transfer(g), Update>> : g \in Grabs}

Change(ops) ==
  \/ \E A \in SUBSET Nodes : SceneChange(A, ops)
  \/ \E g \in Grabs : GrabInput(g, ops) \/ RegrabInput(g, ops)

External ==
  /\ \E ops \in ChangeOps : Change(ops) /\ Start(ops)
  /\ UNCHANGED <<ptrvars, history>>

React ==
  /\ AtTop("handler") /\ reactions < MaxReactions
  /\ reactions' = reactions + 1
  /\ \E ops \in ChangeOps : Change(ops) /\ Run(ops)
  /\ UNCHANGED <<ptrvars, history>>

HandlerReturns ==
  /\ AtTop("handler")
  /\ Run(<<>>)
  /\ UNCHANGED <<ptrvars, scene, reactions, history>>

-----------------------------------------------------------------------------
Init ==
  /\ focus = NoNode /\ grabbed = NoNode /\ sent = NoButtons
  /\ enabled = 1 /\ held = {}
  /\ alive = Nodes \ Grabs /\ under = NoNode
  /\ todo = <<>> /\ reactions = 0
  /\ owed = [n \in Nodes |-> NoButtons] /\ inside = [n \in Nodes |-> 0]

Next ==
  \/ \E b \in Buttons : Press(b) \/ Release(b)
  \/ Motion \/ \E e \in BOOLEAN : SetEnableFocus(e)
  \/ External \/ React \/ HandlerReturns
  \/ OnRootNodeUpdated \/ GrabSurfaceNull \/ UpdateCursorPosition \/ SendMotion
  \/ UpdateCursorFocus \/ ForceRelease \/ SendLeave \/ UpdateCursorFocusEnd
  \/ TransferGrab \/ TransferGrabEnd
  \/ SendButtonPress \/ SendButtonRelease \/ CheckImplicitGrab

Spec == Init /\ [][Next]_vars

-----------------------------------------------------------------------------
(* A node that did not ask for raw input is never told of a release it was *)
(* not told the press of, and when it has lost the focus it knows of no    *)
(* pressed button: a button cannot get stuck in a client, whatever grabs,  *)
(* scene changes and focus changes happen while it is held.                *)
MatchedButtons ==
  \A n \in Nodes \ Raw :
    /\ \A b \in Buttons : owed[n][b] >= 0
    /\ Idle => owed[n] = (IF n = focus THEN sent ELSE NoButtons)

(* Enters and leaves alternate, and exactly the focused node is inside.    *)
EntersMatchLeaves ==
  Idle => \A n \in Nodes : inside[n] = (IF n = focus THEN 1 ELSE 0)

(* What a node was told adds up: buttons, enters and leaves.               *)
EventsPaired == MatchedButtons /\ EntersMatchLeaves

(* Between events the implicit grab of a client is on the focused node,    *)
(* that node is in the scene, and some button is held: no grab survives    *)
(* its reason.  (A plugin's grab may: it can be transferred while the      *)
(* pointer is disabled.)                                                   *)
GrabHasReason ==
  Idle /\ grabbed \in Nodes \ Grabs => grabbed = focus /\ held # {} /\ grabbed \in alive

(* Between events the focus is the node under the cursor, unless a button  *)
(* holds it elsewhere or a grab was transferred to a plugin without an     *)
(* update of the scene: no event goes to a node that is not there.         *)
FocusIsCurrent ==
  Idle /\ focus_enabled /\ grabbed = NoNode =>
    focus = under \/ (focus \in Grabs /\ focus \in alive)

(* Said in transfer_grab(): after the old focus has left, the grab is      *)
(* entered; it dereferences cursor_focus to do so.                         *)
GrabIsEntered ==
  AtTop("transferred") /\ Head(todo).node \in alive => focus # NoNode
=============================================================================

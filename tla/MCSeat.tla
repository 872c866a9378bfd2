-------------------------------- MODULE MCSeat --------------------------------
(***************************************************************************)
(* The parts of a seat that share no state, checked in one run: "part"     *)
(* says which of them moves, so that their states add up.  The keyboard    *)
(* focus has two parts: two views alone, and one view with a layer         *)
(* surface, a grab and lock screens.                                       *)
(***************************************************************************)
EXTENDS PointerFocus, TouchFocus, TabletTools, SeatKeyboards, InputMethodV1, InputMethodV2,
        Bindings, ShortcutsInhibit, SeatFocus, TLC

CONSTANTS
  t1, t2, t3, s1, s2,   \* text inputs and surfaces, of two clients
  key, super, button, b1, b2, b3, b4, b5, b6, b7, b8   \* of bindings

MCClientOf == [x \in {t1, t2, t3, s1, s2} |-> IF x \in {t1, t2, s1} THEN 1 ELSE 2]

Binding(source, code, mode, always, owner) ==
  [source |-> source, code |-> code, mode |-> mode, always |-> always, owner |-> owner]

MCBindings ==
  b1 :> Binding("key", key, "repeat", FALSE, Config) @@
  b2 :> Binding("key", super, "release", TRUE, "client") @@
  b3 :> Binding("button", button, "release", FALSE, Config) @@
  b4 :> Binding("button", button, "repeat", FALSE, "client") @@
  b5 :> Binding("modifier", super, "repeat", TRUE, Config) @@
  b6 :> Binding("gesture", None, "release", FALSE, "client") @@
  b7 :> Binding("hotspot", "edges", "normal", TRUE, "client") @@
  b8 :> Binding("hotspot", "edges", "repeat", FALSE, Config)

VARIABLE part

SeatInit ==
  /\ part \in {"pointer", "touch", "tablet", "keyboards", "input method v1", "input method v2",
               "commands", "hotspots", "inhibitors", "focus of views", "focus of layers"}
  /\ Init /\ TouchInit /\ ToolInit /\ KbdInit /\ V1Init /\ ImInit /\ BindInit /\ InhibitInit /\ SeatFocusInit
  /\ seat.output = CHOOSE o \in SeatOutputs : TRUE

(* Hotspots and other bindings are looked at apart.                        *)
CommandsOnly == \A b \in bound : ~IsSpot(b)
HotspotsOnly == \A b \in bound : IsSpot(b)

(* Bound: how often the repository stays disabled by what is forgotten.    *)
BoundedLeak == inhibit.enabled \in -1..2

OneFocusable ==
  /\ \A v \in SeatViews : ~seat.view[v].edge /\ ~seat.view[v].minimized
  /\ Cardinality({v \in SeatViews : seat.view[v].out # Nothing}) <= 1
TwoViewsOnly == seat.grab = Nothing /\ seat.locked = {} /\ \A b \in Bars : ~seat.bar[b].mapped

inputVars == <<vars, touchVars, toolVars, kbdVars, v1Vars, imVars>>
keyVars == <<bindVars, inhibitVars, seat>>

SeatNext ==
  /\ UNCHANGED part
  /\ \/ part = "pointer" /\ Next /\ UNCHANGED <<touchVars, toolVars, kbdVars, v1Vars, imVars, keyVars>>
     \/ part = "touch" /\ TouchNext /\ UNCHANGED <<vars, toolVars, kbdVars, v1Vars, imVars, keyVars>>
     \/ part = "tablet" /\ ToolNext /\ UNCHANGED <<vars, touchVars, kbdVars, v1Vars, imVars, keyVars>>
     \/ part = "keyboards" /\ KbdNext /\ UNCHANGED <<vars, touchVars, toolVars, v1Vars, imVars, keyVars>>
     \/ part = "input method v1" /\ V1Next /\ UNCHANGED <<vars, touchVars, toolVars, kbdVars, imVars, keyVars>>
     \/ part = "input method v2" /\ ImNext /\ UNCHANGED <<vars, touchVars, toolVars, kbdVars, v1Vars, keyVars>>
     \/ part = "commands" /\ BindNext /\ CommandsOnly' /\ UNCHANGED <<inputVars, pointerAt, inhibitVars, seat>>
     \/ part = "hotspots" /\ BindNext /\ HotspotsOnly' /\ UNCHANGED <<inputVars, inputDown, inhibitVars, seat>>
     \/ part = "inhibitors" /\ InhibitNext /\ BoundedLeak' /\ UNCHANGED <<inputVars, bindVars, seat>>
     \/ part = "focus of views" /\ SeatFocusNext /\ TwoViewsOnly' /\ UNCHANGED <<inputVars, bindVars, inhibitVars>>
     \/ part = "focus of layers" /\ SeatFocusNext /\ OneFocusable' /\ UNCHANGED <<inputVars, bindVars, inhibitVars>>

seatVars == <<part, inputVars, keyVars>>

SeatSpec == SeatInit /\ [][SeatNext]_seatVars

(* Between events nothing of the seat, neither the pointer, a finger, a    *)
(* tablet tool or its tip nor the text input that is served, is on a node  *)
(* that is gone, nor the pointer on one that it is not over, and a text    *)
(* input that waits for an input method is not focused.                    *)
FocusRight == FocusIsCurrent /\ TouchFocusAlive /\ ToolFocusAlive /\ ContextCurrent /\ PendingApart

(* What a client takes to be pressed, buttons, fingers and keys, is what   *)
(* the seat has pressed on it, and its enters match its leaves.            *)
PressesPaired == EventsPaired /\ TouchPaired /\ ClientKeysMatch

(* Bindings run as often as they should and no longer, and are given up    *)
(* only for the surface that has the focus.                                *)
BindingsRight == ModifierAlone /\ RepeatsWhileHeld /\ HotspotsRight /\ InhibitFollowsFocus
=============================================================================

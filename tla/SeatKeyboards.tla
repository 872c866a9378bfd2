---------------------------- MODULE SeatKeyboards -----------------------------
(***************************************************************************)
(* Keys, from the keyboards of a seat to the focused node                  *)
(* (src/src/core/seat/keyboard.cpp and seat.cpp): plugin bindings, the     *)
(* keyboard grab of an input method and changes of the focus come between  *)
(* the press of a key and its release.                                     *)
(*                                                                         *)
(* A keyboard that goes away releases its keys first (wlr_keyboard_finish).*)
(* Only input-method-v1 sets carried_out: its keys are in InputMethodV1.   *)
(***************************************************************************)
EXTENDS Naturals, Sequences

CONSTANTS
  Keyboards,    \* keyboards of the seat
  ImKeyboards,  \* those of them that are virtual keyboards of the input method
  Keys,         \* keys
  ModKeys,      \* those that are modifiers
  ClientNodes,  \* nodes of views
  PluginNodes,  \* grab nodes of plugins
  NoKeyboard, NoKey, NoFocus,
  MaxPressed    \* bound: how often one key is in pressed_keys

ASSUME KeyboardAssumption ==
  /\ ImKeyboards \subseteq Keyboards /\ ModKeys \subseteq Keys /\ MaxPressed \in Nat \ {0}
  /\ NoKeyboard \notin Keyboards /\ NoKey \notin Keys
  /\ NoFocus \notin ClientNodes \cup PluginNodes

VARIABLES
  keyboards,        \* seat_t::impl::keyboards
  current_keyboard,
  keysHeld,         \* per keyboard: keys that are down
  mod_binding_key,  \* per keyboard
  seatKeys,         \* pressed_keys, keyboard_focus, and what the focused client knows
  imSwallows,       \* input_method_relay::should_grab() of a keyboard of the user
  buttonsDown,      \* the pointer has buttons pressed
  fingersDown,      \* touch points
  meddled,          \* history, per keyboard: other input since mod_binding_key was set
  strayBinding      \* history: a modifier binding ran although there was

kbdVars == <<keyboards, current_keyboard, keysHeld, mod_binding_key, seatKeys, imSwallows,
             buttonsDown, fingersDown, meddled, strayBinding>>

FocusNodes == ClientNodes \cup PluginNodes \cup {NoFocus}
AllUp == [k \in Keys |-> 0]

(* set_keyboard_focus(): a client that is entered is sent pressed_keys     *)
(* (wlr_view_keyboard_interaction_t).                                      *)
FocusOn(s, n) ==
  IF n = s.focus THEN s
  ELSE [s EXCEPT !.focus = n, !.known = IF n \in ClientNodes THEN s.pressed ELSE AllUp]

\* Mutant of Deliver: every release is sent.
DeliverAll(s, key, pressed) ==
  IF pressed THEN [s EXCEPT !.pressed[key] = @ + 1,
                            !.known[key] = IF s.focus \in ClientNodes THEN @ + 1 ELSE 0]
  ELSE [s EXCEPT !.pressed[key] = IF @ > 0 THEN @ - 1 ELSE 0,
                 !.known[key] = IF s.focus \in ClientNodes THEN @ - 1 ELSE 0]

(* The end of on_key: a release of a key that was not sent is ignored.     *)
Deliver(s, key, pressed) ==
  CASE pressed -> [s EXCEPT !.pressed[key] = @ + 1,
                            !.known[key] = IF s.focus \in ClientNodes THEN @ + 1 ELSE 0]
    [] ~pressed /\ s.pressed[key] > 0 ->
         [s EXCEPT !.pressed[key] = @ - 1,
                   !.known[key] = IF s.focus \in ClientNodes THEN @ - 1 ELSE 0]
    [] OTHER -> s

BreakModBindings ==
  /\ mod_binding_key' = [kb \in Keyboards |-> NoKey]
  /\ meddled' = [kb \in Keyboards |-> TRUE]

Present == {keyboards[i] : i \in DOMAIN keyboards}
Users == Present \ ImKeyboards

\* Mutant of ModifiersOnly: fingers on a touchscreen are not looked at.
ModifiersOnlyPointer(keys) == ~buttonsDown /\ keys \subseteq ModKeys

ModifiersOnly(keys) == ~buttonsDown /\ ~fingersDown /\ keys \subseteq ModKeys

-----------------------------------------------------------------------------
(* on_key.  "full" is the mode that the input signal's handlers left (else *)
(* NO_CLIENT); for a press, also that no binding, and no switch of the VT, *)
(* takes the key.  "n" is the focus that the callbacks of bindings leave.  *)
KeyPressed(kb, key, full, n) ==
  /\ kb \in Users /\ key \notin keysHeld[kb] /\ seatKeys.pressed[key] < MaxPressed
  /\ keysHeld' = [keysHeld EXCEPT ![kb] = @ \cup {key}]
  /\ current_keyboard' = kb
  /\ mod_binding_key' = [mod_binding_key EXCEPT ![kb] =
                            IF key \in ModKeys /\ ModifiersOnly(keysHeld'[kb]) THEN key ELSE NoKey]
  /\ meddled' = [meddled EXCEPT ![kb] = buttonsDown \/ fingersDown \/ keysHeld'[kb] \ ModKeys # {}]
  /\ LET s == FocusOn(seatKeys, n)
     IN seatKeys' = IF ~full \/ imSwallows THEN s ELSE Deliver(s, key, TRUE)
  /\ UNCHANGED <<keyboards, imSwallows, buttonsDown, fingersDown, strayBinding>>

(* The modifier binding runs unless the key was held for too long ("late").*)
KeyReleased(kb, key, full, late, n) ==
  /\ kb \in Users /\ key \in keysHeld[kb]
  /\ keysHeld' = [keysHeld EXCEPT ![kb] = @ \ {key}]
  /\ current_keyboard' = kb
  /\ LET runs == mod_binding_key[kb] # NoKey /\ ~late
         s == IF runs THEN FocusOn(seatKeys, n) ELSE seatKeys
     IN /\ strayBinding' = (strayBinding \/ (runs /\ meddled[kb]))
        /\ seatKeys' = IF ~full \/ imSwallows THEN s ELSE Deliver(s, key, FALSE)
  /\ mod_binding_key' = [mod_binding_key EXCEPT ![kb] = NoKey]
  /\ UNCHANGED <<keyboards, imSwallows, buttonsDown, fingersDown, meddled>>

(* A key that the input method sends: no bindings, and not sent back to it.*)
ImKey(kb, key, full) ==
  /\ kb \in Present \cap ImKeyboards
  /\ key \in keysHeld[kb] \/ seatKeys.pressed[key] < MaxPressed
  /\ keysHeld' = [keysHeld EXCEPT ![kb] = IF key \in @ THEN @ \ {key} ELSE @ \cup {key}]
  /\ seatKeys' = IF full THEN Deliver(seatKeys, key, key \notin keysHeld[kb]) ELSE seatKeys
  /\ UNCHANGED <<keyboards, current_keyboard, mod_binding_key, imSwallows, buttonsDown,
                 fingersDown, meddled, strayBinding>>

(* A refocus, a plugin's grab, or the end of one.                          *)
KeyboardFocusChanges ==
  /\ \E n \in FocusNodes : seatKeys' = FocusOn(seatKeys, n)
  /\ UNCHANGED <<keyboards, current_keyboard, keysHeld, mod_binding_key, imSwallows, buttonsDown,
                 fingersDown, meddled, strayBinding>>

ImGrabChanges ==
  /\ imSwallows' = ~imSwallows
  /\ UNCHANGED <<keyboards, current_keyboard, keysHeld, mod_binding_key, seatKeys, buttonsDown,
                 fingersDown, meddled, strayBinding>>

(* Buttons and scrolling, touch-downs, tips of tablet tools.  The touch    *)
(* and the pointer count before they break the bindings.                   *)
OtherInput ==
  /\ \/ buttonsDown' \in BOOLEAN /\ UNCHANGED fingersDown
     \/ fingersDown' = TRUE /\ UNCHANGED buttonsDown
  /\ BreakModBindings
  /\ UNCHANGED <<keyboards, current_keyboard, keysHeld, seatKeys, imSwallows, strayBinding>>

FingersLifted ==
  /\ fingersDown /\ fingersDown' = FALSE
  /\ UNCHANGED <<keyboards, current_keyboard, keysHeld, mod_binding_key, seatKeys, imSwallows,
                 buttonsDown, meddled, strayBinding>>

-----------------------------------------------------------------------------
(* on_new_device and on_remove_device, for keyboards.                      *)
NewKeyboard(kb) ==
  /\ kb \notin Present
  /\ keyboards' = Append(keyboards, kb)
  /\ current_keyboard' = IF current_keyboard = NoKeyboard THEN kb ELSE current_keyboard
  /\ mod_binding_key' = [mod_binding_key EXCEPT ![kb] = NoKey]
  /\ meddled' = [meddled EXCEPT ![kb] = FALSE]
  /\ UNCHANGED <<keysHeld, seatKeys, imSwallows, buttonsDown, fingersDown, strayBinding>>

(* Also a keyboard that is not the current one leaves the seat without.    *)
RemoveKeyboard(kb) ==
  /\ kb \in Present /\ keysHeld[kb] = {}
  /\ keyboards' = SelectSeq(keyboards, LAMBDA x : x # kb)
  /\ current_keyboard' = IF current_keyboard = kb /\ keyboards' # <<>> THEN Head(keyboards')
                         ELSE NoKeyboard
  /\ UNCHANGED <<keysHeld, mod_binding_key, seatKeys, imSwallows, buttonsDown, fingersDown, meddled,
                 strayBinding>>

KbdInit ==
  /\ keyboards = <<>> /\ current_keyboard = NoKeyboard
  /\ keysHeld = [kb \in Keyboards |-> {}] /\ mod_binding_key = [kb \in Keyboards |-> NoKey]
  /\ seatKeys = [pressed |-> AllUp, focus |-> NoFocus, known |-> AllUp]
  /\ imSwallows = FALSE /\ buttonsDown = FALSE /\ fingersDown = FALSE
  /\ meddled = [kb \in Keyboards |-> FALSE] /\ strayBinding = FALSE

KbdNext ==
  \/ \E kb \in Keyboards, key \in Keys, full \in BOOLEAN :
       \/ ImKey(kb, key, full)
       \/ \E n \in FocusNodes : \/ KeyPressed(kb, key, full, n)
                           \/ \E late \in BOOLEAN : KeyReleased(kb, key, full, late, n)
  \/ \E kb \in Keyboards : NewKeyboard(kb) \/ RemoveKeyboard(kb)
  \/ KeyboardFocusChanges \/ ImGrabChanges \/ OtherInput \/ FingersLifted

KbdSpec == KbdInit /\ [][KbdNext]_kbdVars

(* The focused client has the same keys down as the seat, and never gets a *)
(* release without a press: whichever presses and releases bindings and    *)
(* the input method take, and wherever the focus goes in between.          *)
ClientKeysMatch ==
  seatKeys.known = IF seatKeys.focus \in ClientNodes THEN seatKeys.pressed ELSE AllUp

(* A modifier binding runs only for modifiers that were pressed and        *)
(* released alone: no button, finger, tablet or other key of the keyboard  *)
(* came in between.                                                        *)
ModifierAlone == ~strayBinding
=============================================================================

---------------------------- MODULE InputMethodV1 -----------------------------
(***************************************************************************)
(* The input-method-v1 plugin (src/plugins/protocols/input-method-v1.cpp   *)
(* and text-input-v1-v3.hpp): one input method serves, in a context, the   *)
(* text input that is enabled on the focused surface, and takes the keys   *)
(* of the keyboard if it asks for them, giving back late those that it     *)
(* does not want.                                                          *)
(*                                                                         *)
(* The input method destroys only contexts that are no longer active, and  *)
(* keeps the release of a key exactly when it kept the press.  There is    *)
(* one keyboard, and no plugin takes its keys.                             *)
(***************************************************************************)
EXTENDS Naturals, Sequences

CONSTANTS
  InputsV1, InputsV3, \* text inputs of either protocol
  V1Surfaces,         \* surfaces that get the keyboard focus
  V1ClientOf,         \* the client of a text input or a surface
  V1Keys,
  NoText, NoTarget1,  \* no text input, no surface
  MaxUnanswered       \* bound: keys sent to the input method, not answered

Inputs == InputsV1 \cup InputsV3

ASSUME InputMethodV1Assumption ==
  /\ NoText \notin Inputs /\ NoTarget1 \notin V1Surfaces /\ MaxUnanswered \in Nat \ {0}
  /\ Inputs \cup V1Surfaces \subseteq DOMAIN V1ClientOf

VARIABLES
  inputs,             \* text inputs that exist
  current_focus,      \* per text input
  current_enabled,    \* text inputs (v3) that their client has enabled
  current_im,         \* an input method is bound
  im_context,         \* text input of current_im_context, if there is one
  active_grab,        \* the context has grabbed the keyboard
  keys_im, keys_client, \* currently_pressed_keys_im, currently_pressed_keys_client
  unanswered,         \* keys the input method got and has not answered
  kept,               \* keys whose press the input method kept
  last_focus_surface, \* the surface with the keyboard focus
  keysDown,           \* keys that are down, which are seat_t::impl::pressed_keys
  keysKnown           \* keys that the focused client takes to be down

v1Vars == <<inputs, current_focus, current_enabled, current_im, im_context, active_grab, keys_im,
            keys_client, unanswered, kept, last_focus_surface, keysDown, keysKnown>>
v1Inputs == <<inputs, current_focus, current_enabled>>
v1Grab   == <<active_grab, keys_im, keys_client, unanswered, kept>>

KeyPress(key) == [key |-> key, down |-> TRUE]
KeyRelease(key) == [key |-> key, down |-> FALSE]
After(keys, e) == IF e.down THEN keys \cup {e.key} ELSE keys \ {e.key}

-----------------------------------------------------------------------------
(* deactivate() and the end of the context.  Only if the input method is   *)
(* gone are the keys released that it pressed at the client; a client that *)
(* is no longer focused has no keys of ours, "known" are the focused one's.*)
NoGrab == /\ active_grab' = FALSE /\ keys_im' = {} /\ keys_client' = {}
          /\ unanswered' = <<>> /\ kept' = {}

ResetContext(known, killed) ==
  /\ im_context' = NoText /\ NoGrab
  /\ keysKnown' = IF im_context # NoText /\ killed THEN known \ (keys_client \ keysDown) ELSE known

(* im_handle_text_input_enable().                                          *)
EnableText(ti, bound, context) ==
  IF bound /\ context = NoText /\ last_focus_surface # NoTarget1
       /\ current_focus[ti] = last_focus_surface
  THEN ti ELSE context

(* im_handle_text_input_disable().                                         *)
DisableText(ti) ==
  IF im_context = ti THEN ResetContext(keysKnown, FALSE)
  ELSE UNCHANGED <<im_context, v1Grab, keysKnown>>

(* set_focus_surface() of one text input.                                  *)
FocusOfInput(ti, surface) ==
  IF surface # NoTarget1 /\ V1ClientOf[ti] = V1ClientOf[surface] THEN surface ELSE NoTarget1

(* on_keyboard_focus_changed: the seat has sent the leave and the enter,   *)
(* with the keys that are down, before it emits the signal.                *)
TextFocusChanges ==
  \E surface \in (V1Surfaces \cup {NoTarget1}) \ {last_focus_surface} :
    /\ last_focus_surface' = surface
    /\ ResetContext(IF surface = NoTarget1 THEN {} ELSE keysDown, FALSE)
    /\ current_focus' = [ti \in Inputs |-> IF ti \in inputs THEN FocusOfInput(ti, surface) ELSE NoTarget1]
    /\ UNCHANGED <<inputs, current_enabled, current_im, keysDown>>

-----------------------------------------------------------------------------
(* A text input of v3 learns of the focus when it is created, one of v1    *)
(* only when the focus changes.                                            *)
CreateInput(ti) ==
  /\ ti \notin inputs /\ inputs' = inputs \cup {ti}
  /\ current_focus' = [current_focus EXCEPT ![ti] = IF ti \in InputsV3
                                                     THEN FocusOfInput(ti, last_focus_surface)
                                                     ELSE NoTarget1]
  /\ UNCHANGED <<current_enabled, current_im, im_context, v1Grab, last_focus_surface, keysDown, keysKnown>>

DestroyInput(ti) ==
  /\ ti \in inputs /\ inputs' = inputs \ {ti}
  /\ current_focus' = [current_focus EXCEPT ![ti] = NoTarget1]
  /\ current_enabled' = current_enabled \ {ti}
  /\ DisableText(ti)
  /\ UNCHANGED <<current_im, last_focus_surface, keysDown>>

(* handle_text_input_v1_activate(), which ends the context of any other.   *)
ActivateV1(ti) ==
  /\ ti \in inputs \cap InputsV1 /\ current_focus[ti] # NoTarget1
  /\ im_context' = EnableText(ti, current_im, NoText)
  /\ NoGrab
  /\ UNCHANGED <<v1Inputs, current_im, last_focus_surface, keysDown, keysKnown>>

EnableV3(ti) ==
  /\ ti \in (inputs \cap InputsV3) \ current_enabled
  /\ current_enabled' = current_enabled \cup {ti}
  /\ im_context' = EnableText(ti, current_im, im_context)
  /\ UNCHANGED <<inputs, current_focus, current_im, v1Grab, last_focus_surface, keysDown, keysKnown>>

DisableInput(ti) ==
  /\ ti \in inputs /\ (ti \in InputsV3 => ti \in current_enabled)
  /\ current_enabled' = current_enabled \ {ti}
  /\ DisableText(ti)
  /\ UNCHANGED <<inputs, current_focus, current_im, last_focus_surface, keysDown>>

-----------------------------------------------------------------------------
(* bind_input_method_manager(): the first enabled text input that is       *)
(* focused gets a context, "Text input activated while old context is      *)
(* still around?" the others.                                              *)
BindInputMethod ==
  /\ ~current_im /\ current_im' = TRUE
  /\ LET served == {ti \in current_enabled : EnableText(ti, TRUE, NoText) = ti}
     IN im_context' \in IF served = {} THEN {NoText} ELSE served
  /\ UNCHANGED <<v1Inputs, v1Grab, last_focus_surface, keysDown, keysKnown>>

InputMethodDies ==
  /\ current_im /\ current_im' = FALSE
  /\ ResetContext(keysKnown, TRUE)
  /\ UNCHANGED <<v1Inputs, last_focus_surface, keysDown>>

GrabKeyboard ==
  /\ im_context # NoText /\ ~active_grab /\ active_grab' = TRUE
  /\ UNCHANGED <<v1Inputs, current_im, im_context, keys_im, keys_client, unanswered, kept,
                 last_focus_surface, keysDown, keysKnown>>

(* The seat keeps pressed_keys, and then asks on_keyboard_key.             *)
KeyOfKeyboard(key) ==
  LET e == IF key \in keysDown THEN KeyRelease(key) ELSE KeyPress(key) IN
  /\ keysDown' = After(keysDown, e)
  /\ IF active_grab
     THEN /\ Len(unanswered) < MaxUnanswered
          /\ unanswered' = Append(unanswered, e) /\ keys_im' = After(keys_im, e)
          /\ UNCHANGED keysKnown
     ELSE /\ keysKnown' = IF last_focus_surface = NoTarget1 THEN {} ELSE After(keysKnown, e)
          /\ UNCHANGED <<unanswered, keys_im>>
  /\ UNCHANGED <<v1Inputs, current_im, im_context, active_grab, keys_client, kept, last_focus_surface>>

(* The input method keeps a key, or sends it on: handle_im_key().          *)
ImAnswers ==
  /\ unanswered # <<>> /\ unanswered' = Tail(unanswered)
  /\ LET e == Head(unanswered) IN
     \/ /\ e.down \/ e.key \in kept
        /\ kept' = After(kept, e) /\ UNCHANGED <<keys_client, keysKnown>>
     \/ /\ e.down \/ e.key \notin kept
        /\ keys_client' = After(keys_client, e) /\ keysKnown' = After(keysKnown, e)
        /\ UNCHANGED kept
  /\ UNCHANGED <<v1Inputs, current_im, im_context, active_grab, keys_im, last_focus_surface, keysDown>>

V1Init ==
  /\ inputs = {} /\ current_focus = [ti \in Inputs |-> NoTarget1] /\ current_enabled = {}
  /\ current_im = FALSE /\ im_context = NoText /\ active_grab = FALSE
  /\ keys_im = {} /\ keys_client = {} /\ unanswered = <<>> /\ kept = {}
  /\ last_focus_surface = NoTarget1 /\ keysDown = {} /\ keysKnown = {}

V1Next ==
  \/ TextFocusChanges \/ BindInputMethod \/ InputMethodDies \/ GrabKeyboard \/ ImAnswers
  \/ \E ti \in Inputs : \/ CreateInput(ti) \/ DestroyInput(ti) \/ ActivateV1(ti)
                        \/ EnableV3(ti) \/ DisableInput(ti)
  \/ \E key \in V1Keys : KeyOfKeyboard(key)

V1Spec == V1Init /\ [][V1Next]_v1Vars

(* The context belongs to a text input that exists and is focused, on the  *)
(* surface with the keyboard focus, and only it has keys of the user:      *)
(* across input methods, text inputs and focus changes in any order.       *)
ContextCurrent ==
  /\ im_context # NoText =>
       /\ current_im /\ im_context \in inputs
       /\ last_focus_surface # NoTarget1 /\ current_focus[im_context] = last_focus_surface
  /\ active_grab \/ unanswered # <<>> => im_context # NoText
  /\ \A ti \in inputs : current_focus[ti] \in {NoTarget1, last_focus_surface}

(* deactivate(): "For the other keys (where we potentially swallowed the   *)
(* release event, but the IM did not respond yet with a release), release  *)
(* those keys."  No context is left that could, and no key is down, but    *)
(* the client has none left down either.                                   *)
NoKeyStuck == im_context = NoText /\ keysDown = {} => keysKnown = {}
=============================================================================

---------------------------- MODULE InputMethodV2 -----------------------------
(***************************************************************************)
(* input_method_relay (src/src/core/seat/input-method-relay.cpp): between  *)
(* the text inputs of clients (text-input-v3) and the input method         *)
(* (input-method-v2), which may come and go while text inputs are focused, *)
(* and which answers "done" events late.                                   *)
(*                                                                         *)
(* A text input is enabled and disabled by its client, which learns of     *)
(* enter and leave later, so that both can come at any time; a client has  *)
(* one text input enabled at a time.  An input method answers a done event *)
(* while that left it active.                                              *)
(***************************************************************************)
EXTENDS Naturals, Sequences

CONSTANTS
  TextInputs,    \* zwp_text_input_v3 objects
  InputSurfaces, \* surfaces that get the keyboard focus
  ClientOf,      \* the client of a text input or a surface
  NoInput, NoSurface,
  MaxDones       \* bound: done events of one input method

ASSUME InputMethodAssumption ==
  /\ NoInput \notin TextInputs /\ NoSurface \notin InputSurfaces /\ MaxDones \in Nat
  /\ TextInputs \cup InputSurfaces \subseteq DOMAIN ClientOf

VARIABLES
  text_inputs,             \* the vector of those that exist
  focused_surface,         \* per text input (wlroots): the surface it was sent enter for
  pending_focused_surface, \* per text input
  inputEnabled,            \* text inputs with current_enabled
  input_method,            \* an input method is connected
  next_done_serial, last_done_serial,
  focusSurface,            \* surface of the view with the keyboard focus
  activeFor,               \* per done event of this input method: text input it was activated for
  acknowledged,            \* newest done event that the input method answered
  staleCommit              \* history: a commit that did not acknowledge the newest done passed

imVars == <<text_inputs, focused_surface, pending_focused_surface, inputEnabled, input_method,
            next_done_serial, last_done_serial, focusSurface, activeFor, acknowledged,
            staleCommit>>

Existing == {text_inputs[i] : i \in DOMAIN text_inputs}

FirstOf(P(_)) ==
  LET found == SelectSeq(text_inputs, P) IN IF found = <<>> THEN NoInput ELSE Head(found)
FocusedInput(focus) == FirstOf(LAMBDA ti : focus[ti] # NoSurface)
FocusableInput == FirstOf(LAMBDA ti : pending_focused_surface[ti] # NoSurface)

\* Mutant of Pending: the surface is never cleared.
PendingKept(ti, surface) ==
  IF surface = NoSurface THEN pending_focused_surface
  ELSE [pending_focused_surface EXCEPT ![ti] = surface]

(* set_pending_focused_surface().                                          *)
Pending(ti, surface) == [pending_focused_surface EXCEPT ![ti] = surface]

(* send_im_state() and send_im_done(): "dones" is activeFor, to which one  *)
(* done event is added.                                                    *)
DoneFor(dones, ti) == Append(dones, ti)

(* disable_text_input(): nothing unless ti is the first focused one.       *)
Disabled(dones, focus, ti) ==
  IF input_method /\ FocusedInput(focus) = ti THEN DoneFor(dones, NoInput) ELSE dones

Dones(dones) ==
  /\ activeFor' = dones
  /\ next_done_serial' = Len(dones)
  /\ last_done_serial' = IF Len(dones) = 0 THEN 0 ELSE Len(dones) - 1

-----------------------------------------------------------------------------
(* set_focus(), one text input after the other.                            *)
FocusOne(s, ti, surface) ==
  LET mine == surface # NoSurface /\ ClientOf[ti] = ClientOf[surface]
      away == s.focus[ti] \notin {NoSurface, surface}
      left == IF away THEN [s EXCEPT !.dones = Disabled(s.dones, s.focus, ti), !.focus[ti] = NoSurface]
              ELSE s
      kept == IF left.pending[ti] # surface THEN [left EXCEPT !.pending[ti] = NoSurface] ELSE left
  IN IF s.pending[ti] = NoSurface /\ s.focus[ti] # NoSurface /\ ~away THEN s
     ELSE CASE mine /\ input_method -> [kept EXCEPT !.focus[ti] = surface]
            [] mine /\ ~input_method -> [kept EXCEPT !.pending[ti] = surface]
            [] OTHER -> kept

SetTextFocus(surface) ==
  LET step[i \in 0..Len(text_inputs)] ==
        IF i = 0 THEN [focus |-> focused_surface, pending |-> pending_focused_surface, dones |-> activeFor]
        ELSE FocusOne(step[i - 1], text_inputs[i], surface)
  IN step[Len(text_inputs)]

(* keyboard_focus_changed: the signal comes only when the node changes.    *)
InputFocusChanges ==
  \E surface \in (InputSurfaces \cup {NoSurface}) \ {focusSurface} :
    LET s == SetTextFocus(surface) IN
    /\ Len(s.dones) <= MaxDones
    /\ focusSurface' = surface
    /\ focused_surface' = s.focus /\ pending_focused_surface' = s.pending /\ Dones(s.dones)
    /\ UNCHANGED <<text_inputs, inputEnabled, input_method, acknowledged, staleCommit>>

-----------------------------------------------------------------------------
(* A new text input of the focused client is entered at once, whether or   *)
(* not there is an input method.                                           *)
TextInputNew(ti) ==
  /\ ti \notin Existing
  /\ text_inputs' = Append(text_inputs, ti)
  /\ focused_surface' =
       [focused_surface EXCEPT ![ti] = IF focusSurface # NoSurface /\ ClientOf[focusSurface] = ClientOf[ti]
                                        THEN focusSurface ELSE NoSurface]
  /\ UNCHANGED <<pending_focused_surface, inputEnabled, input_method, next_done_serial, last_done_serial,
                 focusSurface, activeFor, acknowledged, staleCommit>>

TextInputEnable(ti) ==
  /\ ti \in Existing \ inputEnabled
  /\ \A other \in inputEnabled : ClientOf[other] # ClientOf[ti]
  /\ inputEnabled' = inputEnabled \cup {ti}
  /\ IF input_method
     THEN Len(activeFor) < MaxDones /\ Dones(DoneFor(activeFor, ti))
     ELSE UNCHANGED <<activeFor, next_done_serial, last_done_serial>>
  /\ UNCHANGED <<text_inputs, focused_surface, pending_focused_surface, input_method, focusSurface,
                 acknowledged, staleCommit>>

(* A commit of state by a text input: send_im_state(), still active or not.*)
TextInputCommit(ti) ==
  /\ ti \in inputEnabled /\ input_method /\ Len(activeFor) < MaxDones
  /\ Dones(DoneFor(activeFor, IF activeFor = <<>> THEN NoInput ELSE activeFor[Len(activeFor)]))
  /\ UNCHANGED <<text_inputs, focused_surface, pending_focused_surface, inputEnabled, input_method,
                 focusSurface, acknowledged, staleCommit>>

TextInputDisable(ti) ==
  /\ ti \in inputEnabled
  /\ inputEnabled' = inputEnabled \ {ti}
  /\ Len(activeFor) < MaxDones /\ Dones(Disabled(activeFor, focused_surface, ti))
  /\ UNCHANGED <<text_inputs, focused_surface, pending_focused_surface, input_method, focusSurface,
                 acknowledged, staleCommit>>

TextInputDestroy(ti) ==
  /\ ti \in Existing /\ Len(activeFor) < MaxDones
  /\ Dones(IF ti \in inputEnabled THEN Disabled(activeFor, focused_surface, ti) ELSE activeFor)
  /\ inputEnabled' = inputEnabled \ {ti}
  /\ \E i \in DOMAIN text_inputs :
       /\ text_inputs[i] = ti
       /\ text_inputs' = SubSeq(text_inputs, 1, i - 1) \o SubSeq(text_inputs, i + 1, Len(text_inputs))
  /\ focused_surface' = [focused_surface EXCEPT ![ti] = NoSurface]
  /\ pending_focused_surface' = Pending(ti, NoSurface)
  /\ UNCHANGED <<input_method, focusSurface, acknowledged, staleCommit>>

-----------------------------------------------------------------------------
(* The first text input that waits is entered; others that wait are not.   *)
InputMethodNew ==
  /\ ~input_method /\ input_method' = TRUE
  /\ Dones(<<>>) /\ acknowledged' = 0
  /\ LET ti == FocusableInput
     IN IF ti = NoInput THEN UNCHANGED <<focused_surface, pending_focused_surface>>
        ELSE /\ focused_surface' = [focused_surface EXCEPT ![ti] = pending_focused_surface[ti]]
             /\ pending_focused_surface' = Pending(ti, NoSurface)
  /\ UNCHANGED <<text_inputs, inputEnabled, focusSurface, staleCommit>>

InputMethodDestroy ==
  /\ input_method /\ input_method' = FALSE
  /\ LET ti == FocusedInput(focused_surface)
     IN IF ti = NoInput THEN UNCHANGED <<focused_surface, pending_focused_surface>>
        ELSE /\ pending_focused_surface' = Pending(ti, focused_surface[ti])
             /\ focused_surface' = [focused_surface EXCEPT ![ti] = NoSurface]
  /\ activeFor' = <<>> /\ acknowledged' = 0
  /\ UNCHANGED <<text_inputs, inputEnabled, next_done_serial, last_done_serial, focusSurface, staleCommit>>

(* on_input_method_commit: the input method acknowledges the newest done   *)
(* event that it has seen.                                                 *)
InputMethodCommit ==
  \E serial \in acknowledged..Len(activeFor) :
    /\ input_method /\ serial > 0 /\ activeFor[serial] # NoInput
    /\ acknowledged' = serial
    /\ LET passes == serial >= last_done_serial /\ FocusedInput(focused_surface) # NoInput
       IN staleCommit' = (staleCommit \/ (passes /\ serial # Len(activeFor)))
    /\ UNCHANGED <<text_inputs, focused_surface, pending_focused_surface, inputEnabled, input_method,
                   next_done_serial, last_done_serial, focusSurface, activeFor>>

ImInit ==
  /\ text_inputs = <<>> /\ inputEnabled = {} /\ input_method = FALSE
  /\ focused_surface = [ti \in TextInputs |-> NoSurface]
  /\ pending_focused_surface = [ti \in TextInputs |-> NoSurface]
  /\ next_done_serial = 0 /\ last_done_serial = 0 /\ focusSurface = NoSurface
  /\ activeFor = <<>> /\ acknowledged = 0 /\ staleCommit = FALSE

ImNext ==
  \/ InputFocusChanges \/ InputMethodNew \/ InputMethodDestroy \/ InputMethodCommit
  \/ \E ti \in TextInputs : \/ TextInputNew(ti) \/ TextInputEnable(ti) \/ TextInputCommit(ti)
                            \/ TextInputDisable(ti) \/ TextInputDestroy(ti)

ImSpec == ImInit /\ [][ImNext]_imVars

(* The two assertions of set_focus(): a text input that waits for an input *)
(* method is not focused, across input methods, focus changes and text     *)
(* inputs that come and go in any order; and neither surface is stale.     *)
PendingApart ==
  \A ti \in TextInputs :
    /\ focused_surface[ti] = NoSurface \/ pending_focused_surface[ti] = NoSurface
    /\ {focused_surface[ti], pending_focused_surface[ti]} \subseteq {NoSurface, focusSurface}

(* "we simply ignore commits which do not acknowledge the newest done      *)
(* event from the compositor" (on_input_method_commit).                    *)
CommitsAcknowledge == ~staleCommit
=============================================================================

------------------------------- MODULE Bindings -------------------------------
(***************************************************************************)
(* Bindings of commands: the bindings repository and its hotspots          *)
(* (src/src/core/seat/), and the plugin command                            *)
(* (src/plugins/single_plugins/command.cpp) whose bindings repeat while a  *)
(* key or a button is held, or wait for its release.                       *)
(*                                                                         *)
(* A binding is described by [source, code, mode, always, owner]: source   *)
(* is "key", "button", "modifier", "gesture" or "hotspot", the code a key  *)
(* or button (for a hotspot, its edges), the owner the configuration or a  *)
(* client of the IPC.  What a command does is not modelled.                *)
(***************************************************************************)
EXTENDS Naturals

CONSTANTS
  AllBindings,     \* the bindings there may be
  Descr,           \* per binding, what it is: a record as above
  InputKeys, InputButtons,
  LoneModifiers,   \* the keys that are modifiers
  IpcClients, Config,
  Corners,         \* the outputs, each with the hotspots in a corner
  None

ASSUME BindingsAssumption ==
  /\ \A b \in AllBindings : Descr[b].mode \in {"normal", "repeat", "release"}
                            /\ Descr[b].owner \in IpcClients \cup {Config}
  /\ None \notin InputKeys \cup InputButtons \cup Corners /\ LoneModifiers \subseteq InputKeys
  /\ InputKeys \cap InputButtons = {}

VARIABLES
  bound,       \* the activators of the repository
  repeat,      \* wayfire_command::repeat, its timers and connections
  inputDown,   \* keys and buttons that are down
  repoEnabled, \* the repository's "enabled" is positive
  canActivate, \* can_activate_plugin() of the active output, for the plugin's grab
  spots,       \* per binding, its hotspot_instance_t: [exists, armed, timer]
  recreate,    \* idle_recreate_hotspots is scheduled
  pointerAt,   \* the output in whose corner the last motion was, or None
  endless,     \* history: a repeat or release was begun by what sends no such release
  visits       \* history, per binding: how often its hotspot fired in this visit

bindVars == <<bound, repeat, inputDown, repoEnabled, canActivate, spots, recreate, pointerAt,
              endless, visits>>

IsSpot(b) == Descr[b].source = "hotspot"

Spots == {b \in AllBindings : IsSpot(b)}

Unarmed == [key |-> None, button |-> None, timer |-> "none", hears |-> {}]
NoSpot == [exists |-> FALSE, armed |-> FALSE, timer |-> FALSE]
NewSpot == [exists |-> TRUE, armed |-> TRUE, timer |-> FALSE]

-----------------------------------------------------------------------------
RepeatListeners == {"on_key_event", "on_button_event"}

(* on_binding(), once the binding is not refused: a key is remembered for  *)
(* a key's source, anything else as a button.                              *)
Begun(r, b, source) ==
  CASE Descr[b].mode = "release" /\ source \in {"key", "modifier"} ->
         [r EXCEPT !.key = Descr[b].code, !.hears = @ \cup {"on_key_event_release"}]
    [] Descr[b].mode = "release" /\ source \notin {"key", "modifier"} ->
         [r EXCEPT !.button = IF source = "gesture" THEN None ELSE Descr[b].code,
                   !.hears = @ \cup {"on_button_event_release"}]
    [] Descr[b].mode = "repeat" /\ source # "gesture" ->
         [r EXCEPT !.key = IF source = "key" THEN Descr[b].code ELSE @,
                   !.button = IF source = "key" THEN @ ELSE Descr[b].code,
                   !.timer = "delay", !.hears = @ \cup RepeatListeners]
    [] OTHER -> r

\* Mutant of OnBinding: bindings are accepted while one repeats.
OnBindingMore(r, b, source) == IF canActivate \/ Descr[b].always THEN Begun(r, b, source) ELSE r

OnBinding(r, b, source) ==
  IF r.key = None /\ r.button = None /\ (canActivate \/ Descr[b].always)
  THEN Begun(r, b, source) ELSE r

(* What was begun waits for a release that does not come, or has come.     *)
Endless(r, b, source) ==
  /\ OnBinding(r, b, source) # r
  /\ \/ source \in {"gesture", "hotspot"} \/ Descr[b].source = "modifier"
     \/ source = "modifier" /\ Descr[b].mode = "repeat"

(* The callbacks of an event that matches the bindings "all": the first    *)
(* one that is remembered has the others refused, and which comes first    *)
(* depends on when they were added.                                        *)
Handle(r, all, source) ==
  LET begun == {b \in all : repoEnabled /\ OnBinding(r, b, source) # r}
  IN  \/ begun = {} /\ repeat' = r /\ UNCHANGED endless
      \/ \E b \in begun : /\ repeat' = OnBinding(r, b, source)
                          /\ endless' = (endless \/ Endless(r, b, source))

\* Mutant of ResetRepeat: the timer goes on.
ResetRepeatTimer(r) == [r EXCEPT !.key = None, !.button = None, !.hears = @ \ RepeatListeners]

ResetRepeat(r) ==
  [r EXCEPT !.timer = "none", !.key = None, !.button = None, !.hears = @ \ RepeatListeners]

(* The listeners of a release.  That of a release binding was connected    *)
(* first, and forgets what was pressed.                                    *)
Released(r, pressed, onRelease, onRepeat, code) ==
  CASE pressed = code /\ onRelease \in r.hears ->
         [r EXCEPT !.key = None, !.button = None, !.hears = @ \ {onRelease}]
    [] pressed = code /\ onRelease \notin r.hears /\ onRepeat \in r.hears -> ResetRepeat(r)
    [] OTHER -> r

ReleaseHeard(code) ==
  IF code \in InputKeys
  THEN Released(repeat, repeat.key, "on_key_event_release", "on_key_event", code)
  ELSE Released(repeat, repeat.button, "on_button_event_release", "on_button_event", code)

-----------------------------------------------------------------------------
(* has_match()                                                             *)
Matching(sources, code) == {b \in bound : Descr[b].source \in sources /\ Descr[b].code = code}

(* handle_key(), handle_button(): a modifier that is pressed alone is a    *)
(* modifier binding from then on (mod_binding_key).                        *)
InputPressed(code) ==
  /\ code \notin inputDown
  /\ inputDown' = inputDown \cup {code}
  /\ LET source == CASE code \in InputButtons -> "button"
                     [] code \in LoneModifiers /\ inputDown = {} -> "modifier"
                     [] OTHER -> "key"
     IN  Handle(repeat, Matching({"key", "button"}, code), source)
  /\ UNCHANGED <<bound, repoEnabled, canActivate, spots, recreate, pointerAt, visits>>

(* The listeners of the input come before the modifier bindings, which run *)
(* if the modifier was pressed "alone".                                    *)
InputReleased(code, alone) ==
  /\ code \in inputDown
  /\ alone => code \in LoneModifiers
  /\ inputDown' = inputDown \ {code}
  /\ Handle(ReleaseHeard(code), IF alone THEN Matching({"modifier"}, code) ELSE {}, "modifier")
  /\ UNCHANGED <<bound, repoEnabled, canActivate, spots, recreate, pointerAt, visits>>

(* handle_gesture()                                                        *)
Gesture(b) ==
  /\ b \in bound /\ Descr[b].source = "gesture"
  /\ Handle(repeat, {b}, "gesture")
  /\ UNCHANGED <<bound, inputDown, repoEnabled, canActivate, spots, recreate, pointerAt, visits>>

(* on_repeat_delay_timeout, on_repeat_once: a rate out of range ends it.   *)
RepeatTimer(rateOk) ==
  /\ repeat.timer # "none"
  /\ repeat' = IF rateOk THEN [repeat EXCEPT !.timer = "repeat"] ELSE ResetRepeat(repeat)
  /\ UNCHANGED <<bound, inputDown, repoEnabled, canActivate, spots, recreate, pointerAt, endless,
                 visits>>

CanActivateChanges ==
  /\ canActivate' = ~canActivate
  /\ UNCHANGED <<bound, repeat, inputDown, repoEnabled, spots, recreate, pointerAt, endless, visits>>

-----------------------------------------------------------------------------
(* set_enabled(), by the plugin shortcuts-inhibit.                         *)
SetEnabled ==
  /\ repoEnabled' = ~repoEnabled
  /\ recreate' = TRUE
  /\ UNCHANGED <<bound, repeat, inputDown, canActivate, spots, pointerAt, endless, visits>>

\* Mutant of Unbound: the hotspots among the bindings that remain are counted.
UnboundLate(gone) == bound' = bound \ gone /\ recreate' = (recreate \/ \E b \in bound' : IsSpot(b))

(* rem_binding(): all activators are looked through for hotspots.          *)
Unbound(gone) == bound' = bound \ gone /\ recreate' = (recreate \/ \E b \in bound : IsSpot(b))

Owned(owner) == {b \in AllBindings : Descr[b].owner = owner}

(* The configuration is reloaded: setup_bindings_from_config(), and the    *)
(* repository's own handler.  Bound: all of its bindings or none.          *)
ReloadConfig(set) ==
  /\ bound' = (bound \ Owned(Config)) \cup set
  /\ recreate' = TRUE
  /\ UNCHANGED <<repeat, inputDown, repoEnabled, canActivate, spots, pointerAt, endless, visits>>

(* command/register-binding: add_activator()                               *)
RegisterBinding(b) ==
  /\ Descr[b].owner # Config /\ b \notin bound
  /\ bound' = bound \cup {b}
  /\ recreate' = (recreate \/ IsSpot(b))
  /\ UNCHANGED <<repeat, inputDown, repoEnabled, canActivate, spots, pointerAt, endless, visits>>

(* command/unregister-binding, and the bindings of a client that is gone.  *)
UnregisterBindings(gone) ==
  /\ gone # {} /\ gone \subseteq bound
  /\ Unbound(gone)
  /\ UNCHANGED <<repeat, inputDown, repoEnabled, canActivate, spots, pointerAt, endless, visits>>

-----------------------------------------------------------------------------
(* Hotspots.                                                               *)

(* update_hotspots(), in an idle callback.                                 *)
RecreateHotspots ==
  /\ recreate /\ recreate' = FALSE
  /\ spots' = [b \in Spots |->
                 IF b \in bound /\ repoEnabled THEN NewSpot ELSE NoSpot]
  /\ visits' = [b \in Spots |-> 0]
  /\ UNCHANGED <<bound, repeat, inputDown, repoEnabled, canActivate, pointerAt, endless>>

\* Mutant of Moved: a hotspot that has fired is not disarmed.
MovedArmed(s, to) ==
  IF to = None \/ to # pointerAt THEN [s EXCEPT !.armed = TRUE, !.timer = (to # None)]
  ELSE [s EXCEPT !.timer = TRUE]

(* process_input_motion(), of the pointer or of a finger.                  *)
Moved(s, to) ==
  LET left == IF to = None \/ to # pointerAt THEN [s EXCEPT !.armed = TRUE, !.timer = FALSE] ELSE s
  IN  IF to # None /\ ~left.timer /\ left.armed THEN [left EXCEPT !.armed = FALSE, !.timer = TRUE]
      ELSE left

InputMoves(to) ==
  /\ pointerAt' = to
  /\ spots' = [b \in Spots |-> IF spots[b].exists THEN Moved(spots[b], to) ELSE NoSpot]
  /\ visits' = IF to = pointerAt THEN visits ELSE [b \in Spots |-> 0]
  /\ UNCHANGED <<bound, repeat, inputDown, repoEnabled, canActivate, recreate, endless>>

(* The timer of a hotspot.  Idle callbacks come before the next event; the *)
(* hotspot does not ask whether the repository is enabled.                 *)
HotspotFires(b) ==
  /\ spots[b].timer /\ ~recreate
  /\ spots' = [spots EXCEPT ![b].timer = FALSE]
  /\ visits' = [visits EXCEPT ![b] = @ + 1]
  /\ repeat' = OnBinding(repeat, b, "hotspot")
  /\ endless' = (endless \/ Endless(repeat, b, "hotspot"))
  /\ UNCHANGED <<bound, inputDown, repoEnabled, canActivate, recreate, pointerAt>>

-----------------------------------------------------------------------------
BindInit ==
  /\ bound = {} /\ repeat = Unarmed /\ inputDown = {} /\ repoEnabled = TRUE /\ canActivate = TRUE
  /\ spots = [b \in Spots |-> NoSpot] /\ recreate = FALSE /\ pointerAt = None
  /\ endless = FALSE /\ visits = [b \in Spots |-> 0]

BindNext ==
  \/ \E code \in InputKeys \cup InputButtons :
       InputPressed(code) \/ \E alone \in BOOLEAN : InputReleased(code, alone)
  \/ \E b \in AllBindings :
       Gesture(b) \/ RegisterBinding(b) \/ (Descr[b].owner # Config /\ UnregisterBindings({b}))
  \/ \E b \in Spots : HotspotFires(b)
  \/ \E c \in IpcClients : UnregisterBindings(bound \cap Owned(c))
  \/ \E set \in {{}, Owned(Config)} : ReloadConfig(set)
  \/ \E rateOk \in BOOLEAN : RepeatTimer(rateOk)
  \/ \E to \in Corners \cup {None} : InputMoves(to)
  \/ CanActivateChanges \/ SetEnabled \/ RecreateHotspots

BindSpec == BindInit /\ [][BindNext]_bindVars

-----------------------------------------------------------------------------
BindTypeOK ==
  /\ bound \in SUBSET AllBindings /\ inputDown \in SUBSET (InputKeys \cup InputButtons)
  /\ repeat.timer \in {"none", "delay", "repeat"}
  /\ repoEnabled \in BOOLEAN /\ canActivate \in BOOLEAN /\ recreate \in BOOLEAN
  /\ spots \in [Spots -> {NoSpot} \cup [exists: {TRUE}, armed: BOOLEAN, timer: BOOLEAN]]
  /\ pointerAt \in Corners \cup {None} /\ endless \in BOOLEAN

(* A command repeats, and the plugin refuses other bindings, only while    *)
(* the key or button of its binding is held ("until the user released the  *)
(* key", command.cpp:42), whatever is bound, unbound or inhibited in the   *)
(* meantime, and nothing of it is left afterwards.  It does not hold for   *)
(* gestures, hotspots and modifiers, which have no such release.           *)
RepeatsWhileHeld ==
  ~endless =>
    /\ {repeat.key, repeat.button} \ {None} \subseteq inputDown
    /\ repeat.key = None /\ repeat.button = None => repeat.timer = "none" /\ repeat.hears = {}

(* A hotspot fires once per visit of its corner ("Only one event should be *)
(* triggered once the cursor enters the hotspot area", hotspot-manager.hpp)*)
(* unless it was made anew meanwhile, and never for a binding that is      *)
(* gone: it keeps a pointer to the callback.                               *)
HotspotsRight ==
  /\ \A b \in Spots : visits[b] <= 1
  /\ ~recreate => \A b \in Spots : spots[b].exists = (b \in bound /\ repoEnabled)
=============================================================================

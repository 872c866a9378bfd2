------------------------------ MODULE IdleDpms ------------------------------
(***************************************************************************)
(* The idle plugin's power saving (wayfire_idle in                         *)
(* src/plugins/single_plugins/idle.cpp) on top of the output layout: a     *)
(* timer, restarted by input, that puts the outputs in DPMS, and the idle  *)
(* inhibitors that suspend it (src/src/core/idle.cpp).                     *)
(*                                                                         *)
(* One wayfire_idle is shared by the instances of the plugin, one per      *)
(* output; each instance reacts to idle_inhibit_changed on its behalf, so  *)
(* its seat-activity connection may be made more than once, and is then    *)
(* called more than once.  The screensaver is left out, and dpms_timeout   *)
(* is positive and does not change.                                        *)
(***************************************************************************)
EXTENDS OutputLayout

CONSTANTS
  MaxInhibitors   \* bound on the idle inhibitors at a time

ASSUME IdleAssumption == MaxInhibitors \in Nat /\ IsFiniteSet(Outputs)

VARIABLES
  isIdle,      \* wayfire_idle::is_idle
  timer,       \* timeout_dpms is connected
  listening,   \* how many times on_seat_activity is connected
  inhibitors   \* idle_inhibitor_t::inhibitors

idleVars == <<isIdle, timer, listening, inhibitors>>
allVars == <<vars, idleVars>>

-----------------------------------------------------------------------------
(* set_state(from, to).                                                    *)
SetState(from, to) ==
  /\ ApplyConfiguration([o \in Outputs |-> IF o \in plugged /\ state[o].source = from
                                             THEN Plain(to) ELSE state[o]], plugged)
  /\ render' = Rendering(wf')
  /\ UNCHANGED <<plugged, cfg, inhibited>>

(* create_dpms_timeout(), called calls times in a row: the call that ends  *)
(* the idle state returns before the timer is set, the next one sets it.   *)
CreateDpmsTimeout(calls) ==
  LET wakes == ~timer /\ isIdle
  IN  /\ isIdle' = (isIdle /\ ~wakes)
      /\ timer' = (timer \/ calls > 1 \/ ~wakes)
      /\ IF wakes THEN SetState("DPMS", "SELF") ELSE UNCHANGED vars

IdleInit ==
  /\ Init
  /\ isIdle = FALSE
  /\ \E disableInitially \in BOOLEAN :
       /\ timer = ~disableInitially
       /\ listening = IF disableInitially THEN 0 ELSE 1
  /\ inhibitors = 0

(* seat_activity_signal.                                                   *)
SeatActivity ==
  /\ IF listening > 0 THEN CreateDpmsTimeout(listening) ELSE UNCHANGED <<isIdle, timer, vars>>
  /\ UNCHANGED <<listening, inhibitors>>

(* The callback of timeout_dpms.                                           *)
DpmsTimeout ==
  /\ timer
  /\ timer' = FALSE
  /\ isIdle' = TRUE
  /\ SetState("SELF", "DPMS")
  /\ UNCHANGED <<listening, inhibitors>>

(* idle_inhibitor_t(): every instance disconnects the shared plugin.       *)
CreateInhibitor ==
  /\ inhibitors < MaxInhibitors
  /\ inhibitors' = inhibitors + 1
  /\ listening' = 0
  /\ timer' = FALSE
  /\ UNCHANGED <<isIdle, vars>>

(* Mutant: the timer restarts, the input events are not connected again.   *)
DestroyInhibitorTimer ==
  /\ inhibitors > 0
  /\ inhibitors' = inhibitors - 1
  /\ IF inhibitors' = 0 THEN CreateDpmsTimeout(Cardinality(wf)) ELSE UNCHANGED <<isIdle, timer, vars>>
  /\ UNCHANGED <<listening>>

(* ~idle_inhibitor_t(): the last one reconnects it, once per instance.     *)
DestroyInhibitor ==
  /\ inhibitors > 0
  /\ inhibitors' = inhibitors - 1
  /\ IF inhibitors' = 0
       THEN listening' = listening + Cardinality(wf) /\ CreateDpmsTimeout(Cardinality(wf))
       ELSE UNCHANGED <<isIdle, timer, listening, vars>>

IdleNext ==
  \/ Next /\ UNCHANGED idleVars
  \/ SeatActivity
  \/ DpmsTimeout
  \/ CreateInhibitor
  \/ DestroyInhibitor

IdleSpec == IdleInit /\ [][IdleNext]_allVars

-----------------------------------------------------------------------------
(* The types of the layout and of the plugin's state, whose connections    *)
(* are at most one per output.                                             *)
IdleTypeOK ==
  /\ TypeOK
  /\ isIdle \in BOOLEAN
  /\ timer \in BOOLEAN
  /\ listening \in 0..(Cardinality(Outputs) + 1)
  /\ inhibitors \in 0..MaxInhibitors

(* With no inhibitor, outputs that the plugin put to sleep are woken by    *)
(* the next input, however inhibitors and outputs came and went.           *)
CanWake == isIdle /\ inhibitors = 0 => listening > 0 /\ ~timer
=============================================================================

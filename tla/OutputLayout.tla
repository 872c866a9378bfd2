---------------------------- MODULE OutputLayout ----------------------------
(***************************************************************************)
(* The output layout (src/src/core/output-layout.cpp): which physical      *)
(* outputs drive a desktop, the virtual NOOP-1 output that stands in when  *)
(* none does, mirrored and powered-off outputs, the output with keyboard   *)
(* focus and the views that move when an output goes.                      *)
(*                                                                         *)
(* Every change of the layout goes through apply_configuration(), which    *)
(* runs to its end inside one event, so it is one step here.  Modes,       *)
(* positions, scales and transforms are left out, and so is external       *)
(* management of outputs (off by default) and the shutdown of the          *)
(* compositor.                                                             *)
(***************************************************************************)
EXTENDS Integers, FiniteSets

CONSTANTS
  Outputs,     \* the wlr_outputs that may be plugged in
  Noop,        \* the headless NOOP-1
  None,        \* no output
  Views,       \* toplevel views
  MaxInhibit   \* bound on the inhibitions of one output's rendering

ASSUME NoopAssumption == Noop \notin Outputs /\ None \notin Outputs \cup {Noop}
ASSUME BoundAssumption == MaxInhibit \in Nat \ {0}

VARIABLES
  plugged,    \* keys of impl::outputs
  cfg,        \* what the config file says of each output: load_configured_state()
  state,      \* output_layout_output_t::current_state
  wf,         \* the outputs that have a wf::output_t
  active,     \* the seat's active output
  noopTimer,  \* timer_remove_noop is running
  mirrors,    \* the output whose frames on_mirrored_frame copies (locked_cursors_on)
  inhibited,  \* output_layout_output_t::inhibited, set by power management
  render,     \* output_inhibit_counter of the output's render manager
  viewOn      \* the output of each view

vars == <<plugged, cfg, state, wf, active, noopTimer, mirrors, inhibited, render, viewOn>>

-----------------------------------------------------------------------------
(* output_state_t: the source and, for a mirror, what it is a mirror of.   *)

Sources == {"INVALID", "SELF", "NONE", "DPMS", "MIRROR"}
OutputStates == [source : Sources, from : Outputs \cup {None}]

Plain(source) == [source |-> source, from |-> None]
MirrorOf(o) == [source |-> "MIRROR", from |-> o]

(* load_configured_state(): auto or a resolution, off, mirror.             *)
Configurable == {Plain("SELF"), Plain("NONE")} \cup {MirrorOf(o) : o \in Outputs}

(* source & OUTPUT_IMAGE_SOURCE_SELF, source & OUTPUT_IMAGE_SOURCE_NONE.   *)
SelfBit(s) == s.source \in {"SELF", "DPMS"}
NoneBit(s) == s.source \in {"NONE", "DPMS"}

(* get_outputs(): those that drive a desktop by their state, and the noop. *)
GetOutputs == {o \in plugged : SelfBit(state[o])} \cup (wf \cap {Noop})

(* output_state_t::operator==.                                             *)
SameState(s, t) == s = t

(* Mutant: an output in DPMS is copied.                                    *)
MirrorSourceOff(conf, outs) ==
  [o \in Outputs |->
     IF conf[o].source = "MIRROR" /\ conf[o].from \in outs THEN conf[o].from ELSE None]

-----------------------------------------------------------------------------
(* setup_mirror() and teardown_mirror(): a mirror copies an output that    *)
(* has a desktop and is not powered off, or is itself turned off.          *)
MirrorSource(conf, outs) ==
  [o \in Outputs |->
     LET from == conf[o].from
     IN  IF conf[o].source = "MIRROR" /\ from \in outs /\ ~NoneBit(conf[from])
           THEN from ELSE None]

(* turning_off_all_active: the noop is needed while outputs are swapped.   *)
TurnsOffAllActive(conf) ==
  /\ GetOutputs # {}
  /\ \A o \in GetOutputs \cap Outputs : ~SelfBit(conf[o])

(* get_next_output(wo) for an output that is no longer in get_outputs():   *)
(* the first of the rest, and the noop is the last of get_outputs().       *)
NextOutput(rest) ==
  IF rest \ {Noop} # {} THEN rest \ {Noop} ELSE rest

(* ensure_wayfire_output(): a new output takes the focus from the noop.    *)
FocusAfter(focus, added) ==
  IF focus = Noop /\ added # {} THEN added ELSE {focus}

(* Mutant: ensure_noop_output() leaves the timer running.                  *)
NoopTimerAfterRunning(on, ensured) == on # {} \/ noopTimer

(* The timer starts again whenever an output is on after the change, and   *)
(* ensure_noop_output() stops it before that.                              *)
NoopTimerAfter(on, ensured) ==
  IF on # {} THEN TRUE ELSE IF ensured THEN FALSE ELSE noopTimer

(* apply_configuration(conf) for the outputs in dom, whose current states  *)
(* are given by conf afterwards.  First the outputs that are turned off    *)
(* lose their wf::output_t: focus goes to a remaining output, or to the    *)
(* noop, and so do their views (destroy_wayfire_output()).  Then the       *)
(* enabled ones get one, which takes the focus from the noop               *)
(* (ensure_wayfire_output()).  Last, mirrors are set up again.             *)
ApplyConfiguration(conf, dom) ==
  LET withNoop == IF TurnsOffAllActive(conf) THEN {Noop} ELSE {}
      off      == {o \in dom : ~SelfBit(conf[o])}
      on       == dom \ off
      kept     == (wf \ off) \cup withNoop
      added    == on \ wf
  IN  \E focus \in IF active \in off THEN NextOutput(kept) ELSE {active} :
        /\ state' = conf
        /\ wf' = kept \cup added
        /\ viewOn' = [v \in Views |-> IF viewOn[v] \in off THEN focus ELSE viewOn[v]]
        /\ active' \in FocusAfter(focus, added)
        /\ noopTimer' = NoopTimerAfter(on, TurnsOffAllActive(conf))
        /\ mirrors' = MirrorSource(conf, kept \cup added)

(* A new wf::output_t starts with a render manager that nothing inhibits.  *)
Rendering(newWf) == [o \in Outputs |-> IF o \in wf \cap newWf THEN render[o] ELSE 0]

(* reconfigure_from_config(): only if something differs from now.          *)
ReconfigureFromConfig(newCfg, dom) ==
  LET conf == [o \in Outputs |-> IF o \in dom THEN newCfg[o] ELSE Plain("INVALID")]
  IN  IF \E o \in dom : ~SameState(conf[o], state[o])
        THEN ApplyConfiguration(conf, dom) /\ render' = Rendering(wf')
        ELSE UNCHANGED <<state, wf, active, noopTimer, mirrors, render, viewOn>>

-----------------------------------------------------------------------------
(* core_backend_started_signal with nothing plugged in: only the noop.     *)
Init ==
  /\ plugged = {}
  /\ cfg \in [Outputs -> Configurable]
  /\ state = [o \in Outputs |-> Plain("INVALID")]
  /\ wf = {Noop}
  /\ active = Noop
  /\ noopTimer = FALSE
  /\ mirrors = [o \in Outputs |-> None]
  /\ inhibited = [o \in Outputs |-> FALSE]
  /\ render = [o \in Outputs |-> 0]
  /\ viewOn = [v \in Views |-> Noop]

(* add_output(): a new output_layout_output_t, configured from the file    *)
(* together with all others.                                               *)
AddOutput(o) ==
  /\ o \notin plugged
  /\ plugged' = plugged \cup {o}
  /\ ReconfigureFromConfig(cfg, plugged')
  /\ UNCHANGED <<cfg, inhibited>>

(* remove_output(): turned off like any output, then forgotten, so that    *)
(* its state is that of an output never seen.                              *)
RemoveOutput(o) ==
  /\ o \in plugged
  /\ plugged' = plugged \ {o}
  /\ ApplyConfiguration([state EXCEPT ![o] = Plain("INVALID")], plugged)
  /\ render' = Rendering(wf')
  /\ inhibited' = [inhibited EXCEPT ![o] = FALSE]
  /\ UNCHANGED cfg

(* reload_config_signal: the user edited the configuration file.           *)
ReloadConfig(newCfg) ==
  /\ cfg' = newCfg
  /\ ReconfigureFromConfig(newCfg, plugged)
  /\ UNCHANGED <<plugged, inhibited>>

(* apply_wlr_configuration(): an output-management client (kanshi,         *)
(* wlr-randr) enables and disables heads; test_configuration() wants all.  *)
ApplyWlrConfiguration(enabled) ==
  /\ plugged # {}
  /\ ApplyConfiguration([o \in Outputs |-> IF o \in enabled THEN Plain("SELF")
                                           ELSE IF o \in plugged THEN Plain("NONE")
                                           ELSE state[o]], plugged)
  /\ render' = Rendering(wf')
  /\ UNCHANGED <<plugged, cfg, inhibited>>

(* set_power_mode(): a power-management client turns an output off or on.  *)
(* Rendering is inhibited while it is off; the flag says it was asked.     *)
SetPowerMode(o, off) ==
  /\ o \in plugged
  /\ ApplyConfiguration([state EXCEPT ![o] = Plain(IF off THEN "DPMS" ELSE "SELF")], plugged)
  /\ inhibited' = [inhibited EXCEPT ![o] = off]
  /\ render' = [Rendering(wf') EXCEPT
                  ![o] = IF inhibited[o] = off THEN @
                         ELSE IF off THEN @ + 1 ELSE @ - 1]
  /\ render'[o] \in -MaxInhibit..MaxInhibit
  /\ UNCHANGED <<plugged, cfg>>

(* remove_noop_output(), 1 s after the last configuration that enabled a   *)
(* physical output.  The noop is still in get_outputs() when the next      *)
(* output is looked for, at its end; applying the current configuration    *)
(* then changes nothing but the timer.                                     *)
RemoveNoopOutput ==
  /\ noopTimer
  /\ IF Noop \in wf
       THEN LET rest == wf \ {Noop}
            IN  /\ wf' = rest
                /\ active' \in IF active = Noop THEN NextOutput(GetOutputs) ELSE {active}
                /\ viewOn' = [v \in Views |-> IF viewOn[v] = Noop THEN active' ELSE viewOn[v]]
                /\ noopTimer' = (rest # {})
                /\ mirrors' = MirrorSource(state, rest)
       ELSE noopTimer' = FALSE /\ UNCHANGED <<wf, active, viewOn, mirrors>>
  /\ UNCHANGED <<plugged, cfg, state, inhibited, render>>

(* wset::add_view and the like: a view goes to another output.             *)
MoveView(v, o) ==
  /\ o \in wf
  /\ viewOn' = [viewOn EXCEPT ![v] = o]
  /\ UNCHANGED <<plugged, cfg, state, wf, active, noopTimer, mirrors, inhibited, render>>

(* seat_t::focus_output(), by a click, a binding or a touch.               *)
FocusOutput(o) ==
  /\ o \in wf
  /\ active' = o
  /\ UNCHANGED <<plugged, cfg, state, wf, noopTimer, mirrors, inhibited, render, viewOn>>

LayoutNext ==
  \/ \E o \in Outputs : AddOutput(o) \/ RemoveOutput(o)
  \/ \E newCfg \in [Outputs -> Configurable] : ReloadConfig(newCfg)
  \/ \E enabled \in SUBSET plugged : ApplyWlrConfiguration(enabled)
  \/ \E o \in Outputs, off \in BOOLEAN : SetPowerMode(o, off)
  \/ RemoveNoopOutput
  \/ \E v \in Views, o \in wf : MoveView(v, o)

Next == LayoutNext \/ \E o \in wf : FocusOutput(o)

Spec == Init /\ [][Next]_vars

-----------------------------------------------------------------------------
(* The types of the layout's state.                                        *)
TypeOK ==
  /\ plugged \subseteq Outputs
  /\ cfg \in [Outputs -> Configurable]
  /\ state \in [Outputs -> OutputStates]
  /\ wf \subseteq plugged \cup {Noop}
  /\ active \in Outputs \cup {Noop}
  /\ noopTimer \in BOOLEAN
  /\ mirrors \in [Outputs -> Outputs \cup {None}]
  /\ inhibited \in [Outputs -> BOOLEAN]
  /\ render \in [Outputs -> -MaxInhibit..MaxInhibit]
  /\ viewOn \in [Views -> Outputs \cup {Noop}]

(* At any time at least one output is there, every output get_outputs()    *)
(* lists has its wf::output_t, and the seat's active output is one of them *)
(* (the asserts of remove_output() and of every caller that takes the      *)
(* active output for granted).                                             *)
AlwaysAnOutput ==
  /\ GetOutputs # {}
  /\ GetOutputs = wf
  /\ active \in wf

(* transfer_views(): no view is left on an output that is gone, however    *)
(* outputs are swapped.                                                    *)
ViewsOnOutputs == \A v \in Views : viewOn[v] \in wf

(* A mirror listens to, and locks the cursors of, an output that is        *)
(* plugged in, has a desktop and is not powered off (teardown_mirror()).   *)
MirrorsLive ==
  \A o \in Outputs : mirrors[o] # None =>
    /\ o \in plugged \ wf
    /\ mirrors[o] \in plugged \cap wf
    /\ state[mirrors[o]].source = "SELF"

(* While the noop stands in for real outputs its removal is not scheduled, *)
(* and when it is no longer needed its removal is (ensure_noop_output()    *)
(* stops the timer an earlier configuration started).                      *)
NoopTimerRight == (Noop \in wf) => (noopTimer <=> wf # {Noop})

(* There is an output for whoever needs one, now and when a timer fires.   *)
OutputRemains == AlwaysAnOutput /\ NoopTimerRight

(* Nothing is left on an output that is gone or does not show.             *)
NothingStranded == ViewsOnOutputs /\ MirrorsLive
=============================================================================

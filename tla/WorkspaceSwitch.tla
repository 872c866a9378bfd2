-------------------------- MODULE WorkspaceSwitch --------------------------
(***************************************************************************)
(* Two plugins that change the workspace of an output with an animation,   *)
(* vswitch (src/plugins/vswitch/vswitch.cpp, bindings, IPC and requests of *)
(* the core) and vswipe (src/plugins/single_plugins/vswipe.cpp, touchpad   *)
(* gestures), with the registry of active plugins between them.            *)
(*                                                                         *)
(* The grid has one row.  vswitch changes the workspace first and animates *)
(* afterwards; vswipe remembers the workspace the gesture began on and     *)
(* changes it when the fingers are lifted.                                 *)
(***************************************************************************)
EXTENDS OutputPlugins, Integers

CONSTANTS
  Vswitch, Vswipe,  \* the activation data of the two plugins
  Views,            \* toplevel views that a switch can take along
  NoView,           \* no view
  Width,            \* workspaces in the grid
  Distances,        \* accumulated deltas of a swipe, in hundredths of a workspace
  FreeMovement      \* vswipe/enable_free_movement

ASSUME SwitchAssumption ==
  /\ {Vswitch, Vswipe} \subseteq Plugins /\ Vswitch # Vswipe
  /\ {"CUSTOM_RENDERER", "MANAGE_DESKTOP"} \subseteq Capabilities
  /\ InitialCaps[Vswipe] = Capabilities   \* CAPABILITY_MANAGE_COMPOSITOR
  /\ NoView \notin Views
  /\ Width \in Nat \ {0}
  /\ Distances \subseteq Int
  /\ FreeMovement \in BOOLEAN

VARIABLES
  ws,          \* the current workspace of the output's wset
  running,     \* workspace_switch_t::running, with its wall and its effect
  offset,      \* animation.dx, rounded: the wall shows workspace ws + offset
  overlay,     \* overlay_view: it is disabled in its own layer
  swiping,     \* vswipe's state.swiping
  recognised,  \* state.direction is not UNKNOWN
  origin,      \* state.vx
  swipeHook    \* vswipe's wall, effect and input grab

swipe == <<swiping, recognised, origin, swipeHook>>
switch == <<running, offset>>
wallVars == <<registry, ws, switch, overlay, swipe>>

Workspaces == 0..(Width - 1)
BaseCaps == {"CUSTOM_RENDERER"}

WallInit ==
  /\ RegistryInit
  /\ ws \in Workspaces
  /\ running = FALSE /\ offset = 0
  /\ overlay = NoView
  /\ swiping = FALSE /\ recognised = FALSE
  /\ origin = 0
  /\ swipeHook = FALSE

-----------------------------------------------------------------------------
(* vswitch                                                                 *)

(* Mutant: the capabilities are taken without a look at other plugins.     *)
SetCapabilitiesAlways(c) == {c \cup BaseCaps}

(* set_capabilities(c): the capabilities it may have afterwards, none if   *)
(* the call fails.                                                         *)
SetCapabilities(c) ==
  IF Vswitch \notin Active THEN {c \cup BaseCaps}
  ELSE IF c \cup BaseCaps \subseteq caps[Vswitch] THEN {caps[Vswitch]}
  ELSE IF CanActivateCaps(c, {}) THEN {c \cup BaseCaps} ELSE {}

(* Mutant: the animation starts from the workspace that is current.        *)
SwitchFromCurrent(c, view, target) ==
  /\ IF Vswitch \in Active
       THEN caps' = [caps EXCEPT ![Vswitch] = c] /\ UNCHANGED <<active, held>>
       ELSE ActivatePlugin(Vswitch, c, {})
  /\ running' = TRUE
  /\ offset' = ws - target
  /\ overlay' = view
  /\ ws' = target

(* start_switch() and set_target_workspace(), with the view that is taken  *)
(* along, once the capabilities are c.                                     *)
Switch(c, view, target) ==
  /\ IF Vswitch \in Active
       THEN caps' = [caps EXCEPT ![Vswitch] = c] /\ UNCHANGED <<active, held>>
       ELSE ActivatePlugin(Vswitch, c, {})
  /\ running' = TRUE
  /\ offset' = (IF running THEN offset ELSE 0) + ws - target
  /\ overlay' = view
  /\ ws' = target

(* add_direction() where start_switch() fails: only the capabilities of    *)
(* the inactive plugin have changed.                                       *)
SwitchFails(c) ==
  /\ Vswitch \notin Active /\ ~CanActivate(Vswitch, c, {})
  /\ caps' = [caps EXCEPT ![Vswitch] = c]
  /\ UNCHANGED <<active, held, switch, overlay>>

(* A key binding, with or without the focused view.                        *)
Binding(target, view) ==
  /\ \E c \in SetCapabilities({"MANAGE_DESKTOP"}) :
       IF target = ws
         THEN /\ caps' = [caps EXCEPT ![Vswitch] = c]
              /\ UNCHANGED <<active, held, switch, overlay, ws>>
         ELSE \/ Switch(c, view, target)
              \/ SwitchFails(c) /\ UNCHANGED ws
  /\ UNCHANGED swipe

(* vswitch/set-workspace of the IPC.                                       *)
IpcSetWorkspace(target, view) ==
  /\ \E c \in SetCapabilities(Capabilities) :
       Switch(c, view, target) \/ (SwitchFails(c) /\ UNCHANGED ws)
  /\ UNCHANGED swipe

(* request_workspace() by the core or another plugin: if vswitch does not  *)
(* carry it out the workspace is changed without an animation.             *)
RequestWorkspace(target, view) ==
  /\ target # ws
  /\ IF Vswitch \in Active
       THEN Switch(caps[Vswitch], NoView, target)
       ELSE \E c \in SetCapabilities({}) : Switch(c, view, target) \/ (SwitchFails(c) /\ ws' = target)
  /\ UNCHANGED swipe

(* A frame of the animation, which moves towards offset 0.                 *)
SwitchFrame ==
  /\ running /\ offset # 0
  /\ offset' = IF offset > 0 THEN offset - 1 ELSE offset + 1
  /\ UNCHANGED <<registry, ws, running, overlay, swipe>>

(* stop_switch(true), on the frame on which the animation has ended.       *)
SwitchDone ==
  /\ running /\ offset = 0
  /\ running' = FALSE
  /\ UNCHANGED offset
  /\ overlay' = NoView
  /\ DeactivatePlugin(Vswitch)
  /\ UNCHANGED <<ws, swipe>>

(* on_grabbed_view_disappear.                                              *)
ViewDisappears(v) ==
  /\ overlay = v
  /\ overlay' = NoView
  /\ UNCHANGED <<registry, ws, switch, swipe>>

-----------------------------------------------------------------------------
(* vswipe                                                                  *)

(* vswipe_finish_target(): how many workspaces to the left, for a distance *)
(* acc in hundredths and a last motion that was fast to the right (1), to  *)
(* the left (-1) or slow.  The threshold is the default, 0.35.             *)
FinishTarget(acc, vx, fast) ==
  LET floor   == acc \div 100
      ceil    == -((-acc) \div 100)
      right   == floor + (IF acc - 100 * floor > 35 \/ ((~FreeMovement \/ floor = 0) /\ fast = 1)
                            THEN 1 ELSE 0)
      left    == ceil - (IF acc - 100 * ceil < -35 \/ ((~FreeMovement \/ ceil = 0) /\ fast = -1)
                           THEN 1 ELSE 0)
      target  == IF acc > 0 THEN IF right > vx THEN vx ELSE right
                 ELSE IF acc < 0 THEN IF vx - left > Width - 1 THEN vx - Width + 1 ELSE left
                 ELSE 0
  IN  IF FreeMovement THEN target
      ELSE IF target > 1 THEN 1 ELSE IF target < -1 THEN -1 ELSE target

(* on_swipe_begin.                                                         *)
SwipeBegin ==
  /\ ~swiping /\ Vswipe \notin Active
  /\ swiping' = TRUE
  /\ recognised' = FALSE
  /\ origin' = ws
  /\ UNCHANGED <<registry, ws, switch, overlay, swipeHook>>

(* Mutant: the renderer starts although the plugin was not activated.      *)
SwipeRecognisedAnyway ==
  /\ swiping /\ ~recognised
  /\ recognised' = TRUE
  /\ swipeHook' = TRUE
  /\ IF CanActivate(Vswipe, caps[Vswipe], {})
       THEN ActivatePlugin(Vswipe, caps[Vswipe], {})
       ELSE UNCHANGED registry
  /\ UNCHANGED <<ws, switch, overlay, swiping, origin>>

(* on_swipe_update, when the direction is found: start_swipe().  It is not *)
(* tried again if the plugin cannot be activated.                          *)
SwipeRecognised ==
  /\ swiping /\ ~recognised
  /\ recognised' = TRUE
  /\ IF CanActivate(Vswipe, caps[Vswipe], {})
       THEN ActivatePlugin(Vswipe, caps[Vswipe], {}) /\ swipeHook' = TRUE
       ELSE UNCHANGED <<registry, swipeHook>>
  /\ UNCHANGED <<ws, switch, overlay, swiping, origin>>

(* on_swipe_end: the workspace changes now, the animation goes on.         *)
SwipeEnd(acc, fast) ==
  /\ swiping
  /\ swiping' = FALSE
  /\ ws' = IF Vswipe \in Active THEN origin - FinishTarget(acc, origin, fast) ELSE ws
  /\ UNCHANGED <<registry, switch, overlay, recognised, origin, swipeHook>>

(* Mutant: the input grab waits for a swipe that is no longer going on.    *)
SwipeDoneSwiping ==
  /\ swipeHook /\ swiping
  /\ swipeHook' = FALSE
  /\ DeactivatePlugin(Vswipe)
  /\ UNCHANGED <<ws, switch, overlay, swiping, recognised, origin>>

(* post_frame, on the first frame after the animation.                     *)
SwipeDone ==
  /\ swipeHook /\ ~swiping
  /\ swipeHook' = FALSE
  /\ DeactivatePlugin(Vswipe)
  /\ UNCHANGED <<ws, switch, overlay, swiping, recognised, origin>>

-----------------------------------------------------------------------------
(* set_inhibited(), or any other cancel_active_plugins(): stop_switch()    *)
(* without the normal exit, and finalize_and_exit().                       *)
Inhibit(on) ==
  /\ SetInhibited(on)
  /\ running' = (running /\ ~on)
  /\ swipeHook' = (swipeHook /\ ~on)
  /\ swiping' = (swiping /\ ~(on /\ swipeHook))
  /\ UNCHANGED <<ws, offset, overlay, recognised, origin>>

(* Any other plugin, which may be active more than once if it says so.     *)
OtherPlugin(p) ==
  /\ \/ active[p] < MaxActivations /\ \E flags \in Flags : ActivatePlugin(p, caps[p], flags)
     \/ p \in Active /\ DeactivatePlugin(p)
  /\ UNCHANGED <<ws, switch, overlay, swipe>>

WallNext ==
  \/ \E target \in Workspaces, view \in Views \cup {NoView} :
       Binding(target, view) \/ IpcSetWorkspace(target, view) \/ RequestWorkspace(target, view)
  \/ SwitchFrame \/ SwitchDone
  \/ \E v \in Views : ViewDisappears(v)
  \/ SwipeBegin \/ SwipeRecognised \/ SwipeDone
  \/ \E acc \in Distances, fast \in {-1, 0, 1} : SwipeEnd(acc, fast)
  \/ \E on \in BOOLEAN : Inhibit(on)
  \/ \E p \in Plugins \ {Vswitch, Vswipe} : OtherPlugin(p)

WallSpec == WallInit /\ [][WallNext]_wallVars

(* The fingers are lifted, and animations end on a frame of the output.    *)
WallFairness ==
  /\ WF_wallVars(\E acc \in Distances, fast \in {-1, 0, 1} : SwipeEnd(acc, fast))
  /\ WF_wallVars(SwipeDone)

WallFairSpec == WallSpec /\ WallFairness

-----------------------------------------------------------------------------
WallTypeOK ==
  /\ RegistryTypeOK
  /\ ws \in Workspaces
  /\ running \in BOOLEAN
  /\ offset \in (1 - Width)..(Width - 1)
  /\ overlay \in Views \cup {NoView}
  /\ swiping \in BOOLEAN /\ recognised \in BOOLEAN
  /\ origin \in Workspaces
  /\ swipeHook \in BOOLEAN

(* A wall and its effect are shown exactly while the plugin is active (the *)
(* dassert of start_output_renderer()), so at most one wall is, and none   *)
(* on an inhibited output.                                                 *)
WallsMatch ==
  /\ running <=> Vswitch \in Active
  /\ swipeHook <=> Vswipe \in Active
  /\ ~(running /\ swipeHook)
  /\ held => ~running /\ ~swipeHook

(* What the wall shows moves by frames only: bindings, the IPC and         *)
(* requests that change the workspace during an animation extend it from   *)
(* where it is (set_target_workspace()).                                   *)
NoJump ==
  [][running /\ running' /\ ~SwitchFrame => ws' + offset' = ws + offset]_wallVars

(* The grab and the wall of a swipe go when the fingers are lifted,        *)
(* whatever else happened to the workspace in between.                     *)
SwipeEnds == swipeHook ~> ~swipeHook
=============================================================================

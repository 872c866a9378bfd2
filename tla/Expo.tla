---------------------------------- MODULE Expo ----------------------------------
(***************************************************************************)
(* The expo plugin on one output (single_plugins/expo.cpp), which shows    *)
(* all workspaces on a wall: how it is entered, how the workspace it goes  *)
(* to is chosen, and how it ends while the grid, the workspace and a       *)
(* dragged view change under it.                                           *)
(*                                                                         *)
(* Workspaces are in one row.  A position of the pointer is the workspace  *)
(* under it, or none in a gap.  Left out: the geometry of the zoom, the    *)
(* colors, and what a dropped view does (see MoveDrag).  The pointer and   *)
(* the first finger are the same input.                                    *)
(***************************************************************************)
EXTENDS Integers, FiniteSets

CONSTANTS MaxExpoGrid, NoSpot

ASSUME ExpoAssumption == MaxExpoGrid \in Nat \ {0} /\ NoSpot \notin Nat

(***************************************************************************)
(* active, pressed (button_pressed), zoomIn, accepting, target, initial:   *)
(* the plugin's fields; running: zoom_animation, and goal: the workspace   *)
(* to which it zooms on the way out; fade: the size of ws_fade; held: what *)
(* the plugin has of the compositor; bound: the bindings that choose a     *)
(* workspace; drag: the drag helper holds a view.  ecur and egrid are the  *)
(* output's current workspace and its grid.  Two histories: cut, expo was  *)
(* ended while its bindings were in place; moved, others changed the       *)
(* workspace on the way out.                                               *)
(***************************************************************************)
VARIABLES expo, ecur, egrid

expoVars == <<expo, ecur, egrid>>

Holdings == {"plugin", "grab", "wall", "effect", "grid"}
ExpoSpots == 0..(egrid - 1)

ExpoInit ==
  /\ expo = [active |-> FALSE, pressed |-> FALSE, zoomIn |-> FALSE, accepting |-> FALSE,
             running |-> FALSE, target |-> 0, initial |-> 0, goal |-> 0, fade |-> 0, held |-> {},
             bound |-> FALSE, drag |-> FALSE, cut |-> FALSE, moved |-> FALSE]
  /\ ecur = 0 /\ egrid = MaxExpoGrid

Least(a, b) == IF a < b THEN a ELSE b
Leaving == expo.running /\ ~expo.zoomIn    \* on the way out

(* deactivate(): the way out begins, and the output goes to the target.    *)
ExpoLeave(e) ==
  /\ expo' = [e EXCEPT !.accepting = FALSE, !.zoomIn = FALSE, !.running = TRUE, !.bound = FALSE,
                       !.goal = e.target, !.moved = FALSE]
  /\ ecur' = e.target

\* Mutant of ExpoFinalized: the key repeat goes on.
ExpoFinalizedRepeating(e) ==
  [e EXCEPT !.active = FALSE, !.held = @ \ Holdings, !.drag = FALSE,
            !.pressed = @ /\ ~e.drag, !.cut = @ \/ e.bound]

(* finalize_and_exit(): a dragged view is dropped, which on_drag_done is   *)
(* told of.  The bindings of activate() stay.                              *)
ExpoFinalized(e) ==
  [e EXCEPT !.active = FALSE, !.held = {}, !.drag = FALSE, !.pressed = @ /\ ~e.drag,
            !.cut = @ \/ e.bound]

(* activate()                                                              *)
ExpoActivate ==
  /\ ~expo.active
  /\ expo' = [expo EXCEPT !.active = TRUE, !.pressed = FALSE, !.accepting = TRUE, !.zoomIn = TRUE,
                          !.running = TRUE, !.target = ecur, !.initial = ecur, !.fade = egrid,
                          !.held = Holdings, !.bound = TRUE]
  /\ UNCHANGED <<ecur, egrid>>

(* handle_toggle(), and the binding of a workspace of the grid.            *)
ExpoToggle ==
  /\ expo.active /\ ~Leaving /\ ExpoLeave(expo) /\ UNCHANGED egrid

ExpoSelect(t) ==
  /\ expo.bound /\ expo.active /\ ~Leaving
  /\ ExpoLeave([expo EXCEPT !.target = t]) /\ UNCHANGED egrid

OverSpot(e, spot) == IF spot = NoSpot THEN e ELSE [e EXCEPT !.target = spot]

\* Mutant of ExpoPress: the workspace is not changed on the way out.
ExpoPressStays(spot) ==
  /\ expo.active
  /\ expo' = IF Leaving THEN [OverSpot(expo, spot) EXCEPT !.goal = IF spot = NoSpot THEN @ ELSE spot]
             ELSE OverSpot([expo EXCEPT !.pressed = TRUE], spot)
  /\ UNCHANGED <<ecur, egrid>>

(* handle_input_press(): on the way out a press only chooses again.        *)
ExpoPress(spot) ==
  /\ expo.active
  /\ IF Leaving
     THEN IF spot \in {NoSpot, expo.target} THEN UNCHANGED <<expo, ecur>>
          ELSE expo' = [expo EXCEPT !.goal = spot, !.target = spot] /\ ecur' = spot
     ELSE expo' = OverSpot([expo EXCEPT !.pressed = TRUE], spot) /\ UNCHANGED ecur
  /\ UNCHANGED egrid

(* A release drops the dragged view, or ends expo.                         *)
ExpoRelease ==
  /\ expo.active /\ ~Leaving
  /\ IF expo.drag THEN expo' = [expo EXCEPT !.pressed = FALSE, !.drag = FALSE] /\ UNCHANGED ecur
     ELSE ExpoLeave([expo EXCEPT !.pressed = FALSE])
  /\ UNCHANGED egrid

(* handle_input_move(): a drag starts once the animation has ended.        *)
ExpoMove(spot, overView) ==
  /\ "grab" \in expo.held /\ expo.pressed
  /\ expo.drag \/ ~expo.running
  /\ expo' = [OverSpot(expo, spot) EXCEPT !.drag = @ \/ overView]
  /\ UNCHANGED <<ecur, egrid>>

(* A drag enters from another output; the view of a drag is dropped.       *)
ExpoDragEnters ==
  /\ "plugin" \in expo.held /\ ~expo.drag
  /\ expo' = [expo EXCEPT !.drag = TRUE, !.pressed = TRUE] /\ UNCHANGED <<ecur, egrid>>

ExpoDragDone ==
  /\ expo.drag /\ expo' = [expo EXCEPT !.drag = FALSE, !.pressed = FALSE] /\ UNCHANGED <<ecur, egrid>>

(* handle_key_pressed(), and the key repeat, which ends when keys are not  *)
(* handled any more.                                                       *)
HandlesKeys == expo.accepting /\ ~expo.pressed
Arrow(e, dir) == [e EXCEPT !.target = (@ + dir + egrid) % egrid, !.held = @ \cup {"repeat"}]

ExpoArrow(dir) ==
  /\ "grab" \in expo.held /\ HandlesKeys
  /\ expo' = Arrow(expo, dir) /\ UNCHANGED <<ecur, egrid>>

ExpoRepeat(dir) ==
  /\ "repeat" \in expo.held
  /\ expo' = IF HandlesKeys THEN Arrow(expo, dir) ELSE [expo EXCEPT !.held = @ \ {"repeat"}]
  /\ UNCHANGED <<ecur, egrid>>

ExpoKeyUp ==
  /\ "repeat" \in expo.held /\ "grab" \in expo.held
  /\ expo' = [expo EXCEPT !.held = @ \ {"repeat"}] /\ UNCHANGED <<ecur, egrid>>

ExpoEnter == "grab" \in expo.held /\ HandlesKeys /\ ExpoLeave(expo) /\ UNCHANGED egrid

ExpoEscape ==
  /\ "grab" \in expo.held /\ HandlesKeys
  /\ ExpoLeave([expo EXCEPT !.target = expo.initial]) /\ UNCHANGED egrid

(* The animation ends with its time, expo with the frame after it.         *)
ExpoAnimated ==
  /\ expo.running /\ expo' = [expo EXCEPT !.running = FALSE] /\ UNCHANGED <<ecur, egrid>>

ExpoFrame ==
  /\ "effect" \in expo.held /\ ~expo.running /\ ~expo.zoomIn
  /\ expo' = ExpoFinalized(expo) /\ UNCHANGED <<ecur, egrid>>

(* Another plugin, the session lock, or fini().                            *)
ExpoCancel ==
  /\ "plugin" \in expo.held /\ expo' = ExpoFinalized(expo) /\ UNCHANGED <<ecur, egrid>>

\* Mutant of Regrid: the initial workspace is not checked.
RegridTargetOnly(e, n) ==
  [e EXCEPT !.fade = n, !.target = Least(@, n - 1)]

(* on_workspace_grid_changed                                               *)
Regrid(e, n) ==
  [e EXCEPT !.fade = n, !.initial = Least(@, n - 1), !.target = Least(@, n - 1)]

ExpoGrid(n) ==
  /\ n # egrid /\ egrid' = n /\ ecur' = Least(ecur, n - 1)
  /\ LET e == [expo EXCEPT !.moved = @ \/ ecur' # ecur]
     IN expo' = IF "grid" \in expo.held THEN Regrid(e, n) ELSE e

(* Another plugin or a client of the IPC changes the workspace.            *)
ExpoWorkspace(w) ==
  /\ w # ecur /\ ecur' = w /\ expo' = [expo EXCEPT !.moved = TRUE] /\ UNCHANGED egrid

ExpoNext ==
  \/ ExpoActivate \/ ExpoToggle \/ ExpoRelease \/ ExpoDragEnters \/ ExpoDragDone
  \/ ExpoKeyUp \/ ExpoEnter \/ ExpoEscape \/ ExpoAnimated \/ ExpoFrame \/ ExpoCancel
  \/ \E dir \in {-1, 1} : ExpoArrow(dir) \/ ExpoRepeat(dir)
  \/ \E spot \in ExpoSpots : ExpoSelect(spot) \/ ExpoWorkspace(spot)
  \/ \E spot \in ExpoSpots \cup {NoSpot} :
       ExpoPress(spot) \/ \E overView \in BOOLEAN : ExpoMove(spot, overView)
  \/ \E n \in 1..MaxExpoGrid : ExpoGrid(n)

ExpoSpec == ExpoInit /\ [][ExpoNext]_expoVars
--------------------------------------------------------------------------------
(* Whatever happens to the grid while expo is shown, the workspaces it     *)
(* goes to are in it and ws_fade, which is read without a check in every   *)
(* frame, has its size; expo holds all it needs while it is active and     *)
(* nothing after it, and the bindings of activate() are gone (see cut).    *)
(* Once the way out has begun, the output is on the workspace to which     *)
(* the wall zooms, in whatever way the target still changes.               *)
ExpoRight ==
  /\ expo.active =>
       /\ expo.target \in ExpoSpots /\ expo.initial \in ExpoSpots /\ expo.fade = egrid
       /\ Holdings \subseteq expo.held
       /\ expo.zoomIn \/ expo.moved \/ ecur = expo.goal
  /\ ~expo.active => expo.held = {} /\ (expo.bound => expo.cut)
================================================================================

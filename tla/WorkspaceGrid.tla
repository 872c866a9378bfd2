---------------------------- MODULE WorkspaceGrid -----------------------------
(***************************************************************************)
(* Where the views of a workspace set are on its grid of workspaces        *)
(* (src/src/output/workspace-impl.cpp), in one dimension.  Positions are   *)
(* relative to the current workspace: a switch moves all the views.        *)
(*                                                                         *)
(* A view's geometry changes at once, unless its client owes an answer to  *)
(* an earlier change ("busy"): then the pending geometry waits for it      *)
(* (TxnManager), and the current one is the old one until then.            *)
(***************************************************************************)
EXTENDS Integers

CONSTANTS
  GridViews,
  ViewWidth,    \* of a floating view
  ScreenWidths, \* that the output may have
  MaxGrid,      \* bound: workspaces
  MaxX          \* bound: distance of a view from the current workspace

ASSUME GridAssumption ==
  /\ ViewWidth \in Nat \ {0} /\ ScreenWidths \subseteq Nat \ {0} /\ MaxGrid \in Nat \ {0} /\ MaxX \in Nat

VARIABLES
  grid, has_custom_grid_size,
  current_vx,
  screen,  \* width of the last output's geometry
  at,      \* per view: [x: current, pending: pending position, busy, sticky, fullscreen]
  place    \* history: the workspace of a view, where the last move of its own put it

gridVars == <<grid, has_custom_grid_size, current_vx, screen, at, place>>

Valid(ws) == ws \in 0..grid - 1
Closest(ws, n) == IF ws < 0 THEN 0 ELSE IF ws >= n THEN n - 1 ELSE ws

WidthOf(a, w) == IF a.fullscreen THEN w ELSE ViewWidth
Overlap(x, w, x2, w2) == x < x2 + w2 /\ x2 < x + w
GridOverlap(a, vx, n, w) == Overlap(a.pending, WidthOf(a, w), -vx * w, n * w)

\* Mutant of Moved: the position is set relative to the current geometry.
MovedFromCurrent(a, x) == IF a.busy THEN [a EXCEPT !.pending = a.x + x - a.pending]
                          ELSE [a EXCEPT !.x = x, !.pending = x]

(* move(): an object on which no client works is applied at once.          *)
Moved(a, x) == IF a.busy THEN [a EXCEPT !.pending = x] ELSE [a EXCEPT !.x = x, !.pending = x]

CenterWorkspace(a, x, vx, w) == vx + (x + WidthOf(a, w) \div 2) \div w

(* get_view_main_workspace(): of the current geometry.                     *)
MainWorkspace(a, vx, n, w) == Closest(CenterWorkspace(a, a.x, vx, w), n)

(* move_to_workspace(): only a view that is not to be seen there moves, by *)
(* whole workspaces.                                                       *)
MoveToWorkspace(a, to, vx, w) ==
  LET left == (IF a.sticky THEN 0 ELSE to - vx) * w
      center == a.pending + WidthOf(a, w) \div 2
  IN IF Overlap(a.pending, WidthOf(a, w), left, w) THEN a
     ELSE Moved(a, a.pending + left + (center % w) - center)

(* set_workspace(), without the fixed views.                               *)
Switched(a, from, to, w) == IF a.sticky THEN a ELSE Moved(a, a.pending + (from - to) * w)

\* Mutant of PushOnto: the grid is taken to start at the current workspace.
PushOntoLeft(a, vx, n, w) ==
  IF Overlap(a.x, WidthOf(a, w), 0, n * w) THEN a
  ELSE MoveToWorkspace(a, MainWorkspace(a, vx, n, w), vx, w)

(* on_grid_changed, for one view.                                          *)
PushOnto(a, vx, n, w) ==
  IF Overlap(a.x, WidthOf(a, w), -vx * w, n * w) THEN a
  ELSE MoveToWorkspace(a, MainWorkspace(a, vx, n, w), vx, w)

-----------------------------------------------------------------------------
(* set_workspace().                                                        *)
SetWorkspace(to, fixed) ==
  /\ Valid(to) /\ to # current_vx
  /\ current_vx' = to
  /\ at' = [v \in GridViews |-> IF v \in fixed THEN at[v] ELSE Switched(at[v], current_vx, to, screen)]
  /\ place' = [v \in GridViews |->
       IF v \in fixed \/ at[v].sticky
       THEN CenterWorkspace(at[v], at[v].pending, to, screen) ELSE place[v]]
  /\ UNCHANGED <<grid, has_custom_grid_size, screen>>

(* update_cfg_grid_size and set_workspace_grid_size().                     *)
SetGridSize(n, byPlugin) ==
  LET vx == Closest(current_vx, n)
      switched(v) == Switched(at[v], current_vx, vx, screen)
  IN /\ byPlugin \/ ~has_custom_grid_size
     /\ has_custom_grid_size' = (has_custom_grid_size \/ byPlugin)
     /\ grid' = n /\ current_vx' = vx
     /\ at' = [v \in GridViews |-> PushOnto(switched(v), vx, n, screen)]
     /\ place' = [v \in GridViews |->
          IF at[v].sticky \/ at[v].busy THEN CenterWorkspace(at'[v], at'[v].pending, vx, screen)
          ELSE IF GridOverlap(switched(v), vx, n, screen) THEN place[v] ELSE Closest(place[v], n)]
     /\ UNCHANGED screen

Scaled(x, w, w2) == IF x >= 0 THEN (x * w2) \div w ELSE -((-x * w2) \div w)

(* change_output_geometry(): fullscreen views get the new geometry, which  *)
(* is that of the current workspace, the others keep their share of it.    *)
ChangeOutputGeometry(w) ==
  /\ w \in ScreenWidths \ {screen}
  /\ screen' = w
  /\ at' = [v \in GridViews |->
       IF at[v].fullscreen THEN [at[v] EXCEPT !.pending = 0, !.busy = TRUE]
       ELSE Moved(at[v], Scaled(at[v].x, screen, w))]
  /\ place' = [v \in GridViews |-> CenterWorkspace(at'[v], at'[v].pending, current_vx, w)]
  /\ UNCHANGED <<grid, has_custom_grid_size, current_vx>>

(* The user or a plugin moves a view, somewhere on the grid; its client is *)
(* told of a new size; it is made sticky or fullscreen; a client answers.  *)
MoveView(v, x) ==
  /\ Overlap(x, WidthOf(at[v], screen), -current_vx * screen, grid * screen)
  /\ ~at[v].fullscreen
  /\ at' = [at EXCEPT ![v] = Moved(@, x)]
  /\ place' = [place EXCEPT ![v] = CenterWorkspace(at[v], x, current_vx, screen)]
  /\ UNCHANGED <<grid, has_custom_grid_size, current_vx, screen>>

ResizeView(v, sticky) ==
  /\ ~at[v].busy /\ at' = [at EXCEPT ![v].busy = TRUE, ![v].sticky = sticky]
  /\ UNCHANGED <<grid, has_custom_grid_size, current_vx, screen, place>>

FullscreenView(v, full) ==
  /\ ~at[v].busy /\ at[v].fullscreen # full
  /\ at' = [at EXCEPT ![v].fullscreen = full, ![v].x = 0, ![v].pending = 0]
  /\ place' = [place EXCEPT ![v] = CenterWorkspace(at'[v], 0, current_vx, screen)]
  /\ UNCHANGED <<grid, has_custom_grid_size, current_vx, screen>>

Answer(v) ==
  /\ at[v].busy /\ at' = [at EXCEPT ![v].busy = FALSE, ![v].x = at[v].pending]
  /\ UNCHANGED <<grid, has_custom_grid_size, current_vx, screen, place>>

GridInit ==
  /\ grid = MaxGrid /\ has_custom_grid_size = FALSE /\ current_vx = 0 /\ screen \in ScreenWidths
  /\ at = [v \in GridViews |-> [x |-> 0, pending |-> 0, busy |-> FALSE, sticky |-> FALSE,
                                fullscreen |-> FALSE]]
  /\ place = [v \in GridViews |-> CenterWorkspace(at[v], 0, 0, screen)]

GridNext ==
  /\ \/ \E to \in 0..MaxGrid - 1, fixed \in SUBSET GridViews : SetWorkspace(to, fixed)
     \/ \E n \in 1..MaxGrid, byPlugin \in BOOLEAN : SetGridSize(n, byPlugin)
     \/ \E w \in ScreenWidths : ChangeOutputGeometry(w)
     \/ \E v \in GridViews :
          \/ \E x \in -MaxX..MaxX : MoveView(v, x)
          \/ \E on \in BOOLEAN : ResizeView(v, on) \/ FullscreenView(v, on)
          \/ Answer(v)
  /\ \A v \in GridViews : at'[v].pending \in -MaxX..MaxX

GridSpec == GridInit /\ [][GridNext]_gridVars

-----------------------------------------------------------------------------
(* Switches leave a view on its workspace, even if its client owes an      *)
(* answer: once it has come, the view is where it was put.  A smaller grid *)
(* leaves it on the nearest workspace that remains; a view whose client    *)
(* owes an answer just then is where the change has put it.                *)
KeepsPlace ==
  \A v \in GridViews : ~at[v].busy =>
    MainWorkspace(at[v], current_vx, grid, screen) = Closest(place[v], grid)
=============================================================================

------------------------------- MODULE MCDesktop -------------------------------
(***************************************************************************)
(* The parts of the desktop that share no state in the models, checked in  *)
(* one run: "part" says which of them moves, so that their states add up.  *)
(***************************************************************************)
EXTENDS WorkspaceSets, WorkspaceGrid, LayerShell, MoveDrag, Frames

CONSTANTS p1, p2   \* panels

MCEdgeOf == [v \in {p1, p2} |-> "top"]
MCZones == {-1, 0, 2}

VARIABLE part

(* A part that does not move is in one of its initial states only.         *)
Here == CHOOSE o \in WsOutputs : TRUE
AtRest ==
  /\ part = "sets" \/ Exists(ws, Here)
  /\ part = "grid" \/ screen = CHOOSE w \in ScreenWidths : TRUE
  /\ part = "frames" \/ (fo[Here].present /\ limits)

DesktopInit ==
  /\ part \in {"sets", "grid", "layers", "drag", "frames"}
  /\ WsInit /\ GridInit /\ LayerInit /\ DragInit /\ FrameInit /\ AtRest

DesktopNext ==
  /\ UNCHANGED part
  /\ \/ part = "sets" /\ WsNext /\ UNCHANGED <<gridVars, layerVars, dragVars, frameVars>>
     \/ part = "grid" /\ GridNext /\ UNCHANGED <<wsVars, layerVars, dragVars, frameVars>>
     \/ part = "layers" /\ LayerNext /\ UNCHANGED <<wsVars, gridVars, dragVars, frameVars>>
     \/ part = "drag" /\ DragNext /\ UNCHANGED <<wsVars, gridVars, layerVars, frameVars>>
     \/ part = "frames" /\ FrameNext /\ UNCHANGED <<wsVars, gridVars, layerVars, dragVars>>

desktopVars == <<part, wsVars, gridVars, layerVars, dragVars, frameVars>>

DesktopSpec == DesktopInit /\ [][DesktopNext]_desktopVars
=============================================================================

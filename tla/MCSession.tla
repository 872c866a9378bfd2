------------------------------- MODULE MCSession -------------------------------
(***************************************************************************)
(* The session lock and the workspace switches, checked in one run: "part" *)
(* says which of them moves, so that their states add up.  The switches    *)
(* see a lock as the inhibition of their output.                           *)
(***************************************************************************)
EXTENDS SessionLock, WorkspaceSwitch

CONSTANTS move, wrot

VARIABLE part

MCCapabilities == {"GRAB_INPUT", "CUSTOM_RENDERER", "MANAGE_DESKTOP"}

(* As the plugins declare them; vswitch sets its own before each use.      *)
MCInitialCaps ==
  [p \in Plugins |-> CASE p = Vswitch -> {}
                       [] p = Vswipe  -> MCCapabilities
                       [] p = move    -> {"GRAB_INPUT", "MANAGE_DESKTOP"}
                       [] p = wrot    -> {"GRAB_INPUT"}]

(* Short and long, left and right, in hundredths of a workspace.           *)
MCDistances == {-210, -120, -40, -20, 0, 20, 40, 120, 210}

(* A part that does not move is in one of its initial states only.         *)
SessionInit ==
  /\ Init /\ WallInit
  /\ \/ part = "lock" /\ ws = 0
     \/ part = "switch" /\ on = CHOOSE some \in SUBSET Outputs : some # {}

SessionNext ==
  /\ UNCHANGED part
  /\ \/ part = "lock" /\ Next /\ UNCHANGED wallVars
     \/ part = "switch" /\ WallNext /\ UNCHANGED vars

SessionSpec ==
  /\ SessionInit /\ [][SessionNext]_<<part, vars, wallVars>>
  /\ LockFairness /\ WallFairness
=============================================================================

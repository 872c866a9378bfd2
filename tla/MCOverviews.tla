------------------------------ MODULE MCOverviews ------------------------------
(***************************************************************************)
(* The overviews - scale, the two switchers and expo - checked in one run: *)
(* "part" says which of them moves, so that their states add up; each of   *)
(* them manages the compositor, so that at most one is active on an        *)
(* output.  Scale has two parts: "scale" is one view with all that can     *)
(* happen to it, "scales" is two views that stay on the output, without    *)
(* drags, whose animations end together.                                   *)
(***************************************************************************)
EXTENDS Scale, Switcher, Expo, TLC

CONSTANTS va, vb, vc, wa, wb

VARIABLE part

MCSymmetry == Permutations({va, vb, vc}) \cup Permutations({wa, wb})

OneScaled == \E v \in ScaleViews : ~scale.v[v].mapped

Scaled ==
  /\ ~scale.drag /\ scale.dark = {} /\ scale.filter # ScaleViews
  /\ scale.moving \in {{}, DOMAIN scale.data}
  /\ \A v \in ScaleViews : scale.v[v].here

(* One view at a time is minimized, and one is elsewhere.                  *)
FewElsewhere ==
  /\ Cardinality({v \in SwitchViews : swv[v].minimized}) <= 1
  /\ Cardinality({v \in SwitchViews : swv[v].place # "here"}) <= 1
  /\ Cardinality(sw.lost \cup fs.lost) <= 1

OverviewsInit ==
  /\ part \in {"scale", "scales", "switcher", "fast", "expo"}
  /\ ScaleInit /\ SwitchInit /\ ExpoInit

OverviewsNext ==
  /\ UNCHANGED part
  /\ \/ part = "scale" /\ ScaleNext /\ UNCHANGED <<switchVars, expoVars>> /\ OneScaled'
     \/ part = "scales" /\ ScaleNext /\ UNCHANGED <<switchVars, expoVars>> /\ Scaled'
     \/ part = "switcher" /\ SwitchNext /\ UNCHANGED <<scale, expoVars>> /\ ~fs'.active /\ FewElsewhere'
     \/ part = "fast" /\ SwitchNext /\ UNCHANGED <<scale, expoVars>> /\ ~sw'.plugin /\ FewElsewhere'
     \/ part = "expo" /\ ExpoNext /\ UNCHANGED <<scale, switchVars>>

OverviewsSpec == OverviewsInit /\ [][OverviewsNext]_<<part, scale, switchVars, expoVars>>

(* The overviews undo what they do: see ScaleUndoes, SwitchersUndo and     *)
(* ExpoRight.                                                              *)
OverviewsUndo == ScaleUndoes /\ SwitchersUndo /\ ExpoRight
================================================================================

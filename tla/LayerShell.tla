------------------------------- MODULE LayerShell -------------------------------
(***************************************************************************)
(* Panels and other layer surfaces (src/src/view/layer-shell/              *)
(* layer-shell.cpp), and the space that they reserve on their output       *)
(* (src/src/output/workarea.cpp).                                          *)
(*                                                                         *)
(* A surface has one edge.  Its requests take effect when it commits, but  *)
(* arranging reads the requested exclusive zone as well as the committed   *)
(* one, and happens when any surface of the output commits a change.  Sizes *)
(* are such that no box is negative.                                       *)
(***************************************************************************)
EXTENDS Integers, Sequences, FiniteSets, SequencesExt, FiniteSetsExt

CONSTANTS
  Panels, PanelOutputs,
  EdgeOf,    \* edge that a surface is anchored to
  Zones,     \* exclusive zones that are asked for; below 1 for none
  Layers,    \* 0..n, highest first when arranging
  NoArea

Edges == {"top", "bottom", "left", "right"}
Whole == [e \in Edges |-> 0]   \* the workarea as insets: that of the whole output

ASSUME LayerAssumption ==
  EdgeOf \in [Panels -> Edges] /\ Zones \subseteq Int /\ 0 \in Zones /\ NoArea \notin Int

VARIABLES
  panel,    \* per surface: [stage, output, layer, zone, asked: zone asked for, area, bounds,
            \* strayed: last arranged while it asked for another zone than it had (history)]
  layers,   \* the mapped surfaces, in the order in which they came to their layer
  anchors,  \* per output: surfaces with a reserved area, in order
  workarea  \* per output

layerVars == <<panel, layers, anchors, workarea>>

\* The state, of which an arrangement makes the next one.
Placed == [panel |-> panel, layers |-> layers, anchors |-> anchors, workarea |-> workarea]
Becomes(s) == /\ panel' = s.panel /\ layers' = s.layers
           /\ anchors' = s.anchors /\ workarea' = s.workarea

Without(seq, v) == SelectSeq(seq, LAMBDA x : x # v)

(* pin_view(): the space in which the surface is placed.                   *)
Pin(s, v, usable) ==
  [s EXCEPT !.panel[v].bounds = IF s.panel[v].zone < 0 THEN Whole ELSE usable]

ReflowOne(o, s, v) ==
  [Pin(s, v, s.workarea[o]) EXCEPT !.workarea[o][EdgeOf[v]] = @ + s.panel[v].area]

(* reflow_reserved_areas().                                                *)
Reflow(s, o) ==
  FoldLeft(LAMBDA r, v : ReflowOne(o, r, v), [s EXCEPT !.workarea[o] = Whole], s.anchors[o])

(* set_exclusive_zone().                                                   *)
SetExclusiveZone(s, v) ==
  [s EXCEPT !.panel[v].area = s.panel[v].zone,
            !.anchors[s.panel[v].output] = IF s.panel[v].area = NoArea THEN Append(@, v) ELSE @]

\* Mutant of RemoveAnchored: a surface that no longer reserves space keeps its area.
RemoveAnchoredKept(s, v) == s

(* remove_anchored(false).                                                 *)
RemoveAnchored(s, v) ==
  IF s.panel[v].area = NoArea THEN s
  ELSE [s EXCEPT !.panel[v].area = NoArea, !.anchors[s.panel[v].output] = Without(@, v)]

(* Those of an output, from the highest layer on.                          *)
Arranged(s, o) ==
  FoldLeft(LAMBDA seq, l : SelectSeq(s.layers, LAMBDA v : s.panel[v].output = o /\ s.panel[v].layer = l)
                           \o seq,
           <<>>, [i \in 1..Cardinality(Layers) |-> i - 1])

(* arrange_exclusive_zone(), of one surface: the request decides whether   *)
(* it has an area, and what it has committed how large that is.            *)
ArrangeZone(s, v) ==
  LET r == IF s.panel[v].asked > 0 THEN SetExclusiveZone(s, v) ELSE RemoveAnchored(s, v)
  IN [r EXCEPT !.panel[v].strayed = s.panel[v].asked # s.panel[v].zone]

(* arrange_layers(): areas first, then the surfaces that have none.        *)
Arrange(s, o) ==
  LET views == Arranged(s, o)
      zoned == FoldLeft(ArrangeZone, s, views)
  IN FoldLeft(LAMBDA r, v : IF r.panel[v].asked < 1 THEN Pin(r, v, r.workarea[o]) ELSE r,
              Reflow(zoned, o), views)

-----------------------------------------------------------------------------
NoPanel == [stage |-> "none", output |-> CHOOSE o \in PanelOutputs : TRUE, layer |-> 0,
            zone |-> 0, asked |-> 0, area |-> NoArea, bounds |-> Whole, strayed |-> FALSE]

(* wayfire_layer_shell_view::create().                                     *)
NewPanel(v, o) ==
  /\ panel[v].stage = "none"
  /\ panel' = [panel EXCEPT ![v] = [NoPanel EXCEPT !.stage = "new", !.output = o]]
  /\ UNCHANGED <<layers, anchors, workarea>>

(* A request, before its commit.                                           *)
AskZone(v, zone) ==
  /\ panel[v].stage # "none" /\ panel[v].asked # zone
  /\ panel' = [panel EXCEPT ![v].asked = zone]
  /\ UNCHANGED <<layers, anchors, workarea>>

Committed(v, l) == [Placed EXCEPT !.panel[v].zone = panel[v].asked, !.panel[v].layer = l]

(* on_commit_unmapped, arrange_unmapped_view().                            *)
CommitUnmapped(v, l) ==
  LET s == Committed(v, l)
      o == panel[v].output
  IN /\ panel[v].stage \in {"new", "configured"}
     /\ Becomes([IF panel[v].asked < 1 THEN Pin(s, v, workarea[o]) ELSE Reflow(SetExclusiveZone(s, v), o)
              EXCEPT !.panel[v].stage = "configured"])

(* map(), by a commit that may carry requests.  The commit() that follows  *)
(* arranges the same state once more.                                      *)
MapPanel(v, l) ==
  /\ panel[v].stage = "configured"
  /\ Becomes(Arrange([Committed(v, l) EXCEPT !.panel[v].stage = "mapped", !.layers = Append(@, v)],
                     panel[v].output))

\* Mutant of CommitMapped: surfaces are arranged only when one changes its layer.
CommitMappedLayer(v, l, other) ==
  /\ panel[v].stage = "mapped"
  /\ Becomes(IF l = panel[v].layer THEN Committed(v, l)
             ELSE Arrange([Committed(v, l) EXCEPT !.layers = Append(Without(@, v), v)], panel[v].output))

(* The bits of state->committed: wlroots sets that of a request which      *)
(* differs from what is current, and clears it when the request is taken   *)
(* back; "other" is any of the requests that are not modelled.             *)
CommitsChange(v, l, other) == panel[v].asked # panel[v].zone \/ l # panel[v].layer \/ other

(* commit(): a new layer is told by the layer of the last commit; a commit *)
(* that changes nothing arranges nothing.                                  *)
CommitMapped(v, l, other) ==
  LET s == Committed(v, l)
      moved == IF l = panel[v].layer THEN s ELSE [s EXCEPT !.layers = Append(Without(@, v), v)]
  IN /\ panel[v].stage = "mapped"
     /\ Becomes(IF CommitsChange(v, l, other) THEN Arrange(moved, panel[v].output) ELSE s)

Unmapped(s, v) ==
  IF s.panel[v].stage # "mapped" THEN s
  ELSE Arrange([RemoveAnchored(s, v) EXCEPT !.panel[v].stage = "unmapped", !.layers = Without(@, v)],
               s.panel[v].output)

(* unmap(), handle_unmap().  Nobody configures the surface again, so that  *)
(* it cannot be mapped once more.                                          *)
UnmapPanel(v) == panel[v].stage = "mapped" /\ Becomes(Unmapped(Placed, v))

(* handle_destroy().                                                       *)
Destroyed(s, v) ==
  LET u == Unmapped(s, v)
      r == IF u.panel[v].area = NoArea THEN u ELSE Reflow(RemoveAnchored(u, v), u.panel[v].output)
  IN [r EXCEPT !.panel[v] = NoPanel]

DestroyPanel(v) == panel[v].stage # "none" /\ Becomes(Destroyed(Placed, v))

(* transfer_views() closes the surfaces of an output that is removed; an   *)
(* output that comes takes its place.                                      *)
ReplaceOutput(o) ==
  LET s == FoldSet(LAMBDA v, r : Destroyed(r, v), Placed,
                   {v \in Panels : panel[v].stage # "none" /\ panel[v].output = o})
  IN Becomes([s EXCEPT !.workarea[o] = Whole])

(* on_output_layout_changed.                                               *)
LayoutChanged == Becomes(FoldSet(LAMBDA o, s : Arrange(s, o), Placed, PanelOutputs))

LayerInit ==
  /\ panel = [v \in Panels |-> NoPanel] /\ layers = <<>>
  /\ anchors = [o \in PanelOutputs |-> <<>>] /\ workarea = [o \in PanelOutputs |-> Whole]

LayerNext ==
  \/ \E v \in Panels :
       \/ \E o \in PanelOutputs : NewPanel(v, o)
       \/ \E zone \in Zones : AskZone(v, zone)
       \/ \E l \in Layers : CommitUnmapped(v, l) \/ MapPanel(v, l)
       \/ \E l \in Layers, other \in BOOLEAN : CommitMapped(v, l, other)
       \/ UnmapPanel(v) \/ DestroyPanel(v)
  \/ \E o \in PanelOutputs : ReplaceOutput(o)
  \/ LayoutChanged

LayerSpec == LayerInit /\ [][LayerNext]_layerVars

-----------------------------------------------------------------------------
(* Each output reserves for the surfaces that it still has, and only for   *)
(* those: the zone that a mapped surface has committed.  Left out are the  *)
(* surfaces that another's commit arranged in the middle of a request,     *)
(* until they are arranged again: ZonesReserved says what becomes of them. *)
AreasAlive ==
  /\ \A o \in PanelOutputs : IsInjective(anchors[o])
  /\ \A v \in Panels, o \in PanelOutputs :
       Contains(anchors[o], v) <=> panel[v].area # NoArea /\ panel[v].output = o
  /\ \A v \in Panels : panel[v].stage = "mapped" /\ ~panel[v].strayed =>
       panel[v].area = IF panel[v].zone > 0 THEN panel[v].zone ELSE NoArea

(* Reserved areas do not overlap, and the workarea is what they leave.  A  *)
(* surface that strayed with a zone of -1 has an area of -1, so that what  *)
(* comes after it is one too near.                                         *)
AreasApart ==
  \A o \in PanelOutputs :
    /\ \A e \in Edges :
         workarea[o][e] = FoldLeft(LAMBDA sum, v : IF EdgeOf[v] = e THEN sum + panel[v].area ELSE sum,
                                   0, anchors[o])
    /\ \A i, j \in DOMAIN anchors[o] :
         LET v == anchors[o][i]
             w == anchors[o][j]
         IN /\ i < j /\ EdgeOf[v] = EdgeOf[w] /\ panel[v].zone > 0 /\ panel[w].zone > 0
            /\ \A k \in i..j : panel[anchors[o][k]].area >= 0
            => panel[w].bounds[EdgeOf[w]] >= panel[v].bounds[EdgeOf[v]] + panel[v].area

(* Panels that stay where they were put reserve their space, side by side. *)
PanelsPlaced == AreasAlive /\ AreasApart

(* "First we need to put all views that have exclusive zone set": a mapped *)
(* surface that has committed an exclusive zone, and asks for no other,    *)
(* has an area of that size.  arrange_exclusive_zone() goes by the         *)
(* request; one that was taken back since arranges nothing when committed. *)
ZonesReserved ==
  \A v \in Panels :
    panel[v].stage = "mapped" /\ panel[v].zone > 0 /\ panel[v].asked = panel[v].zone =>
      panel[v].area = panel[v].zone
=============================================================================

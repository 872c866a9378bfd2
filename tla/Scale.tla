--------------------------------- MODULE Scale ---------------------------------
(***************************************************************************)
(* The scale plugin on one output (src/plugins/scale/scale.cpp) with the   *)
(* title filter (scale-title-filter.cpp): which views have a transformer,  *)
(* what was done to their nodes, and that all of it is undone however      *)
(* scale ends.                                                             *)
(*                                                                         *)
(* A view node is enabled while a counter is positive (scene.cpp:52);      *)
(* root and node are the counters of the view's root node and of its       *)
(* transformed node.  Handlers call each other while the state is half     *)
(* changed, so that each is an operator from a state to a state.           *)
(*                                                                         *)
(* Left out: dialogs, the geometry of the slots, alpha, the wobbly effect  *)
(* and the key repeat of the filter.                                       *)
(***************************************************************************)
EXTENDS Integers, Sequences, FiniteSets

CONSTANTS
  ScaleViews,       \* toplevels
  NoScaleView,      \* no view
  IncludeMinimized  \* the option scale/include_minimized

ASSUME ScaleAssumption == NoScaleView \notin ScaleViews /\ IncludeMinimized \in BOOLEAN

VARIABLE scale

ScaleGrid == 1..2    \* workspaces

(***************************************************************************)
(* active, hook, all, focus, data, was, moving: the fields of the plugin:  *)
(* scale_data is split into data (the visibility), was (was_minimized) and *)
(* moving (the animations that run).  geo: the views whose geometry it     *)
(* listens to; sigs: it listens to the output; filter: the views whose     *)
(* title does not match what was typed; typing: the filter takes keys;     *)
(* dark: the views that scale forgot while it hid them, whose node is not  *)
(* followed any more; bad: an assertion failed.                            *)
(***************************************************************************)
ScaleTypeOK ==
  /\ scale.active \in BOOLEAN /\ scale.hook \in BOOLEAN /\ scale.all \in BOOLEAN
  /\ scale.sigs \in BOOLEAN /\ scale.typing \in BOOLEAN /\ scale.drag \in BOOLEAN
  /\ scale.focus \in ScaleViews \cup {NoScaleView}
  /\ \A v \in DOMAIN scale.data : scale.data[v] \in {"visible", "hiding", "hidden"}
  /\ scale.was \subseteq DOMAIN scale.data /\ scale.moving \subseteq DOMAIN scale.data
  /\ scale.filter \subseteq ScaleViews /\ scale.geo \subseteq ScaleViews

ScaleInit ==
  scale = [active |-> FALSE, hook |-> FALSE, all |-> FALSE, sigs |-> FALSE, typing |-> FALSE,
           drag |-> FALSE, focus |-> NoScaleView, data |-> <<>>,
           was |-> {}, moving |-> {}, geo |-> {}, filter |-> {}, dark |-> {}, bad |-> FALSE,
           cur |-> 1, recent |-> <<>>,
           v |-> [w \in ScaleViews |-> [mapped |-> FALSE, minimized |-> FALSE, here |-> TRUE,
                                        ws |-> 1, root |-> 0, node |-> 1]]]

(* get_all_workspace_views() and get_current_workspace_views()             *)
AllViews(s) == {v \in ScaleViews : /\ s.v[v].mapped /\ s.v[v].here
                                   /\ IncludeMinimized \/ ~s.v[v].minimized}
CurrentViews(s) == {v \in AllViews(s) : s.v[v].ws = s.cur}
GetViews(s) == IF s.all THEN AllViews(s) ELSE CurrentViews(s)

AddTo(s, vs, field, n) ==
  [s EXCEPT !.v = [v \in ScaleViews |->
     IF v \in vs /\ (field = "root" \/ v \notin s.dark) THEN [s.v[v] EXCEPT ![field] = @ + n] ELSE s.v[v]]]

(* focus_raise_view(): a minimized view is restored.                       *)
FocusRaise(s, v) ==
  IF v = NoScaleView \/ ~s.v[v].here \/ ~s.v[v].mapped THEN s
  ELSE LET up == [s EXCEPT !.recent = <<v>> \o SelectSeq(@, LAMBDA u : u # v),
                           !.v[v].minimized = FALSE]
       IN IF s.v[v].minimized THEN AddTo(up, {v}, "root", 1) ELSE up

(* add_transformer(): a minimized view is made visible, transparent.       *)
Transformed(s, vs) ==
  LET new == vs \ DOMAIN s.data
      min == {v \in new : s.v[v].minimized}
  IN AddTo([s EXCEPT !.data = [v \in DOMAIN s.data \cup new |-> IF v \in new THEN "visible" ELSE s.data[v]],
                     !.was = @ \cup min, !.geo = @ \cup new], min, "root", 1)

ScaleEnd(s) == [s EXCEPT !.typing = FALSE, !.filter = {}]

HiddenViews(s) == {v \in DOMAIN s.data : s.data[v] = "hidden"}

(* deactivate(): the exit animation starts.  A view without a focus of its *)
(* own picks next.                                                         *)
Deactivate(s, next) ==
  LET hide == {v \in DOMAIN s.data : s.v[v].minimized /\ v # s.focus}
      off == [s EXCEPT !.active = FALSE, !.hook = TRUE, !.sigs = FALSE, !.geo = {},
                       !.moving = DOMAIN s.data,
                       !.dark = @ \cup (hide \cap HiddenViews(s)),
                       !.data = [v \in DOMAIN s.data |-> IF v \in hide THEN "hiding" ELSE "visible"]]
      shown == AddTo(off, HiddenViews(s) \ hide, "node", 1)
  IN ScaleEnd(IF s.focus # NoScaleView
              THEN [FocusRaise(shown, s.focus) EXCEPT !.cur = s.v[s.focus].ws]
              ELSE FocusRaise(shown, next))

(* filter_views(): what the filter hides, and a new focus.                 *)
Filtered(s, views) ==
  LET hidden == views \cap s.filter
      shown == views \ s.filter
      t == Transformed([s EXCEPT !.typing = TRUE], hidden)
      now == {v \in hidden : t.data[v] = "visible"}
      hid == [t EXCEPT !.data = [v \in DOMAIN t.data |-> IF v \in now THEN "hiding" ELSE t.data[v]],
                       !.moving = @ \cup now,
                       !.focus = IF @ \in hidden THEN NoScaleView ELSE @]
      best == SelectSeq(hid.recent, LAMBDA v : v \in shown /\ ~hid.v[v].minimized)
              \o SelectSeq(hid.recent, LAMBDA v : v \in shown /\ hid.v[v].minimized)
  IN IF hid.focus # NoScaleView \/ best = <<>> THEN hid
     ELSE FocusRaise([hid EXCEPT !.focus = Head(best)], Head(best))

(* layout_slots(): on the way out the views just go back to their places.  *)
LayoutSlots(s0) ==
  LET s == [s0 EXCEPT !.bad = @ \/ (~s0.active /\ ~s0.hook)]
      views == GetViews(s)
      f == Filtered(s, views)
      shown == views \ s.filter
      t == Transformed(f, shown)
  IN IF views = {} THEN IF ~s.all /\ s.active THEN Deactivate(s, NoScaleView) ELSE s
     ELSE AddTo([t EXCEPT !.data = [v \in DOMAIN t.data |-> IF v \in shown THEN "visible" ELSE t.data[v]],
                          !.moving = @ \cup shown, !.hook = TRUE],
                HiddenViews(t) \cap shown, "node", 1)

\* Mutant of Finalized: what the filter hid stays hidden.
FinalizedHidden(s) ==
  [AddTo(s, s.was, "root", -1)
     EXCEPT !.active = FALSE, !.hook = FALSE, !.sigs = FALSE, !.geo = {}, !.data = <<>>,
            !.was = {}, !.moving = {}]

(* finalize(): with the transformers goes what scale did to the views.     *)
Finalized(s) ==
  [AddTo(AddTo(s, s.was, "root", -1), HiddenViews(s), "node", 1)
     EXCEPT !.active = FALSE, !.hook = FALSE, !.sigs = FALSE, !.geo = {}, !.data = <<>>,
            !.was = {}, !.moving = {}]

(* A drag that ends lays the views out again, after the filter has ended.  *)
Finalize(s) ==
  LET ended == ScaleEnd(s)
  IN Finalized(IF ~s.active THEN s
               ELSE IF s.drag THEN LayoutSlots([ended EXCEPT !.drag = FALSE]) ELSE ended)

\* Mutant of RemoveView: a minimized view stays enabled.
RemoveViewShown(s, w) ==
  LET left == {v \in DOMAIN s.data : v # w}
  IN [s EXCEPT !.data = [v \in left |-> s.data[v]], !.was = @ \ {w}, !.moving = @ \ {w},
               !.dark = @ \cup (HiddenViews(s) \cap {w}),
               !.focus = IF @ = w THEN NoScaleView ELSE @]

(* remove_view(): the view keeps its connection to geometry changes, and   *)
(* stays hidden if it was.                                                 *)
RemoveView(s, w) ==
  LET left == {v \in DOMAIN s.data : v # w}
  IN AddTo([s EXCEPT !.data = [v \in left |-> s.data[v]], !.was = @ \ {w}, !.moving = @ \ {w},
                     !.dark = @ \cup (HiddenViews(s) \cap {w}),
                     !.focus = IF @ = w THEN NoScaleView ELSE @],
           s.was \cap {w}, "root", -1)

HandleUnmapped(s, w) ==
  LET r == RemoveView(s, w) IN IF DOMAIN r.data = {} THEN Finalize(r) ELSE LayoutSlots(r)
--------------------------------------------------------------------------------
(* handle_toggle(), switch_scale_modes() and activate().  active: the view *)
(* that is active on the output.                                           *)
Activated(s, view) ==
  LET focus == IF view \in GetViews(s) THEN view ELSE NoScaleView
  IN [LayoutSlots([s EXCEPT !.active = TRUE, !.focus = focus])
        EXCEPT !.sigs = TRUE]

Toggle(all, view, next) ==
  LET s == scale
      switched == [s EXCEPT !.all = all]
      same == AllViews(s) = CurrentViews(s) \/ all = s.all
  IN scale' = CASE s.active /\ same -> Deactivate(s, next)
                [] s.active /\ ~same /\ (all \/ \E v \in DOMAIN s.data : v \notin GetViews(switched)) ->
                     LayoutSlots([switched EXCEPT !.moving = DOMAIN s.data])
                [] ~s.active /\ GetViews(switched) # {} -> Activated(switched, view)
                [] OTHER -> switched

ScaleToggle ==
  \E all \in BOOLEAN, view \in ScaleViews \cup {NoScaleView}, next \in CurrentViews(scale) \cup {NoScaleView} :
    /\ view # NoScaleView => scale.v[view].mapped /\ scale.v[view].here /\ ~scale.v[view].minimized
    /\ (next = NoScaleView) = (CurrentViews(scale) = {})
    /\ Toggle(all, view, next)

(* A click on a view, Enter, Esc and the arrow keys.                       *)
ScaleClick(v) ==
  /\ scale.active /\ v \in GetViews(scale) \cap DOMAIN scale.data /\ scale.v[v].node > 0
  /\ scale' = Deactivate([scale EXCEPT !.focus = v], NoScaleView)

ScaleEnter(next) ==
  /\ scale.active /\ scale' = Deactivate(scale, next)

(* Back to the view and the workspace where scale began.                   *)
ScaleEscape(next, first, from) ==
  /\ scale.active
  /\ scale' = FocusRaise([Deactivate(scale, next) EXCEPT !.cur = from], first)

ScaleArrow(v) ==
  /\ scale.active /\ v \in GetViews(scale) \cap DOMAIN scale.data
  /\ scale' = [scale EXCEPT !.focus = v, !.moving = DOMAIN scale.data,
                            !.recent = <<v>> \o SelectSeq(@, LAMBDA u : u # v)]

(* The pointer drags a view, and drops it where it was.                    *)
ScaleDrag ==
  /\ scale.active /\ ~scale.drag /\ DOMAIN scale.data # {}
  /\ scale' = [scale EXCEPT !.drag = TRUE]

ScaleDrop ==
  /\ scale.drag
  /\ LET s == [scale EXCEPT !.drag = FALSE] IN scale' = IF s.active THEN LayoutSlots(s) ELSE s

(* pre_hook and post_hook: animations end; the last one on the way out     *)
(* ends scale.                                                             *)
ScaleFrame(ended) ==
  LET hidden == {v \in ended : scale.data[v] = "hiding"}
      s == AddTo([scale EXCEPT !.moving = @ \ ended,
                               !.data = [v \in DOMAIN scale.data |-> IF v \in hidden THEN "hidden" ELSE scale.data[v]]],
                 hidden, "node", -1)
  IN /\ scale.hook /\ ended \subseteq scale.moving
     /\ scale' = IF ~s.active /\ s.moving = {} THEN Finalize(s) ELSE s

(* Another plugin, the session lock or the end of the output.              *)
ScaleCancel == scale.active /\ scale' = Finalize(scale)

(* scale_update_signal, and a new workarea or zoom option.                 *)
ScaleRearrange == scale.active /\ scale' = LayoutSlots(scale)

(* A key changes the filter; the update comes in an idle callback.         *)
ScaleType(hides) ==
  /\ scale.typing /\ scale' = [scale EXCEPT !.filter = hides]
--------------------------------------------------------------------------------
(* The views and the workspace change under scale.                         *)
ScaleMap(v, ws, close, focused) ==
  /\ ~scale.v[v].mapped
  /\ LET others == SelectSeq(scale.recent, LAMBDA u : u # v)
         s == AddTo([scale EXCEPT !.v[v].mapped = TRUE, !.v[v].here = TRUE, !.v[v].ws = ws,
                       !.recent = IF focused THEN <<v>> \o others ELSE Append(others, v)], {v}, "root", 1)
     IN scale' = IF ~s.sigs \/ v \notin GetViews(s) THEN s
                 ELSE IF close THEN Deactivate(s, NoScaleView) ELSE LayoutSlots(s)

ScaleUnmap(v) ==
  /\ scale.v[v].mapped
  /\ LET s == AddTo([scale EXCEPT !.v[v].mapped = FALSE, !.recent = SelectSeq(@, LAMBDA u : u # v)],
                    {v}, "root", -1)
     IN scale' = IF v \in DOMAIN s.data THEN HandleUnmapped(s, v) ELSE s

ScaleLeave(v) ==
  /\ scale.v[v].mapped /\ scale.v[v].here
  /\ scale' = HandleUnmapped([scale EXCEPT !.v[v].here = FALSE], v)

ScaleArrive(v) ==
  /\ scale.v[v].mapped /\ ~scale.v[v].here
  /\ LET s == [scale EXCEPT !.v[v].here = TRUE]
     IN scale' = IF s.active /\ v \in GetViews(s) THEN LayoutSlots(s) ELSE s

ScaleMinimize(v) ==
  /\ scale.v[v].mapped /\ ~scale.v[v].minimized
  /\ LET s == AddTo([scale EXCEPT !.v[v].minimized = TRUE], {v}, "root", -1)
         seen == s.sigs /\ s.v[v].here /\ IncludeMinimized /\ v \in DOMAIN s.data
     IN scale' = IF ~seen THEN s
                 ELSE AddTo([s EXCEPT !.was = @ \cup {v}, !.moving = @ \cup {v}], {v} \ s.was, "root", 1)

ScaleRestore(v) ==
  /\ scale.v[v].mapped /\ scale.v[v].minimized
  /\ LET s == AddTo([scale EXCEPT !.v[v].minimized = FALSE], {v}, "root", 1)
     IN scale' = IF s.sigs /\ s.v[v].here THEN LayoutSlots(s) ELSE s

(* view_geometry_changed: the view may be on another workspace now.        *)
ScaleGeometry(v, ws) ==
  /\ scale.v[v].mapped /\ scale.v[v].here
  /\ LET s == [scale EXCEPT !.v[v].ws = ws]
     IN scale' = IF v \notin s.geo THEN s
                 ELSE IF GetViews(s) = {} THEN Deactivate(s, NoScaleView) ELSE LayoutSlots(s)

ScaleWorkspace(ws) ==
  /\ scale.cur # ws
  /\ LET s == [scale EXCEPT !.cur = ws]
     IN scale' = IF s.sigs THEN LayoutSlots(FocusRaise(s, s.focus)) ELSE s

ScaleNext ==
  \/ ScaleToggle
  \/ \E next \in CurrentViews(scale) \cup {NoScaleView} :
       /\ (next = NoScaleView) = (CurrentViews(scale) = {})
       /\ \/ ScaleEnter(next)
          \/ \E first \in ScaleViews \cup {NoScaleView}, from \in ScaleGrid : ScaleEscape(next, first, from)
  \/ ScaleDrag \/ ScaleDrop \/ ScaleCancel \/ ScaleRearrange
  \/ \E ended \in SUBSET scale.moving : ScaleFrame(ended)
  \/ \E hides \in SUBSET ScaleViews : ScaleType(hides)
  \/ \E v \in ScaleViews :
       \/ ScaleClick(v) \/ ScaleArrow(v)
       \/ ScaleUnmap(v) \/ ScaleLeave(v) \/ ScaleArrive(v) \/ ScaleMinimize(v) \/ ScaleRestore(v)
       \/ \E ws \in ScaleGrid : ScaleGeometry(v, ws) \/ \E close, focused \in BOOLEAN : ScaleMap(v, ws, close, focused)
  \/ \E ws \in ScaleGrid : ScaleWorkspace(ws)
--------------------------------------------------------------------------------
One(P) == IF P THEN 1 ELSE 0

(* Scale undoes what it does to the views, however it ends and whatever    *)
(* the views do meanwhile: a root node is enabled once by its view and     *)
(* once more by scale, a transformed node is disabled only while the       *)
(* filter hides the view (but see dark), and nothing is kept when neither  *)
(* scale nor its animation runs.                                           *)
ScaleUndoes ==
  /\ ~scale.bad
  /\ scale.sigs = scale.active
  /\ ~scale.hook => ~scale.active /\ DOMAIN scale.data = {}
  /\ \A v \in ScaleViews :
       /\ scale.v[v].root = One(scale.v[v].mapped) - One(scale.v[v].minimized) + One(v \in scale.was)
       /\ v \in scale.dark \/ scale.v[v].node = 1 - One(v \in HiddenViews(scale))
================================================================================

-------------------------------- MODULE Switcher --------------------------------
(***************************************************************************)
(* The two plugins that switch between views while a modifier is held:     *)
(* switcher.cpp, which shows thumbnails in three slots, and                *)
(* fast-switcher.cpp, which makes all views but one translucent.  One      *)
(* output and its views; both manage the compositor, so that only one of   *)
(* them is active.                                                         *)
(*                                                                         *)
(* A view node is enabled while a counter is positive: root is the counter *)
(* of the view's root node.  Left out: where the thumbnails are, dialogs,  *)
(* and the background.                                                     *)
(***************************************************************************)
EXTENDS Integers, FiniteSets, SequencesExt

CONSTANT SwitchViews

ASSUME SwitcherAssumption == IsFiniteSet(SwitchViews)

VARIABLES
  sw,  \* switcher
  fs,  \* fast-switcher
  swv  \* view -> [mapped, minimized, place, root]

switchVars == <<sw, fs, swv>>

LeftSlot == 0
Center == 1
RightSlot == 2
Expired(pos) == pos < LeftSlot \/ pos > RightSlot

(***************************************************************************)
(* switcher: plugin (initialized), active, grab and views, a sequence of   *)
(* thumbnails [view, pos]; tr: the views with its transformer, shown: the  *)
(* minimized ones it enabled.  ring and lost are history: the views it     *)
(* arranged, and those that went to another output with a transformer.     *)
(***************************************************************************)
NoSwitcher == [plugin |-> FALSE, active |-> FALSE, grab |-> FALSE, views |-> <<>>,
               tr |-> {}, shown |-> {}, ring |-> {}, lost |-> {}]

(* fast-switcher: the views it switches between, the one chosen, those     *)
(* with its transformer and those that are opaque; lost: those that left   *)
(* the list with a transformer, which nobody takes from them.              *)
NoFast == [active |-> FALSE, views |-> <<>>, index |-> 1, tr |-> {}, opaque |-> {}, lost |-> {}]

SwitchInit ==
  /\ sw = NoSwitcher /\ fs = NoFast
  /\ swv = [v \in SwitchViews |-> [mapped |-> FALSE, minimized |-> FALSE, place |-> "here", root |-> 0]]

(* A view is on the current workspace of the output, on another one of     *)
(* them or on another output.                                              *)
Places == {"here", "beside", "away"}
OnWorkspace(vs) == {v \in SwitchViews : vs[v].mapped /\ vs[v].place = "here"}
Distinct(list) == {list[i].view : i \in DOMAIN list}
Thumb(v, pos) == [view |-> v, pos |-> pos]
Fresh(list) == SelectSeq(list, LAMBDA t : ~Expired(t.pos))       \* cleanup_expired()
InSlot(list, slot) == {i \in DOMAIN list : list[i].pos = slot}
FirstOf(S) == IF S = {} THEN {} ELSE {CHOOSE i \in S : \A j \in S : i <= j}
LastOf(S) == IF S = {} THEN {} ELSE {CHOOSE i \in S : \A j \in S : i >= j}

(* rebuild_view_list(): the center, then the slots, then what expires.     *)
Rebuilt(list) ==
  LET In(p) == SelectSeq(list, LAMBDA t : t.pos = p)
  IN In(Center) \o In(LeftSlot) \o In(RightSlot) \o In(LeftSlot - 1) \o In(RightSlot + 1)

(* fill_empty_slot(): the last thumbnail of the full slot expires, and a   *)
(* new one takes the empty slot; with two views it shows the unfocused one.*)
Filled(list, empty) ==
  LET full == 2 - empty
      last == LastOf(InSlot(list, full))
      moved == [i \in DOMAIN list |-> IF i \in last THEN [list[i] EXCEPT !.pos = full + (full - 1)] ELSE list[i]]
      unfocused == FirstOf({i \in DOMAIN list : ~Expired(moved[i].pos) /\ moved[i].pos # Center})
      source == IF Cardinality(Distinct(list)) = 2 THEN unfocused ELSE last
  IN IF source = {} THEN <<>> ELSE Append(moved, Thumb(moved[CHOOSE i \in source : TRUE].view, empty))

\* Mutant of NextView: an empty slot is filled only if there are three views.
NextViewSparse(list, dir) ==
  LET fresh == Fresh(list)
      go == FirstOf(InSlot(fresh, Center)) \cup FirstOf(InSlot(fresh, Center - dir))
      moved == [i \in DOMAIN fresh |-> IF i \in go THEN [fresh[i] EXCEPT !.pos = @ + dir] ELSE fresh[i]]
      oneSided == (InSlot(moved, LeftSlot) = {}) # (InSlot(moved, RightSlot) = {})
  IN IF Cardinality(Distinct(fresh)) <= 1 THEN fresh
     ELSE Rebuilt(IF oneSided /\ Cardinality(Distinct(fresh)) > 2 THEN Filled(moved, Center - dir) ELSE moved)

(* next_view(): the topmost of the center and of one slot move on.         *)
NextView(list, dir) ==
  LET fresh == Fresh(list)
      go == FirstOf(InSlot(fresh, Center)) \cup FirstOf(InSlot(fresh, Center - dir))
      moved == [i \in DOMAIN fresh |-> IF i \in go THEN [fresh[i] EXCEPT !.pos = @ + dir] ELSE fresh[i]]
      oneSided == (InSlot(moved, LeftSlot) = {}) # (InSlot(moved, RightSlot) = {})
  IN IF Cardinality(Distinct(fresh)) <= 1 THEN fresh
     ELSE Rebuilt(IF oneSided THEN Filled(moved, Center - dir) ELSE moved)

(* arrange(), for the views in the order they were focused; with two, the  *)
(* last one of the workspace set is there twice.                           *)
Arranged(order, twice) ==
  LET all == IF Len(order) = 2 THEN Append(order, twice) ELSE order
  IN NextView([i \in DOMAIN all |->
       Thumb(all[i], IF i = 1 THEN Center ELSE IF i = Len(all) THEN LeftSlot ELSE RightSlot)], -1)

(* create_switcher_view() for each of them, from the moment it is arranged.*)
Arrange(s, vs, order, twice) ==
  LET new == OnWorkspace(vs) \ s.tr
  IN [s EXCEPT !.views = IF order = <<>> THEN <<>> ELSE Arranged(order, twice),
               !.ring = OnWorkspace(vs), !.tr = @ \cup new,
               !.shown = @ \cup {v \in new : vs[v].minimized}]

Orders(S) == {f \in [1..Cardinality(S) -> S] : \A i, j \in DOMAIN f : i # j => f[i] # f[j]}

RootsAfter(vs, more, less) ==
  [v \in SwitchViews |-> [vs[v] EXCEPT !.root = @ + (IF v \in more THEN 1 ELSE 0) - (IF v \in less THEN 1 ELSE 0)]]

(* focus_raise_view() restores a minimized view.                           *)
Raised(vs, v) ==
  IF vs[v].mapped /\ vs[v].minimized THEN RootsAfter([vs EXCEPT ![v].minimized = FALSE], {v}, {}) ELSE vs

(* handle_switch_request(): also during the exit animation.                *)
SwitchRequest(dir) ==
  /\ OnWorkspace(swv) # {} /\ ~fs.active
  /\ IF sw.active
     THEN sw' = [sw EXCEPT !.views = NextView(@, dir), !.plugin = TRUE] /\ UNCHANGED swv
     ELSE \E order \in Orders(OnWorkspace(swv)), twice \in OnWorkspace(swv) :
            /\ sw' = Arrange([sw EXCEPT !.plugin = TRUE, !.active = TRUE, !.grab = TRUE], swv, order, twice)
            /\ swv' = RootsAfter(swv, sw'.shown \ sw.shown, {})
  /\ UNCHANGED fs

(* handle_done(): a modifier is released.                                  *)
SwitchDone ==
  /\ sw.grab
  /\ sw' = [sw EXCEPT !.views = Fresh(@), !.active = FALSE, !.grab = FALSE]
  /\ swv' = IF Fresh(sw.views) = <<>> THEN swv ELSE Raised(swv, Fresh(sw.views)[1].view)
  /\ UNCHANGED fs

\* Mutant of Deinit: minimized views stay enabled.
DeinitShown(s) ==
  LET left == {v \in s.tr : swv[v].place = "away"}
  IN [s EXCEPT !.plugin = FALSE, !.views = <<>>, !.ring = {}, !.tr = left, !.lost = left]

(* deinit_switcher(), for the views of the output's workspace set.         *)
Deinit(s) ==
  LET left == {v \in s.tr : swv[v].place = "away"}
  IN [s EXCEPT !.plugin = FALSE, !.views = <<>>, !.ring = {}, !.tr = left, !.lost = left,
               !.shown = @ \cap left]

(* pre_hook, once the animation has ended.                                 *)
SwitchFrame ==
  /\ sw.plugin
  /\ LET s == [sw EXCEPT !.views = Fresh(@)]
     IN sw' = IF sw.active THEN s ELSE Deinit(s)
  /\ swv' = RootsAfter(swv, {}, sw.shown \ sw'.shown)
  /\ UNCHANGED fs

(* cancel is deinit_switcher(): neither active nor the grab is touched.    *)
SwitchCancel ==
  /\ sw.plugin
  /\ sw' = Deinit(sw) /\ swv' = RootsAfter(swv, {}, sw.shown \ sw'.shown) /\ UNCHANGED fs
--------------------------------------------------------------------------------
FastViews == {v \in OnWorkspace(swv) : ~swv[v].minimized}

(* view_chosen(): a view that is not there is not chosen.                  *)
Chosen(f, i) ==
  IF i \notin DOMAIN f.views THEN f
  ELSE [f EXCEPT !.index = i, !.tr = @ \cup {f.views[i]}, !.opaque = @ \cup {f.views[i]}]

(* switch_next(), after the last view is made translucent.                 *)
FastNext(f, forward) ==
  LET n == Len(f.views)
      i == IF forward THEN (f.index % n) + 1 ELSE IF f.index > 1 THEN f.index - 1 ELSE n
  IN Chosen([f EXCEPT !.opaque = @ \ {f.views[f.index]}], i)

FastSwitch(forward) ==
  /\ IF fs.active THEN fs' = FastNext(fs, forward)
     ELSE /\ ~sw.plugin /\ FastViews # {}
          /\ \E order \in Orders(FastViews) :
               fs' = FastNext([fs EXCEPT !.active = TRUE, !.views = order, !.index = 1,
                                         !.tr = @ \cup FastViews, !.opaque = {}], forward)
  /\ UNCHANGED <<sw, swv>>

(* switch_terminate(): by a release, a cancel or the last view's end.      *)
Terminated(f) ==
  LET ch == Chosen(f, f.index)
  IN [ch EXCEPT !.active = FALSE, !.views = <<>>, !.index = 1, !.opaque = {},
                !.lost = @ \ ToSet(f.views), !.tr = @ \ ToSet(f.views)]

FastDone ==
  /\ fs.active /\ fs' = Terminated(fs) /\ UNCHANGED <<sw, swv>>

\* Mutant of FastWithout: the index is not moved with the views.
FastWithoutIndex(f, v) ==
  LET i == CHOOSE j \in DOMAIN f.views : f.views[j] = v
      left == [f EXCEPT !.views = RemoveAt(@, i), !.opaque = @ \ {v}, !.lost = @ \cup {v}]
  IN IF v \notin ToSet(f.views) THEN f
     ELSE IF left.views = <<>> THEN Terminated(left)
     ELSE IF i = f.index THEN Chosen(left, ((f.index + Len(left.views) - 2) % Len(left.views)) + 1) ELSE left

(* cleanup_view, of a view that has disappeared.                           *)
FastWithout(f, v) ==
  LET i == CHOOSE j \in DOMAIN f.views : f.views[j] = v
      left == [f EXCEPT !.views = RemoveAt(@, i), !.opaque = @ \ {v}, !.lost = @ \cup {v}]
  IN IF v \notin ToSet(f.views) THEN f
     ELSE IF left.views = <<>> THEN Terminated(left)
     ELSE IF i <= f.index THEN Chosen(left, ((f.index + Len(left.views) - 2) % Len(left.views)) + 1) ELSE left
--------------------------------------------------------------------------------
(* view_disappeared: handle_view_removed() and cleanup_view.               *)
Disappeared(v, vs) ==
  /\ fs' = IF fs.active THEN FastWithout(fs, v) ELSE fs
  /\ IF ~sw.plugin \/ v \notin Distinct(sw.views) THEN sw' = sw /\ swv' = vs
     ELSE IF ~sw.active THEN sw' = [sw EXCEPT !.views = SelectSeq(@, LAMBDA t : t.view # v)] /\ swv' = vs
     ELSE \E order \in Orders(OnWorkspace(vs)), twice \in SwitchViews :
            /\ twice \in OnWorkspace(vs) \/ OnWorkspace(vs) = {}
            /\ sw' = Arrange(sw, vs, order, twice)
            /\ swv' = RootsAfter(vs, sw'.shown \ sw.shown, {})

SwitchMap(v) ==
  /\ ~swv[v].mapped
  /\ swv' = RootsAfter([swv EXCEPT ![v].mapped = TRUE], {v}, {})
  /\ UNCHANGED <<sw, fs>>

SwitchUnmap(v) ==
  /\ swv[v].mapped /\ Disappeared(v, RootsAfter([swv EXCEPT ![v].mapped = FALSE], {}, {v}))

SwitchMinimize(v) ==
  /\ swv[v].mapped /\ ~swv[v].minimized
  /\ Disappeared(v, RootsAfter([swv EXCEPT ![v].minimized = TRUE], {}, {v}))

(* To another workspace, which nobody tells the switchers, or output.      *)
SwitchMove(v, place) ==
  /\ swv[v].mapped /\ swv[v].place # place
  /\ LET moved == [swv EXCEPT ![v].place = place]
     IN IF place = "away" THEN Disappeared(v, moved) ELSE swv' = moved /\ UNCHANGED <<sw, fs>>

SwitchRestore(v) ==
  /\ swv[v].mapped /\ swv[v].minimized /\ swv' = Raised(swv, v) /\ UNCHANGED <<sw, fs>>

SwitchNext ==
  \/ \E dir \in {-1, 1} : SwitchRequest(dir)
  \/ SwitchDone \/ SwitchFrame \/ SwitchCancel \/ FastDone
  \/ \E forward \in BOOLEAN : FastSwitch(forward)
  \/ \E v \in SwitchViews :
       \/ SwitchMap(v) \/ SwitchUnmap(v) \/ SwitchMinimize(v) \/ SwitchRestore(v)
       \/ \E place \in Places : SwitchMove(v, place)
--------------------------------------------------------------------------------
(* The carousel never loses a view: in whatever order the user turns it,   *)
(* every view it arranged has a thumbnail, one view is in the center, in   *)
(* front of all, and what is drawn has a transformer.                      *)
RingWhole ==
  /\ sw.plugin /\ sw.active => Distinct(Fresh(sw.views)) = sw.ring
  /\ sw.active /\ sw.views # <<>> => InSlot(sw.views, Center) = {1}
  /\ Distinct(sw.views) \subseteq sw.tr

(* The switchers undo what they did to the views that are still there:     *)
(* transformers are removed, and a root node is enabled once by its view   *)
(* and once more by the switcher.  While it runs, the fast switcher points *)
(* at a view of its list, and just that view is opaque.                    *)
SwitchersUndo ==
  /\ ~sw.plugin => sw.tr \cup sw.shown \subseteq sw.lost
  /\ ~fs.active => fs.tr \subseteq fs.lost
  /\ fs.active => fs.index \in DOMAIN fs.views /\ fs.opaque = {fs.views[fs.index]}
  /\ \A v \in SwitchViews :
       swv[v].root = Cardinality({f \in {"mapped"} : swv[v][f]}) - Cardinality({f \in {"minimized"} : swv[v][f]})
                     + Cardinality({v} \cap sw.shown)
================================================================================

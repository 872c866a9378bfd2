------------------------------- MODULE SeatFocus -------------------------------
(***************************************************************************)
(* Which node has the keyboard focus of the seat, and which view is active *)
(* (src/src/core/seat/seat.cpp): views, layer surfaces, plugin grabs and   *)
(* lock screens offer themselves in a refocus, and the window manager      *)
(* (window-manager.cpp) gives the focus on request.                        *)
(*                                                                         *)
(* Handlers call each other with the seat half changed, so that each is an *)
(* operator from a state to a state.  A lock screen is known by its        *)
(* output.  A view that is unmapped is destroyed.  Of an output with two   *)
(* workspaces, a view is "here" on the one shown or on the other, and its  *)
(* "edge" may reach over.  Left out: dialogs, and the popups that grab the *)
(* keyboard.                                                               *)
(***************************************************************************)
EXTENDS Integers, Sequences, FiniteSets, SequencesExt

CONSTANTS
  SeatOutputs,   \* outputs, and the lock screens on them
  SeatViews,     \* toplevels
  Bars,          \* layer surfaces
  Grab,          \* the node of a plugin that grabs input
  Nothing        \* no node, view or output

ASSUME SeatFocusAssumption ==
  /\ Nothing \notin SeatOutputs \cup SeatViews \cup Bars \cup {Grab}
  /\ Grab \notin SeatOutputs \cup SeatViews \cup Bars
  /\ SeatOutputs \cap SeatViews = {} /\ SeatOutputs \cap Bars = {} /\ SeatViews \cap Bars = {}
  /\ "never" \notin SeatOutputs \cup SeatViews \cup Bars \cup {Nothing}
  /\ IsFiniteSet(SeatOutputs) /\ IsFiniteSet(Bars)

VARIABLE seat

NoSeatView == [mapped |-> FALSE, minimized |-> FALSE, out |-> Nothing, here |-> FALSE, edge |-> FALSE]
NoBar == [mapped |-> FALSE, mode |-> "none", top |-> FALSE, out |-> Nothing]

(* Of a sequence that holds everything once.                               *)
Without(s, x) == IF x \in ToSet(s) THEN RemoveAt(s, CHOOSE i \in DOMAIN s : s[i] = x) ELSE s

Folded(Change(_, _), s, seq) ==
  LET upTo[i \in 0..Len(seq)] == IF i = 0 THEN s ELSE Change(upTo[i - 1], seq[i]) IN upTo[Len(seq)]

-----------------------------------------------------------------------------
(* What offers itself: keyboard_refocus() of the nodes.                    *)

(* keyboard_focus_node_t::importance, 0 for a node that declines.          *)
ImportanceOf(s, n) ==
  CASE n \in SeatOutputs ->
         IF n \in s.locked /\ n = s.output THEN 3 ELSE 0
    [] n = Grab ->
         IF s.grab # Nothing /\ s.grab = s.output THEN 2 ELSE 0
    [] n \in Bars ->
         IF ~s.bar[n].mapped \/ s.bar[n].mode = "none" THEN 0
         ELSE IF s.bar[n].mode = "exclusive" THEN 3
         ELSE IF s.bar[n].out = s.output /\ (s.focus = n \/ s.newest \in {n, "never"}) THEN 2
         ELSE 0
    [] n \in SeatViews ->
         IF ~s.view[n].mapped \/ s.view[n].minimized \/ s.view[n].out # s.output THEN 0
         ELSE IF s.view[n].here THEN 2
         ELSE IF s.view[n].edge THEN 1
         ELSE 0
    [] OTHER -> 0

(* Mutant: what grabs input lets what is below it offer itself.            *)
BlocksBars(s, n) == n \in Bars /\ s.bar[n].mode = "exclusive"

(* ~allow_focus_below, of a node that does not decline                     *)
Blocks(s, n) == n \in SeatOutputs \cup {Grab} \/ (n \in Bars /\ s.bar[n].mode = "exclusive")

(* last_focus_timestamp, 0 before the node was ever focused                *)
StampOf(s, n) ==
  IF n \in ToSet(s.recent) THEN 1 + Len(s.recent) - (CHOOSE i \in DOMAIN s.recent : s.recent[i] = n) ELSE 0

(* The scenegraph, front first, without the lock screens of other outputs; *)
(* nothing stands where there is a layer surface of the other level.       *)
Level(s, top) == [i \in DOMAIN s.bars |-> IF s.bar[s.bars[i]].top = top THEN s.bars[i] ELSE Nothing]
Scene(s) == <<s.output, Grab>> \o Level(s, TRUE) \o s.stack \o Level(s, FALSE)

(* keyboard_refocus(): the first of the most important nodes focused last, *)
(* of those that nothing above them blocks                                 *)
Preferred(s, r, n) ==
  LET importance == ImportanceOf(s, n)  stamp == StampOf(s, n) IN
  IF ~r.below \/ importance = 0 THEN r
  ELSE IF importance > r.importance \/ (importance = r.importance /\ stamp > r.stamp)
  THEN [node |-> n, importance |-> importance, stamp |-> stamp, below |-> ~Blocks(s, n)]
  ELSE [r EXCEPT !.below = ~Blocks(s, n)]

Best(s) ==
  Folded(LAMBDA r, n : Preferred(s, r, n),
         [node |-> Nothing, importance |-> 0, stamp |-> 0, below |-> TRUE], Scene(s)).node

-----------------------------------------------------------------------------
(* The seat.                                                               *)

(* Mutant: the toplevel that was active stays activated.                   *)
update_active_viewToo(s, v) ==
  IF v = s.active \/ v \in Bars \/ v = s.toplevel THEN [s EXCEPT !.active = v]
  ELSE [s EXCEPT !.active = v, !.toplevel = v, !.activated = @ \cup ({v} \cap SeatViews)]

update_active_view(s, v) ==
  IF v = s.active THEN s
  ELSE IF v \in Bars \/ v = s.toplevel THEN [s EXCEPT !.active = v]
  ELSE [s EXCEPT !.active = v, !.toplevel = v,
                 !.activated = (@ \ {s.toplevel}) \cup ({v} \cap SeatViews)]

refocus(s) ==
  LET n == Best(s)
      t == IF n \in SeatViews \cup Bars \cup {Nothing} THEN update_active_view(s, n) ELSE s
  IN [t EXCEPT !.focus = n, !.unseen = FALSE]

Stamped(s, n) ==
  IF n = Nothing THEN s
  ELSE IF n \in SeatOutputs THEN [s EXCEPT !.newest = Nothing]
  ELSE [s EXCEPT !.recent = <<n>> \o Without(@, n), !.newest = IF n \in Bars THEN n ELSE Nothing]

set_active_node(s, n) ==
  LET t == Stamped(s, n) IN [t EXCEPT !.focus = Best(t)]

focus_output(s, o) == IF s.output = o THEN s ELSE refocus([s EXCEPT !.output = o])

Focusable(s, v) ==
  IF v \in Bars THEN s.bar[v].mapped /\ s.bar[v].mode # "none" ELSE v # Nothing /\ s.view[v].mapped

focus_view(s, v) ==
  LET w == IF Focusable(s, v) THEN v ELSE Nothing
  IN [set_active_node(update_active_view(s, w), w) EXCEPT !.unseen = FALSE]

-----------------------------------------------------------------------------
(* The window manager.                                                     *)

view_bring_to_front(s, v) == [s EXCEPT !.stack = <<v>> \o Without(@, v)]

SwitchWorkspace(s, o) ==
  LET views == [v \in SeatViews |-> IF s.view[v].mapped /\ s.view[v].out = o
                                    THEN [s.view[v] EXCEPT !.here = ~@] ELSE s.view[v]]
  IN refocus([s EXCEPT !.view = views])

ensure_visible(s, v) == IF s.view[v].here THEN s ELSE SwitchWorkspace(s, s.view[v].out)

(* Mutant: a minimized view is forgotten only by the next refocus.         *)
minimize_requestLater(s, v, state) ==
  IF state THEN [s EXCEPT !.view[v].minimized = TRUE]
  ELSE focus_view(view_bring_to_front([s EXCEPT !.view[v].minimized = FALSE], v), v)

minimize_request(s, v, state) ==
  IF s.view[v].minimized = state \/ ~s.view[v].mapped THEN s
  ELSE LET t == [s EXCEPT !.view[v].minimized = state]
       IN IF state THEN refocus(t) ELSE focus_view(view_bring_to_front(t, v), v)

focus_raise_view(s, v, allow_switch_ws) ==
  LET r == minimize_request(s, v, FALSE)
      t == view_bring_to_front(IF allow_switch_ws THEN ensure_visible(r, v) ELSE r, v)
  IN focus_view(focus_output(t, s.view[v].out), v)

(* A view leaves its output where it was seen, or somewhere else; only     *)
(* after it was focused is it put where it can be seen.                    *)
move_view_to_output(s, v, o) ==
  LET r == refocus([view_bring_to_front(s, v) EXCEPT !.view[v] = [@ EXCEPT !.out = o, !.edge = FALSE]])
      t == IF o = r.output THEN focus_view(r, v) ELSE r
  IN [t EXCEPT !.view[v].here = TRUE, !.unseen = @ \/ (~s.view[v].here /\ o = t.output)]

(* The objects of a node are freed: whoever refers to it refers to nothing.*)
Freed(s, n) ==
  [s EXCEPT !.recent = Without(@, n), !.stack = Without(@, n), !.bars = Without(@, n),
            !.newest = IF @ = n THEN Nothing ELSE @,
            !.active = IF @ = n THEN Nothing ELSE @,
            !.toplevel = IF @ = n THEN Nothing ELSE @,
            !.activated = @ \ {n}]

-----------------------------------------------------------------------------
SeatFocusInit ==
  \E o \in SeatOutputs :
    seat = [output |-> o, present |-> SeatOutputs, focus |-> Nothing, active |-> Nothing, toplevel |-> Nothing,
            activated |-> {}, recent |-> <<>>, newest |-> "never", stack |-> <<>>, bars |-> <<>>,
            grab |-> Nothing, locked |-> {}, view |-> [v \in SeatViews |-> NoSeatView],
            bar |-> [b \in Bars |-> NoBar], unseen |-> FALSE]

(* A view is made on the active output, and mapped later.                  *)
CreateView(v) ==
  /\ seat.view[v].out = Nothing
  /\ seat' = [seat EXCEPT !.view[v] = [NoSeatView EXCEPT !.out = seat.output]]

MapView(v) ==
  LET o == seat.view[v].out IN
  /\ o # Nothing /\ ~seat.view[v].mapped
  /\ \E here, edge \in BOOLEAN :
       seat' = focus_raise_view(view_bring_to_front(
                 [seat EXCEPT !.view[v] = [@ EXCEPT !.mapped = TRUE, !.here = here, !.edge = edge]], v), v, TRUE)

UnmapView(v) ==
  /\ seat.view[v].mapped
  /\ seat' = Freed(refocus([seat EXCEPT !.view[v] = NoSeatView]), v)

(* By the client, a taskbar or the IPC, or by a click or a plugin, which   *)
(* does not switch the workspace.                                          *)
FocusRequest(v) ==
  /\ seat.view[v].mapped
  /\ \E allow_switch_ws \in BOOLEAN : seat' = focus_raise_view(seat, v, allow_switch_ws)

(* focus_raise_view(nullptr): a click on nothing                           *)
FocusNothing == seat' = focus_view(seat, Nothing)

Minimize(v) ==
  /\ seat.view[v].mapped
  /\ \E state \in BOOLEAN : seat' = minimize_request(seat, v, state)

(* A view is dragged within its output.                                    *)
MoveView(v) ==
  /\ seat.view[v].mapped
  /\ \E here, edge \in BOOLEAN :
       seat' = [seat EXCEPT !.view[v] = [@ EXCEPT !.here = here, !.edge = edge], !.unseen = TRUE]

MoveToOutput(v) ==
  /\ seat.view[v].mapped
  /\ \E o \in seat.present \ {seat.view[v].out} : seat' = move_view_to_output(seat, v, o)

(* The pointer or a finger goes to an output, or a plugin focuses it.      *)
FocusOutput == \E o \in seat.present : seat' = focus_output(seat, o)

Switch == \E o \in seat.present : seat' = SwitchWorkspace(seat, o)

MapBar(b) ==
  /\ ~seat.bar[b].mapped
  /\ \E o \in seat.present, mode \in {"none", "exclusive", "demand"}, top \in BOOLEAN :
       LET s == [seat EXCEPT !.bars = <<b>> \o @,
                   !.bar[b] = [mapped |-> TRUE, mode |-> mode, top |-> top, out |-> o]]
       IN seat' = IF mode # "none" /\ top THEN focus_view(s, b) ELSE [s EXCEPT !.unseen = @ \/ mode # "none"]

CommitBar(b) ==
  /\ seat.bar[b].mapped
  /\ \E mode \in {"none", "exclusive", "demand"}, top \in BOOLEAN :
       LET bar == [seat.bar[b] EXCEPT !.mode = mode, !.top = top]
           bars == IF top # seat.bar[b].top THEN <<b>> \o Without(seat.bars, b) ELSE seat.bars
           s == [seat EXCEPT !.bar[b] = bar, !.bars = bars]
           changed == mode # seat.bar[b].mode
       IN seat' = IF changed /\ mode = "exclusive" /\ top THEN focus_view(s, b)
                  ELSE IF changed /\ mode = "none" THEN refocus(s)
                  ELSE [s EXCEPT !.unseen = @ \/ changed \/ top # seat.bar[b].top]

Unmapped(s, b) == Freed(refocus([s EXCEPT !.bar[b] = NoBar]), b)

UnmapBar(b) ==
  /\ seat.bar[b].mapped
  /\ seat' = Unmapped(seat, b)

(* input_grab_t::grab_input(), with seat_t::impl::transfer_grab()          *)
StartSeatGrab ==
  /\ seat.grab = Nothing
  /\ \E o \in seat.present :
       LET s == [seat EXCEPT !.grab = o]
       IN seat' = refocus(IF o = s.output THEN [s EXCEPT !.focus = Grab] ELSE s)

(* Mutant: the end of a grab does not refocus.                             *)
EndSeatGrabKeep ==
  /\ seat.grab # Nothing
  /\ seat' = [seat EXCEPT !.grab = Nothing]

EndSeatGrab ==
  /\ seat.grab # Nothing
  /\ seat' = refocus([seat EXCEPT !.grab = Nothing])

(* display() of a lock surface, and of what stands in for it, which does   *)
(* not refocus                                                             *)
Lock ==
  \E o \in seat.present \ seat.locked :
    LET s == set_active_node([seat EXCEPT !.locked = @ \cup {o}], o) IN seat' \in {s, refocus(s)}

Unlock ==
  /\ seat.locked # {}
  /\ seat' = refocus([Folded(Freed, seat, SetToSeq(seat.locked)) EXCEPT !.locked = {}])

cancel_active_plugins(s, o) == IF s.grab = o THEN refocus([s EXCEPT !.grab = Nothing]) ELSE s

(* Views on the removed output that are not mapped are in no workspace.    *)
Reassigned(s, o) ==
  LET views == [v \in SeatViews |-> IF s.view[v].out = o THEN [s.view[v] EXCEPT !.out = s.output] ELSE s.view[v]]
  IN [s EXCEPT !.view = views]

(* The views follow the focus from the front one on, and the layer         *)
(* surfaces are closed.                                                    *)
Followed(s, o) ==
  Folded(LAMBDA t, v : IF s.view[v].out = o THEN move_view_to_output(t, v, s.output) ELSE t, s, s.stack)

transfer_views(s, o) ==
  Folded(Unmapped, Reassigned(Followed(s, o), o), SetToSeq({b \in Bars : s.bar[b].out = o}))

LockScreenEnds(s, o) == IF o \in s.locked THEN Freed([s EXCEPT !.locked = @ \ {o}], o) ELSE s

(* destroy_wayfire_output()                                                *)
Unplug ==
  \E o \in seat.present, next \in seat.present :
    /\ next # o
    /\ LET s == cancel_active_plugins(seat, o) IN
       seat' = [LockScreenEnds(transfer_views(IF s.output = o THEN focus_output(s, next) ELSE s, o), o)
                  EXCEPT !.present = @ \ {o}]

Plug ==
  \E o \in SeatOutputs \ seat.present :
    seat' = [seat EXCEPT !.present = @ \cup {o}]

ForView(v) ==
  CreateView(v) \/ MapView(v) \/ UnmapView(v) \/ FocusRequest(v) \/ Minimize(v) \/ MoveView(v) \/ MoveToOutput(v)

ForBar(b) == MapBar(b) \/ CommitBar(b) \/ UnmapBar(b)

SeatFocusNext ==
  \/ \E v \in SeatViews : ForView(v)
  \/ \E b \in Bars : ForBar(b)
  \/ FocusNothing \/ FocusOutput \/ Switch \/ StartSeatGrab \/ EndSeatGrab \/ Lock \/ Unlock \/ Unplug \/ Plug

SeatFocusSpec == SeatFocusInit /\ [][SeatFocusNext]_seat

-----------------------------------------------------------------------------
(* While the focused output is locked, the lock screen has the keyboard,   *)
(* whatever plugins, layer surfaces and views ask for.                     *)
LockHasKeys == seat.output \in seat.locked => seat.focus = seat.output

(* The focus is never on a view that is not on the focused output or is    *)
(* not shown, nor on a grab or a lock screen that has ended.               *)
FocusExists ==
  /\ seat.focus \in SeatViews =>
       LET v == seat.view[seat.focus] IN v.mapped /\ ~v.minimized /\ v.out = seat.output
  /\ seat.focus \in Bars => seat.bar[seat.focus].mapped
  /\ seat.focus = Grab => seat.grab = seat.output
  /\ seat.focus \in SeatOutputs => seat.focus \in seat.locked /\ seat.focus = seat.output

(* Unless views or layer surfaces were changed and nobody refocused since, *)
(* the focus is what a refocus would choose.                               *)
FocusIsBest == seat.unseen \/ seat.focus = Best(seat)

(* One toplevel looks activated: the one that was active last.             *)
OneActivated ==
  /\ seat.activated = {seat.toplevel} \ {Nothing}
  /\ seat.active \in SeatViews => seat.toplevel = seat.active

(* All of it, for the runs.                                                *)
FocusGiven == LockHasKeys /\ FocusExists /\ FocusIsBest /\ OneActivated
===============================================================================

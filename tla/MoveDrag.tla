------------------------------- MODULE MoveDrag -------------------------------
(***************************************************************************)
(* Dragging views: the shared drag (core_drag_t,                           *)
(* src/plugins/common/move-drag-interface.cpp) and the instances of the    *)
(* move plugin on the outputs (src/plugins/single_plugins/move.cpp), which *)
(* hand a drag over to each other as the pointer crosses outputs.          *)
(*                                                                         *)
(* A place of the pointer is an output, or none where the layout has a     *)
(* gap, and the slot that it would snap to there.                          *)
(***************************************************************************)
EXTENDS Integers, FiniteSets

CONSTANTS
  DragOutputs,
  DragViews,    \* a view and its dialogs, which may be dragged together
  Slots,        \* where a view snaps to at an edge
  NoView, Nowhere, NoSlot

ASSUME DragAssumption ==
  NoView \notin DragViews /\ Nowhere \notin DragOutputs /\ NoSlot \notin Slots

VARIABLES
  drag,      \* [view, all_views, current_output, held: view_held_in_place]
  dragView,  \* per view: [mapped, disabled: of its transformed node, grabbed: for the window manager]
  mover,     \* per output: [present, active, slot, timer: of the workspace switch, inhibited, blocked]
  receiver   \* output whose instance gets the input

dragVars == <<drag, dragView, mover, receiver>>

NoDrag == [view |-> NoView, all_views |-> {}, current_output |-> Nowhere, held |-> FALSE]
Dragging == drag.view # NoView
Present == {o \in DragOutputs : mover[o].present}

\* Mutant of CanHandle: whether the output is inhibited is asked of an active instance, too.
CanHandleInhibited(m) == m.present /\ ~m.inhibited /\ (m.active \/ ~m.blocked)

(* can_handle_drag(): an instance that is active may be activated again,   *)
(* before anybody asks whether its output is inhibited.                    *)
CanHandle(m) == m.present /\ (m.active \/ (~m.inhibited /\ ~m.blocked))

(* update_slot(NONE): no preview, no switch of the workspace to come.      *)
SlotGone(m) == [m EXCEPT !.slot = NoSlot, !.timer = FALSE]

(* on_drag_output_focus of each instance: the one of the output grabs the  *)
(* input, the others show no slot.                                         *)
FocusOutput(ms, o, at) ==
  [x \in DragOutputs |->
     IF x = o /\ CanHandle(ms[x])
     THEN IF ms[x].active THEN [ms[x] EXCEPT !.slot = at.slot, !.timer = at.timer]
          ELSE [SlotGone(ms[x]) EXCEPT !.active = TRUE]
     ELSE SlotGone(ms[x])]

NextReceiver(ms, o, r) == IF o # Nowhere /\ CanHandle(ms[o]) THEN o ELSE r

(* Where the pointer may be: snapping is off while the view is held, and   *)
(* there may be a workspace beyond the edge.                               *)
Places == {[output |-> o, slot |-> s, timer |-> t] :
             o \in Present \cup {Nowhere}, s \in Slots \cup {NoSlot}, t \in BOOLEAN}
Sensible(at, held) == /\ at.timer => at.slot # NoSlot
                      /\ held \/ at.output = Nowhere => at.slot = NoSlot

-----------------------------------------------------------------------------
\* Mutant of Ended: the dialogs that are dragged along stay hidden.
EndedMainOnly == [v \in DragViews |-> IF v = drag.view
                    THEN [dragView[v] EXCEPT !.disabled = @ - 1, !.grabbed = FALSE] ELSE dragView[v]]

(* The views are put back into the scene.                                  *)
Ended == [v \in DragViews |->
  IF v \in drag.all_views
  THEN [dragView[v] EXCEPT !.disabled = @ - 1, !.grabbed = IF v = drag.view THEN FALSE ELSE @]
  ELSE dragView[v]]

\* Mutant of Done: only the instance of the output where the drag ends gives up the input.
DoneHere(ms) ==
  LET o == drag.current_output
  IN [x \in DragOutputs |-> IF x = o THEN [(IF CanHandle(ms[x]) /\ ~drag.held THEN SlotGone(ms[x]) ELSE ms[x])
                                           EXCEPT !.active = FALSE] ELSE ms[x]]

(* on_drag_done of each instance: the one of the output where the drag     *)
(* ends drops the views and leaves its slot, and all give up the input.    *)
Done(ms) ==
  LET o == drag.current_output
  IN [x \in DragOutputs |->
        [(IF x = o /\ CanHandle(ms[x]) /\ ~drag.held THEN SlotGone(ms[x]) ELSE ms[x])
         EXCEPT !.active = FALSE]]

(* handle_input_released(), with the instances as they are then.           *)
Released(ms) ==
  IF Dragging
  THEN /\ drag' = NoDrag /\ dragView' = Ended /\ mover' = Done(ms) /\ receiver' = Nowhere
  ELSE mover' = ms /\ UNCHANGED <<drag, dragView, receiver>>

(* initiate() on the instance of the output where the press was, and       *)
(* start_drag() and its first handle_motion(), to where the pointer is.    *)
Initiate(o, v, joined, snapOff, at) ==
  LET all == IF joined THEN {x \in DragViews : dragView[x].mapped} ELSE {v}
      grabbed == [mover EXCEPT ![o] = [SlotGone(@) EXCEPT !.active = TRUE]]
      ms == IF at.output = Nowhere THEN grabbed ELSE FocusOutput(grabbed, at.output, at)
  IN /\ ~Dragging /\ dragView[v].mapped
     /\ mover[o].present /\ ~mover[o].active /\ CanHandle(mover[o])
     /\ Sensible(at, snapOff)
     /\ drag' = [view |-> v, all_views |-> all, current_output |-> at.output, held |-> snapOff]
     /\ dragView' = [x \in DragViews |-> IF x \in all THEN
          [dragView[x] EXCEPT !.disabled = @ + 1, !.grabbed = (x = v)] ELSE dragView[x]]
     /\ mover' = [ms EXCEPT ![o] = SlotGone(@)]
     /\ receiver' = NextReceiver(grabbed, at.output, o)

(* handle_input_motion() of the instance that gets the input.              *)
Motion(at) ==
  LET crossed == at.output # drag.current_output
      focused == IF crossed THEN FocusOutput(mover, at.output, at) ELSE mover
      r == receiver
  IN /\ Dragging /\ r # Nowhere
     /\ \E off \in BOOLEAN :
          /\ off => drag.held
          /\ Sensible(at, drag.held /\ ~off)
          /\ drag' = [drag EXCEPT !.current_output = at.output, !.held = @ /\ ~off]
     /\ mover' = [focused EXCEPT ![r] = IF at.output = r THEN [@ EXCEPT !.slot = at.slot, !.timer = at.timer]
                                        ELSE SlotGone(@)]
     /\ receiver' = IF crossed THEN NextReceiver(mover, at.output, r) ELSE r
     /\ UNCHANGED dragView

(* The button is released, the last finger lifted.                         *)
Release == Dragging /\ receiver # Nowhere /\ Released(mover)

(* on_view_unmap: of any of the views that are dragged.                    *)
UnmapDragged(v) ==
  /\ dragView[v].mapped
  /\ IF v \in drag.all_views
     THEN /\ drag' = NoDrag /\ mover' = Done(mover) /\ receiver' = Nowhere
          /\ dragView' = [Ended EXCEPT ![v].mapped = FALSE]
     ELSE /\ dragView' = [dragView EXCEPT ![v].mapped = FALSE]
          /\ UNCHANGED <<drag, mover, receiver>>

MapDragged(v) ==
  /\ ~dragView[v].mapped /\ dragView' = [dragView EXCEPT ![v].mapped = TRUE]
  /\ UNCHANGED <<drag, mover, receiver>>

(* set_inhibited(): the active instance is cancelled.  It is still active  *)
(* when it is told of the end of the drag, and drops the views.            *)
InhibitMover(o) ==
  LET ms == [mover EXCEPT ![o].inhibited = TRUE]
  IN /\ mover[o].present /\ ~mover[o].inhibited
     /\ IF mover[o].active THEN Released(ms)
        ELSE mover' = ms /\ UNCHANGED <<drag, dragView, receiver>>

AllowMover(o) ==
  /\ mover[o].inhibited /\ mover' = [mover EXCEPT ![o].inhibited = FALSE]
  /\ UNCHANGED <<drag, dragView, receiver>>

(* Another plugin is active on the output: never together with this one.   *)
Block(o, on) ==
  /\ mover[o].present /\ mover[o].blocked # on /\ (on => ~mover[o].active)
  /\ mover' = [mover EXCEPT ![o].blocked = on]
  /\ UNCHANGED <<drag, dragView, receiver>>

(* The timer runs out: the workspace is switched, and the drag goes on.    *)
TimerFires(o) ==
  /\ mover[o].timer /\ mover' = [mover EXCEPT ![o].timer = FALSE]
  /\ UNCHANGED <<drag, dragView, receiver>>

NewMover == [present |-> TRUE, active |-> FALSE, slot |-> NoSlot, timer |-> FALSE,
             inhibited |-> FALSE, blocked |-> FALSE]

(* The output is removed: fini() ends the drag if the instance has the     *)
(* input; otherwise on_output_removed leaves the drag without an output.   *)
RemoveDragOutput(o) ==
  LET ms == [mover EXCEPT ![o] = [NewMover EXCEPT !.present = FALSE]]
  IN /\ Cardinality(Present) > 1 /\ mover[o].present
     /\ IF mover[o].active
        THEN /\ drag' = NoDrag /\ dragView' = Ended /\ receiver' = Nowhere
             /\ mover' = [Done(mover) EXCEPT ![o] = ms[o]]
        ELSE /\ IF Dragging /\ drag.current_output = o
                THEN /\ drag' = [drag EXCEPT !.current_output = Nowhere]
                     /\ mover' = [x \in DragOutputs |-> IF x = o THEN ms[o] ELSE SlotGone(mover[x])]
                ELSE drag' = drag /\ mover' = ms
             /\ UNCHANGED <<dragView, receiver>>

AddDragOutput(o) ==
  /\ ~mover[o].present /\ mover' = [mover EXCEPT ![o] = NewMover]
  /\ UNCHANGED <<drag, dragView, receiver>>

DragInit ==
  /\ drag = NoDrag /\ receiver = Nowhere
  /\ dragView = [v \in DragViews |-> [mapped |-> FALSE, disabled |-> 0, grabbed |-> FALSE]]
  /\ mover = [o \in DragOutputs |-> NewMover]

DragNext ==
  \/ \E at \in Places :
       \/ Motion(at)
       \/ \E o \in DragOutputs, v \in DragViews, joined, snapOff \in BOOLEAN :
            Initiate(o, v, joined, snapOff, at)
  \/ Release
  \/ \E v \in DragViews : UnmapDragged(v) \/ MapDragged(v)
  \/ \E o \in DragOutputs :
       \/ InhibitMover(o) \/ AllowMover(o) \/ TimerFires(o)
       \/ \E on \in BOOLEAN : Block(o, on)
       \/ RemoveDragOutput(o) \/ AddDragOutput(o)

DragSpec == DragInit /\ [][DragNext]_dragVars

-----------------------------------------------------------------------------
(* A drag can be ended: the instance that gets the input is active, on an  *)
(* output that is there; and without a drag no instance holds the input.   *)
DragCanEnd ==
  /\ Dragging => receiver \in Present /\ mover[receiver].active
  /\ ~Dragging => \A o \in DragOutputs : ~mover[o].active

(* Exactly the views that are dragged are taken out of the scene, once,    *)
(* and they are mapped; the window manager keeps their geometry.           *)
DraggedHidden ==
  \A v \in DragViews :
    /\ dragView[v].disabled = IF v \in drag.all_views THEN 1 ELSE 0
    /\ v \in drag.all_views => dragView[v].mapped
    /\ dragView[v].grabbed <=> v = drag.view

(* A slot is shown, and a workspace switch to come, only on the output     *)
(* where the view is dragged.                                              *)
SlotUnderDrag ==
  \A o \in DragOutputs :
    mover[o].timer \/ mover[o].slot # NoSlot => Dragging /\ drag.current_output = o

(* However a drag ends, by a button, a finger, a lock, another plugin, an  *)
(* unmapped view or an unplugged output, nothing of it is left.            *)
DragLeavesNothing == DragCanEnd /\ DraggedHidden /\ SlotUnderDrag
=============================================================================

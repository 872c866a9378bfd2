--------------------------- MODULE DesktopProofs ---------------------------
(***************************************************************************)
(* What is proved of the parts of the desktop, for any number of outputs,  *)
(* views, sets and workspaces: a drag that moves from output to output,    *)
(* the views on the grid of a workspace set, the sets of the outputs, and  *)
(* the frames that outputs paint and clients wait for.                     *)
(***************************************************************************)
EXTENDS MCDesktop, FiniteSetTheorems, SequenceTheorems, WellFoundedInduction, NaturalsInduction, TLAPS

-----------------------------------------------------------------------------
(* Dragging views: move-drag-interface.cpp and move.cpp.                   *)
Movers ==
  [present: BOOLEAN, active: BOOLEAN, slot: Slots \cup {NoSlot}, timer: BOOLEAN,
   inhibited: BOOLEAN, blocked: BOOLEAN]

DragTypes ==
  /\ drag \in [view: DragViews \cup {NoView}, all_views: SUBSET DragViews,
               current_output: DragOutputs \cup {Nowhere}, held: BOOLEAN]
  /\ dragView \in [DragViews -> [mapped: BOOLEAN, disabled: Int, grabbed: BOOLEAN]]
  /\ mover \in [DragOutputs -> Movers]
  /\ receiver \in DragOutputs \cup {Nowhere}

(* The dragged view is one of those that are dragged along.                *)
DragWhole == IF Dragging THEN drag.view \in drag.all_views ELSE drag = NoDrag

(* An instance that has the input can handle the end of the drag; only     *)
(* such an instance shows a slot, and none while the view is held.         *)
MoversRight ==
  \A o \in DragOutputs :
    /\ mover[o].active => mover[o].present /\ ~mover[o].inhibited
    /\ mover[o].timer => mover[o].slot # NoSlot
    /\ mover[o].slot # NoSlot => mover[o].active /\ ~drag.held

DragInv == DragTypes /\ DragWhole /\ MoversRight /\ DragLeavesNothing

(* What the handlers do to one instance.                                   *)
LEMMA MoverFields ==
  ASSUME NEW m \in Movers
  PROVE  /\ SlotGone(m) \in Movers
         /\ SlotGone(m).slot = NoSlot /\ ~SlotGone(m).timer
         /\ SlotGone(m).present = m.present /\ SlotGone(m).active = m.active
         /\ SlotGone(m).inhibited = m.inhibited
BY DEF SlotGone, Movers

(* An instance gets the input, or gives it up.                             *)
LEMMA MoverActive ==
  ASSUME NEW m \in Movers, NEW on \in BOOLEAN, NEW r, r = [m EXCEPT !.active = on]
  PROVE  /\ r \in Movers /\ r.active = on /\ r.slot = m.slot /\ r.timer = m.timer
         /\ r.present = m.present /\ r.inhibited = m.inhibited
BY DEF Movers

(* on_drag_output_focus: only an instance that was active shows a slot,    *)
(* and it is the one that is being dragged on.                             *)
LEMMA OutputFocused ==
  ASSUME NEW ms \in [DragOutputs -> Movers], NEW pl \in Places
  PROVE  LET fm == FocusOutput(ms, pl.output, pl)
         IN  /\ fm \in [DragOutputs -> Movers]
             /\ \A x \in DragOutputs :
                  /\ fm[x].present = ms[x].present /\ fm[x].inhibited = ms[x].inhibited
                  /\ fm[x].active <=> ms[x].active \/ (x = pl.output /\ CanHandle(ms[x]))
                  /\ \/ fm[x].slot = NoSlot /\ ~fm[x].timer
                     \/ /\ x = pl.output /\ CanHandle(ms[x]) /\ ms[x].active
                        /\ fm[x].slot = pl.slot /\ fm[x].timer = pl.timer
<1>. DEFINE fm == FocusOutput(ms, pl.output, pl)
<1>1. pl.slot \in Slots \cup {NoSlot} /\ pl.timer \in BOOLEAN
  BY DEF Places
<1>2. ASSUME NEW x \in DragOutputs
      PROVE  /\ fm[x] \in Movers
             /\ fm[x].present = ms[x].present /\ fm[x].inhibited = ms[x].inhibited
             /\ fm[x].active <=> ms[x].active \/ (x = pl.output /\ CanHandle(ms[x]))
             /\ \/ fm[x].slot = NoSlot /\ ~fm[x].timer
                \/ /\ x = pl.output /\ CanHandle(ms[x]) /\ ms[x].active
                   /\ fm[x].slot = pl.slot /\ fm[x].timer = pl.timer
  <2>1. ms[x] \in Movers /\ SlotGone(ms[x]) \in Movers
    BY MoverFields
  <2>2. ms[x].active \in BOOLEAN
    BY <2>1 DEF Movers
  <2>3. CASE ~(x = pl.output /\ CanHandle(ms[x]))
    <3>1. fm[x] = SlotGone(ms[x])
      BY <2>3 DEF FocusOutput
    <3>. QED
      BY <2>1, <2>2, <2>3, <3>1, MoverFields
  <2>4. CASE x = pl.output /\ CanHandle(ms[x]) /\ ms[x].active
    <3>1. PICK m \in Movers, s \in Slots \cup {NoSlot}, t \in BOOLEAN :
            m = ms[x] /\ s = pl.slot /\ t = pl.timer
      BY <1>1, <2>1
    <3>2. PICK r : r = [m EXCEPT !.slot = s, !.timer = t]
      OBVIOUS
    <3>3. fm[x] = r
      BY <2>4, <3>1, <3>2 DEF FocusOutput
    <3>4. /\ r \in Movers /\ r.slot = s /\ r.timer = t /\ r.active = m.active
          /\ r.present = m.present /\ r.inhibited = m.inhibited
      BY <3>2 DEF Movers
    <3>. HIDE DEF fm
    <3>. QED
      BY <2>4, <3>1, <3>3, <3>4
  <2>5. CASE x = pl.output /\ CanHandle(ms[x]) /\ ~ms[x].active
    <3>1. PICK m \in Movers : m = SlotGone(ms[x])
      BY <2>1
    <3>2. PICK r : r = [m EXCEPT !.active = TRUE]
      OBVIOUS
    <3>3. fm[x] = r
      BY <2>5, <3>1, <3>2 DEF FocusOutput
    <3>4. /\ r \in Movers /\ r.slot = m.slot /\ r.timer = m.timer /\ r.active = TRUE
          /\ r.present = m.present /\ r.inhibited = m.inhibited
      BY <3>2, MoverActive
    <3>. HIDE DEF fm
    <3>. QED
      BY <2>1, <2>5, <3>1, <3>3, <3>4, MoverFields
  <2>. QED
    BY <2>3, <2>4, <2>5
<1>3. fm = [x \in DragOutputs |-> fm[x]]
  BY DEF FocusOutput
<1>. QED
  BY <1>2, <1>3

(* on_drag_done: every instance gives up the input, and the one where the  *)
(* drag ends its slot, if it can.                                          *)
LEMMA DragDone ==
  ASSUME NEW ms \in [DragOutputs -> Movers]
  PROVE  /\ Done(ms) \in [DragOutputs -> Movers]
         /\ \A x \in DragOutputs :
              /\ ~Done(ms)[x].active
              /\ Done(ms)[x].present = ms[x].present
              /\ \/ Done(ms)[x].slot = NoSlot /\ ~Done(ms)[x].timer
                 \/ /\ ~(x = drag.current_output /\ CanHandle(ms[x]) /\ ~drag.held)
                    /\ Done(ms)[x].slot = ms[x].slot /\ Done(ms)[x].timer = ms[x].timer
<1>1. ASSUME NEW x \in DragOutputs
      PROVE  /\ Done(ms)[x] \in Movers
             /\ ~Done(ms)[x].active
             /\ Done(ms)[x].present = ms[x].present
             /\ \/ Done(ms)[x].slot = NoSlot /\ ~Done(ms)[x].timer
                \/ /\ ~(x = drag.current_output /\ CanHandle(ms[x]) /\ ~drag.held)
                   /\ Done(ms)[x].slot = ms[x].slot /\ Done(ms)[x].timer = ms[x].timer
  <2>1. PICK m : m = IF x = drag.current_output /\ CanHandle(ms[x]) /\ ~drag.held
                     THEN SlotGone(ms[x]) ELSE ms[x]
    OBVIOUS
  <2>2. m \in Movers /\ m.present = ms[x].present
    BY <2>1, MoverFields
  <2>3. Done(ms)[x] = [m EXCEPT !.active = FALSE]
    BY <2>1 DEF Done
  <2>4. \/ m.slot = NoSlot /\ ~m.timer
        \/ /\ ~(x = drag.current_output /\ CanHandle(ms[x]) /\ ~drag.held)
           /\ m.slot = ms[x].slot /\ m.timer = ms[x].timer
    BY <2>1, MoverFields
  <2>. QED
    BY <2>2, <2>3, <2>4, MoverActive
<1>2. Done(ms) = [x \in DragOutputs |-> Done(ms)[x]]
  BY DEF Done
<1>. QED
  BY <1>1, <1>2

(* The views are back in the scene.                                        *)
LEMMA ViewsEnded ==
  ASSUME DragTypes, DragWhole, DragLeavesNothing, Dragging
  PROVE  /\ Ended \in [DragViews -> [mapped: BOOLEAN, disabled: Int, grabbed: BOOLEAN]]
         /\ \A v \in DragViews : Ended[v].disabled = 0 /\ Ended[v].grabbed = FALSE
<1>1. ASSUME NEW v \in DragViews
      PROVE  /\ Ended[v] \in [mapped: BOOLEAN, disabled: Int, grabbed: BOOLEAN]
             /\ Ended[v].disabled = 0 /\ Ended[v].grabbed = FALSE
  <2>1. /\ dragView[v] \in [mapped: BOOLEAN, disabled: Int, grabbed: BOOLEAN]
        /\ dragView[v].disabled = IF v \in drag.all_views THEN 1 ELSE 0
        /\ dragView[v].grabbed <=> v = drag.view
        /\ drag.view \in drag.all_views
    BY DEF DragTypes, DragLeavesNothing, DraggedHidden, DragWhole
  <2>2. CASE v \in drag.all_views
    <3>1. PICK g \in BOOLEAN : g = IF v = drag.view THEN FALSE ELSE dragView[v].grabbed
      BY <2>1
    <3>2. PICK n \in Int : n = dragView[v].disabled - 1
      BY <2>1
    <3>3. Ended[v] = [dragView[v] EXCEPT !.disabled = n, !.grabbed = g]
      BY <2>1, <2>2, <3>1, <3>2 DEF Ended
    <3>4. n = 0 /\ g = FALSE
      BY <2>1, <2>2, <3>1, <3>2
    <3>. QED
      BY <2>1, <3>3, <3>4
  <2>3. CASE v \notin drag.all_views
    <3>1. Ended[v] = dragView[v]
      BY <2>3 DEF Ended
    <3>. QED
      BY <2>1, <2>3, <3>1
  <2>. QED
    BY <2>2, <2>3
<1>2. Ended = [v \in DragViews |-> Ended[v]]
  BY DEF Ended
<1>. QED
  BY <1>1, <1>2

(* The end of a drag, however it ends: ms are the instances as they are    *)
(* when they are told; one that was removed keeps nothing.                 *)
LEMMA DragEnds ==
  ASSUME DragInv, Dragging, NEW ms \in [DragOutputs -> Movers],
         drag' = NoDrag, receiver' = Nowhere,
         dragView' \in [DragViews -> [mapped: BOOLEAN, disabled: Int, grabbed: BOOLEAN]],
         \A v \in DragViews : dragView'[v].disabled = 0 /\ dragView'[v].grabbed = FALSE,
         mover' \in [DragOutputs -> Movers],
         \A x \in DragOutputs :
           \/ ~mover'[x].active /\ mover'[x].slot = NoSlot /\ ~mover'[x].timer
           \/ /\ mover'[x] = Done(ms)[x]
              /\ ms[x].slot = mover[x].slot /\ ms[x].timer = mover[x].timer
              /\ mover[x].slot = NoSlot \/ CanHandle(ms[x])
  PROVE  DragInv'
<1>1. ASSUME NEW x \in DragOutputs
      PROVE  /\ ~mover'[x].active
             /\ mover'[x].slot = NoSlot /\ ~mover'[x].timer
  <2>1. CASE ~mover'[x].active /\ mover'[x].slot = NoSlot /\ ~mover'[x].timer
    BY <2>1
  <2>2. CASE /\ mover'[x] = Done(ms)[x]
             /\ ms[x].slot = mover[x].slot /\ ms[x].timer = mover[x].timer
             /\ mover[x].slot = NoSlot \/ CanHandle(ms[x])
    <3>1. mover[x].timer => mover[x].slot # NoSlot
      BY DEF DragInv, MoversRight
    <3>2. ASSUME mover[x].slot # NoSlot
          PROVE  ~drag.held /\ drag.current_output = x
      BY <3>2 DEF DragInv, MoversRight, DragLeavesNothing, SlotUnderDrag
    <3>. QED
      BY <2>2, <3>1, <3>2, DragDone
  <2>. QED
    BY <2>1, <2>2
<1>2. NoDrag \in [view: DragViews \cup {NoView}, all_views: SUBSET DragViews,
                  current_output: DragOutputs \cup {Nowhere}, held: BOOLEAN]
      /\ NoDrag.view = NoView /\ NoDrag.all_views = {}
  BY DEF NoDrag
<1>3. ~Dragging' /\ drag'.all_views = {} /\ drag'.view = NoView
  BY <1>2 DEF Dragging
<1>4. DragTypes'
  BY <1>2 DEF DragTypes
<1>5. MoversRight'
  BY <1>1 DEF MoversRight
<1>6. DragCanEnd' /\ SlotUnderDrag'
  BY <1>1, <1>3 DEF DragCanEnd, SlotUnderDrag
<1>7. DraggedHidden'
  BY <1>3, DragAssumption DEF DraggedHidden
<1>8. DragWhole'
  BY <1>3 DEF DragWhole
<1>. QED
  BY <1>4, <1>5, <1>6, <1>7, <1>8 DEF DragInv, DragLeavesNothing

(* What the invariant says of the parts that the handlers read.            *)
LEMMA DragFacts ==
  ASSUME DragInv
  PROVE  /\ mover \in [DragOutputs -> Movers]
         /\ \A x \in DragOutputs :
              /\ mover[x] \in Movers
              /\ mover[x].active => mover[x].present /\ ~mover[x].inhibited
              /\ mover[x].timer => mover[x].slot # NoSlot
              /\ mover[x].slot # NoSlot =>
                   mover[x].active /\ ~drag.held /\ Dragging /\ drag.current_output = x
         /\ \A x \in DragOutputs : mover[x].active => Dragging
         /\ Dragging => receiver \in DragOutputs /\ mover[receiver].active
BY DEF DragInv, DragTypes, MoversRight, DragLeavesNothing, DragCanEnd, SlotUnderDrag, Present

(* start_drag() where the pointer is.                                      *)
LEMMA InitiateInv ==
  ASSUME DragInv, NEW o \in DragOutputs, NEW v \in DragViews, NEW joined \in BOOLEAN,
         NEW snapOff \in BOOLEAN, NEW pl \in Places, Initiate(o, v, joined, snapOff, pl)
  PROVE  DragInv'
<1>1. PICK all : all = IF joined THEN {x \in DragViews : dragView[x].mapped} ELSE {v}
  OBVIOUS
<1>2. PICK grabbed : grabbed = [mover EXCEPT ![o] = [SlotGone(mover[o]) EXCEPT !.active = TRUE]]
  OBVIOUS
<1>3. PICK ms : ms = IF pl.output = Nowhere THEN grabbed ELSE FocusOutput(grabbed, pl.output, pl)
  OBVIOUS
<1>4. /\ ~Dragging /\ dragView[v].mapped /\ mover[o].present /\ CanHandle(mover[o])
      /\ drag' = [view |-> v, all_views |-> all, current_output |-> pl.output, held |-> snapOff]
      /\ dragView' = [x \in DragViews |-> IF x \in all THEN
           [dragView[x] EXCEPT !.disabled = @ + 1, !.grabbed = (x = v)] ELSE dragView[x]]
      /\ mover' = [ms EXCEPT ![o] = SlotGone(@)]
      /\ receiver' = NextReceiver(grabbed, pl.output, o)
  BY <1>1, <1>2, <1>3 DEF Initiate
<1>5. /\ pl.output \in Present \cup {Nowhere} /\ pl.slot \in Slots \cup {NoSlot}
      /\ pl.timer \in BOOLEAN
  BY DEF Places
<1>6. all \subseteq {x \in DragViews : dragView[x].mapped} /\ v \in all
  BY <1>1, <1>4
<1>7. /\ grabbed \in [DragOutputs -> Movers]
      /\ grabbed[o].active /\ grabbed[o].slot = NoSlot /\ ~grabbed[o].timer
      /\ grabbed[o].present = mover[o].present /\ grabbed[o].inhibited = mover[o].inhibited
      /\ \A x \in DragOutputs \ {o} : grabbed[x] = mover[x]
  <2>0. mover[o] \in Movers
    BY DragFacts
  <2>1. PICK n \in Movers :
          /\ n = SlotGone(mover[o]) /\ n.slot = NoSlot /\ ~n.timer
          /\ n.present = mover[o].present /\ n.inhibited = mover[o].inhibited
    BY <2>0, MoverFields
  <2>2. PICK m : m = [n EXCEPT !.active = TRUE]
    OBVIOUS
  <2>3. /\ m \in Movers /\ m.active /\ m.slot = NoSlot /\ ~m.timer
        /\ m.present = mover[o].present /\ m.inhibited = mover[o].inhibited
    BY <2>1, <2>2 DEF Movers
  <2>4. grabbed = [mover EXCEPT ![o] = m]
    BY <1>2, <2>1, <2>2
  <2>. QED
    BY <2>3, <2>4, DragFacts
<1>8. /\ ms \in [DragOutputs -> Movers]
      /\ \A x \in DragOutputs :
           /\ ms[x].present = grabbed[x].present /\ ms[x].inhibited = grabbed[x].inhibited
           /\ ms[x].active <=> grabbed[x].active \/ (x = pl.output /\ CanHandle(grabbed[x]))
           /\ x # o => \/ ms[x].slot = NoSlot /\ ~ms[x].timer
                       \/ ms[x] = mover[x]
  <2>1. CASE pl.output = Nowhere
    <3>1. ms = grabbed
      BY <1>3, <2>1
    <3>. QED
      BY <1>7, <2>1, <3>1, DragAssumption
  <2>2. CASE pl.output # Nowhere
    <3>1. ms = FocusOutput(grabbed, pl.output, pl)
      BY <1>3, <2>2
    <3>2. \A x \in DragOutputs \ {o} : ~grabbed[x].active
      BY <1>4, <1>7, DragFacts
    <3>. QED
      BY <1>7, <3>1, <3>2, OutputFocused
  <2>. QED
    BY <2>1, <2>2
<1>9. /\ mover' \in [DragOutputs -> Movers]
      /\ \A x \in DragOutputs :
           /\ mover'[x].present = mover[x].present /\ mover'[x].inhibited = mover[x].inhibited
           /\ mover'[x].active <=> x = o \/ (x = pl.output /\ CanHandle(grabbed[x]))
           /\ mover'[x].timer => mover'[x].slot # NoSlot
           /\ mover'[x].slot = NoSlot
  <2>1. SlotGone(ms[o]) \in Movers
    BY <1>8, MoverFields
  <2>2. /\ mover' \in [DragOutputs -> Movers] /\ mover'[o] = SlotGone(ms[o])
        /\ \A x \in DragOutputs \ {o} : mover'[x] = ms[x]
    BY <1>4, <1>8, <2>1
  <2>3. /\ mover'[o].slot = NoSlot /\ ~mover'[o].timer /\ mover'[o].active = ms[o].active
        /\ mover'[o].present = ms[o].present /\ mover'[o].inhibited = ms[o].inhibited
    BY <1>8, <2>2, MoverFields
  <2>4. ASSUME NEW x \in DragOutputs \ {o}
        PROVE  /\ mover'[x].present = mover[x].present /\ mover'[x].inhibited = mover[x].inhibited
               /\ mover'[x].active <=> (x = pl.output /\ CanHandle(grabbed[x]))
               /\ mover'[x].timer => mover'[x].slot # NoSlot
               /\ mover'[x].slot = NoSlot
    <3>1. /\ ~mover[x].active /\ (mover[x].timer => mover[x].slot # NoSlot)
          /\ mover[x].slot = NoSlot
      BY <1>4, DragFacts
    <3>. QED
      BY <1>4, <1>7, <1>8, <2>2, <3>1
  <2>. QED
    BY <1>7, <1>8, <2>2, <2>3, <2>4
<1>10. /\ drag' \in [view: DragViews \cup {NoView}, all_views: SUBSET DragViews,
                     current_output: DragOutputs \cup {Nowhere}, held: BOOLEAN]
       /\ drag'.view = v /\ drag'.all_views = all
  BY <1>4, <1>5, <1>6 DEF Present
<1>11. Dragging' /\ DragWhole'
  BY <1>6, <1>10, DragAssumption DEF Dragging, DragWhole
<1>12. receiver' \in DragOutputs /\ mover'[receiver'].present /\ mover'[receiver'].active
  BY <1>4, <1>5, <1>7, <1>9 DEF NextReceiver, Present
<1>13. \A x \in DragViews :
         /\ dragView[x] \in [mapped: BOOLEAN, disabled: Int, grabbed: BOOLEAN]
         /\ dragView[x].disabled = 0 /\ dragView[x].grabbed = FALSE
  <2>1. drag.view = NoView /\ drag.all_views = {}
    <3>1. drag = NoDrag
      BY <1>4 DEF DragInv, DragWhole
    <3>2. NoDrag.view = NoView /\ NoDrag.all_views = {}
      BY DEF NoDrag
    <3>. QED
      BY <3>1, <3>2
  <2>. QED
    BY <2>1, DragAssumption DEF DragInv, DragTypes, DragLeavesNothing, DraggedHidden
<1>14. ASSUME NEW x \in DragViews
       PROVE  /\ dragView'[x] \in [mapped: BOOLEAN, disabled: Int, grabbed: BOOLEAN]
              /\ dragView'[x].disabled = IF x \in all THEN 1 ELSE 0
              /\ dragView'[x].grabbed <=> x = v
              /\ dragView'[x].mapped = dragView[x].mapped
  <2>1. CASE x \in all
    <3>1. PICK g \in BOOLEAN : g = IF x = v THEN TRUE ELSE FALSE
      OBVIOUS
    <3>2. PICK n \in Int : n = dragView[x].disabled + 1
      BY <1>13
    <3>3. PICK r \in [mapped: BOOLEAN, disabled: Int, grabbed: BOOLEAN] : r = dragView[x]
      BY <1>13
    <3>4. PICK q : q = [r EXCEPT !.disabled = n, !.grabbed = g]
      OBVIOUS
    <3>5. dragView'[x] = q
      <4>1. g = (x = v)
        BY <3>1
      <4>. QED
        BY <1>4, <2>1, <3>2, <3>3, <3>4, <4>1
    <3>6. n = 1
      BY <1>13, <3>2
    <3>7. /\ q \in [mapped: BOOLEAN, disabled: Int, grabbed: BOOLEAN]
          /\ q.disabled = 1 /\ q.grabbed = g /\ q.mapped = r.mapped
      BY <3>3, <3>4, <3>6
    <3>. QED
      BY <2>1, <3>1, <3>3, <3>5, <3>7
  <2>2. CASE x \notin all
    <3>1. dragView'[x] = dragView[x]
      BY <1>4, <2>2
    <3>. QED
      BY <1>6, <1>13, <2>2, <3>1
  <2>. QED
    BY <2>1, <2>2
<1>15. dragView' = [x \in DragViews |-> dragView'[x]]
  BY <1>4
<1>16. DragTypes'
  BY <1>4, <1>9, <1>10, <1>12, <1>14, <1>15 DEF DragTypes, DragInv
<1>17. MoversRight'
  <2>1. \A x \in DragOutputs : x # o /\ CanHandle(grabbed[x]) =>
         ~grabbed[x].inhibited /\ grabbed[x].present
    BY <1>4, <1>7, DragFacts DEF CanHandle
  <2>2. ~mover[o].inhibited
    BY <1>4 DEF CanHandle, Initiate
  <2>. QED
    BY <1>4, <1>7, <1>9, <2>1, <2>2 DEF MoversRight
<1>18. DraggedHidden'
  BY <1>6, <1>10, <1>14 DEF DraggedHidden
<1>19. DragCanEnd' /\ SlotUnderDrag'
  BY <1>9, <1>11, <1>12 DEF DragCanEnd, SlotUnderDrag, Present
<1>. QED
  BY <1>11, <1>16, <1>17, <1>18, <1>19 DEF DragInv, DragLeavesNothing

(* handle_input_motion(): the slot goes where the pointer goes, and so     *)
(* does the input.                                                         *)
LEMMA MotionInv ==
  ASSUME DragInv, NEW pl \in Places, Motion(pl)
  PROVE  DragInv'
<1>1. PICK r : r = receiver
  OBVIOUS
<1>2. PICK focused : focused = IF pl.output # drag.current_output
                               THEN FocusOutput(mover, pl.output, pl) ELSE mover
  OBVIOUS
<1>3. PICK off \in BOOLEAN :
        /\ off => drag.held
        /\ Sensible(pl, drag.held /\ ~off)
        /\ drag' = [drag EXCEPT !.current_output = pl.output, !.held = @ /\ ~off]
  BY DEF Motion
<1>4. /\ Dragging
      /\ mover' = [focused EXCEPT ![r] = IF pl.output = r
                                         THEN [@ EXCEPT !.slot = pl.slot, !.timer = pl.timer]
                                         ELSE SlotGone(@)]
      /\ receiver' = IF pl.output # drag.current_output
                     THEN NextReceiver(mover, pl.output, r) ELSE r
      /\ dragView' = dragView
  BY <1>1, <1>2 DEF Motion
<1>5. /\ pl.output \in Present \cup {Nowhere} /\ pl.slot \in Slots \cup {NoSlot}
      /\ pl.timer \in BOOLEAN
  BY DEF Places
<1>6. r \in DragOutputs /\ mover[r].active /\ mover[r].present /\ ~mover[r].inhibited
  BY <1>1, <1>4, DragFacts
<1>7. /\ focused \in [DragOutputs -> Movers]
      /\ \A x \in DragOutputs :
           /\ focused[x].present = mover[x].present /\ focused[x].inhibited = mover[x].inhibited
           /\ mover[x].active => focused[x].active
           /\ focused[x].active => mover[x].active \/ CanHandle(mover[x])
           /\ pl.output # drag.current_output /\ x = pl.output /\ CanHandle(mover[x]) =>
                focused[x].active
           /\ \/ focused[x].slot = NoSlot /\ ~focused[x].timer
              \/ pl.output = drag.current_output /\ focused[x] = mover[x]
              \/ /\ x = pl.output /\ mover[x].active
                 /\ focused[x].slot = pl.slot /\ focused[x].timer = pl.timer
  <2>1. CASE pl.output # drag.current_output
    <3>1. focused = FocusOutput(mover, pl.output, pl)
      BY <1>2, <2>1
    <3>. QED
      BY <2>1, <3>1, DragFacts, OutputFocused
  <2>2. CASE pl.output = drag.current_output
    <3>1. focused = mover
      BY <1>2, <2>2
    <3>. QED
      BY <2>2, <3>1, DragFacts
  <2>. QED
    BY <2>1, <2>2
<1>8. /\ mover' \in [DragOutputs -> Movers]
      /\ \A x \in DragOutputs \ {r} : mover'[x] = focused[x]
      /\ mover'[r].present = mover[r].present /\ mover'[r].inhibited = mover[r].inhibited
      /\ mover'[r].active
      /\ \/ mover'[r].slot = NoSlot /\ ~mover'[r].timer
         \/ pl.output = r /\ mover'[r].slot = pl.slot /\ mover'[r].timer = pl.timer
  <2>0. PICK m \in Movers : m = focused[r]
    BY <1>6, <1>7
  <2>1. CASE pl.output = r
    <3>1. PICK s \in Slots \cup {NoSlot}, t \in BOOLEAN : s = pl.slot /\ t = pl.timer
      BY <1>5
    <3>2. PICK n : n = [m EXCEPT !.slot = s, !.timer = t]
      OBVIOUS
    <3>3. n \in Movers /\ n.slot = s /\ n.timer = t /\ n.active = m.active
          /\ n.present = m.present /\ n.inhibited = m.inhibited
      BY <3>2 DEF Movers
    <3>4. mover' = [focused EXCEPT ![r] = n]
      BY <1>4, <2>0, <2>1, <3>1, <3>2
    <3>. QED
      BY <1>6, <1>7, <2>0, <2>1, <3>1, <3>3, <3>4
  <2>2. CASE pl.output # r
    <3>1. PICK n : n = SlotGone(m)
      OBVIOUS
    <3>2. n \in Movers /\ n.slot = NoSlot /\ ~n.timer /\ n.active = m.active
          /\ n.present = m.present /\ n.inhibited = m.inhibited
      BY <3>1, MoverFields
    <3>3. mover' = [focused EXCEPT ![r] = n]
      BY <1>4, <2>0, <2>2, <3>1
    <3>. QED
      BY <1>6, <1>7, <2>0, <3>2, <3>3
  <2>. QED
    BY <2>1, <2>2
<1>9. /\ drag' \in [view: DragViews \cup {NoView}, all_views: SUBSET DragViews,
                    current_output: DragOutputs \cup {Nowhere}, held: BOOLEAN]
      /\ drag'.view = drag.view /\ drag'.all_views = drag.all_views
      /\ drag'.current_output = pl.output /\ (drag'.held <=> drag.held /\ ~off)
  <2>1. PICK h \in BOOLEAN : h <=> drag.held /\ ~off
    OBVIOUS
  <2>2. PICK o \in DragOutputs \cup {Nowhere} : o = pl.output
    BY <1>5 DEF Present
  <2>3. drag \in [view: DragViews \cup {NoView}, all_views: SUBSET DragViews,
                  current_output: DragOutputs \cup {Nowhere}, held: BOOLEAN]
    BY DEF DragInv, DragTypes
  <2>4. drag' = [drag EXCEPT !.current_output = o, !.held = h]
    BY <1>3, <2>1, <2>2, <2>3, Zenon
  <2>. QED
    BY <2>1, <2>2, <2>3, <2>4
<1>10. Dragging' /\ DragWhole'
  BY <1>4, <1>9 DEF Dragging, DragWhole, DragInv
<1>11. ASSUME NEW x \in DragOutputs
       PROVE  /\ mover'[x].present = mover[x].present
              /\ mover'[x].active => mover'[x].present /\ ~mover'[x].inhibited
              /\ mover'[x].timer => mover'[x].slot # NoSlot
              /\ mover'[x].slot # NoSlot =>
                   mover'[x].active /\ ~drag'.held /\ pl.output = x
  <2>1. /\ mover[x] \in Movers /\ (mover[x].active => mover[x].present /\ ~mover[x].inhibited)
        /\ mover[x].timer => mover[x].slot # NoSlot
        /\ mover[x].slot # NoSlot =>
             mover[x].active /\ ~drag.held /\ drag.current_output = x
    BY DragFacts
  <2>2. /\ pl.timer => pl.slot # NoSlot
        /\ drag'.held => pl.slot = NoSlot
    BY <1>3, <1>9 DEF Sensible
  <2>3. CASE x = r
    BY <1>6, <1>8, <2>2, <2>3
  <2>4. CASE x # r
    <3>1. mover'[x] = focused[x]
      BY <1>8, <2>4
    <3>2. CanHandle(mover[x]) => mover[x].present /\ ~mover[x].inhibited
      BY <2>1 DEF CanHandle
    <3>. QED
      BY <1>7, <1>9, <2>1, <2>2, <3>1, <3>2
  <2>. QED
    BY <2>3, <2>4
<1>12. receiver' \in DragOutputs /\ mover'[receiver'].active
  <2>1. CASE receiver' = r
    BY <1>6, <1>8, <2>1
  <2>2. CASE receiver' # r
    <3>1. /\ receiver' = pl.output /\ pl.output # Nowhere /\ CanHandle(mover[pl.output])
          /\ pl.output # drag.current_output
      BY <1>4, <2>2 DEF NextReceiver
    <3>2. pl.output \in DragOutputs
      BY <1>5, <3>1 DEF Present
    <3>. QED
      BY <1>7, <1>8, <2>2, <3>1, <3>2
  <2>. QED
    BY <2>1, <2>2
<1>13. DragTypes'
  BY <1>4, <1>8, <1>9, <1>12 DEF DragTypes, DragInv
<1>14. MoversRight'
  BY <1>11 DEF MoversRight
<1>15. DragCanEnd'
  BY <1>10, <1>11, <1>12 DEF DragCanEnd, Present
<1>16. SlotUnderDrag'
  BY <1>9, <1>10, <1>11 DEF SlotUnderDrag
<1>17. DraggedHidden'
  BY <1>4, <1>9 DEF DraggedHidden, DragInv, DragLeavesNothing
<1>. QED
  BY <1>10, <1>13, <1>14, <1>15, <1>16, <1>17 DEF DragInv, DragLeavesNothing

(* One instance changes, and still has the input if it had it.             *)
LEMMA MoverChanged ==
  ASSUME DragInv, NEW o \in DragOutputs, NEW m \in Movers,
         mover' = [mover EXCEPT ![o] = m], UNCHANGED <<drag, dragView, receiver>>,
         m.active <=> mover[o].active, m.active => m.present /\ ~m.inhibited,
         m.slot = NoSlot \/ m.slot = mover[o].slot, m.timer => m.slot # NoSlot
  PROVE  DragInv'
<1>1. /\ mover' \in [DragOutputs -> Movers] /\ mover'[o] = m
      /\ \A x \in DragOutputs \ {o} : mover'[x] = mover[x]
  BY DragFacts
<1>2. Dragging' = Dragging
  BY DEF Dragging
<1>3. ASSUME NEW x \in DragOutputs
      PROVE  /\ mover'[x].active <=> mover[x].active
             /\ mover'[x].active => mover'[x].present /\ ~mover'[x].inhibited
             /\ mover'[x].timer => mover'[x].slot # NoSlot
             /\ mover'[x].slot # NoSlot =>
                  mover'[x].active /\ ~drag.held /\ Dragging /\ drag.current_output = x
  <2>1. CASE x = o
    BY <1>1, <2>1, DragFacts
  <2>2. CASE x # o
    BY <1>1, <2>2, DragFacts
  <2>. QED
    BY <2>1, <2>2
<1>4. DragTypes'
  BY <1>1 DEF DragTypes, DragInv
<1>5. MoversRight' /\ SlotUnderDrag'
  BY <1>2, <1>3 DEF MoversRight, SlotUnderDrag
<1>6. DragCanEnd'
  BY <1>2, <1>3 DEF DragCanEnd, Present, DragInv, DragLeavesNothing
<1>7. DraggedHidden'
  BY DEF DraggedHidden, DragInv, DragLeavesNothing
<1>8. DragWhole'
  BY <1>2 DEF DragWhole, DragInv
<1>. QED
  BY <1>4, <1>5, <1>6, <1>7, <1>8 DEF DragInv, DragLeavesNothing

(* handle_input_released(), with nothing that is different from before but *)
(* whether an instance is inhibited: one that shows a slot is active, and  *)
(* lets it go for that.                                                    *)
LEMMA ReleasedInv ==
  ASSUME DragInv, Dragging, NEW ms \in [DragOutputs -> Movers], Released(ms),
         \A x \in DragOutputs : /\ ms[x].slot = mover[x].slot /\ ms[x].timer = mover[x].timer
                                /\ ms[x].present = mover[x].present
                                /\ ms[x].active = mover[x].active
  PROVE  DragInv'
<1>1. /\ drag' = NoDrag /\ dragView' = Ended /\ mover' = Done(ms) /\ receiver' = Nowhere
  BY DEF Released
<1>2. mover' \in [DragOutputs -> Movers]
  BY <1>1, DragDone
<1>3. /\ dragView' \in [DragViews -> [mapped: BOOLEAN, disabled: Int, grabbed: BOOLEAN]]
      /\ \A v \in DragViews : dragView'[v].disabled = 0 /\ dragView'[v].grabbed = FALSE
  BY <1>1, ViewsEnded DEF DragInv
<1>4. \A x \in DragOutputs :
        /\ mover'[x] = Done(ms)[x]
        /\ ms[x].slot = mover[x].slot /\ ms[x].timer = mover[x].timer
        /\ mover[x].slot = NoSlot \/ CanHandle(ms[x])
  BY <1>1, DragFacts DEF CanHandle
<1>. QED
  BY <1>1, <1>2, <1>3, <1>4, DragEnds

(* on_view_unmap.                                                          *)
LEMMA UnmapDraggedInv ==
  ASSUME DragInv, NEW v \in DragViews, UnmapDragged(v)
  PROVE  DragInv'
<1>1. CASE v \in drag.all_views
  <2>1. Dragging
    <3>1. NoDrag.all_views = {}
      BY DEF NoDrag
    <3>. QED
      BY <1>1, <3>1 DEF DragInv, DragWhole
  <2>2. /\ drag' = NoDrag /\ mover' = Done(mover) /\ receiver' = Nowhere
        /\ dragView' = [Ended EXCEPT ![v].mapped = FALSE]
    BY <1>1 DEF UnmapDragged
  <2>3. mover \in [DragOutputs -> Movers] /\ mover' \in [DragOutputs -> Movers]
    BY <2>2, DragDone, DragFacts
  <2>4. /\ Ended \in [DragViews -> [mapped: BOOLEAN, disabled: Int, grabbed: BOOLEAN]]
        /\ \A x \in DragViews : Ended[x].disabled = 0 /\ Ended[x].grabbed = FALSE
    BY <2>1, ViewsEnded DEF DragInv
  <2>5. /\ dragView' \in [DragViews -> [mapped: BOOLEAN, disabled: Int, grabbed: BOOLEAN]]
        /\ \A x \in DragViews : dragView'[x].disabled = 0 /\ dragView'[x].grabbed = FALSE
    BY <2>2, <2>4
  <2>6. \A x \in DragOutputs :
          /\ mover'[x] = Done(mover)[x]
          /\ mover[x].slot = NoSlot \/ CanHandle(mover[x])
    BY <2>2, DragFacts DEF CanHandle
  <2>. QED
    BY <2>1, <2>2, <2>3, <2>5, <2>6, DragEnds
<1>2. CASE v \notin drag.all_views
  <2>1. /\ dragView' = [dragView EXCEPT ![v].mapped = FALSE]
        /\ UNCHANGED <<drag, mover, receiver>>
    BY <1>2 DEF UnmapDragged
  <2>2. /\ dragView' \in [DragViews -> [mapped: BOOLEAN, disabled: Int, grabbed: BOOLEAN]]
        /\ \A x \in DragViews : /\ dragView'[x].disabled = dragView[x].disabled
                                /\ dragView'[x].grabbed = dragView[x].grabbed
                                /\ x # v => dragView'[x].mapped = dragView[x].mapped
    BY <2>1 DEF DragInv, DragTypes
  <2>3. DraggedHidden'
    BY <1>2, <2>1, <2>2 DEF DraggedHidden, DragInv, DragLeavesNothing
  <2>4. DragTypes' /\ DragWhole' /\ MoversRight' /\ DragCanEnd' /\ SlotUnderDrag'
    BY <2>1, <2>2 DEF DragTypes, DragWhole, MoversRight, DragCanEnd, SlotUnderDrag, Dragging, Present,
       DragInv, DragLeavesNothing
  <2>. QED
    BY <2>3, <2>4 DEF DragInv, DragLeavesNothing
<1>. QED
  BY <1>1, <1>2

(* A view is mapped.                                                       *)
LEMMA MapDraggedInv ==
  ASSUME DragInv, NEW v \in DragViews, MapDragged(v)
  PROVE  DragInv'
<1>1. /\ dragView' = [dragView EXCEPT ![v].mapped = TRUE] /\ ~dragView[v].mapped
      /\ UNCHANGED <<drag, mover, receiver>>
  BY DEF MapDragged
<1>2. /\ dragView' \in [DragViews -> [mapped: BOOLEAN, disabled: Int, grabbed: BOOLEAN]]
      /\ \A x \in DragViews : /\ dragView'[x].disabled = dragView[x].disabled
                              /\ dragView'[x].grabbed = dragView[x].grabbed
                              /\ dragView[x].mapped => dragView'[x].mapped
  BY <1>1 DEF DragInv, DragTypes
<1>3. DraggedHidden'
  BY <1>1, <1>2 DEF DraggedHidden, DragInv, DragLeavesNothing
<1>4. DragTypes' /\ DragWhole' /\ MoversRight' /\ DragCanEnd' /\ SlotUnderDrag'
  BY <1>1, <1>2 DEF DragTypes, DragWhole, MoversRight, DragCanEnd, SlotUnderDrag, Dragging, Present,
     DragInv, DragLeavesNothing
<1>. QED
  BY <1>3, <1>4 DEF DragInv, DragLeavesNothing

(* set_inhibited(): the lock finds the drag active, or it does not.        *)
LEMMA InhibitMoverInv ==
  ASSUME DragInv, NEW o \in DragOutputs, InhibitMover(o)
  PROVE  DragInv'
<1>1. PICK m : m = [mover[o] EXCEPT !.inhibited = TRUE]
  OBVIOUS
<1>2. /\ m \in Movers /\ m.inhibited /\ m.active = mover[o].active /\ m.present = mover[o].present
      /\ m.slot = mover[o].slot /\ m.timer = mover[o].timer
  BY <1>1, DragFacts DEF Movers
<1>3. PICK ms : ms = [mover EXCEPT ![o] = m]
  OBVIOUS
<1>4. IF mover[o].active THEN Released(ms)
      ELSE mover' = ms /\ UNCHANGED <<drag, dragView, receiver>>
  BY <1>1, <1>3 DEF InhibitMover
<1>5. CASE mover[o].active
  <2>1. /\ ms \in [DragOutputs -> Movers]
        /\ \A x \in DragOutputs : /\ ms[x].slot = mover[x].slot /\ ms[x].timer = mover[x].timer
                                  /\ ms[x].present = mover[x].present
                                  /\ ms[x].active = mover[x].active
    BY <1>2, <1>3, DragFacts
  <2>2. Dragging
    BY <1>5, DragFacts
  <2>. QED
    BY <1>4, <1>5, <2>1, <2>2, ReleasedInv
<1>6. CASE ~mover[o].active
  <2>1. mover[o].timer => mover[o].slot # NoSlot
    BY DragFacts
  <2>. QED
    BY <1>2, <1>3, <1>4, <1>6, <2>1, MoverChanged
<1>. QED
  BY <1>5, <1>6

(* The lock is lifted from an output.                                      *)
LEMMA AllowMoverInv ==
  ASSUME DragInv, NEW o \in DragOutputs, AllowMover(o)
  PROVE  DragInv'
<1>1. PICK m : m = [mover[o] EXCEPT !.inhibited = FALSE]
  OBVIOUS
<1>2. /\ m \in Movers /\ ~m.inhibited /\ m.active = mover[o].active /\ m.present = mover[o].present
      /\ m.slot = mover[o].slot /\ m.timer = mover[o].timer
  BY <1>1, DragFacts DEF Movers
<1>3. mover' = [mover EXCEPT ![o] = m] /\ UNCHANGED <<drag, dragView, receiver>>
  BY <1>1 DEF AllowMover
<1>4. (mover[o].timer => mover[o].slot # NoSlot) /\ (mover[o].active => mover[o].present)
  BY DragFacts
<1>. QED
  BY <1>2, <1>3, <1>4, MoverChanged

(* Another plugin comes or goes on the output.                             *)
LEMMA BlockInv ==
  ASSUME DragInv, NEW o \in DragOutputs, NEW on \in BOOLEAN, Block(o, on)
  PROVE  DragInv'
<1>1. PICK m : m = [mover[o] EXCEPT !.blocked = on]
  OBVIOUS
<1>2. /\ m \in Movers /\ m.inhibited = mover[o].inhibited /\ m.active = mover[o].active
      /\ m.present = mover[o].present /\ m.slot = mover[o].slot /\ m.timer = mover[o].timer
  BY <1>1, DragFacts DEF Movers
<1>3. mover' = [mover EXCEPT ![o] = m] /\ UNCHANGED <<drag, dragView, receiver>>
  BY <1>1 DEF Block
<1>4. /\ mover[o].timer => mover[o].slot # NoSlot
      /\ mover[o].active => mover[o].present /\ ~mover[o].inhibited
  BY DragFacts
<1>. QED
  BY <1>2, <1>3, <1>4, MoverChanged

(* The timer of the workspace switch runs out.                             *)
LEMMA TimerFiresInv ==
  ASSUME DragInv, NEW o \in DragOutputs, TimerFires(o)
  PROVE  DragInv'
<1>1. PICK m : m = [mover[o] EXCEPT !.timer = FALSE]
  OBVIOUS
<1>2. /\ m \in Movers /\ m.inhibited = mover[o].inhibited /\ m.active = mover[o].active
      /\ m.present = mover[o].present /\ m.slot = mover[o].slot /\ ~m.timer
  BY <1>1, DragFacts DEF Movers
<1>3. mover' = [mover EXCEPT ![o] = m] /\ UNCHANGED <<drag, dragView, receiver>>
  BY <1>1 DEF TimerFires
<1>4. mover[o].active => mover[o].present /\ ~mover[o].inhibited
  BY DragFacts
<1>. QED
  BY <1>2, <1>3, <1>4, MoverChanged

(* A new instance, and what is kept for an output that is gone.            *)
LEMMA NewMoverTyped ==
  /\ NewMover \in Movers /\ ~NewMover.active /\ NewMover.slot = NoSlot /\ ~NewMover.timer
  /\ [NewMover EXCEPT !.present = FALSE] \in Movers
  /\ ~[NewMover EXCEPT !.present = FALSE].active
  /\ [NewMover EXCEPT !.present = FALSE].slot = NoSlot
  /\ ~[NewMover EXCEPT !.present = FALSE].timer
BY DEF NewMover, Movers

(* An output is added.                                                     *)
LEMMA AddDragOutputInv ==
  ASSUME DragInv, NEW o \in DragOutputs, AddDragOutput(o)
  PROVE  DragInv'
<1>1. /\ ~mover[o].present /\ mover' = [mover EXCEPT ![o] = NewMover]
      /\ UNCHANGED <<drag, dragView, receiver>>
  BY DEF AddDragOutput
<1>2. ~mover[o].active
  BY <1>1, DragFacts
<1>. QED
  BY <1>1, <1>2, NewMoverTyped, MoverChanged

(* The output is removed, with or without the input.                       *)
LEMMA RemoveDragOutputInv ==
  ASSUME DragInv, NEW o \in DragOutputs, RemoveDragOutput(o)
  PROVE  DragInv'
<1>1. PICK n : n = [NewMover EXCEPT !.present = FALSE]
  OBVIOUS
<1>2. n \in Movers /\ ~n.active /\ n.slot = NoSlot /\ ~n.timer
  BY <1>1, NewMoverTyped
<1>3. PICK ms : ms = [mover EXCEPT ![o] = n]
  OBVIOUS
<1>4. /\ mover[o].present
      /\ IF mover[o].active
         THEN /\ drag' = NoDrag /\ dragView' = Ended /\ receiver' = Nowhere
              /\ mover' = [Done(mover) EXCEPT ![o] = ms[o]]
         ELSE /\ IF Dragging /\ drag.current_output = o
                 THEN /\ drag' = [drag EXCEPT !.current_output = Nowhere]
                      /\ mover' = [x \in DragOutputs |-> IF x = o THEN ms[o] ELSE SlotGone(mover[x])]
                 ELSE drag' = drag /\ mover' = ms
              /\ UNCHANGED <<dragView, receiver>>
  BY <1>1, <1>3 DEF RemoveDragOutput
<1>5. mover \in [DragOutputs -> Movers] /\ ms[o] = n
  BY <1>3, DragFacts
<1>6. CASE mover[o].active
  <2>1. Dragging
    BY <1>6, DragFacts
  <2>2. /\ mover' \in [DragOutputs -> Movers] /\ mover'[o] = n
        /\ \A x \in DragOutputs \ {o} : mover'[x] = Done(mover)[x]
    BY <1>2, <1>4, <1>5, <1>6, DragDone
  <2>3. /\ dragView' \in [DragViews -> [mapped: BOOLEAN, disabled: Int, grabbed: BOOLEAN]]
        /\ \A v \in DragViews : dragView'[v].disabled = 0 /\ dragView'[v].grabbed = FALSE
    BY <1>4, <1>6, <2>1, ViewsEnded DEF DragInv
  <2>4. \A x \in DragOutputs : mover[x].slot = NoSlot \/ CanHandle(mover[x])
    BY DragFacts DEF CanHandle
  <2>5. \A x \in DragOutputs :
          \/ ~mover'[x].active /\ mover'[x].slot = NoSlot /\ ~mover'[x].timer
          \/ /\ mover'[x] = Done(mover)[x]
             /\ mover[x].slot = NoSlot \/ CanHandle(mover[x])
    BY <1>2, <2>2, <2>4
  <2>. QED
    BY <1>4, <1>5, <1>6, <2>1, <2>2, <2>3, <2>5, DragEnds
<1>7. CASE ~mover[o].active /\ ~(Dragging /\ drag.current_output = o)
  BY <1>2, <1>3, <1>4, <1>7, MoverChanged
<1>8. CASE ~mover[o].active /\ Dragging /\ drag.current_output = o
  <2>1. /\ drag' = [drag EXCEPT !.current_output = Nowhere]
        /\ mover' = [x \in DragOutputs |-> IF x = o THEN n ELSE SlotGone(mover[x])]
        /\ UNCHANGED <<dragView, receiver>>
    BY <1>4, <1>5, <1>8
  <2>2. ASSUME NEW x \in DragOutputs
        PROVE  /\ mover'[x] \in Movers /\ mover'[x].slot = NoSlot /\ ~mover'[x].timer
               /\ mover'[x].active <=> mover[x].active
               /\ mover'[x].active => mover'[x].present /\ ~mover'[x].inhibited
    <3>1. CASE x = o
      BY <1>2, <1>8, <2>1, <3>1
    <3>2. CASE x # o
      <4>1. mover'[x] = SlotGone(mover[x])
        BY <2>1, <3>2
      <4>. QED
        BY <4>1, MoverFields, DragFacts
    <3>. QED
      BY <3>1, <3>2
  <2>3. mover' \in [DragOutputs -> Movers]
    BY <2>1, <2>2
  <2>4. /\ drag' \in [view: DragViews \cup {NoView}, all_views: SUBSET DragViews,
                      current_output: DragOutputs \cup {Nowhere}, held: BOOLEAN]
        /\ drag'.view = drag.view /\ drag'.all_views = drag.all_views
    BY <2>1 DEF DragInv, DragTypes
  <2>5. Dragging' /\ DragWhole'
    BY <1>8, <2>4 DEF Dragging, DragWhole, DragInv
  <2>6. DragTypes'
    BY <2>1, <2>3, <2>4 DEF DragTypes, DragInv
  <2>7. MoversRight' /\ SlotUnderDrag'
    BY <2>2 DEF MoversRight, SlotUnderDrag
  <2>8. DragCanEnd'
    BY <1>8, <2>1, <2>2, <2>5 DEF DragCanEnd, Present, DragInv, DragLeavesNothing
  <2>9. DraggedHidden'
    BY <2>1, <2>4 DEF DraggedHidden, DragInv, DragLeavesNothing
  <2>. QED
    BY <2>5, <2>6, <2>7, <2>8, <2>9 DEF DragInv, DragLeavesNothing
<1>. QED
  BY <1>6, <1>7, <1>8

(* No drag has begun.                                                      *)
LEMMA DragStarts == DragInit => DragInv
<1>. SUFFICES ASSUME DragInit PROVE DragInv
  OBVIOUS
<1>1. drag = NoDrag /\ NoDrag.view = NoView /\ NoDrag.all_views = {} /\ ~NoDrag.held
      /\ NoDrag.current_output = Nowhere
      /\ NoDrag \in [view: DragViews \cup {NoView}, all_views: SUBSET DragViews,
                     current_output: DragOutputs \cup {Nowhere}, held: BOOLEAN]
  BY DEF DragInit, NoDrag
<1>2. ~Dragging
  BY <1>1 DEF Dragging
<1>3. \A o \in DragOutputs : mover[o] = NewMover
  BY DEF DragInit
<1>4. mover \in [DragOutputs -> Movers]
  BY NewMoverTyped DEF DragInit
<1>5. /\ dragView \in [DragViews -> [mapped: BOOLEAN, disabled: Int, grabbed: BOOLEAN]]
      /\ \A v \in DragViews : dragView[v].disabled = 0 /\ dragView[v].grabbed = FALSE
  BY DEF DragInit
<1>6. DragTypes
  BY <1>1, <1>4, <1>5 DEF DragInit, DragTypes
<1>7. DragWhole
  BY <1>1, <1>2 DEF DragWhole
<1>8. MoversRight /\ SlotUnderDrag /\ DragCanEnd
  BY <1>2, <1>3, NewMoverTyped DEF MoversRight, SlotUnderDrag, DragCanEnd
<1>9. DraggedHidden
  BY <1>1, <1>5, DragAssumption DEF DraggedHidden
<1>. QED
  BY <1>6, <1>7, <1>8, <1>9 DEF DragInv, DragLeavesNothing

(* Every step keeps the invariant.                                         *)
LEMMA DragMoves == DragInv /\ [DragNext]_dragVars => DragInv'
<1>. SUFFICES ASSUME DragInv, [DragNext]_dragVars PROVE DragInv'
  OBVIOUS
<1>1. CASE Release
  <2>1. Dragging /\ Released(mover) /\ mover \in [DragOutputs -> Movers]
    BY <1>1, DragFacts DEF Release
  <2>. QED
    BY <2>1, ReleasedInv
<1>2. CASE UNCHANGED dragVars
  BY <1>2 DEF dragVars, DragInv, DragTypes, DragWhole, MoversRight, DragLeavesNothing, DragCanEnd,
     DraggedHidden, SlotUnderDrag, Dragging, Present
<1>. QED
  BY <1>1, <1>2, MotionInv, InitiateInv, UnmapDraggedInv, MapDraggedInv, InhibitMoverInv, AllowMoverInv,
     TimerFiresInv, BlockInv, RemoveDragOutputInv, AddDragOutputInv DEF DragNext

-----------------------------------------------------------------------------
(* The grid of a workspace set: workspace-impl.cpp.                        *)

(* Division by the width of the screen: the quotient is the only one.      *)
LEMMA DivUnique ==
  ASSUME NEW a \in Int, NEW q \in Int, NEW w \in Nat \ {0}, q * w <= a, a < q * w + w
  PROVE  a \div w = q
<1>. DEFINE d == a \div w
<1>1. d \in Int /\ d * w <= a /\ a < d * w + w
  OBVIOUS
<1>. HIDE DEF d
<1>2. ASSUME d < q PROVE FALSE
  <2>1. (q - d - 1) * w >= 0
    BY <1>1, <1>2
  <2>2. (q - d - 1) * w = q * w - d * w - w
    BY <1>1
  <2>. QED
    BY <1>1, <2>1, <2>2
<1>3. ASSUME d > q PROVE FALSE
  <2>1. (d - q - 1) * w >= 0
    BY <1>1, <1>3
  <2>2. (d - q - 1) * w = d * w - q * w - w
    BY <1>1
  <2>. QED
    BY <1>1, <2>1, <2>2
<1>. QED
  BY <1>1, <1>2, <1>3 DEF d

(* A step of whole workspaces changes the workspace by as many.            *)
LEMMA DivShift ==
  ASSUME NEW a \in Int, NEW k \in Int, NEW w \in Nat \ {0}
  PROVE  (a + k * w) \div w = (a \div w) + k
<1>. DEFINE d == a \div w
<1>1. d \in Int /\ d * w <= a /\ a < d * w + w
  OBVIOUS
<1>. HIDE DEF d
<1>2. (d + k) * w = d * w + k * w
  BY <1>1
<1>3. /\ a + k * w \in Int /\ d + k \in Int
      /\ (d + k) * w <= a + k * w /\ a + k * w < (d + k) * w + w
  BY <1>1, <1>2
<1>4. (a + k * w) \div w = d + k
  BY <1>3, DivUnique
<1>. QED
  BY <1>4 DEF d

Placement == [x: Int, pending: Int, busy: BOOLEAN, sticky: BOOLEAN, fullscreen: BOOLEAN]

GridTypes ==
  /\ grid \in Nat \ {0} /\ current_vx \in Int /\ screen \in ScreenWidths
  /\ has_custom_grid_size \in BOOLEAN
  /\ at \in [GridViews -> Placement] /\ place \in [GridViews -> Int]

(* Where a view is to be is where it was put; it is there, unless its      *)
(* client owes an answer.                                                  *)
PlacesKept ==
  \A v \in GridViews :
    /\ place[v] = CenterWorkspace(at[v], at[v].pending, current_vx, screen)
    /\ ~at[v].busy => at[v].x = at[v].pending

GridInv == GridTypes /\ PlacesKept

(* Views and screens have a width.                                         *)
LEMMA WidthNat ==
  ASSUME NEW a \in Placement, NEW w \in ScreenWidths
  PROVE  WidthOf(a, w) \in Nat \ {0} /\ w \in Nat \ {0}
BY GridAssumption DEF WidthOf, Placement

(* A view is on some workspace.                                            *)
LEMMA CenterInt ==
  ASSUME NEW a \in Placement, NEW x \in Int, NEW vx \in Int, NEW w \in ScreenWidths
  PROVE  CenterWorkspace(a, x, vx, w) \in Int
BY WidthNat DEF CenterWorkspace

(* move(): where the view is, and is to be.                                *)
LEMMA MovedTo ==
  ASSUME NEW a \in Placement, NEW x \in Int
  PROVE  /\ Moved(a, x) \in Placement
         /\ Moved(a, x).pending = x
         /\ Moved(a, x).busy = a.busy /\ Moved(a, x).fullscreen = a.fullscreen
         /\ Moved(a, x).sticky = a.sticky
         /\ Moved(a, x).x = IF a.busy THEN a.x ELSE x
BY DEF Moved, Placement

(* A step of whole workspaces leaves the view on the same workspace.       *)
LEMMA CenterShift ==
  ASSUME NEW a \in Placement, NEW b \in Placement, b.fullscreen = a.fullscreen,
         NEW x \in Int, NEW vx \in Int, NEW to \in Int, NEW w \in ScreenWidths
  PROVE  CenterWorkspace(b, x + (vx - to) * w, to, w) = CenterWorkspace(a, x, vx, w)
<1>. DEFINE h == WidthOf(a, w) \div 2
<1>1. h \in Int /\ w \in Nat \ {0} /\ WidthOf(b, w) = WidthOf(a, w)
  BY WidthNat DEF WidthOf
<1>. HIDE DEF h
<1>2. x + h \in Int /\ vx - to \in Int /\ (vx - to) * w \in Int /\ (x + h) \div w \in Int
  BY <1>1
<1>3. ((x + h) + (vx - to) * w) \div w = ((x + h) \div w) + (vx - to)
  BY <1>1, <1>2, DivShift
<1>4. (x + (vx - to) * w) + h = (x + h) + (vx - to) * w
  BY <1>1, <1>2
<1>5. to + (((x + h) \div w) + (vx - to)) = vx + ((x + h) \div w)
  BY <1>2
<1>. QED
  BY <1>1, <1>3, <1>4, <1>5 DEF CenterWorkspace, h

(* A view that is to be seen nowhere on the grid goes to the workspace     *)
(* that it is sent to.                                                     *)
LEMMA SentThere ==
  ASSUME NEW a \in Placement, ~a.busy, a.x = a.pending, ~a.sticky,
         NEW vx \in Int, NEW n \in Nat \ {0}, NEW to \in 0..n - 1, NEW w \in ScreenWidths,
         ~Overlap(a.x, WidthOf(a, w), -vx * w, n * w)
  PROVE  LET b == MoveToWorkspace(a, to, vx, w)
         IN  /\ b \in Placement /\ ~b.busy /\ b.x = b.pending
             /\ CenterWorkspace(b, b.pending, vx, w) = to
<1>. DEFINE W == WidthOf(a, w)
            left == (to - vx) * w
            c == a.pending + W \div 2
            x == a.pending + left + (c % w) - c
<1>1. W \in Nat \ {0} /\ w \in Nat \ {0} /\ W \div 2 \in Int /\ a.pending \in Int
  BY WidthNat DEF Placement
<1>2. left \in Int /\ c \in Int
  BY <1>1
<1>3. c % w \in Int /\ 0 <= c % w /\ c % w < w
  BY <1>1, <1>2
<1>4. x \in Int /\ x + W \div 2 = left + (c % w)
  BY <1>1, <1>2, <1>3
<1>5. ~Overlap(a.pending, W, left, w)
  <2>1. left = to * w - vx * w
    BY <1>1
  <2>2. 0 <= to * w
    BY <1>1
  <2>3. (n - 1 - to) * w >= 0
    BY <1>1
  <2>4. (n - 1 - to) * w = n * w - w - to * w
    BY <1>1
  <2>5. -vx * w = 0 - vx * w /\ vx * w \in Int /\ to * w \in Int /\ n * w \in Int
    BY <1>1
  <2>6. PICK p \in Int, q \in Int, r \in Int : p = vx * w /\ q = to * w /\ r = n * w
    BY <2>5
  <2>7. left = q - p /\ 0 <= q /\ q + w <= r /\ -vx * w = 0 - p
    BY <1>1, <2>1, <2>2, <2>3, <2>4, <2>5, <2>6
  <2>8. ~Overlap(a.pending, W, 0 - p, r)
    BY <2>6, <2>7
  <2>. HIDE DEF left, W
  <2>. QED
    BY <1>1, <2>7, <2>8 DEF Overlap
<1>6. MoveToWorkspace(a, to, vx, w) = Moved(a, x)
  BY <1>5 DEF MoveToWorkspace
<1>. DEFINE b == Moved(a, x)
<1>. HIDE DEF x
<1>7. b \in Placement /\ ~b.busy /\ b.x = x /\ b.pending = x /\ b.fullscreen = a.fullscreen
  BY <1>4, MovedTo
<1>8. WidthOf(b, w) = W
  BY <1>7 DEF WidthOf
<1>. HIDE DEF b
<1>9. (x + W \div 2) \div w = to - vx
  <2>. HIDE DEF W, c, left
  <2>1. to - vx \in Int /\ x + W \div 2 \in Int
    BY <1>1, <1>4
  <2>2. (to - vx) * w = left
    BY DEF left
  <2>3. (to - vx) * w <= x + W \div 2 /\ x + W \div 2 < (to - vx) * w + w
    BY <1>1, <1>2, <1>3, <1>4, <2>2
  <2>. HIDE DEF x
  <2>. QED
    BY <1>1, <2>1, <2>3, DivUnique
<1>10. CenterWorkspace(b, x, vx, w) = to
  <2>. HIDE DEF W
  <2>. QED
    BY <1>8, <1>9 DEF CenterWorkspace
<1>. QED
  BY <1>6, <1>7, <1>10 DEF b

(* The nearest workspace is one of the grid.                               *)
LEMMA ClosestIn ==
  ASSUME NEW i \in Int, NEW n \in Nat \ {0}
  PROVE  Closest(i, n) \in 0..n - 1
BY DEF Closest

(* move_to_workspace() leaves no view between two geometries.              *)
LEMMA MoveTyped ==
  ASSUME NEW a \in Placement, NEW to \in Int, NEW vx \in Int, NEW w \in ScreenWidths
  PROVE  /\ MoveToWorkspace(a, to, vx, w) \in Placement
         /\ MoveToWorkspace(a, to, vx, w).busy = a.busy
         /\ ~a.busy /\ a.x = a.pending =>
              MoveToWorkspace(a, to, vx, w).x = MoveToWorkspace(a, to, vx, w).pending
<1>. DEFINE left == (IF a.sticky THEN 0 ELSE to - vx) * w
            c == a.pending + WidthOf(a, w) \div 2
            x == a.pending + left + (c % w) - c
<1>1. w \in Nat \ {0} /\ WidthOf(a, w) \div 2 \in Int /\ a.pending \in Int
  BY WidthNat DEF Placement
<1>2. left \in Int /\ c \in Int
  BY <1>1
<1>3. c % w \in Int
  BY <1>1, <1>2
<1>4. x \in Int
  BY <1>1, <1>2, <1>3
<1>5. MoveToWorkspace(a, to, vx, w) = a \/ MoveToWorkspace(a, to, vx, w) = Moved(a, x)
  BY DEF MoveToWorkspace
<1>. HIDE DEF x
<1>. QED
  BY <1>4, <1>5, MovedTo

(* on_grid_changed: a view that is still to be seen stays, one that is not *)
(* goes to the nearest workspace.                                          *)
LEMMA Pushed ==
  ASSUME NEW a \in Placement, NEW vx \in Int, NEW n \in Nat \ {0}, NEW w \in ScreenWidths
  PROVE  LET b == PushOnto(a, vx, n, w)
         IN  /\ b \in Placement /\ b.busy = a.busy
             /\ ~a.busy /\ a.x = a.pending => b.x = b.pending
             /\ ~a.busy /\ a.x = a.pending /\ ~a.sticky =>
                  CenterWorkspace(b, b.pending, vx, w) =
                    IF GridOverlap(a, vx, n, w) THEN CenterWorkspace(a, a.pending, vx, w)
                    ELSE Closest(CenterWorkspace(a, a.pending, vx, w), n)
<1>. DEFINE to == MainWorkspace(a, vx, n, w)
<1>1. to \in 0..n - 1 /\ to \in Int
  <2>1. a.x \in Int
    BY DEF Placement
  <2>2. CenterWorkspace(a, a.x, vx, w) \in Int
    BY <2>1, CenterInt
  <2>3. to \in 0..n - 1
    BY <2>2, ClosestIn DEF MainWorkspace
  <2>. HIDE DEF to
  <2>. QED
    BY <2>3
<1>2. CASE Overlap(a.x, WidthOf(a, w), -vx * w, n * w)
  <2>1. PushOnto(a, vx, n, w) = a
    BY <1>2 DEF PushOnto
  <2>. QED
    BY <1>2, <2>1 DEF GridOverlap
<1>3. CASE ~Overlap(a.x, WidthOf(a, w), -vx * w, n * w)
  <2>1. PushOnto(a, vx, n, w) = MoveToWorkspace(a, to, vx, w)
    BY <1>3 DEF PushOnto
  <2>2. a.x = a.pending => ~GridOverlap(a, vx, n, w)
    BY <1>3 DEF GridOverlap
  <2>3. a.x = a.pending => to = Closest(CenterWorkspace(a, a.pending, vx, w), n)
    BY DEF MainWorkspace
  <2>. HIDE DEF to
  <2>. QED
    BY <1>1, <1>3, <2>1, <2>2, <2>3, MoveTyped, SentThere
<1>. QED
  BY <1>2, <1>3

(* What the invariant says of one view.                                    *)
LEMMA GridFacts ==
  ASSUME GridInv, NEW v \in GridViews
  PROVE  /\ at[v] \in Placement /\ place[v] \in Int
         /\ at[v].x \in Int /\ at[v].pending \in Int
         /\ grid \in Nat \ {0} /\ current_vx \in Int /\ screen \in ScreenWidths
         /\ place[v] = CenterWorkspace(at[v], at[v].pending, current_vx, screen)
         /\ ~at[v].busy => at[v].x = at[v].pending
BY DEF GridInv, GridTypes, PlacesKept, Placement

(* set_workspace(), for one view.                                          *)
LEMMA SwitchedThere ==
  ASSUME NEW a \in Placement, NEW vx \in Int, NEW to \in Int, NEW w \in ScreenWidths
  PROVE  LET b == Switched(a, vx, to, w)
         IN  /\ b \in Placement /\ b.busy = a.busy /\ b.sticky = a.sticky
             /\ ~a.busy /\ a.x = a.pending => b.x = b.pending
             /\ ~a.sticky => CenterWorkspace(b, b.pending, to, w) = CenterWorkspace(a, a.pending, vx, w)
<1>1. CASE a.sticky
  BY <1>1 DEF Switched
<1>2. CASE ~a.sticky
  <2>1. a.pending \in Int /\ a.pending + (vx - to) * w \in Int
    BY WidthNat DEF Placement
  <2>2. PICK x \in Int : x = a.pending + (vx - to) * w
    BY <2>1
  <2>3. Switched(a, vx, to, w) = Moved(a, x)
    BY <1>2, <2>2 DEF Switched
  <2>4. PICK b \in Placement : b = Moved(a, x)
    BY MovedTo
  <2>5. b.fullscreen = a.fullscreen /\ b.pending = x /\ b.busy = a.busy /\ b.sticky = a.sticky
        /\ (~a.busy => b.x = x)
    BY <2>4, MovedTo
  <2>6. CenterWorkspace(b, x, to, w) = CenterWorkspace(a, a.pending, vx, w)
    BY <2>1, <2>2, <2>5, CenterShift
  <2>. QED
    BY <2>3, <2>4, <2>5, <2>6
<1>. QED
  BY <1>1, <1>2

(* The workspace is switched.                                              *)
LEMMA SetWorkspaceInv ==
  ASSUME GridInv, NEW to \in Int, NEW fixed, SetWorkspace(to, fixed)
  PROVE  GridInv'
<1>1. /\ current_vx' = to /\ UNCHANGED <<grid, has_custom_grid_size, screen>>
      /\ at' = [v \in GridViews |-> IF v \in fixed THEN at[v] ELSE Switched(at[v], current_vx, to, screen)]
      /\ place' = [v \in GridViews |->
           IF v \in fixed \/ at[v].sticky
           THEN CenterWorkspace(at[v], at[v].pending, to, screen) ELSE place[v]]
  BY DEF SetWorkspace
<1>2. ASSUME NEW v \in GridViews
      PROVE  /\ at'[v] \in Placement /\ place'[v] \in Int
             /\ place'[v] = CenterWorkspace(at'[v], at'[v].pending, to, screen)
             /\ ~at'[v].busy => at'[v].x = at'[v].pending
  <2>1. CenterWorkspace(at[v], at[v].pending, to, screen) \in Int
    BY GridFacts, CenterInt
  <2>2. CASE v \in fixed
    BY <1>1, <2>1, <2>2, GridFacts
  <2>3. CASE v \notin fixed /\ at[v].sticky
    <3>1. at'[v] = at[v]
      BY <1>1, <2>3 DEF Switched
    <3>. QED
      BY <1>1, <2>1, <2>3, <3>1, GridFacts
  <2>4. CASE v \notin fixed /\ ~at[v].sticky
    <3>1. at'[v] = Switched(at[v], current_vx, to, screen) /\ place'[v] = place[v]
      BY <1>1, <2>4
    <3>. QED
      BY <2>4, <3>1, GridFacts, SwitchedThere
  <2>. QED
    BY <2>2, <2>3, <2>4
<1>3. at' \in [GridViews -> Placement] /\ place' \in [GridViews -> Int]
  BY <1>1, <1>2
<1>4. GridTypes'
  BY <1>1, <1>3 DEF GridTypes, GridInv
<1>5. PlacesKept'
  BY <1>1, <1>2 DEF PlacesKept
<1>. QED
  BY <1>4, <1>5 DEF GridInv

(* The grid changes its size: the output goes to a workspace that remains, *)
(* then the views do.                                                      *)
LEMMA SetGridSizeInv ==
  ASSUME GridInv, NEW n \in Nat \ {0}, NEW byPlugin \in BOOLEAN, SetGridSize(n, byPlugin)
  PROVE  GridInv'
<1>1. PICK vx : vx = Closest(current_vx, n)
  OBVIOUS
<1>2. /\ grid' = n /\ current_vx' = vx /\ screen' = screen
      /\ has_custom_grid_size' = (has_custom_grid_size \/ byPlugin)
      /\ at' = [v \in GridViews |-> PushOnto(Switched(at[v], current_vx, vx, screen), vx, n, screen)]
      /\ place' = [v \in GridViews |->
           IF at[v].sticky \/ at[v].busy THEN CenterWorkspace(at'[v], at'[v].pending, vx, screen)
           ELSE IF GridOverlap(Switched(at[v], current_vx, vx, screen), vx, n, screen) THEN place[v]
                ELSE Closest(place[v], n)]
  BY <1>1 DEF SetGridSize
<1>3. current_vx \in Int /\ screen \in ScreenWidths
  BY DEF GridInv, GridTypes
<1>4. vx \in Int
  <2>1. vx \in 0..n - 1
    BY <1>1, <1>3, ClosestIn
  <2>. QED
    BY <2>1
<1>5. ASSUME NEW v \in GridViews
      PROVE  /\ at'[v] \in Placement /\ place'[v] \in Int
             /\ place'[v] = CenterWorkspace(at'[v], at'[v].pending, vx, screen)
             /\ ~at'[v].busy => at'[v].x = at'[v].pending
  <2>1. PICK b : b = Switched(at[v], current_vx, vx, screen)
    OBVIOUS
  <2>2. /\ b \in Placement /\ b.busy = at[v].busy /\ b.sticky = at[v].sticky
        /\ ~at[v].busy => b.x = b.pending
        /\ ~at[v].sticky => CenterWorkspace(b, b.pending, vx, screen) = place[v]
    BY <1>3, <1>4, <2>1, GridFacts, SwitchedThere
  <2>3. PICK c : c = PushOnto(b, vx, n, screen)
    OBVIOUS
  <2>4. /\ c \in Placement /\ c.busy = b.busy /\ (~b.busy => c.x = c.pending)
        /\ ~b.busy /\ ~b.sticky =>
             CenterWorkspace(c, c.pending, vx, screen) =
               IF GridOverlap(b, vx, n, screen) THEN place[v] ELSE Closest(place[v], n)
    BY <1>3, <1>4, <2>2, <2>3, Pushed
  <2>5. at'[v] = c
    BY <1>2, <2>1, <2>3
  <2>6. CenterWorkspace(c, c.pending, vx, screen) \in Int
    <3>1. c.pending \in Int
      BY <2>4 DEF Placement
    <3>. QED
      BY <1>3, <1>4, <2>4, <3>1, CenterInt
  <2>7. place'[v] = CenterWorkspace(c, c.pending, vx, screen)
    BY <1>2, <2>1, <2>2, <2>4, <2>5
  <2>. QED
    BY <2>2, <2>4, <2>5, <2>6, <2>7
<1>6. at' \in [GridViews -> Placement] /\ place' \in [GridViews -> Int]
  BY <1>2, <1>5
<1>7. has_custom_grid_size' \in BOOLEAN
  BY <1>2, Zenon DEF GridInv, GridTypes
<1>8. GridTypes'
  BY <1>2, <1>3, <1>4, <1>6, <1>7 DEF GridTypes
<1>9. PlacesKept'
  BY <1>2, <1>5 DEF PlacesKept
<1>. QED
  BY <1>8, <1>9 DEF GridInv

(* The output changes its size.                                            *)
LEMMA ChangeGeometryInv ==
  ASSUME GridInv, NEW w \in ScreenWidths, ChangeOutputGeometry(w)
  PROVE  GridInv'
<1>1. /\ screen' = w /\ UNCHANGED <<grid, has_custom_grid_size, current_vx>>
      /\ at' = [v \in GridViews |->
           IF at[v].fullscreen THEN [at[v] EXCEPT !.pending = 0, !.busy = TRUE]
           ELSE Moved(at[v], Scaled(at[v].x, screen, w))]
      /\ place' = [v \in GridViews |-> CenterWorkspace(at'[v], at'[v].pending, current_vx, w)]
  BY DEF ChangeOutputGeometry
<1>2. ASSUME NEW v \in GridViews
      PROVE  /\ at'[v] \in Placement /\ at'[v].pending \in Int
             /\ ~at'[v].busy => at'[v].x = at'[v].pending
  <2>1. CASE at[v].fullscreen
    <3>1. at'[v] = [at[v] EXCEPT !.pending = 0, !.busy = TRUE]
      BY <1>1, <2>1
    <3>2. PICK a \in Placement : a = at[v]
      BY GridFacts
    <3>3. PICK z \in Int : z = 0
      OBVIOUS
    <3>4. at'[v] = [a EXCEPT !.pending = z, !.busy = TRUE]
      BY <3>1, <3>2, <3>3
    <3>5. [a EXCEPT !.pending = z, !.busy = TRUE] \in Placement 
          /\ [a EXCEPT !.pending = z, !.busy = TRUE].pending = z
          /\ [a EXCEPT !.pending = z, !.busy = TRUE].busy
      BY DEF Placement
    <3>. QED
      BY <3>3, <3>4, <3>5
  <2>2. CASE ~at[v].fullscreen
    <3>1. Scaled(at[v].x, screen, w) \in Int
      <4>1. at[v].x \in Int /\ screen \in Nat \ {0} /\ w \in Nat \ {0}
        BY GridFacts, GridAssumption
      <4>2. at[v].x * w \in Int /\ -at[v].x * w \in Int
        BY <4>1
      <4>3. \A y \in Int : y \div screen \in Int
        BY <4>1
      <4>. QED
        BY <4>2, <4>3 DEF Scaled
    <3>2. PICK x \in Int : x = Scaled(at[v].x, screen, w)
      BY <3>1
    <3>3. PICK a \in Placement : a = at[v] /\ (~a.busy => a.x = a.pending)
      BY GridFacts
    <3>4. at'[v] = Moved(a, x)
      BY <1>1, <2>2, <3>2, <3>3
    <3>. QED
      BY <3>4, MovedTo
  <2>. QED
    BY <2>1, <2>2
<1>3. ASSUME NEW v \in GridViews
      PROVE  /\ place'[v] = CenterWorkspace(at'[v], at'[v].pending, current_vx, w)
             /\ place'[v] \in Int
  <2>1. place'[v] = CenterWorkspace(at'[v], at'[v].pending, current_vx, w)
    BY <1>1
  <2>. QED
    BY <1>2, <2>1, CenterInt, GridFacts
<1>4. at' \in [GridViews -> Placement] /\ place' \in [GridViews -> Int]
  BY <1>1, <1>2, <1>3
<1>5. GridTypes'
  BY <1>1, <1>4 DEF GridTypes, GridInv
<1>6. PlacesKept'
  BY <1>1, <1>2, <1>3 DEF PlacesKept
<1>. QED
  BY <1>5, <1>6 DEF GridInv

(* One view changes, and its place is where it is to be.                   *)
LEMMA ViewPlaced ==
  ASSUME GridInv, NEW v \in GridViews, NEW a \in Placement, at' = [at EXCEPT ![v] = a],
         UNCHANGED <<grid, has_custom_grid_size, current_vx, screen>>,
         place' = [place EXCEPT ![v] = CenterWorkspace(a, a.pending, current_vx, screen)],
         ~a.busy => a.x = a.pending
  PROVE  GridInv'
<1>1. CenterWorkspace(a, a.pending, current_vx, screen) \in Int
  <2>1. a.pending \in Int
    BY DEF Placement
  <2>. QED
    BY <2>1, CenterInt, GridFacts
<1>2. at' \in [GridViews -> Placement] /\ place' \in [GridViews -> Int]
  BY <1>1 DEF GridInv, GridTypes
<1>3. \A u \in GridViews : /\ at'[u] = IF u = v THEN a ELSE at[u]
                           /\ place'[u] = IF u = v THEN CenterWorkspace(a, a.pending, current_vx, screen)
                                          ELSE place[u]
  BY DEF GridInv, GridTypes
<1>4. PlacesKept'
  BY <1>3 DEF PlacesKept, GridInv
<1>5. GridTypes'
  BY <1>2 DEF GridTypes, GridInv
<1>. QED
  BY <1>4, <1>5 DEF GridInv

(* A view is moved.                                                        *)
LEMMA MoveViewInv ==
  ASSUME GridInv, NEW v \in GridViews, NEW x \in Int, MoveView(v, x)
  PROVE  GridInv'
<1>1. PICK a : a = Moved(at[v], x)
  OBVIOUS
<1>2. /\ a \in Placement /\ a.pending = x /\ a.busy = at[v].busy /\ a.fullscreen = at[v].fullscreen
      /\ ~a.busy => a.x = x
  BY <1>1, MovedTo, GridFacts
<1>3. CenterWorkspace(a, x, current_vx, screen) = CenterWorkspace(at[v], x, current_vx, screen)
  BY <1>2 DEF CenterWorkspace, WidthOf
<1>4. /\ at' = [at EXCEPT ![v] = a] /\ UNCHANGED <<grid, has_custom_grid_size, current_vx, screen>>
      /\ place' = [place EXCEPT ![v] = CenterWorkspace(at[v], x, current_vx, screen)]
  BY <1>1 DEF MoveView
<1>. QED
  BY <1>2, <1>3, <1>4, ViewPlaced

(* A client is told of a new size.                                         *)
LEMMA ResizeViewInv ==
  ASSUME GridInv, NEW v \in GridViews, NEW sticky \in BOOLEAN, ResizeView(v, sticky)
  PROVE  GridInv'
<1>1. PICK a : a = [at[v] EXCEPT !.busy = TRUE, !.sticky = sticky]
  OBVIOUS
<1>2. /\ a \in Placement /\ a.busy /\ a.fullscreen = at[v].fullscreen /\ a.pending = at[v].pending
  BY <1>1, GridFacts DEF Placement
<1>3. CenterWorkspace(a, a.pending, current_vx, screen) = place[v]
  BY <1>2, GridFacts DEF CenterWorkspace, WidthOf
<1>4. at' = [at EXCEPT ![v] = a] /\ UNCHANGED <<grid, has_custom_grid_size, current_vx, screen, place>>
  BY <1>1 DEF ResizeView, GridInv, GridTypes
<1>5. place' = [place EXCEPT ![v] = CenterWorkspace(a, a.pending, current_vx, screen)]
  BY <1>3, <1>4 DEF GridInv, GridTypes
<1>. QED
  BY <1>2, <1>4, <1>5, ViewPlaced

(* A view becomes fullscreen, or ends to be so.                            *)
LEMMA FullscreenViewInv ==
  ASSUME GridInv, NEW v \in GridViews, NEW full \in BOOLEAN, FullscreenView(v, full)
  PROVE  GridInv'
<1>. PICK b \in Placement : b = at[v]
  BY GridFacts
<1>. PICK z \in Int : z = 0
  OBVIOUS
<1>1. PICK a : a = [b EXCEPT !.fullscreen = full, !.x = z, !.pending = z]
  OBVIOUS
<1>2. a \in Placement /\ a.x = 0 /\ a.pending = 0
  BY <1>1 DEF Placement
<1>3. at' = [at EXCEPT ![v] = a] /\ UNCHANGED <<grid, has_custom_grid_size, current_vx, screen>>
      /\ place' = [place EXCEPT ![v] = CenterWorkspace(at'[v], 0, current_vx, screen)]
  BY <1>1 DEF FullscreenView, GridInv, GridTypes
<1>4. at'[v] = a
  BY <1>3 DEF GridInv, GridTypes
<1>. QED
  BY <1>2, <1>3, <1>4, ViewPlaced

(* A client answers.                                                       *)
LEMMA AnswerInv ==
  ASSUME GridInv, NEW v \in GridViews, Answer(v)
  PROVE  GridInv'
<1>1. PICK a : a = [at[v] EXCEPT !.busy = FALSE, !.x = at[v].pending]
  OBVIOUS
<1>2. /\ a \in Placement /\ a.fullscreen = at[v].fullscreen /\ a.pending = at[v].pending
      /\ a.x = a.pending
  BY <1>1, GridFacts DEF Placement
<1>3. CenterWorkspace(a, a.pending, current_vx, screen) = place[v]
  BY <1>2, GridFacts DEF CenterWorkspace, WidthOf
<1>4. at' = [at EXCEPT ![v] = a] /\ UNCHANGED <<grid, has_custom_grid_size, current_vx, screen, place>>
  BY <1>1 DEF Answer, GridInv, GridTypes
<1>5. place' = [place EXCEPT ![v] = CenterWorkspace(a, a.pending, current_vx, screen)]
  BY <1>3, <1>4 DEF GridInv, GridTypes
<1>. QED
  BY <1>2, <1>4, <1>5, ViewPlaced

(* All views are where they were put.                                      *)
LEMMA GridStarts == GridInit => GridInv
<1>. SUFFICES ASSUME GridInit PROVE GridInv
  OBVIOUS
<1>1. PICK a : a = [x |-> 0, pending |-> 0, busy |-> FALSE, sticky |-> FALSE, fullscreen |-> FALSE]
  OBVIOUS
<1>2. a \in Placement /\ a.x = 0 /\ a.pending = 0
  BY <1>1 DEF Placement
<1>3. /\ at = [v \in GridViews |-> a] /\ current_vx = 0 /\ screen \in ScreenWidths
      /\ grid = MaxGrid /\ has_custom_grid_size = FALSE
      /\ place = [v \in GridViews |-> CenterWorkspace(at[v], 0, 0, screen)]
  BY <1>1 DEF GridInit
<1>4. CenterWorkspace(a, 0, 0, screen) \in Int
  BY <1>2, <1>3, CenterInt
<1>5. at \in [GridViews -> Placement] /\ place \in [GridViews -> Int]
  BY <1>2, <1>3, <1>4
<1>6. GridTypes
  <2>1. has_custom_grid_size \in BOOLEAN
    BY <1>3, Zenon
  <2>2. grid \in Nat \ {0} /\ current_vx \in Int
    BY <1>3, GridAssumption
  <2>. QED
    BY <1>3, <1>5, <2>1, <2>2 DEF GridTypes
<1>7. PlacesKept
  BY <1>2, <1>3 DEF PlacesKept
<1>. QED
  BY <1>6, <1>7 DEF GridInv

(* Every step keeps the invariant.                                         *)
LEMMA GridMoves == GridInv /\ [GridNext]_gridVars => GridInv'
<1>. SUFFICES ASSUME GridInv, [GridNext]_gridVars PROVE GridInv'
  OBVIOUS
<1>1. CASE UNCHANGED gridVars
  BY <1>1 DEF gridVars, GridInv, GridTypes, PlacesKept
<1>2. ASSUME NEW to \in 0..MaxGrid - 1, NEW fixed \in SUBSET GridViews, SetWorkspace(to, fixed)
      PROVE  GridInv'
  <2>1. to \in Int
    OBVIOUS
  <2>. QED
    BY <1>2, <2>1, SetWorkspaceInv
<1>3. ASSUME NEW n \in 1..MaxGrid, NEW byPlugin \in BOOLEAN, SetGridSize(n, byPlugin)
      PROVE  GridInv'
  <2>1. n \in Nat \ {0}
    BY GridAssumption
  <2>. QED
    BY <1>3, <2>1, SetGridSizeInv
<1>4. ASSUME NEW v \in GridViews, NEW x \in -MaxX..MaxX, MoveView(v, x)
      PROVE  GridInv'
  <2>1. x \in Int
    BY GridAssumption
  <2>. QED
    BY <1>4, <2>1, MoveViewInv
<1>. QED
  BY <1>1, <1>2, <1>3, <1>4, ChangeGeometryInv, ResizeViewInv, FullscreenViewInv, AnswerInv DEF GridNext

(* A view whose client has answered is on the workspace where it was put.  *)
LEMMA PlacedSo == GridInv => KeepsPlace
<1>. SUFFICES ASSUME GridInv, NEW v \in GridViews, ~at[v].busy
              PROVE  MainWorkspace(at[v], current_vx, grid, screen) = Closest(place[v], grid)
  BY DEF KeepsPlace
<1>. QED
  BY GridFacts DEF MainWorkspace

-----------------------------------------------------------------------------
(* Workspace sets and their outputs: workspace-impl.cpp and wsets.cpp.     *)
Parents == {InSet(i) : i \in Index} \cup {OnTop(o) : o \in WsOutputs} \cup {Detached}

SetRecords == [output: WsOutputs \cup {NoOutput}, visible: BOOLEAN, views: SUBSET WsViews]
ViewRecords ==
  [mapped: BOOLEAN, minimized: BOOLEAN, above: BOOLEAN, wset: Index \cup {NoSet},
   output: WsOutputs \cup {NoOutput}, parent: Parents, enabled: Int]
SetStates ==
  [current: [WsOutputs -> Index \cup {NoSet}], available: SUBSET Index,
   set: [Index -> SetRecords], view: [WsViews -> ViewRecords]]

(* Outputs and their sets agree.                                           *)
SetsAgree(s) ==
  /\ \A o \in WsOutputs : Exists(s, o) =>
       s.set[s.current[o]].output = o /\ s.set[s.current[o]].visible
  /\ \A i \in Index : s.set[i].output # NoOutput =>
       /\ Exists(s, s.set[i].output)
       /\ s.set[i].visible => s.current[s.set[i].output] = i

(* A view is in the set that it takes for its own, and has an output that  *)
(* one of its sets has, or none of them.                                   *)
ViewsHeld(s) ==
  \A v \in WsViews :
    /\ s.view[v].wset # NoSet => v \in s.set[s.view[v].wset].views
    /\ s.view[v].output # NoOutput =>
         /\ Exists(s, s.view[v].output)
         /\ s.view[v].wset = NoSet
            \/ \E i \in Index : v \in s.set[i].views /\ s.set[i].output = s.view[v].output

(* Views that were never in two sets; and among them those that were never *)
(* always on top, which are under the node of their set.                   *)
InOneSet(s, D) ==
  \A v \in WsViews \ D :
    /\ s.view[v].mapped => s.view[v].wset # NoSet
    /\ \A i \in Index : v \in s.set[i].views => s.view[v].wset = i
    /\ s.view[v].wset # NoSet => s.view[v].output = s.set[s.view[v].wset].output

UnderSet(s, D) ==
  \A v \in WsViews \ D :
    /\ ~s.view[v].above
    /\ s.view[v].wset # NoSet => s.view[v].parent = InSet(s.view[v].wset)
    /\ s.view[v].enabled = (IF s.view[v].mapped THEN 1 ELSE 0) - (IF s.view[v].minimized THEN 1 ELSE 0)

(* Every set of an output is available, and one that is not has no views.  *)
SetsHeld(s) ==
  /\ \A o \in WsOutputs : Exists(s, o) => s.current[o] \in s.available
  /\ \A i \in Index \ s.available : s.set[i].views = {}

SetsWhole(s, D, R) ==
  /\ s \in SetStates /\ SetsAgree(s) /\ ViewsHeld(s) /\ InOneSet(s, D) /\ UnderSet(s, D \cup R)

WsInv == SetsWhole(ws, doubled, raised) /\ SetsHeld(ws)

(* Nodes have one place.                                                   *)
LEMMA ParentsDiffer ==
  /\ \A i \in Index : InSet(i) \in Parents
  /\ \A o \in WsOutputs : OnTop(o) \in Parents
  /\ Detached \in Parents
  /\ \A i \in Index, k \in Index : InSet(i) = InSet(k) => i = k
  /\ \A i \in Index, o \in WsOutputs : InSet(i) # OnTop(o)
BY DEF Parents, InSet, OnTop, Detached

(* The parts of a state, and of the records in it, have their types.       *)
LEMMA StateFields ==
  ASSUME NEW s \in SetStates
  PROVE  /\ s.current \in [WsOutputs -> Index \cup {NoSet}] /\ s.available \in SUBSET Index
         /\ s.set \in [Index -> SetRecords] /\ s.view \in [WsViews -> ViewRecords]
         /\ \A i \in Index : /\ s.set[i] \in SetRecords /\ s.set[i].visible \in BOOLEAN
                             /\ s.set[i].output \in WsOutputs \cup {NoOutput}
                             /\ s.set[i].views \in SUBSET WsViews
         /\ \A v \in WsViews : /\ s.view[v] \in ViewRecords
                               /\ s.view[v].wset \in Index \cup {NoSet}
                               /\ s.view[v].output \in WsOutputs \cup {NoOutput}
                               /\ s.view[v].parent \in Parents /\ s.view[v].enabled \in Int
         /\ \A o \in WsOutputs : s.current[o] \in Index \cup {NoSet}
BY DEF SetStates, SetRecords, ViewRecords

(* One part of the state changes.                                          *)
LEMMA StateParts ==
  ASSUME NEW s \in SetStates
  PROVE  /\ \A f \in [WsViews -> ViewRecords] : [s EXCEPT !.view = f] \in SetStates
         /\ \A f : /\ [s EXCEPT !.view = f].view = f /\ [s EXCEPT !.view = f].set = s.set
                   /\ [s EXCEPT !.view = f].current = s.current
                   /\ [s EXCEPT !.view = f].available = s.available
         /\ \A g \in [Index -> SetRecords] : [s EXCEPT !.set = g] \in SetStates
         /\ \A g : /\ [s EXCEPT !.set = g].view = s.view /\ [s EXCEPT !.set = g].set = g
                   /\ [s EXCEPT !.set = g].current = s.current
                   /\ [s EXCEPT !.set = g].available = s.available
         /\ \A a \in SUBSET Index : [s EXCEPT !.available = a] \in SetStates
         /\ \A a : /\ [s EXCEPT !.available = a].view = s.view /\ [s EXCEPT !.available = a].set = s.set
                   /\ [s EXCEPT !.available = a].current = s.current
                   /\ [s EXCEPT !.available = a].available = a
         /\ \A c \in [WsOutputs -> Index \cup {NoSet}] : [s EXCEPT !.current = c] \in SetStates
         /\ \A c : /\ [s EXCEPT !.current = c].view = s.view /\ [s EXCEPT !.current = c].set = s.set
                   /\ [s EXCEPT !.current = c].current = c
                   /\ [s EXCEPT !.current = c].available = s.available
BY DEF SetStates

(* The parts of a view that neither showing nor moving its set changes.    *)
SameView(r, q) ==
  /\ r.mapped = q.mapped /\ r.minimized = q.minimized /\ r.above = q.above
  /\ r.wset = q.wset /\ r.parent = q.parent

(* One part of the record of a view changes.                               *)
LEMMA ViewChanges ==
  ASSUME NEW q \in ViewRecords
  PROVE  /\ \A n \in Int : LET r == [q EXCEPT !.enabled = n]
                           IN /\ r \in ViewRecords /\ r.enabled = n /\ r.output = q.output
                              /\ SameView(r, q)
         /\ \A o \in WsOutputs \cup {NoOutput} :
              LET r == [q EXCEPT !.output = o]
              IN /\ r \in ViewRecords /\ r.output = o /\ r.enabled = q.enabled /\ SameView(r, q)
         /\ \A p \in Parents :
              LET r == [q EXCEPT !.parent = p]
              IN /\ r \in ViewRecords /\ r.parent = p /\ r.enabled = q.enabled /\ r.output = q.output
                 /\ r.mapped = q.mapped /\ r.minimized = q.minimized /\ r.above = q.above
                 /\ r.wset = q.wset
         /\ \A i \in Index \cup {NoSet} :
              LET r == [q EXCEPT !.wset = i]
              IN /\ r \in ViewRecords /\ r.wset = i /\ r.enabled = q.enabled /\ r.output = q.output
                 /\ r.mapped = q.mapped /\ r.minimized = q.minimized /\ r.above = q.above
                 /\ r.parent = q.parent
BY DEF ViewRecords, SameView

(* One part of the record of a set changes.                                *)
LEMMA SetChanges ==
  ASSUME NEW q \in SetRecords
  PROVE  /\ \A b \in BOOLEAN : LET r == [q EXCEPT !.visible = b]
                               IN  /\ r \in SetRecords /\ r.visible = b
                                   /\ r.output = q.output /\ r.views = q.views
         /\ \A o \in WsOutputs \cup {NoOutput} :
              LET r == [q EXCEPT !.output = o]
              IN r \in SetRecords /\ r.visible = q.visible /\ r.output = o /\ r.views = q.views
         /\ \A V \in SUBSET WsViews :
              LET r == [q EXCEPT !.views = V]
              IN r \in SetRecords /\ r.visible = q.visible /\ r.output = q.output /\ r.views = V
BY DEF SetRecords

(* set_visible(): only views outside of the set's node are enabled or      *)
(* disabled.                                                               *)
LEMMA VisibleSet ==
  ASSUME NEW s \in SetStates, NEW i \in Index, NEW b \in BOOLEAN,
         NEW r, r = SetVisible(s, i, b)
  PROVE  /\ r \in SetStates /\ r.current = s.current /\ r.available = s.available
         /\ \A k \in Index : /\ r.set[k].views = s.set[k].views /\ r.set[k].output = s.set[k].output
                             /\ k # i => r.set[k].visible = s.set[k].visible
         /\ r.set[i].visible = b
         /\ \A v \in WsViews : /\ SameView(r.view[v], s.view[v])
                               /\ r.view[v].output = s.view[v].output
                               /\ v \notin Outside(s, i) => r.view[v].enabled = s.view[v].enabled
<1>1. CASE s.set[i].visible = b
  <2>1. r = s
    BY <1>1 DEF SetVisible
  <2>. QED
    BY <1>1, <2>1 DEF SameView
<1>2. CASE s.set[i].visible # b
  <2>1. s.set[i] \in SetRecords
    BY StateFields
  <2>2. PICK q : q = [s.set[i] EXCEPT !.visible = b]
    OBVIOUS
  <2>3. q \in SetRecords /\ q.visible = b /\ q.output = s.set[i].output /\ q.views = s.set[i].views
    BY <2>1, <2>2, SetChanges
  <2>4. PICK g : g = [s.set EXCEPT ![i] = q]
    OBVIOUS
  <2>5. /\ g \in [Index -> SetRecords]
        /\ g[i] = q /\ \A k \in Index \ {i} : g[k] = s.set[k]
    BY <2>3, <2>4, StateFields
  <2>6. PICK f : f = [v \in WsViews |-> IF v \in Outside(s, i)
                        THEN [s.view[v] EXCEPT !.enabled = @ + IF b THEN 1 ELSE -1] ELSE s.view[v]]
    OBVIOUS
  <2>7. ASSUME NEW v \in WsViews
        PROVE  /\ f[v] \in ViewRecords /\ SameView(f[v], s.view[v]) /\ f[v].output = s.view[v].output
               /\ v \notin Outside(s, i) => f[v].enabled = s.view[v].enabled
    <3>1. PICK n \in Int : n = s.view[v].enabled + IF b THEN 1 ELSE -1
      BY StateFields
    <3>2. f[v] = s.view[v] \/ (v \in Outside(s, i) /\ f[v] = [s.view[v] EXCEPT !.enabled = n])
      BY <2>6, <3>1
    <3>. QED
      BY <2>6, <3>2, ViewChanges, StateFields DEF SameView
  <2>8. f \in [WsViews -> ViewRecords]
    BY <2>6, <2>7
  <2>9. PICK t : t = [s EXCEPT !.set = g]
    OBVIOUS
  <2>10. t \in SetStates /\ t.view = s.view /\ t.set = g /\ t.current = s.current /\ t.available = s.available
    BY <2>5, <2>9, StateParts
  <2>11. PICK u : u = [t EXCEPT !.view = f]
    OBVIOUS
  <2>12. r = u
    BY <1>2, <2>2, <2>4, <2>6, <2>9, <2>10, <2>11 DEF SetVisible, WithViews
  <2>13. u \in SetStates /\ u.view = f /\ u.set = g /\ u.current = s.current /\ u.available = s.available
    BY <2>8, <2>10, <2>11, StateParts
  <2>. QED
    BY <2>3, <2>5, <2>7, <2>12, <2>13
<1>. QED
  BY <1>1, <1>2

(* The views V get the output o, and nothing else changes.                 *)
LEMMA OutputSet ==
  ASSUME NEW s \in SetStates, NEW V, NEW o \in WsOutputs \cup {NoOutput}
  PROVE  LET r == SetOutput(s, V, o)
         IN  /\ r \in SetStates /\ r.current = s.current /\ r.available = s.available /\ r.set = s.set
             /\ \A v \in WsViews : /\ SameView(r.view[v], s.view[v])
                                   /\ r.view[v].enabled = s.view[v].enabled
                                   /\ r.view[v].output = IF v \in V THEN o ELSE s.view[v].output
<1>1. PICK f : f = [v \in WsViews |-> IF v \in V THEN [s.view[v] EXCEPT !.output = o] ELSE s.view[v]]
  OBVIOUS
<1>2. ASSUME NEW v \in WsViews
      PROVE  /\ f[v] \in ViewRecords /\ SameView(f[v], s.view[v]) /\ f[v].enabled = s.view[v].enabled
             /\ f[v].output = IF v \in V THEN o ELSE s.view[v].output
  BY <1>1, ViewChanges, StateFields DEF SameView
<1>3. f \in [WsViews -> ViewRecords]
  BY <1>1, <1>2
<1>4. SetOutput(s, V, o) = [s EXCEPT !.view = f]
  BY <1>1 DEF SetOutput, WithViews
<1>. QED
  BY <1>2, <1>3, <1>4, StateParts

(* The views V get the parent p, and nothing else changes.                 *)
LEMMA ParentSet ==
  ASSUME NEW s \in SetStates, NEW V, NEW p \in Parents
  PROVE  LET r == Reparent(s, V, p)
         IN  /\ r \in SetStates /\ r.current = s.current /\ r.available = s.available /\ r.set = s.set
             /\ \A v \in WsViews :
                  /\ r.view[v].mapped = s.view[v].mapped /\ r.view[v].minimized = s.view[v].minimized
                  /\ r.view[v].above = s.view[v].above /\ r.view[v].wset = s.view[v].wset
                  /\ r.view[v].enabled = s.view[v].enabled /\ r.view[v].output = s.view[v].output
                  /\ r.view[v].parent = IF v \in V THEN p ELSE s.view[v].parent
<1>1. PICK f : f = [v \in WsViews |-> IF v \in V THEN [s.view[v] EXCEPT !.parent = p] ELSE s.view[v]]
  OBVIOUS
<1>2. ASSUME NEW v \in WsViews
      PROVE  /\ f[v] \in ViewRecords
             /\ f[v].mapped = s.view[v].mapped /\ f[v].minimized = s.view[v].minimized
             /\ f[v].above = s.view[v].above /\ f[v].wset = s.view[v].wset
             /\ f[v].enabled = s.view[v].enabled /\ f[v].output = s.view[v].output
             /\ f[v].parent = IF v \in V THEN p ELSE s.view[v].parent
  BY <1>1, ViewChanges, StateFields
<1>3. f \in [WsViews -> ViewRecords]
  BY <1>1, <1>2
<1>4. Reparent(s, V, p) = [s EXCEPT !.view = f]
  BY <1>1 DEF Reparent, WithViews
<1>. QED
  BY <1>2, <1>3, <1>4, StateParts

(* attach_to_output(): the views of the set go to its output.              *)
LEMMA AttachedSet ==
  ASSUME NEW s \in SetStates, NEW i \in Index, NEW o \in WsOutputs \cup {NoOutput}
  PROVE  LET r == Attach(s, i, o)
         IN  /\ r \in SetStates /\ r.current = s.current /\ r.available = s.available
             /\ \A k \in Index : /\ r.set[k].views = s.set[k].views /\ r.set[k].visible = s.set[k].visible
                                 /\ r.set[k].output = IF k = i THEN o ELSE s.set[k].output
             /\ \A v \in WsViews : /\ SameView(r.view[v], s.view[v])
                                   /\ r.view[v].enabled = s.view[v].enabled
                                   /\ r.view[v].output = IF v \in s.set[i].views /\ s.set[i].output # o THEN o
                                                         ELSE s.view[v].output
<1>1. CASE s.set[i].output = o
  <2>1. Attach(s, i, o) = s
    BY <1>1 DEF Attach
  <2>. QED
    BY <1>1, <2>1 DEF SameView
<1>2. CASE s.set[i].output # o
  <2>1. PICK q : q = [s.set[i] EXCEPT !.output = o]
    OBVIOUS
  <2>2. q \in SetRecords /\ q.visible = s.set[i].visible /\ q.output = o /\ q.views = s.set[i].views
    <3>1. s.set[i] \in SetRecords
      BY StateFields
    <3>. QED
      BY <2>1, <3>1, SetChanges
  <2>3. PICK g : g = [s.set EXCEPT ![i] = q]
    OBVIOUS
  <2>4. /\ g \in [Index -> SetRecords]
        /\ g[i] = q /\ \A k \in Index \ {i} : g[k] = s.set[k]
    BY <2>2, <2>3, StateFields
  <2>5. PICK t : t = [s EXCEPT !.set = g]
    OBVIOUS
  <2>6. t \in SetStates /\ t.view = s.view /\ t.set = g /\ t.current = s.current /\ t.available = s.available
    BY <2>4, <2>5, StateParts
  <2>7. Attach(s, i, o) = SetOutput(t, s.set[i].views, o)
    BY <1>2, <2>1, <2>3, <2>5 DEF Attach
  <2>. QED
    BY <1>2, <2>2, <2>4, <2>6, <2>7, OutputSet
<1>. QED
  BY <1>1, <1>2

(* An output shows a set that no other one shows: the old one is hidden,   *)
(* the new one comes with its views.                                       *)
LEMMA ShowsSet ==
  ASSUME NEW s, NEW D, NEW R, SetsWhole(s, D, R), NEW o \in WsOutputs, NEW i \in Index,
         \A p \in WsOutputs \ {o} : s.current[p] # i
  PROVE  LET r == SetWorkspaceSet(s, o, i)
         IN  /\ SetsWhole(r, D, R)
             /\ r.current = [s.current EXCEPT ![o] = i] /\ r.available = s.available
             /\ \A k \in Index : r.set[k].views = s.set[k].views
<1>1. s \in SetStates /\ SetsAgree(s) /\ ViewsHeld(s) /\ InOneSet(s, D) /\ UnderSet(s, D \cup R)
  BY DEF SetsWhole
<1>2. CASE s.current[o] = i
  <2>1. SetWorkspaceSet(s, o, i) = s
    BY <1>2 DEF SetWorkspaceSet
  <2>. QED
    BY <1>1, <1>2, <2>1, StateFields
<1>3. CASE s.current[o] # i
  <2>. DEFINE h == s.current[o]
  <2>1. PICK a : a = Hidden(s, h)
    OBVIOUS
  <2>2. /\ a \in SetStates /\ a.current = s.current /\ a.available = s.available
        /\ \A k \in Index : /\ a.set[k].views = s.set[k].views /\ a.set[k].output = s.set[k].output
                            /\ k # h => a.set[k].visible = s.set[k].visible
                            /\ k = h => ~a.set[k].visible
        /\ \A v \in WsViews : /\ SameView(a.view[v], s.view[v]) /\ a.view[v].output = s.view[v].output
                              /\ h = NoSet \/ v \notin Outside(s, h) => a.view[v].enabled = s.view[v].enabled
    <3>1. CASE h = NoSet
      BY <1>1, <2>1, <3>1, WsetsAssumption DEF Hidden, SameView
    <3>2. CASE h # NoSet
      <4>1. h \in Index
        BY <1>1, <3>2, StateFields
      <4>2. PICK n \in BOOLEAN : ~n
        OBVIOUS
      <4>3. a = SetVisible(s, h, n) /\ n \in BOOLEAN
        BY <2>1, <3>2, <4>2 DEF Hidden
      <4>. HIDE DEF h
      <4>4. /\ a \in SetStates /\ a.current = s.current /\ a.available = s.available
            /\ \A k \in Index : /\ a.set[k].views = s.set[k].views /\ a.set[k].output = s.set[k].output
                                /\ k # h => a.set[k].visible = s.set[k].visible
            /\ a.set[h].visible = n
            /\ \A v \in WsViews : /\ SameView(a.view[v], s.view[v]) /\ a.view[v].output = s.view[v].output
                                  /\ v \notin Outside(s, h) => a.view[v].enabled = s.view[v].enabled
        BY <1>1, <4>1, <4>3, VisibleSet
      <4>. QED
        BY <3>2, <4>2, <4>4
    <3>. QED
      BY <3>1, <3>2
  <2>3. PICK b : b = Attach(a, i, o)
    OBVIOUS
  <2>4. /\ b \in SetStates /\ b.current = a.current /\ b.available = a.available
        /\ \A k \in Index : /\ b.set[k].views = a.set[k].views /\ b.set[k].visible = a.set[k].visible
                            /\ b.set[k].output = IF k = i THEN o ELSE a.set[k].output
        /\ \A v \in WsViews : /\ SameView(b.view[v], a.view[v])
                              /\ b.view[v].enabled = a.view[v].enabled
                              /\ b.view[v].output = IF v \in a.set[i].views /\ a.set[i].output # o THEN o
                                                    ELSE a.view[v].output
    BY <2>2, <2>3, AttachedSet
  <2>5. PICK c : c = SetVisible(b, i, TRUE)
    OBVIOUS
  <2>6. PICK y \in BOOLEAN : y
    OBVIOUS
  <2>7. c = SetVisible(b, i, y) /\ y \in BOOLEAN
    BY <2>5, <2>6
  <2>8. /\ c \in SetStates /\ c.current = b.current /\ c.available = b.available
        /\ \A k \in Index : /\ c.set[k].views = b.set[k].views /\ c.set[k].output = b.set[k].output
                            /\ k # i => c.set[k].visible = b.set[k].visible
        /\ c.set[i].visible
        /\ \A v \in WsViews : /\ SameView(c.view[v], b.view[v]) /\ c.view[v].output = b.view[v].output
                              /\ v \notin Outside(b, i) => c.view[v].enabled = b.view[v].enabled
    <3>1. /\ c \in SetStates /\ c.current = b.current /\ c.available = b.available
          /\ \A k \in Index : /\ c.set[k].views = b.set[k].views /\ c.set[k].output = b.set[k].output
                              /\ k # i => c.set[k].visible = b.set[k].visible
          /\ c.set[i].visible = y
          /\ \A v \in WsViews : /\ SameView(c.view[v], b.view[v]) /\ c.view[v].output = b.view[v].output
                                /\ v \notin Outside(b, i) => c.view[v].enabled = b.view[v].enabled
      BY <2>4, <2>7, VisibleSet
    <3>. QED
      BY <2>6, <3>1
  <2>9. PICK e : e = [s.current EXCEPT ![o] = i]
    OBVIOUS
  <2>10. e \in [WsOutputs -> Index \cup {NoSet}]
    BY <1>1, <2>9, StateFields
  <2>11. PICK r : r = [c EXCEPT !.current = e]
    OBVIOUS
  <2>12. SetWorkspaceSet(s, o, i) = r
    <3>1. SetWorkspaceSet(s, o, i) = [c EXCEPT !.current[o] = i]
      BY <1>3, <2>1, <2>3, <2>5 DEF SetWorkspaceSet
    <3>. QED
      BY <2>2, <2>4, <2>8, <2>9, <2>11, <3>1
  <2>13. r \in SetStates /\ r.set = c.set /\ r.view = c.view /\ r.available = c.available /\ r.current = e
    BY <2>8, <2>10, <2>11, StateParts
  <2>14. /\ r.available = s.available
         /\ \A k \in Index : /\ r.set[k].views = s.set[k].views
                             /\ k # i => r.set[k].output = s.set[k].output
                             /\ k # i /\ k # h => r.set[k].visible = s.set[k].visible
                             /\ k # i /\ k = h => ~r.set[k].visible
         /\ r.set[i].output = o /\ r.set[i].visible
    BY <2>2, <2>4, <2>8, <2>13
  <2>15. ASSUME NEW v \in WsViews
         PROVE  /\ SameView(r.view[v], s.view[v])
                /\ v \in s.set[i].views /\ s.set[i].output # o => r.view[v].output = o
                /\ ~(v \in s.set[i].views /\ s.set[i].output # o) => r.view[v].output = s.view[v].output
                /\ (h = NoSet \/ v \notin Outside(s, h)) /\ v \notin Outside(b, i) =>
                     r.view[v].enabled = s.view[v].enabled
    <3>1. SameView(a.view[v], s.view[v]) /\ SameView(b.view[v], a.view[v]) /\ SameView(r.view[v], b.view[v])
      BY <2>2, <2>4, <2>8, <2>13
    <3>2. SameView(r.view[v], s.view[v])
      BY <3>1 DEF SameView
    <3>. QED
      BY <2>2, <2>4, <2>8, <2>13, <3>2
  <2>16. /\ r.current[o] = i
         /\ \A p \in WsOutputs \ {o} : r.current[p] = s.current[p]
    BY <1>1, <2>9, <2>13, StateFields
  <2>17. ASSUME NEW v \in WsViews \ (D \cup R)
         PROVE  r.view[v].enabled = s.view[v].enabled
    <3>1. ASSUME NEW k \in Index PROVE v \notin Outside(s, k) /\ v \notin Outside(b, k)
      <4>1. v \in s.set[k].views => s.view[v].parent = InSet(k)
        BY <1>1, WsetsAssumption DEF InOneSet, UnderSet
      <4>2. b.view[v].parent = s.view[v].parent /\ b.set[k].views = s.set[k].views
        BY <2>2, <2>4 DEF SameView
      <4>. QED
        BY <4>1, <4>2 DEF Outside
    <3>2. h = NoSet \/ h \in Index
      BY <1>1, StateFields
    <3>. QED
      BY <2>2, <2>14, <2>15, <3>1, <3>2
  <2>. HIDE DEF h
  <2>18. SetsAgree(r)
    <3>1. \A p \in WsOutputs : Exists(r, p) =>
            r.set[r.current[p]].output = p /\ r.set[r.current[p]].visible
      <4>1. ASSUME NEW p \in WsOutputs \ {o}, Exists(r, p)
            PROVE  r.set[r.current[p]].output = p /\ r.set[r.current[p]].visible
        <5>1. r.current[p] = s.current[p] /\ s.current[p] \in Index /\ Exists(s, p)
          BY <1>1, <2>16, <4>1, StateFields DEF Exists
        <5>2. s.set[s.current[p]].output = p /\ s.set[s.current[p]].visible
          BY <1>1, <5>1 DEF SetsAgree
        <5>3. s.current[p] # i /\ s.current[p] # h
          <6>1. h = NoSet \/ s.set[h].output = o
            BY <1>1 DEF SetsAgree, Exists, h
          <6>. QED
            BY <5>1, <5>2, <6>1 DEF Exists
        <5>. QED
          BY <2>14, <2>15, <5>1, <5>2, <5>3
      <4>2. r.set[i].output = o /\ r.set[i].visible
        BY <2>14, <2>15
      <4>. QED
        BY <2>16, <4>1, <4>2
    <3>2. ASSUME NEW k \in Index, r.set[k].output # NoOutput
          PROVE  /\ Exists(r, r.set[k].output)
                 /\ r.set[k].visible => r.current[r.set[k].output] = k
      <4>1. CASE k = i
        BY <2>14, <2>15, <2>16, <4>1, WsetsAssumption DEF Exists
      <4>2. CASE k # i
        <5>1. r.set[k].output = s.set[k].output /\ s.set[k].output \in WsOutputs
          BY <1>1, <2>14, <2>15, <3>2, <4>2, StateFields
        <5>2. Exists(s, s.set[k].output) /\ (s.set[k].visible => s.current[s.set[k].output] = k)
          BY <1>1, <3>2, <5>1 DEF SetsAgree
        <5>3. CASE s.set[k].output = o
          BY <2>14, <2>15, <2>16, <4>2, <5>1, <5>2, <5>3, WsetsAssumption DEF Exists, h
        <5>4. CASE s.set[k].output # o
          BY <2>14, <2>15, <2>16, <4>2, <5>1, <5>2, <5>4 DEF Exists
        <5>. QED
          BY <5>3, <5>4
      <4>. QED
        BY <4>1, <4>2
    <3>. QED
      BY <3>1, <3>2 DEF SetsAgree
  <2>19. \A p \in WsOutputs : Exists(s, p) => Exists(r, p)
    BY <2>16, WsetsAssumption DEF Exists
  <2>20. ViewsHeld(r)
    <3>1. ASSUME NEW v \in WsViews, r.view[v].wset # NoSet PROVE v \in r.set[r.view[v].wset].views
      BY <1>1, <2>14, <2>15, <3>1, StateFields DEF ViewsHeld, SameView
    <3>2. ASSUME NEW v \in WsViews, r.view[v].output # NoOutput
          PROVE  /\ Exists(r, r.view[v].output)
                 /\ r.view[v].wset = NoSet
                    \/ \E k \in Index : v \in r.set[k].views /\ r.set[k].output = r.view[v].output
      <4>1. r.view[v].wset = s.view[v].wset
        BY <2>14, <2>15 DEF SameView
      <4>2. CASE v \in s.set[i].views /\ s.set[i].output # o
        BY <2>14, <2>15, <2>16, <4>2, WsetsAssumption DEF Exists
      <4>3. CASE ~(v \in s.set[i].views /\ s.set[i].output # o)
        <5>1. r.view[v].output = s.view[v].output /\ s.view[v].output \in WsOutputs
          BY <1>1, <2>14, <2>15, <3>2, <4>3, StateFields
        <5>2. /\ Exists(s, s.view[v].output)
              /\ s.view[v].wset = NoSet
                 \/ \E k \in Index : v \in s.set[k].views /\ s.set[k].output = s.view[v].output
          BY <1>1, <3>2, <5>1 DEF ViewsHeld
        <5>3. ASSUME NEW k \in Index, v \in s.set[k].views, s.set[k].output = s.view[v].output
              PROVE  v \in r.set[k].views /\ r.set[k].output = r.view[v].output
          BY <2>14, <2>15, <4>3, <5>1, <5>3
        <5>. QED
          BY <2>19, <4>1, <5>1, <5>2, <5>3
      <4>. QED
        BY <4>2, <4>3
    <3>. QED
      BY <3>1, <3>2 DEF ViewsHeld
  <2>21. InOneSet(r, D)
    <3>1. ASSUME NEW v \in WsViews \ D
          PROVE  /\ r.view[v].mapped => r.view[v].wset # NoSet
                 /\ \A k \in Index : v \in r.set[k].views => r.view[v].wset = k
                 /\ r.view[v].wset # NoSet => r.view[v].output = r.set[r.view[v].wset].output
      <4>1. /\ r.view[v].mapped = s.view[v].mapped /\ r.view[v].wset = s.view[v].wset
            /\ s.view[v].mapped => s.view[v].wset # NoSet
            /\ \A k \in Index : v \in s.set[k].views => s.view[v].wset = k
            /\ s.view[v].wset # NoSet => s.view[v].output = s.set[s.view[v].wset].output
            /\ s.view[v].wset # NoSet => s.view[v].wset \in Index /\ v \in s.set[s.view[v].wset].views
        BY <1>1, <2>14, <2>15, StateFields DEF InOneSet, ViewsHeld, SameView
      <4>. QED
        BY <2>14, <2>15, <4>1
    <3>. QED
      BY <3>1 DEF InOneSet
  <2>22. UnderSet(r, D \cup R)
    BY <1>1, <2>14, <2>15, <2>17 DEF UnderSet, SameView
  <2>23. \A k \in Index : r.set[k].views = s.set[k].views
    BY <2>14, <2>15
  <2>. QED
    BY <2>9, <2>12, <2>13, <2>14, <2>18, <2>20, <2>21, <2>22, <2>23 DEF SetsWhole
<1>. QED
  BY <1>2, <1>3

(* add_view(): views that were not in the set take it for their own.       *)
LEMMA AddedViews ==
  ASSUME NEW s \in SetStates, NEW i \in Index, NEW V \in SUBSET WsViews,
         NEW r, r = AddViews(s, i, V)
  PROVE  /\ r \in SetStates /\ r.current = s.current /\ r.available = s.available
         /\ \A k \in Index : /\ r.set[k].visible = s.set[k].visible /\ r.set[k].output = s.set[k].output
                             /\ k # i => r.set[k].views = s.set[k].views
         /\ r.set[i].views = s.set[i].views \cup V
         /\ \A v \in WsViews :
              /\ r.view[v].mapped = s.view[v].mapped /\ r.view[v].minimized = s.view[v].minimized
              /\ r.view[v].above = s.view[v].above /\ r.view[v].parent = s.view[v].parent
              /\ r.view[v].enabled = s.view[v].enabled
              /\ v \in V /\ v \notin s.set[i].views =>
                   r.view[v].wset = i /\ r.view[v].output = s.set[i].output
              /\ ~(v \in V /\ v \notin s.set[i].views) =>
                   r.view[v].wset = s.view[v].wset /\ r.view[v].output = s.view[v].output
<1>1. s.set[i] \in SetRecords /\ s.set[i].output \in WsOutputs \cup {NoOutput}
      /\ s.set[i].views \in SUBSET WsViews
  BY StateFields
<1>2. PICK q : q = [s.set[i] EXCEPT !.views = s.set[i].views \cup V]
  OBVIOUS
<1>3. /\ q \in SetRecords /\ q.visible = s.set[i].visible /\ q.output = s.set[i].output
      /\ q.views = s.set[i].views \cup V
  <2>1. s.set[i].views \cup V \in SUBSET WsViews
    BY <1>1
  <2>. QED
    BY <1>1, <1>2, <2>1, SetChanges
<1>4. PICK g : g = [s.set EXCEPT ![i] = q]
  OBVIOUS
<1>5. /\ g \in [Index -> SetRecords]
      /\ g[i] = q /\ \A k \in Index \ {i} : g[k] = s.set[k]
  BY <1>3, <1>4, StateFields
<1>6. PICK t : t = [s EXCEPT !.set = g]
  OBVIOUS
<1>7. t \in SetStates /\ t.view = s.view /\ t.set = g /\ t.current = s.current /\ t.available = s.available
  BY <1>5, <1>6, StateParts
<1>8. PICK f : f = [v \in WsViews |-> IF v \in V \ s.set[i].views
                      THEN [s.view[v] EXCEPT !.wset = i, !.output = s.set[i].output] ELSE s.view[v]]
  OBVIOUS
<1>9. ASSUME NEW v \in WsViews
      PROVE  /\ f[v] \in ViewRecords
             /\ f[v].mapped = s.view[v].mapped /\ f[v].minimized = s.view[v].minimized
             /\ f[v].above = s.view[v].above /\ f[v].parent = s.view[v].parent
             /\ f[v].enabled = s.view[v].enabled
             /\ v \in V /\ v \notin s.set[i].views => f[v].wset = i /\ f[v].output = s.set[i].output
             /\ ~(v \in V /\ v \notin s.set[i].views) =>
                  f[v].wset = s.view[v].wset /\ f[v].output = s.view[v].output
  <2>1. s.view[v] \in ViewRecords
    BY StateFields
  <2>2. PICK x : x = [s.view[v] EXCEPT !.wset = i]
    OBVIOUS
  <2>3. PICK y : y = [x EXCEPT !.output = s.set[i].output]
    OBVIOUS
  <2>4. /\ x \in ViewRecords /\ x.wset = i /\ x.enabled = s.view[v].enabled /\ x.output = s.view[v].output
        /\ x.mapped = s.view[v].mapped /\ x.minimized = s.view[v].minimized /\ x.above = s.view[v].above
        /\ x.parent = s.view[v].parent
    BY <2>1, <2>2, ViewChanges
  <2>5. y \in ViewRecords /\ y.output = s.set[i].output /\ y.enabled = x.enabled /\ SameView(y, x)
    BY <1>1, <2>3, <2>4, ViewChanges
  <2>6. f[v] = IF v \in V \ s.set[i].views THEN y ELSE s.view[v]
    BY <1>8, <2>2, <2>3
  <2>. QED
    BY <2>1, <2>4, <2>5, <2>6 DEF SameView
<1>10. f \in [WsViews -> ViewRecords]
  BY <1>8, <1>9
<1>11. r = [t EXCEPT !.view = f]
  BY <1>2, <1>4, <1>6, <1>7, <1>8 DEF AddViews, WithViews
<1>12. r \in SetStates /\ r.view = f /\ r.set = g /\ r.current = s.current /\ r.available = s.available
  BY <1>7, <1>10, <1>11, StateParts
<1>. QED
  BY <1>3, <1>5, <1>9, <1>12

(* remove_view(): views leave the set that they take for their own.        *)
LEMMA RemovedViews ==
  ASSUME NEW s \in SetStates, NEW V \in SUBSET WsViews, NEW r, r = RemoveViews(s, V),
         \A v \in WsViews : s.view[v].wset # NoSet => v \in s.set[s.view[v].wset].views
  PROVE  /\ r \in SetStates /\ r.current = s.current /\ r.available = s.available
         /\ \A k \in Index : /\ r.set[k].visible = s.set[k].visible /\ r.set[k].output = s.set[k].output
                             /\ r.set[k].views = {v \in s.set[k].views : ~(v \in V /\ s.view[v].wset = k)}
         /\ \A v \in WsViews :
              /\ r.view[v].mapped = s.view[v].mapped /\ r.view[v].minimized = s.view[v].minimized
              /\ r.view[v].above = s.view[v].above /\ r.view[v].parent = s.view[v].parent
              /\ r.view[v].enabled = s.view[v].enabled /\ r.view[v].output = s.view[v].output
              /\ r.view[v].wset = IF v \in V THEN NoSet ELSE s.view[v].wset
<1>. DEFINE own(i) == {v \in V \cap s.set[i].views : s.view[v].wset = i}
<1>1. PICK g : g = [i \in Index |-> [s.set[i] EXCEPT !.views = s.set[i].views \ own(i)]]
  OBVIOUS
<1>2. ASSUME NEW k \in Index
      PROVE  /\ g[k] \in SetRecords /\ g[k].visible = s.set[k].visible /\ g[k].output = s.set[k].output
             /\ g[k].views = {v \in s.set[k].views : ~(v \in V /\ s.view[v].wset = k)}
  <2>1. s.set[k] \in SetRecords /\ s.set[k].views \in SUBSET WsViews
    BY StateFields
  <2>2. PICK W \in SUBSET WsViews : W = s.set[k].views \ own(k)
    BY <2>1
  <2>3. PICK x : x = [s.set[k] EXCEPT !.views = W]
    OBVIOUS
  <2>4. g[k] = x
    BY <1>1, <2>2, <2>3
  <2>5. W = {v \in s.set[k].views : ~(v \in V /\ s.view[v].wset = k)}
    BY <2>2
  <2>. HIDE DEF own
  <2>6. /\ g[k] \in SetRecords /\ g[k].visible = s.set[k].visible
        /\ g[k].output = s.set[k].output /\ g[k].views = W
    <3>1. x \in SetRecords /\ x.visible = s.set[k].visible /\ x.output = s.set[k].output /\ x.views = W
      BY <2>1, <2>2, <2>3, SetChanges
    <3>. QED
      BY <2>4, <3>1
  <2>. QED
    BY <2>5, <2>6
<1>3. g \in [Index -> SetRecords]
  BY <1>1, <1>2
<1>4. PICK t : t = [s EXCEPT !.set = g]
  OBVIOUS
<1>5. t \in SetStates /\ t.view = s.view /\ t.set = g /\ t.current = s.current /\ t.available = s.available
  BY <1>3, <1>4, StateParts
<1>6. PICK f : f = [v \in WsViews |-> IF v \in UNION {own(i) : i \in Index}
                      THEN [s.view[v] EXCEPT !.wset = NoSet] ELSE s.view[v]]
  OBVIOUS
<1>7. ASSUME NEW v \in WsViews
      PROVE  v \in UNION {own(i) : i \in Index} <=> v \in V /\ s.view[v].wset # NoSet
  BY StateFields, WsetsAssumption
<1>8. r = [t EXCEPT !.view = f]
  BY <1>1, <1>4, <1>5, <1>6 DEF RemoveViews, WithViews
<1>. HIDE DEF own
<1>9. ASSUME NEW v \in WsViews
      PROVE  /\ f[v] \in ViewRecords
             /\ f[v].mapped = s.view[v].mapped /\ f[v].minimized = s.view[v].minimized
             /\ f[v].above = s.view[v].above /\ f[v].parent = s.view[v].parent
             /\ f[v].enabled = s.view[v].enabled /\ f[v].output = s.view[v].output
             /\ f[v].wset = IF v \in V THEN NoSet ELSE s.view[v].wset
  <2>1. s.view[v] \in ViewRecords
    BY StateFields
  <2>2. PICK x : x = [s.view[v] EXCEPT !.wset = NoSet]
    OBVIOUS
  <2>3. /\ x \in ViewRecords /\ x.wset = NoSet /\ x.enabled = s.view[v].enabled /\ x.output = s.view[v].output
        /\ x.mapped = s.view[v].mapped /\ x.minimized = s.view[v].minimized /\ x.above = s.view[v].above
        /\ x.parent = s.view[v].parent
    BY <2>1, <2>2, ViewChanges
  <2>4. f[v] = x \/ (f[v] = s.view[v] /\ (v \in V => s.view[v].wset = NoSet))
    BY <1>6, <1>7, <2>2
  <2>5. f[v] = x => v \in V \/ s.view[v].wset = NoSet
    <3>1. CASE v \in V /\ s.view[v].wset # NoSet
      BY <3>1
    <3>2. CASE ~(v \in V /\ s.view[v].wset # NoSet)
      BY <1>6, <1>7, <2>3, <3>2
    <3>. QED
      BY <3>1, <3>2
  <2>. QED
    BY <2>1, <2>3, <2>4, <2>5
<1>10. f \in [WsViews -> ViewRecords]
  BY <1>6, <1>9
<1>11. r \in SetStates /\ r.view = f /\ r.set = g /\ r.current = s.current /\ r.available = s.available
  BY <1>5, <1>8, <1>10, StateParts
<1>. QED
  BY <1>2, <1>9, <1>11

(* on_view_output_changed: views that are always on top stay so.           *)
LEMMA MovedOnTop ==
  ASSUME NEW s \in SetStates, NEW i \in Index, NEW V \in SUBSET WsViews,
         NEW r, r = MovedToWset(s, i, V)
  PROVE  /\ r \in SetStates /\ r.current = s.current /\ r.available = s.available /\ r.set = s.set
         /\ \A v \in WsViews :
              /\ r.view[v].mapped = s.view[v].mapped /\ r.view[v].minimized = s.view[v].minimized
              /\ r.view[v].above = s.view[v].above /\ r.view[v].wset = s.view[v].wset
              /\ r.view[v].enabled = s.view[v].enabled /\ r.view[v].output = s.view[v].output
              /\ v \notin V \/ ~s.view[v].above => r.view[v].parent = s.view[v].parent
<1>1. CASE s.set[i].output = NoOutput
  BY <1>1 DEF MovedToWset
<1>2. CASE s.set[i].output # NoOutput
  <2>1. PICK p : p = OnTop(s.set[i].output)
    OBVIOUS
  <2>2. p \in Parents
    BY <1>2, <2>1, ParentsDiffer, StateFields
  <2>3. PICK W : W = {v \in V : s.view[v].above}
    OBVIOUS
  <2>4. r = Reparent(s, W, p)
    BY <1>2, <2>1, <2>3 DEF MovedToWset
  <2>5. \A v \in WsViews : v \notin V \/ ~s.view[v].above => v \notin W
    BY <2>3
  <2>. QED
    BY <2>2, <2>4, <2>5, ParentSet
<1>. QED
  BY <1>1, <1>2

(* Views of V, which are under the node of the set i, are in it.           *)
LEMMA HousedViews ==
  ASSUME NEW s \in SetStates, NEW i \in Index, NEW V \in SUBSET WsViews,
         NEW r, r = MovedToWset(AddViews(s, i, V), i, V)
  PROVE  /\ r \in SetStates /\ r.current = s.current /\ r.available = s.available
         /\ \A k \in Index : /\ r.set[k].visible = s.set[k].visible /\ r.set[k].output = s.set[k].output
                             /\ k # i => r.set[k].views = s.set[k].views
         /\ r.set[i].views = s.set[i].views \cup V
         /\ \A v \in WsViews :
              /\ r.view[v].mapped = s.view[v].mapped /\ r.view[v].minimized = s.view[v].minimized
              /\ r.view[v].above = s.view[v].above /\ r.view[v].enabled = s.view[v].enabled
              /\ v \notin V \/ ~s.view[v].above => r.view[v].parent = s.view[v].parent
              /\ v \in V /\ v \notin s.set[i].views =>
                   r.view[v].wset = i /\ r.view[v].output = s.set[i].output
              /\ ~(v \in V /\ v \notin s.set[i].views) =>
                   r.view[v].wset = s.view[v].wset /\ r.view[v].output = s.view[v].output
<1>1. PICK a : a = AddViews(s, i, V)
  OBVIOUS
<1>2. r = MovedToWset(a, i, V)
  BY <1>1
<1>3. /\ a \in SetStates /\ a.current = s.current /\ a.available = s.available
      /\ \A k \in Index : /\ a.set[k].visible = s.set[k].visible /\ a.set[k].output = s.set[k].output
                          /\ k # i => a.set[k].views = s.set[k].views
      /\ a.set[i].views = s.set[i].views \cup V
      /\ \A v \in WsViews :
           /\ a.view[v].mapped = s.view[v].mapped /\ a.view[v].minimized = s.view[v].minimized
           /\ a.view[v].above = s.view[v].above /\ a.view[v].parent = s.view[v].parent
           /\ a.view[v].enabled = s.view[v].enabled
           /\ v \in V /\ v \notin s.set[i].views =>
                a.view[v].wset = i /\ a.view[v].output = s.set[i].output
           /\ ~(v \in V /\ v \notin s.set[i].views) =>
                a.view[v].wset = s.view[v].wset /\ a.view[v].output = s.view[v].output
  BY <1>1, AddedViews
<1>4. /\ r \in SetStates /\ r.current = a.current /\ r.available = a.available /\ r.set = a.set
      /\ \A v \in WsViews :
           /\ r.view[v].mapped = a.view[v].mapped /\ r.view[v].minimized = a.view[v].minimized
           /\ r.view[v].above = a.view[v].above /\ r.view[v].wset = a.view[v].wset
           /\ r.view[v].enabled = a.view[v].enabled /\ r.view[v].output = a.view[v].output
           /\ v \notin V \/ ~a.view[v].above => r.view[v].parent = a.view[v].parent
  BY <1>2, <1>3, MovedOnTop
<1>. QED
  BY <1>3, <1>4

(* set_keep_above_state().                                                 *)
LEMMA KeptAbove ==
  ASSUME NEW s \in SetStates, NEW o \in WsOutputs, Exists(s, o), NEW V \in SUBSET WsViews,
         NEW b \in BOOLEAN, NEW r, r = KeepAbove(s, o, V, b)
  PROVE  /\ r \in SetStates /\ r.current = s.current /\ r.available = s.available /\ r.set = s.set
         /\ \A v \in WsViews :
              /\ r.view[v].mapped = s.view[v].mapped /\ r.view[v].minimized = s.view[v].minimized
              /\ r.view[v].wset = s.view[v].wset
              /\ r.view[v].enabled = s.view[v].enabled /\ r.view[v].output = s.view[v].output
              /\ v \notin V => r.view[v].above = s.view[v].above /\ r.view[v].parent = s.view[v].parent
<1>1. CASE inhibited
  BY <1>1 DEF KeepAbove
<1>2. CASE ~inhibited
  <2>1. PICK p : p = IF b THEN OnTop(o) ELSE InSet(s.current[o])
    OBVIOUS
  <2>2. p \in Parents
    BY <2>1, ParentsDiffer, StateFields DEF Exists
  <2>3. PICK f : f = [v \in WsViews |-> IF v \in V THEN [s.view[v] EXCEPT !.above = b, !.parent = p]
                                        ELSE s.view[v]]
    OBVIOUS
  <2>4. ASSUME NEW v \in WsViews
        PROVE  /\ f[v] \in ViewRecords
               /\ f[v].mapped = s.view[v].mapped /\ f[v].minimized = s.view[v].minimized
               /\ f[v].wset = s.view[v].wset
               /\ f[v].enabled = s.view[v].enabled /\ f[v].output = s.view[v].output
               /\ v \notin V => f[v].above = s.view[v].above /\ f[v].parent = s.view[v].parent
    <3>1. PICK q \in ViewRecords : q = s.view[v]
      BY StateFields
    <3>2. PICK x : x = [q EXCEPT !.above = b, !.parent = p]
      OBVIOUS
    <3>3. x \in ViewRecords
      BY <2>2, <3>2 DEF ViewRecords
    <3>4. /\ x.mapped = q.mapped /\ x.minimized = q.minimized /\ x.wset = q.wset
          /\ x.enabled = q.enabled /\ x.output = q.output
      BY <3>2 DEF ViewRecords
    <3>5. f[v] = IF v \in V THEN x ELSE q
      BY <2>3, <3>1, <3>2
    <3>. QED
      BY <3>1, <3>3, <3>4, <3>5
  <2>5. f \in [WsViews -> ViewRecords]
    BY <2>3, <2>4
  <2>6. r = [s EXCEPT !.view = f]
    BY <1>2, <2>1, <2>3 DEF KeepAbove, WithViews
  <2>. QED
    BY <2>4, <2>5, <2>6, StateParts
<1>. QED
  BY <1>1, <1>2

(* The lowest index of a set that is free.                                 *)
LEMMA LowestFree ==
  ASSUME NEW S \in SUBSET Nat, S # {}
  PROVE  Lowest(S) \in S
<1>1. PICK n \in S : \A m \in S : ~(<<m, n>> \in OpToRel(<, Nat))
  BY NatLessThanWellFounded, WFMin
<1>2. ASSUME NEW m \in S PROVE n <= m
  <2>1. n \in Nat /\ m \in Nat
    BY <1>1
  <2>2. ~(m < n)
    BY <1>1, <2>1 DEF OpToRel
  <2>. QED
    BY <2>1, <2>2
<1>. QED
  BY <1>1, <1>2 DEF Lowest

(* The parts of SetsWhole, for a state that is put together.               *)
LEMMA WholeParts ==
  ASSUME NEW s, NEW D, NEW R, SetsWhole(s, D, R)
  PROVE  /\ s \in SetStates
         /\ \A o \in WsOutputs : Exists(s, o) =>
              s.set[s.current[o]].output = o /\ s.set[s.current[o]].visible
         /\ \A i \in Index : s.set[i].output # NoOutput =>
              /\ Exists(s, s.set[i].output)
              /\ s.set[i].visible => s.current[s.set[i].output] = i
         /\ \A v \in WsViews : s.view[v].wset # NoSet =>
              s.view[v].wset \in Index /\ v \in s.set[s.view[v].wset].views
         /\ \A v \in WsViews : s.view[v].output # NoOutput =>
              /\ Exists(s, s.view[v].output)
              /\ s.view[v].wset = NoSet
                 \/ \E i \in Index : v \in s.set[i].views /\ s.set[i].output = s.view[v].output
         /\ \A v \in WsViews \ D :
              /\ s.view[v].mapped => s.view[v].wset # NoSet
              /\ \A i \in Index : v \in s.set[i].views => s.view[v].wset = i
              /\ s.view[v].wset # NoSet => s.view[v].output = s.set[s.view[v].wset].output
         /\ \A v \in WsViews \ (D \cup R) :
              /\ ~s.view[v].above
              /\ s.view[v].wset # NoSet => s.view[v].parent = InSet(s.view[v].wset)
              /\ s.view[v].enabled = (IF s.view[v].mapped THEN 1 ELSE 0)
                                     - (IF s.view[v].minimized THEN 1 ELSE 0)
<1>1. s \in SetStates /\ SetsAgree(s) /\ ViewsHeld(s) /\ InOneSet(s, D) /\ UnderSet(s, D \cup R)
  BY DEF SetsWhole
<1>2. \A v \in WsViews : s.view[v].wset # NoSet =>
        s.view[v].wset \in Index /\ v \in s.set[s.view[v].wset].views
  BY <1>1, StateFields DEF ViewsHeld
<1>. QED
  BY <1>1, <1>2 DEF SetsAgree, ViewsHeld, InOneSet, UnderSet

(* A set that nothing refers to has no views: only its record is dropped.  *)
LEMMA Collected ==
  ASSUME NEW s, NEW D, NEW R, SetsWhole(s, D, R), SetsHeld(s), NEW r, r = Collect(s)
  PROVE  SetsWhole(r, D, R) /\ SetsHeld(r)
<1>1. s \in SetStates
  BY DEF SetsWhole
<1>2. PICK dead : dead = Free(s)
  OBVIOUS
<1>3. /\ dead \in SUBSET Index
      /\ \A i \in dead : s.set[i].views = {} /\ i \notin s.available /\ \A o \in WsOutputs : s.current[o] # i
  BY <1>2 DEF Free, Living, SetsHeld
<1>4. PICK g : g = [i \in Index |-> IF i \in dead THEN NewSet ELSE s.set[i]]
  OBVIOUS
<1>5. NewSet \in SetRecords /\ NewSet.output = NoOutput /\ NewSet.views = {}
  BY DEF NewSet, SetRecords
<1>6. g \in [Index -> SetRecords]
  BY <1>1, <1>4, <1>5, StateFields
<1>7. UNION {s.set[i].views : i \in dead} = {}
  BY <1>3
<1>8. PICK f : f = [v \in WsViews |-> s.view[v]]
  OBVIOUS
<1>9. f = s.view
  BY <1>1, <1>8, StateFields
<1>10. PICK t : t = [s EXCEPT !.view = f]
  OBVIOUS
<1>11. r = [t EXCEPT !.set = g]
  BY <1>2, <1>4, <1>7, <1>8, <1>10 DEF Collect, WithViews
<1>12. t \in SetStates /\ t.view = s.view /\ t.set = s.set /\ t.current = s.current
       /\ t.available = s.available
  BY <1>1, <1>9, <1>10, StateParts, StateFields
<1>13. /\ r \in SetStates /\ r.set = g /\ r.view = s.view /\ r.current = s.current
       /\ r.available = s.available
  BY <1>6, <1>11, <1>12, StateParts
<1>14. \A i \in Index : /\ r.set[i].views = s.set[i].views
                        /\ i \notin dead => r.set[i] = s.set[i]
                        /\ i \in dead => r.set[i].output = NoOutput
  <2>1. ASSUME NEW i \in Index
        PROVE  /\ i \notin dead => r.set[i] = s.set[i]
               /\ i \in dead => r.set[i] = NewSet /\ s.set[i].views = {}
    BY <1>3, <1>4, <1>13
  <2>. QED
    BY <1>5, <2>1
<1>15. SetsAgree(r)
  <2>1. SetsAgree(s)
    BY DEF SetsWhole
  <2>2. \A o \in WsOutputs : s.current[o] # NoSet => s.current[o] \in Index \ dead
    BY <1>1, <1>3, StateFields
  <2>3. ASSUME NEW o \in WsOutputs, Exists(r, o)
        PROVE  r.set[r.current[o]].output = o /\ r.set[r.current[o]].visible
    BY <1>13, <1>14, <2>1, <2>2, <2>3 DEF SetsAgree, Exists
  <2>4. ASSUME NEW i \in Index, r.set[i].output # NoOutput
        PROVE  /\ Exists(r, r.set[i].output)
               /\ r.set[i].visible => r.current[r.set[i].output] = i
    BY <1>13, <1>14, <2>1, <2>4 DEF SetsAgree, Exists
  <2>. QED
    BY <2>3, <2>4 DEF SetsAgree
<1>16. ViewsHeld(r)
  <2>1. ViewsHeld(s)
    BY DEF SetsWhole
  <2>2. ASSUME NEW v \in WsViews, r.view[v].wset # NoSet PROVE v \in r.set[r.view[v].wset].views
    BY <1>1, <1>13, <1>14, <2>1, <2>2, StateFields DEF ViewsHeld
  <2>3. ASSUME NEW v \in WsViews, r.view[v].output # NoOutput
        PROVE  /\ Exists(r, r.view[v].output)
               /\ r.view[v].wset = NoSet
                  \/ \E i \in Index : v \in r.set[i].views /\ r.set[i].output = r.view[v].output
    <3>1. /\ Exists(s, s.view[v].output)
          /\ s.view[v].wset = NoSet
             \/ \E i \in Index : v \in s.set[i].views /\ s.set[i].output = s.view[v].output
      BY <1>13, <2>1, <2>3 DEF ViewsHeld
    <3>2. \A i \in Index : v \in s.set[i].views => r.set[i] = s.set[i]
      BY <1>3, <1>14
    <3>. QED
      BY <1>13, <3>1, <3>2 DEF Exists
  <2>. QED
    BY <2>2, <2>3 DEF ViewsHeld
<1>17. InOneSet(r, D)
  <2>1. InOneSet(s, D) /\ ViewsHeld(s)
    BY DEF SetsWhole
  <2>2. ASSUME NEW v \in WsViews, s.view[v].wset # NoSet
        PROVE  r.set[s.view[v].wset] = s.set[s.view[v].wset]
    BY <1>1, <1>3, <1>14, <2>1, <2>2, StateFields DEF ViewsHeld
  <2>. QED
    BY <1>13, <1>14, <2>1, <2>2 DEF InOneSet
<1>18. UnderSet(r, D \cup R)
  BY <1>13 DEF SetsWhole, UnderSet
<1>19. SetsHeld(r)
  BY <1>13, <1>14 DEF SetsHeld, Exists
<1>. QED
  BY <1>13, <1>15, <1>16, <1>17, <1>18, <1>19 DEF SetsWhole

(* More sets are available, or ones that are no output's and have no views *)
(* are not any longer.                                                     *)
LEMMA AvailableChanges ==
  ASSUME NEW s, NEW D, NEW R, SetsWhole(s, D, R), NEW a \in SUBSET Index,
         NEW r, r = [s EXCEPT !.available = a]
  PROVE  /\ SetsWhole(r, D, R)
         /\ r.current = s.current /\ r.set = s.set /\ r.view = s.view /\ r.available = a
<1>1. s \in SetStates
  BY DEF SetsWhole
<1>2. r \in SetStates /\ r.current = s.current /\ r.set = s.set /\ r.view = s.view /\ r.available = a
  BY <1>1, StateParts
<1>. QED
  BY <1>2 DEF SetsWhole, SetsAgree, ViewsHeld, InOneSet, UnderSet, Exists

(* An output gets a new set, which the plugin refers to.                   *)
LEMMA Dispossessed ==
  ASSUME NEW s, NEW D, NEW R, SetsWhole(s, D, R), NEW o \in WsOutputs,
         \A i \in Index \ s.available : s.set[i].views = {},
         \A p \in WsOutputs \ {o} : Exists(s, p) => s.current[p] \in s.available,
         Free(s) # {}, NEW r, r = Dispossess(s, o)
  PROVE  /\ SetsWhole(r, D, R) /\ SetsHeld(r) /\ s.available \subseteq r.available
         /\ r.current[o] \in Free(s)
         /\ \A p \in WsOutputs \ {o} : r.current[p] = s.current[p]
<1>1. s \in SetStates
  BY DEF SetsWhole
<1>2. PICK i : i = Lowest(Free(s))
  OBVIOUS
<1>3. i \in Free(s)
  BY <1>2, LowestFree DEF Free, Index
<1>4. i \in Index /\ \A p \in WsOutputs : s.current[p] # i
  BY <1>3 DEF Free, Living
<1>5. PICK t : t = SetWorkspaceSet(s, o, i)
  OBVIOUS
<1>6. /\ SetsWhole(t, D, R)
      /\ t.current = [s.current EXCEPT ![o] = i] /\ t.available = s.available
      /\ \A k \in Index : t.set[k].views = s.set[k].views
  BY <1>4, <1>5, ShowsSet
<1>7. /\ t.current[o] = i
      /\ \A p \in WsOutputs \ {o} : t.current[p] = s.current[p]
  BY <1>1, <1>6, StateFields
<1>8. PICK a : a = t.available \cup {i}
  OBVIOUS
<1>9. a \in SUBSET Index
  BY <1>1, <1>4, <1>6, <1>8, StateFields
<1>10. r = [t EXCEPT !.available = a]
  BY <1>2, <1>5, <1>7, <1>8 DEF Dispossess, Reference
<1>11. /\ SetsWhole(r, D, R)
       /\ r.current = t.current /\ r.set = t.set /\ r.view = t.view /\ r.available = a
  BY <1>6, <1>9, <1>10, AvailableChanges
<1>12. SetsHeld(r)
  <2>1. \A p \in WsOutputs : Exists(r, p) => r.current[p] \in r.available
    BY <1>6, <1>7, <1>8, <1>11 DEF Exists
  <2>2. \A k \in Index \ r.available : r.set[k].views = {}
    BY <1>6, <1>8, <1>11
  <2>. QED
    BY <2>1, <2>2 DEF SetsHeld
<1>. QED
  BY <1>3, <1>6, <1>7, <1>8, <1>11, <1>12

(* The invariant holds when the first output has its set.                  *)
LEMMA WsStart == WsInit => WsInv
<1>1. SUFFICES ASSUME WsInit PROVE WsInv
  OBVIOUS
<1>2. PICK s : s = [current |-> [x \in WsOutputs |-> NoSet], available |-> {},
                    set |-> [i \in Index |-> NewSet], view |-> [v \in WsViews |-> NewView]]
  OBVIOUS
<1>3. PICK o \in WsOutputs : ws = Dispossess(s, o)
  BY <1>1, <1>2 DEF WsInit
<1>4. /\ s.current = [x \in WsOutputs |-> NoSet] /\ s.available = {}
      /\ s.set = [i \in Index |-> NewSet] /\ s.view = [v \in WsViews |-> NewView]
  BY <1>2
<1>5. NewSet \in SetRecords /\ NewSet.output = NoOutput /\ NewSet.views = {} /\ ~NewSet.visible
  BY DEF NewSet, SetRecords
<1>6. /\ NewView \in ViewRecords /\ ~NewView.mapped /\ ~NewView.minimized /\ ~NewView.above
      /\ NewView.wset = NoSet /\ NewView.output = NoOutput /\ NewView.enabled = 0
  BY ParentsDiffer DEF NewView, ViewRecords
<1>7. s \in SetStates
  <2>1. s.current \in [WsOutputs -> Index \cup {NoSet}]
    BY <1>4
  <2>2. s.set \in [Index -> SetRecords]
    BY <1>4, <1>5
  <2>3. s.view \in [WsViews -> ViewRecords]
    BY <1>4, <1>6
  <2>. QED
    BY <1>2, <1>4, <2>1, <2>2, <2>3 DEF SetStates
<1>8. /\ \A x \in WsOutputs : s.current[x] = NoSet
      /\ \A i \in Index : s.set[i] = NewSet
      /\ \A v \in WsViews : s.view[v] = NewView
  BY <1>4
<1>9. SetsWhole(s, {}, {})
  BY <1>5, <1>6, <1>7, <1>8 DEF SetsWhole, SetsAgree, ViewsHeld, InOneSet, UnderSet, Exists
<1>10. Free(s) # {}
  <2>1. 1 \in Index
    BY WsetsAssumption DEF Index
  <2>2. \A x \in WsOutputs : s.current[x] # 1
    BY <1>8, <2>1, WsetsAssumption
  <2>. QED
    BY <1>4, <2>1, <2>2 DEF Free, Living
<1>11. SetsWhole(ws, {}, {}) /\ SetsHeld(ws)
  BY <1>3, <1>5, <1>8, <1>9, <1>10, Dispossessed DEF Exists
<1>. QED
  BY <1>1, <1>11 DEF WsInit, WsInv

(* An output is added with a set of its own.                               *)
LEMMA AddOutputKeeps ==
  ASSUME WsInv, NEW o \in WsOutputs, AddOutput(o)
  PROVE  WsInv'
<1>1. SetsWhole(ws, doubled, raised) /\ SetsHeld(ws)
  BY DEF WsInv
<1>2. Free(ws) # {} /\ ws' = Dispossess(ws, o)
  BY DEF AddOutput
<1>3. SetsWhole(ws', doubled, raised) /\ SetsHeld(ws')
  BY <1>1, <1>2, Dispossessed DEF SetsHeld
<1>. QED
  BY <1>3 DEF AddOutput, WsInv

(* A set is selected: an output that shows it gets a new one, then the old *)
(* set is hidden and the selected one attached and shown, and sets of no   *)
(* use are dropped.                                                        *)
LEMMA SelectWorkspaceKeeps ==
  ASSUME WsInv, NEW o \in WsOutputs, NEW i \in Index, SelectWorkspace(o, i)
  PROVE  WsInv'
<1>1. SetsWhole(ws, doubled, raised) /\ SetsHeld(ws) /\ ws \in SetStates
  BY DEF WsInv, SetsWhole
<1>2. PICK a \in SUBSET Index : a = ws.available \cup {i}
  BY <1>1, StateFields
<1>3. PICK located : located = [ws EXCEPT !.available = a]
  OBVIOUS
<1>4. /\ SetsWhole(located, doubled, raised) /\ located.current = ws.current /\ located.set = ws.set
      /\ located.view = ws.view /\ located.available = a /\ i \in a
  BY <1>1, <1>2, <1>3, AvailableChanges
<1>5. SetsHeld(located)
  BY <1>1, <1>2, <1>4 DEF SetsHeld, Exists
<1>6. PICK owner : owner = ws.set[i].output
  OBVIOUS
<1>7. owner \in WsOutputs \cup {NoOutput}
  BY <1>1, <1>6, StateFields
<1>. DEFINE stolen == owner # NoOutput /\ owner # o /\ ws.current[owner] = i
<1>8. PICK freed : freed = IF stolen THEN Dispossess(located, owner) ELSE located
  OBVIOUS
<1>9. PICK selected : selected = SetWorkspaceSet(freed, o, i)
  OBVIOUS
<1>10. PICK z : z = selected.available \ Useless(selected)
  OBVIOUS
<1>11. PICK kept : kept = [selected EXCEPT !.available = z]
  OBVIOUS
<1>12. ws' = Collect(kept) /\ (stolen => Free(located) # {}) /\ UNCHANGED <<doubled, raised>>
  BY <1>2, <1>3, <1>6, <1>8, <1>9, <1>10, <1>11 DEF SelectWorkspace
<1>13. /\ SetsWhole(freed, doubled, raised) /\ SetsHeld(freed) /\ i \in freed.available
       /\ \A p \in WsOutputs \ {o} : freed.current[p] # i
  <2>1. \A p \in WsOutputs : ws.current[p] = i => owner = p
    BY <1>1, <1>6, WsetsAssumption DEF SetsWhole, SetsAgree, Exists
  <2>2. CASE stolen
    <3>1. owner \in WsOutputs
      BY <1>7, <2>2
    <3>2. freed = Dispossess(located, owner)
      BY <1>8, <2>2
    <3>3. Free(located) # {}
      BY <1>12, <2>2
    <3>4. /\ SetsWhole(freed, doubled, raised) /\ SetsHeld(freed) /\ a \subseteq freed.available
          /\ freed.current[owner] \in Free(located)
          /\ \A p \in WsOutputs \ {owner} : freed.current[p] = located.current[p]
      <4>. HIDE DEF stolen
      <4>1. /\ \A k \in Index \ located.available : located.set[k].views = {}
            /\ \A p \in WsOutputs \ {owner} : Exists(located, p) => located.current[p] \in located.available
        BY <1>5 DEF SetsHeld
      <4>. QED
        BY <1>4, <3>1, <3>2, <3>3, <4>1, Dispossessed
    <3>5. freed.current[owner] # i
      BY <1>4, <3>4 DEF Free, Living
    <3>. QED
      BY <1>4, <2>1, <3>4, <3>5
  <2>3. CASE ~stolen
    <3>1. freed = located
      BY <1>8, <2>3
    <3>2. \A p \in WsOutputs \ {o} : ws.current[p] # i
      <4>1. SUFFICES ASSUME NEW p \in WsOutputs \ {o}, ws.current[p] = i PROVE FALSE
        OBVIOUS
      <4>2. owner = p /\ p # NoOutput
        BY <2>1, <4>1, WsetsAssumption
      <4>. QED
        BY <2>3, <4>1, <4>2
    <3>. QED
      BY <1>4, <1>5, <3>1, <3>2
  <2>. QED
    BY <2>2, <2>3
<1>. HIDE DEF stolen
<1>14. /\ SetsWhole(selected, doubled, raised)
       /\ selected.current = [freed.current EXCEPT ![o] = i] /\ selected.available = freed.available
       /\ \A k \in Index : selected.set[k].views = freed.set[k].views
  BY <1>9, <1>13, ShowsSet
<1>15. freed \in SetStates /\ selected \in SetStates
  BY <1>13, <1>14 DEF SetsWhole
<1>16. /\ selected.current[o] = i
       /\ \A p \in WsOutputs \ {o} : selected.current[p] = freed.current[p]
  BY <1>14, <1>15, StateFields
<1>17. \A p \in WsOutputs : Exists(selected, p) => selected.current[p] \in selected.available
  BY <1>13, <1>14, <1>16 DEF SetsHeld, Exists
<1>18. z \in SUBSET Index
  BY <1>10, <1>15, StateFields
<1>19. /\ SetsWhole(kept, doubled, raised)
       /\ kept.current = selected.current /\ kept.set = selected.set /\ kept.available = z
  BY <1>11, <1>14, <1>18, AvailableChanges
<1>20. SetsHeld(kept)
  <2>1. ASSUME NEW p \in WsOutputs, Exists(kept, p) PROVE kept.current[p] \in z
    <3>1. selected.current[p] \in selected.available /\ Exists(selected, p)
      BY <1>17, <1>19, <2>1 DEF Exists
    <3>2. selected.set[selected.current[p]].output = p
      BY <1>14, <3>1 DEF SetsWhole, SetsAgree
    <3>3. selected.current[p] \notin Useless(selected)
      BY <3>2, WsetsAssumption DEF Useless
    <3>. QED
      BY <1>10, <1>19, <3>1, <3>3
  <2>2. ASSUME NEW k \in Index \ z PROVE kept.set[k].views = {}
    <3>1. k \notin selected.available \/ k \in Useless(selected)
      BY <1>10, <2>2
    <3>2. CASE k \notin selected.available
      BY <1>13, <1>14, <1>19, <3>2, <2>2 DEF SetsHeld
    <3>3. CASE k \in Useless(selected)
      BY <1>19, <3>3 DEF Useless
    <3>. QED
      BY <3>1, <3>2, <3>3
  <2>. QED
    BY <1>19, <2>1, <2>2 DEF SetsHeld
<1>21. SetsWhole(ws', doubled, raised) /\ SetsHeld(ws')
  BY <1>12, <1>19, <1>20, Collected
<1>. QED
  BY <1>12, <1>21 DEF WsInv

(* One view changes in what its sets do not depend on.                     *)
LEMMA ViewKeepsWhole ==
  ASSUME NEW s, NEW D, NEW R, SetsWhole(s, D, R), SetsHeld(s), NEW v \in WsViews, NEW E, NEW r,
         R \subseteq E,
         /\ r \in SetStates /\ r.current = s.current /\ r.set = s.set /\ r.available = s.available
         /\ \A x \in WsViews \ {v} : r.view[x] = s.view[x],
         /\ r.view[v].wset = s.view[v].wset /\ r.view[v].output = s.view[v].output
         /\ r.view[v].mapped => s.view[v].mapped,
         v \notin D \cup E =>
           /\ r.view[v].parent = s.view[v].parent /\ r.view[v].above = s.view[v].above
           /\ r.view[v].enabled = (IF r.view[v].mapped THEN 1 ELSE 0)
                                  - (IF r.view[v].minimized THEN 1 ELSE 0)
  PROVE  SetsWhole(r, D, E) /\ SetsHeld(r)
<1>1. SetsAgree(r)
  BY DEF SetsWhole, SetsAgree, Exists
<1>2. \A x \in WsViews : /\ r.view[x].wset = s.view[x].wset /\ r.view[x].output = s.view[x].output
                         /\ r.view[x].mapped => s.view[x].mapped
  OBVIOUS
<1>3. ViewsHeld(r) /\ InOneSet(r, D)
  BY <1>2 DEF SetsWhole, ViewsHeld, InOneSet, Exists
<1>4. UnderSet(r, D \cup E)
  <2>1. ASSUME NEW x \in WsViews \ (D \cup E)
        PROVE  /\ ~r.view[x].above
               /\ r.view[x].wset # NoSet => r.view[x].parent = InSet(r.view[x].wset)
               /\ r.view[x].enabled = (IF r.view[x].mapped THEN 1 ELSE 0)
                                      - (IF r.view[x].minimized THEN 1 ELSE 0)
    <3>1. /\ ~s.view[x].above
          /\ s.view[x].wset # NoSet => s.view[x].parent = InSet(s.view[x].wset)
          /\ s.view[x].enabled = (IF s.view[x].mapped THEN 1 ELSE 0)
                                 - (IF s.view[x].minimized THEN 1 ELSE 0)
      BY <2>1 DEF SetsWhole, UnderSet
    <3>2. CASE x = v
      BY <2>1, <3>1, <3>2
    <3>3. CASE x # v
      BY <2>1, <3>1, <3>3
    <3>. QED
      BY <3>2, <3>3
  <2>. QED
    BY <2>1 DEF UnderSet
<1>5. SetsHeld(r)
  BY DEF SetsHeld, Exists
<1>. QED
  BY <1>1, <1>3, <1>4, <1>5 DEF SetsWhole

(* A view is unmapped: it stays in its set.                                *)
LEMMA UnmapViewKeeps ==
  ASSUME WsInv, NEW v \in WsViews, UnmapView(v)
  PROVE  WsInv'
<1>1. SetsWhole(ws, doubled, raised) /\ SetsHeld(ws) /\ ws \in SetStates
  BY DEF WsInv, SetsWhole
<1>2. PICK p \in ViewRecords : p = ws.view[v]
  BY <1>1, StateFields
<1>3. PICK m \in BOOLEAN : ~m
  OBVIOUS
<1>4. PICK q : q = [p EXCEPT !.mapped = m, !.enabled = p.enabled - 1]
  OBVIOUS
<1>5. p.enabled \in Int /\ p.enabled - 1 \in Int
  BY <1>2 DEF ViewRecords
<1>6. /\ q \in ViewRecords /\ q.mapped = m /\ q.enabled = p.enabled - 1 /\ q.minimized = p.minimized
      /\ q.above = p.above /\ q.wset = p.wset /\ q.output = p.output /\ q.parent = p.parent
  BY <1>3, <1>4, <1>5 DEF ViewRecords
<1>7. ws' = [ws EXCEPT !.view[v] = q] /\ p.mapped /\ UNCHANGED <<doubled, raised>>
  <2>1. q = [p EXCEPT !.mapped = FALSE, !.enabled = @ - 1]
    BY <1>3, <1>4
  <2>. QED
    BY <1>2, <2>1 DEF UnmapView
<1>8. /\ ws' \in SetStates /\ ws'.current = ws.current /\ ws'.set = ws.set /\ ws'.available = ws.available
      /\ ws'.view[v] = q /\ \A x \in WsViews \ {v} : ws'.view[x] = ws.view[x]
  <2>1. PICK f : f = [ws.view EXCEPT ![v] = q]
    OBVIOUS
  <2>2. f \in [WsViews -> ViewRecords] /\ f[v] = q /\ \A x \in WsViews \ {v} : f[x] = ws.view[x]
    BY <1>1, <1>6, <2>1, StateFields
  <2>3. ws' = [ws EXCEPT !.view = f]
    BY <1>7, <2>1
  <2>. QED
    BY <1>1, <2>2, <2>3, StateParts
<1>9. v \notin doubled \cup raised =>
        q.enabled = (IF q.mapped THEN 1 ELSE 0) - (IF q.minimized THEN 1 ELSE 0)
  <2>1. v \notin doubled \cup raised =>
          p.enabled = (IF p.mapped THEN 1 ELSE 0) - (IF p.minimized THEN 1 ELSE 0)
    BY <1>1, <1>2 DEF SetsWhole, UnderSet
  <2>. QED
    BY <1>3, <1>6, <1>7, <2>1
<1>10. SetsWhole(ws', doubled, raised) /\ SetsHeld(ws')
  <2>1. /\ ws'.view[v].wset = ws.view[v].wset /\ ws'.view[v].output = ws.view[v].output
        /\ ws'.view[v].parent = ws.view[v].parent /\ ws'.view[v].above = ws.view[v].above
        /\ ws'.view[v].mapped => ws.view[v].mapped
    BY <1>2, <1>6, <1>7, <1>8
  <2>. QED
    BY <1>1, <1>8, <1>9, <2>1, ViewKeepsWhole
<1>. QED
  BY <1>7, <1>10 DEF WsInv

(* A view is minimized or shown again: one enables what the other          *)
(* disables.                                                               *)
LEMMA MinimizeKeeps ==
  ASSUME WsInv, NEW v \in WsViews, NEW n \in BOOLEAN, Minimize(v, n)
  PROVE  WsInv'
<1>1. SetsWhole(ws, doubled, raised) /\ SetsHeld(ws) /\ ws \in SetStates
  BY DEF WsInv, SetsWhole
<1>2. PICK p \in ViewRecords : p = ws.view[v]
  BY <1>1, StateFields
<1>3. PICK e \in Int : e = p.enabled + IF n THEN -1 ELSE 1
  BY <1>2 DEF ViewRecords
<1>4. PICK q : q = [p EXCEPT !.minimized = n, !.enabled = e]
  OBVIOUS
<1>5. /\ q \in ViewRecords /\ q.mapped = p.mapped /\ q.enabled = e /\ q.minimized = n
      /\ q.above = p.above /\ q.wset = p.wset /\ q.output = p.output /\ q.parent = p.parent
  BY <1>4 DEF ViewRecords
<1>6. PICK s : s = [ws EXCEPT !.view[v] = q]
  OBVIOUS
<1>7. /\ p.mapped /\ p.minimized # n /\ UNCHANGED <<doubled, raised>>
      /\ ws' = IF p.above /\ ~n /\ p.output # NoOutput THEN Reparent(s, {v}, OnTop(p.output)) ELSE s
  <2>1. q = [p EXCEPT !.minimized = n, !.enabled = @ + IF n THEN -1 ELSE 1]
    BY <1>3, <1>4
  <2>2. s = [ws EXCEPT !.view[v].minimized = n, !.view[v].enabled = @ + IF n THEN -1 ELSE 1]
    BY <1>1, <1>2, <1>6, <2>1, StateFields
  <2>. QED
    BY <1>2, <2>2 DEF Minimize
<1>8. /\ s \in SetStates /\ s.current = ws.current /\ s.set = ws.set /\ s.available = ws.available
      /\ s.view[v] = q /\ \A x \in WsViews \ {v} : s.view[x] = ws.view[x]
  <2>1. PICK f : f = [ws.view EXCEPT ![v] = q]
    OBVIOUS
  <2>2. f \in [WsViews -> ViewRecords] /\ f[v] = q /\ \A x \in WsViews \ {v} : f[x] = ws.view[x]
    BY <1>1, <1>5, <2>1, StateFields
  <2>3. s = [ws EXCEPT !.view = f]
    BY <1>6, <2>1
  <2>. QED
    BY <1>1, <2>2, <2>3, StateParts
<1>9. v \notin doubled \cup raised =>
        /\ ~p.above
        /\ q.enabled = (IF q.mapped THEN 1 ELSE 0) - (IF q.minimized THEN 1 ELSE 0)
  <2>1. v \notin doubled \cup raised =>
          /\ ~p.above
          /\ p.enabled = (IF p.mapped THEN 1 ELSE 0) - (IF p.minimized THEN 1 ELSE 0)
    BY <1>1, <1>2 DEF SetsWhole, UnderSet
  <2>2. p.minimized \in BOOLEAN
    BY <1>2 DEF ViewRecords
  <2>. QED
    BY <1>3, <1>5, <1>7, <2>1, <2>2
<1>10. SetsWhole(s, doubled, raised) /\ SetsHeld(s)
  BY <1>1, <1>2, <1>5, <1>8, <1>9, ViewKeepsWhole
<1>11. CASE p.above /\ ~n /\ p.output # NoOutput
  <2>1. PICK y : y = OnTop(p.output)
    OBVIOUS
  <2>2. y \in Parents
    BY <1>2, <1>11, <2>1, ParentsDiffer DEF ViewRecords
  <2>3. ws' = Reparent(s, {v}, y)
    BY <1>7, <1>11, <2>1
  <2>4. /\ ws' \in SetStates /\ ws'.current = s.current /\ ws'.available = s.available /\ ws'.set = s.set
        /\ \A x \in WsViews :
             /\ ws'.view[x].mapped = s.view[x].mapped /\ ws'.view[x].minimized = s.view[x].minimized
             /\ ws'.view[x].above = s.view[x].above /\ ws'.view[x].wset = s.view[x].wset
             /\ ws'.view[x].enabled = s.view[x].enabled /\ ws'.view[x].output = s.view[x].output
             /\ ws'.view[x].parent = IF x \in {v} THEN y ELSE s.view[x].parent
    BY <1>8, <2>2, <2>3, ParentSet
  <2>5. \A x \in WsViews \ (doubled \cup raised) : x # v
    BY <1>9, <1>11
  <2>6. SetsAgree(ws') /\ ViewsHeld(ws') /\ InOneSet(ws', doubled)
    BY <1>10, <2>4 DEF SetsWhole, SetsAgree, ViewsHeld, InOneSet, Exists
  <2>7. UnderSet(ws', doubled \cup raised)
    BY <1>10, <2>4, <2>5 DEF SetsWhole, UnderSet
  <2>8. SetsHeld(ws')
    BY <1>10, <2>4 DEF SetsHeld, Exists
  <2>. QED
    BY <1>7, <2>4, <2>6, <2>7, <2>8 DEF WsInv, SetsWhole
<1>12. CASE ~(p.above /\ ~n /\ p.output # NoOutput)
  BY <1>7, <1>10, <1>12 DEF WsInv
<1>. QED
  BY <1>11, <1>12

(* A view is put always on top, or back: it is one of the views raised.    *)
LEMMA SetAlwaysOnTopKeeps ==
  ASSUME WsInv, NEW v \in WsViews, NEW n \in BOOLEAN, SetAlwaysOnTop(v, n)
  PROVE  WsInv'
<1>1. SetsWhole(ws, doubled, raised) /\ SetsHeld(ws) /\ ws \in SetStates
  BY DEF WsInv, SetsWhole
<1>2. PICK o : o = ws.view[v].output
  OBVIOUS
<1>3. raised' = raised \cup {v} /\ doubled' = doubled
  BY DEF SetAlwaysOnTop
<1>4. /\ ws' \in SetStates /\ ws'.current = ws.current /\ ws'.available = ws.available /\ ws'.set = ws.set
      /\ \A x \in WsViews :
           /\ ws'.view[x].mapped = ws.view[x].mapped /\ ws'.view[x].minimized = ws.view[x].minimized
           /\ ws'.view[x].wset = ws.view[x].wset
           /\ ws'.view[x].enabled = ws.view[x].enabled /\ ws'.view[x].output = ws.view[x].output
           /\ x \notin {v} => ws'.view[x].above = ws.view[x].above /\ ws'.view[x].parent = ws.view[x].parent
  <2>1. CASE o = NoOutput
    <3>1. PICK p \in ViewRecords : p = ws.view[v]
      BY <1>1, StateFields
    <3>2. PICK m \in BOOLEAN : m
      OBVIOUS
    <3>3. PICK q : q = [p EXCEPT !.above = m]
      OBVIOUS
    <3>4. /\ q \in ViewRecords /\ q.mapped = p.mapped /\ q.enabled = p.enabled /\ q.minimized = p.minimized
          /\ q.wset = p.wset /\ q.output = p.output /\ q.parent = p.parent
      BY <3>2, <3>3 DEF ViewRecords
    <3>5. ws' = [ws EXCEPT !.view[v] = q]
      <4>1. q = [p EXCEPT !.above = TRUE]
        BY <3>2, <3>3
      <4>. QED
        BY <1>2, <2>1, <3>1, <4>1 DEF SetAlwaysOnTop
    <3>6. /\ ws' \in SetStates /\ ws'.current = ws.current /\ ws'.set = ws.set
          /\ ws'.available = ws.available
          /\ ws'.view[v] = q /\ \A x \in WsViews \ {v} : ws'.view[x] = ws.view[x]
      <4>1. PICK f : f = [ws.view EXCEPT ![v] = q]
        OBVIOUS
      <4>2. f \in [WsViews -> ViewRecords] /\ f[v] = q /\ \A x \in WsViews \ {v} : f[x] = ws.view[x]
        BY <1>1, <3>4, <4>1, StateFields
      <4>3. ws' = [ws EXCEPT !.view = f]
        BY <3>5, <4>1
      <4>. QED
        BY <1>1, <4>2, <4>3, StateParts
    <3>. QED
      BY <3>1, <3>4, <3>6
  <2>2. CASE o # NoOutput
    <3>1. o \in WsOutputs /\ Exists(ws, o)
      BY <1>1, <1>2, <2>2, StateFields DEF SetsWhole, ViewsHeld
    <3>2. ws' = KeepAbove(ws, o, {v}, n)
      BY <1>2, <2>2 DEF SetAlwaysOnTop
    <3>. QED
      BY <1>1, <3>1, <3>2, KeptAbove
  <2>. QED
    BY <2>1, <2>2
<1>5. SetsAgree(ws') /\ ViewsHeld(ws') /\ InOneSet(ws', doubled)
  BY <1>1, <1>4 DEF SetsWhole, SetsAgree, ViewsHeld, InOneSet, Exists
<1>6. UnderSet(ws', doubled \cup (raised \cup {v}))
  BY <1>1, <1>4 DEF SetsWhole, UnderSet
<1>7. SetsHeld(ws')
  BY <1>1, <1>4 DEF SetsHeld, Exists
<1>. QED
  BY <1>3, <1>4, <1>5, <1>6, <1>7 DEF WsInv, SetsWhole

(* A view is destroyed, and removed from every set.                        *)
LEMMA DestroyViewKeeps ==
  ASSUME WsInv, NEW v \in WsViews, DestroyView(v)
  PROVE  WsInv'
<1>1. SetsWhole(ws, doubled, raised) /\ SetsHeld(ws) /\ ws \in SetStates
  BY DEF WsInv, SetsWhole
<1>2. /\ NewView \in ViewRecords /\ ~NewView.mapped /\ ~NewView.minimized /\ ~NewView.above
      /\ NewView.wset = NoSet /\ NewView.output = NoOutput /\ NewView.enabled = 0
  BY ParentsDiffer DEF NewView, ViewRecords
<1>3. PICK f : f = [ws.view EXCEPT ![v] = NewView]
  OBVIOUS
<1>4. f \in [WsViews -> ViewRecords] /\ f[v] = NewView /\ \A x \in WsViews \ {v} : f[x] = ws.view[x]
  BY <1>1, <1>2, <1>3, StateFields
<1>5. PICK g : g = [i \in Index |-> [ws.set[i] EXCEPT !.views = ws.set[i].views \ {v}]]
  OBVIOUS
<1>6. ASSUME NEW k \in Index
      PROVE  /\ g[k] \in SetRecords /\ g[k].visible = ws.set[k].visible /\ g[k].output = ws.set[k].output
             /\ g[k].views = ws.set[k].views \ {v}
  <2>1. ws.set[k] \in SetRecords
    BY <1>1, StateFields
  <2>2. PICK W \in SUBSET WsViews : W = ws.set[k].views \ {v}
    BY <1>1, StateFields
  <2>3. PICK x : x = [ws.set[k] EXCEPT !.views = W]
    OBVIOUS
  <2>4. x \in SetRecords /\ x.visible = ws.set[k].visible /\ x.output = ws.set[k].output /\ x.views = W
    <3>1. W \in SUBSET WsViews
      BY <2>2
    <3>. QED
      BY <2>1, <2>3, <3>1, SetChanges
  <2>5. g[k] = x
    BY <1>5, <2>2, <2>3
  <2>. QED
    BY <2>2, <2>4, <2>5
<1>7. g \in [Index -> SetRecords]
  BY <1>5, <1>6
<1>8. PICK t : t = [ws EXCEPT !.view = f]
  OBVIOUS
<1>9. /\ ws' = [t EXCEPT !.set = g] /\ doubled' = doubled \ {v} /\ raised' = raised \ {v}
  BY <1>3, <1>5, <1>8 DEF DestroyView
<1>10. t \in SetStates /\ t.view = f /\ t.set = ws.set /\ t.current = ws.current /\ t.available = ws.available
  BY <1>1, <1>4, <1>8, StateParts
<1>11. /\ ws' \in SetStates /\ ws'.view = f /\ ws'.set = g /\ ws'.current = ws.current
       /\ ws'.available = ws.available
  BY <1>7, <1>9, <1>10, StateParts
<1>12. /\ \A k \in Index : /\ ws'.set[k].visible = ws.set[k].visible /\ ws'.set[k].output = ws.set[k].output
                           /\ ws'.set[k].views = ws.set[k].views \ {v}
       /\ ws'.view[v] = NewView /\ \A x \in WsViews \ {v} : ws'.view[x] = ws.view[x]
  BY <1>4, <1>6, <1>11
<1>13. SetsAgree(ws')
  BY <1>1, <1>11, <1>12, StateFields DEF SetsWhole, SetsAgree, Exists
<1>14. ViewsHeld(ws')
  <2>1. ASSUME NEW x \in WsViews, ws'.view[x].wset # NoSet PROVE x \in ws'.set[ws'.view[x].wset].views
    BY <1>1, <1>2, <1>12, <2>1, StateFields DEF SetsWhole, ViewsHeld
  <2>2. ASSUME NEW x \in WsViews, ws'.view[x].output # NoOutput
        PROVE  /\ Exists(ws', ws'.view[x].output)
               /\ ws'.view[x].wset = NoSet
                  \/ \E i \in Index : x \in ws'.set[i].views /\ ws'.set[i].output = ws'.view[x].output
    <3>1. x # v
      BY <1>2, <1>12, <2>2
    <3>2. /\ Exists(ws, ws.view[x].output)
          /\ ws.view[x].wset = NoSet
             \/ \E i \in Index : x \in ws.set[i].views /\ ws.set[i].output = ws.view[x].output
      BY <1>1, <1>12, <2>2, <3>1 DEF SetsWhole, ViewsHeld
    <3>. QED
      BY <1>11, <1>12, <3>1, <3>2 DEF Exists
  <2>. QED
    BY <2>1, <2>2 DEF ViewsHeld
<1>15. InOneSet(ws', doubled \ {v})
  <2>1. ASSUME NEW x \in WsViews \ (doubled \ {v})
        PROVE  /\ ws'.view[x].mapped => ws'.view[x].wset # NoSet
               /\ \A k \in Index : x \in ws'.set[k].views => ws'.view[x].wset = k
               /\ ws'.view[x].wset # NoSet => ws'.view[x].output = ws'.set[ws'.view[x].wset].output
    <3>1. CASE x = v
      BY <1>2, <1>12, <3>1
    <3>2. CASE x # v
      <4>1. /\ ws.view[x].mapped => ws.view[x].wset # NoSet
            /\ \A k \in Index : x \in ws.set[k].views => ws.view[x].wset = k
            /\ ws.view[x].wset # NoSet => ws.view[x].output = ws.set[ws.view[x].wset].output
            /\ ws.view[x].wset \in Index \cup {NoSet}
        BY <1>1, <2>1, <3>2, StateFields DEF SetsWhole, InOneSet
      <4>. QED
        BY <1>12, <3>2, <4>1
    <3>. QED
      BY <3>1, <3>2
  <2>. QED
    BY <2>1 DEF InOneSet
<1>16. UnderSet(ws', (doubled \ {v}) \cup (raised \ {v}))
  <2>1. ASSUME NEW x \in WsViews \ ((doubled \ {v}) \cup (raised \ {v}))
        PROVE  /\ ~ws'.view[x].above
               /\ ws'.view[x].wset # NoSet => ws'.view[x].parent = InSet(ws'.view[x].wset)
               /\ ws'.view[x].enabled = (IF ws'.view[x].mapped THEN 1 ELSE 0)
                                        - (IF ws'.view[x].minimized THEN 1 ELSE 0)
    <3>1. CASE x = v
      BY <1>2, <1>12, <3>1
    <3>2. CASE x # v
      BY <1>1, <1>12, <2>1, <3>2 DEF SetsWhole, UnderSet
    <3>. QED
      BY <3>1, <3>2
  <2>. QED
    BY <2>1 DEF UnderSet
<1>17. SetsHeld(ws')
  BY <1>1, <1>11, <1>12 DEF SetsHeld, Exists
<1>. QED
  BY <1>9, <1>11, <1>13, <1>14, <1>15, <1>16, <1>17 DEF WsInv, SetsWhole

(* A view is mapped into the set of its output, or of the active one.      *)
LEMMA MapViewKeeps ==
  ASSUME WsInv, NEW v \in WsViews, NEW active \in WsOutputs, MapView(v, active)
  PROVE  WsInv'
<1>1. SetsWhole(ws, doubled, raised) /\ SetsHeld(ws) /\ ws \in SetStates
  BY DEF WsInv, SetsWhole
<1>2. PICK o : o = IF ws.view[v].output = NoOutput THEN active ELSE ws.view[v].output
  OBVIOUS
<1>3. PICK i : i = ws.current[o]
  OBVIOUS
<1>4. PICK a : a = SetOutput(ws, {v}, o)
  OBVIOUS
<1>5. PICK p : p = InSet(i)
  OBVIOUS
<1>6. PICK b : b = Reparent(a, {v}, p)
  OBVIOUS
<1>7. PICK s : s = AddViews(b, i, {v})
  OBVIOUS
<1>8. /\ ~ws.view[v].mapped /\ Exists(ws, active) /\ raised' = raised
      /\ ws' = [s EXCEPT !.view[v].mapped = TRUE, !.view[v].enabled = @ + 1]
      /\ doubled' = doubled \cup (IF \E j \in Index \ {i} : v \in ws.set[j].views THEN {v} ELSE {})
  BY <1>2, <1>3, <1>4, <1>5, <1>6, <1>7 DEF MapView
<1>9. /\ o \in WsOutputs /\ Exists(ws, o) /\ i \in Index /\ p \in Parents
      /\ ws.set[i].output = o
  <2>1. o \in WsOutputs /\ Exists(ws, o)
    BY <1>1, <1>2, <1>8, StateFields DEF SetsWhole, ViewsHeld
  <2>2. i \in Index
    BY <1>1, <1>3, <2>1, StateFields DEF Exists
  <2>3. ws.set[i].output = o
    BY <1>1, <1>3, <2>1 DEF SetsWhole, SetsAgree
  <2>. QED
    BY <1>5, <2>1, <2>2, <2>3, ParentsDiffer
<1>10. /\ a \in SetStates /\ a.current = ws.current /\ a.available = ws.available /\ a.set = ws.set
       /\ \A x \in WsViews : /\ SameView(a.view[x], ws.view[x]) /\ a.view[x].enabled = ws.view[x].enabled
                             /\ a.view[x].output = IF x \in {v} THEN o ELSE ws.view[x].output
  BY <1>1, <1>4, <1>9, OutputSet
<1>11. /\ b \in SetStates /\ b.current = a.current /\ b.available = a.available /\ b.set = a.set
       /\ \A x \in WsViews :
            /\ b.view[x].mapped = a.view[x].mapped /\ b.view[x].minimized = a.view[x].minimized
            /\ b.view[x].above = a.view[x].above /\ b.view[x].wset = a.view[x].wset
            /\ b.view[x].enabled = a.view[x].enabled /\ b.view[x].output = a.view[x].output
            /\ b.view[x].parent = IF x \in {v} THEN p ELSE a.view[x].parent
  BY <1>6, <1>9, <1>10, ParentSet
<1>12. PICK V : V = {v}
  OBVIOUS
<1>13. /\ s \in SetStates /\ s.current = b.current /\ s.available = b.available
       /\ \A k \in Index : /\ s.set[k].visible = b.set[k].visible /\ s.set[k].output = b.set[k].output
                           /\ k # i => s.set[k].views = b.set[k].views
       /\ s.set[i].views = b.set[i].views \cup V
       /\ \A x \in WsViews :
            /\ s.view[x].mapped = b.view[x].mapped /\ s.view[x].minimized = b.view[x].minimized
            /\ s.view[x].above = b.view[x].above /\ s.view[x].parent = b.view[x].parent
            /\ s.view[x].enabled = b.view[x].enabled
            /\ x \in V /\ x \notin b.set[i].views => s.view[x].wset = i /\ s.view[x].output = b.set[i].output
            /\ ~(x \in V /\ x \notin b.set[i].views) =>
                 s.view[x].wset = b.view[x].wset /\ s.view[x].output = b.view[x].output
  <2>1. V \in SUBSET WsViews /\ s = AddViews(b, i, V)
    BY <1>7, <1>12
  <2>. QED
    BY <1>9, <1>11, <2>1, AddedViews
<1>14. PICK q \in ViewRecords : q = s.view[v]
  BY <1>13, StateFields
<1>15. PICK m \in BOOLEAN : m
  OBVIOUS
<1>16. PICK e \in Int : e = q.enabled + 1
  BY <1>14 DEF ViewRecords
<1>17. PICK r : r = [q EXCEPT !.mapped = m, !.enabled = e]
  OBVIOUS
<1>18. /\ r \in ViewRecords /\ r.mapped /\ r.enabled = e /\ r.minimized = q.minimized /\ r.above = q.above
       /\ r.wset = q.wset /\ r.output = q.output /\ r.parent = q.parent
  BY <1>15, <1>17 DEF ViewRecords
<1>19. PICK f : f = [s.view EXCEPT ![v] = r]
  OBVIOUS
<1>20. f \in [WsViews -> ViewRecords] /\ f[v] = r /\ \A x \in WsViews \ {v} : f[x] = s.view[x]
  BY <1>13, <1>18, <1>19, StateFields
<1>21. ws' = [s EXCEPT !.view = f]
  <2>1. r = [q EXCEPT !.mapped = TRUE, !.enabled = @ + 1]
    BY <1>15, <1>16, <1>17
  <2>2. f = [s.view EXCEPT ![v].mapped = TRUE, ![v].enabled = @ + 1]
    BY <1>13, <1>14, <1>19, <2>1, StateFields
  <2>. QED
    BY <1>8, <2>2
<1>22. /\ ws' \in SetStates /\ ws'.view = f /\ ws'.set = s.set /\ ws'.current = s.current
       /\ ws'.available = s.available
  BY <1>13, <1>20, <1>21, StateParts
<1>23. /\ ws'.current = ws.current /\ ws'.available = ws.available
       /\ \A k \in Index : /\ ws'.set[k].visible = ws.set[k].visible /\ ws'.set[k].output = ws.set[k].output
                           /\ k # i => ws'.set[k].views = ws.set[k].views
       /\ ws'.set[i].views = ws.set[i].views \cup {v}
  BY <1>10, <1>11, <1>12, <1>13, <1>22
<1>24. /\ ws'.view[v].mapped /\ ws'.view[v].minimized = ws.view[v].minimized
       /\ ws'.view[v].above = ws.view[v].above /\ ws'.view[v].parent = InSet(i)
       /\ ws'.view[v].enabled = ws.view[v].enabled + 1 /\ ws'.view[v].output = o
       /\ v \notin ws.set[i].views => ws'.view[v].wset = i
       /\ v \in ws.set[i].views => ws'.view[v].wset = ws.view[v].wset
  <2>1. /\ b.view[v].minimized = ws.view[v].minimized /\ b.view[v].above = ws.view[v].above
        /\ b.view[v].wset = ws.view[v].wset /\ b.view[v].enabled = ws.view[v].enabled
        /\ b.view[v].output = o /\ b.view[v].parent = p /\ b.set = ws.set
    BY <1>10, <1>11 DEF SameView
  <2>2. /\ q.minimized = ws.view[v].minimized /\ q.above = ws.view[v].above
        /\ q.enabled = ws.view[v].enabled /\ q.parent = p /\ q.output = o
        /\ v \notin ws.set[i].views => q.wset = i
        /\ v \in ws.set[i].views => q.wset = ws.view[v].wset
    BY <1>9, <1>12, <1>13, <1>14, <2>1
  <2>. QED
    BY <1>5, <1>16, <1>18, <1>20, <1>22, <2>2
<1>25. ASSUME NEW x \in WsViews \ {v}
       PROVE  /\ SameView(ws'.view[x], ws.view[x]) /\ ws'.view[x].output = ws.view[x].output
              /\ ws'.view[x].enabled = ws.view[x].enabled
  BY <1>10, <1>11, <1>12, <1>13, <1>20, <1>22 DEF SameView
<1>26. SetsAgree(ws')
  BY <1>1, <1>23, StateFields DEF SetsWhole, SetsAgree, Exists
<1>27. ViewsHeld(ws')
  <2>1. ASSUME NEW x \in WsViews, ws'.view[x].wset # NoSet PROVE x \in ws'.set[ws'.view[x].wset].views
    <3>1. ws.view[x].wset # NoSet => ws.view[x].wset \in Index /\ x \in ws.set[ws.view[x].wset].views
      BY <1>1, WholeParts
    <3>2. CASE x = v
      BY <1>9, <1>23, <1>24, <2>1, <3>1, <3>2
    <3>3. CASE x # v
      BY <1>23, <1>25, <2>1, <3>1, <3>3 DEF SameView
    <3>. QED
      BY <3>2, <3>3
  <2>2. ASSUME NEW x \in WsViews, ws'.view[x].output # NoOutput
        PROVE  /\ Exists(ws', ws'.view[x].output)
               /\ ws'.view[x].wset = NoSet
                  \/ \E k \in Index : x \in ws'.set[k].views /\ ws'.set[k].output = ws'.view[x].output
    <3>1. CASE x = v
      <4>1. v \in ws'.set[i].views /\ ws'.set[i].output = o
        BY <1>9, <1>23
      <4>. QED
        BY <1>9, <1>23, <1>24, <3>1, <4>1 DEF Exists
    <3>2. CASE x # v
      <4>1. /\ Exists(ws, ws.view[x].output)
            /\ ws.view[x].wset = NoSet
               \/ \E k \in Index : x \in ws.set[k].views /\ ws.set[k].output = ws.view[x].output
        BY <1>1, <1>25, <2>2, <3>2 DEF SetsWhole, ViewsHeld
      <4>2. \A k \in Index : x \in ws.set[k].views => x \in ws'.set[k].views
        BY <1>23
      <4>. QED
        BY <1>23, <1>25, <3>2, <4>1, <4>2 DEF Exists, SameView
    <3>. QED
      BY <3>1, <3>2
  <2>. QED
    BY <2>1, <2>2 DEF ViewsHeld
<1>28. InOneSet(ws', doubled')
  <2>1. ASSUME NEW x \in WsViews \ doubled'
        PROVE  /\ ws'.view[x].mapped => ws'.view[x].wset # NoSet
               /\ \A k \in Index : x \in ws'.set[k].views => ws'.view[x].wset = k
               /\ ws'.view[x].wset # NoSet => ws'.view[x].output = ws'.set[ws'.view[x].wset].output
    <3>1. /\ ws.view[x].mapped => ws.view[x].wset # NoSet
          /\ \A k \in Index : x \in ws.set[k].views => ws.view[x].wset = k
          /\ ws.view[x].wset # NoSet => ws.view[x].output = ws.set[ws.view[x].wset].output
          /\ ws.view[x].wset \in Index \cup {NoSet}
      BY <1>1, <1>8, <2>1, StateFields DEF SetsWhole, InOneSet
    <3>2. CASE x = v
      <4>1. \A k \in Index \ {i} : v \notin ws.set[k].views
        BY <1>8, <2>1, <3>2
      <4>2. ws'.view[v].wset = i
        BY <1>9, <1>24, <3>1, <3>2
      <4>. QED
        BY <1>9, <1>23, <1>24, <3>2, <4>1, <4>2, WsetsAssumption
    <3>3. CASE x # v
      <4>1. \A k \in Index : x \in ws'.set[k].views => x \in ws.set[k].views
        BY <1>23, <3>3
      <4>. QED
        BY <1>23, <1>25, <3>1, <3>3, <4>1 DEF SameView
    <3>. QED
      BY <3>2, <3>3
  <2>. QED
    BY <2>1 DEF InOneSet
<1>29. UnderSet(ws', doubled' \cup raised)
  <2>1. ASSUME NEW x \in WsViews \ (doubled' \cup raised)
        PROVE  /\ ~ws'.view[x].above
               /\ ws'.view[x].wset # NoSet => ws'.view[x].parent = InSet(ws'.view[x].wset)
               /\ ws'.view[x].enabled = (IF ws'.view[x].mapped THEN 1 ELSE 0)
                                        - (IF ws'.view[x].minimized THEN 1 ELSE 0)
    <3>1. /\ ~ws.view[x].above
          /\ ws.view[x].wset # NoSet => ws.view[x].parent = InSet(ws.view[x].wset)
          /\ ws.view[x].enabled = (IF ws.view[x].mapped THEN 1 ELSE 0)
                                  - (IF ws.view[x].minimized THEN 1 ELSE 0)
      BY <1>1, <1>8, <2>1 DEF SetsWhole, UnderSet
    <3>2. CASE x = v
      <4>1. v \in ws.set[i].views => ws.view[v].wset = i
        BY <1>1, <1>8, <1>9, <2>1, <3>2 DEF SetsWhole, InOneSet
      <4>2. ws'.view[v].wset = i
        BY <1>24, <4>1
      <4>3. ws'.view[v].enabled = 1 - (IF ws.view[v].minimized THEN 1 ELSE 0)
        BY <1>8, <1>24, <3>1, <3>2
      <4>. QED
        BY <1>24, <3>1, <3>2, <4>2, <4>3
    <3>3. CASE x # v
      BY <1>25, <3>1, <3>3 DEF SameView
    <3>. QED
      BY <3>2, <3>3
  <2>. QED
    BY <2>1 DEF UnderSet
<1>30. SetsHeld(ws')
  <2>1. \A k \in Index \ ws.available : k # i
    BY <1>1, <1>3, <1>9 DEF SetsHeld
  <2>. QED
    BY <1>1, <1>23, <2>1 DEF SetsHeld, Exists
<1>. QED
  BY <1>8, <1>22, <1>26, <1>27, <1>28, <1>29, <1>30 DEF WsInv, SetsWhole

(* A view is sent to another set, which may be no output's.                *)
LEMMA SendWindowKeeps ==
  ASSUME WsInv, NEW v \in WsViews, NEW i \in Index, SendWindow(v, i)
  PROVE  WsInv'
<1>1. SetsWhole(ws, doubled, raised) /\ SetsHeld(ws) /\ ws \in SetStates
  BY DEF WsInv, SetsWhole
<1>2. PICK z \in SUBSET Index : z = ws.available \cup {i}
  BY <1>1, StateFields
<1>3. PICK located : located = [ws EXCEPT !.available = z]
  OBVIOUS
<1>4. /\ SetsWhole(located, doubled, raised) /\ located.current = ws.current /\ located.set = ws.set
      /\ located.view = ws.view /\ located.available = z /\ located \in SetStates
  <2>1. /\ SetsWhole(located, doubled, raised) /\ located.current = ws.current
        /\ located.set = ws.set /\ located.view = ws.view /\ located.available = z
    BY <1>1, <1>2, <1>3, AvailableChanges
  <2>. QED
    BY <2>1 DEF SetsWhole
<1>5. PICK V \in SUBSET WsViews : V = {v}
  OBVIOUS
<1>6. PICK a : a = RemoveViews(located, V)
  OBVIOUS
<1>7. PICK p : p = InSet(i)
  OBVIOUS
<1>8. PICK b : b = Reparent(a, V, p)
  OBVIOUS
<1>9. PICK o : o = ws.set[i].output
  OBVIOUS
<1>10. PICK c : c = SetOutput(b, V, o)
  OBVIOUS
<1>11. PICK d : d = MovedToWset(AddViews(c, i, V), i, V)
  OBVIOUS
<1>12. \A x \in WsViews : ws.view[x].wset # NoSet =>
         ws.view[x].wset \in Index /\ x \in ws.set[ws.view[x].wset].views
  BY <1>1, WholeParts
<1>13. /\ a \in SetStates /\ a.current = located.current /\ a.available = located.available
       /\ \A k \in Index : /\ a.set[k].visible = located.set[k].visible
                           /\ a.set[k].output = located.set[k].output
                           /\ a.set[k].views = {x \in located.set[k].views :
                                                  ~(x \in V /\ located.view[x].wset = k)}
       /\ \A x \in WsViews :
            /\ a.view[x].mapped = located.view[x].mapped /\ a.view[x].minimized = located.view[x].minimized
            /\ a.view[x].above = located.view[x].above /\ a.view[x].parent = located.view[x].parent
            /\ a.view[x].enabled = located.view[x].enabled /\ a.view[x].output = located.view[x].output
            /\ a.view[x].wset = IF x \in V THEN NoSet ELSE located.view[x].wset
  BY <1>4, <1>6, <1>12, RemovedViews
<1>14. p \in Parents /\ o \in WsOutputs \cup {NoOutput}
  BY <1>1, <1>7, <1>9, ParentsDiffer, StateFields
<1>15. /\ b \in SetStates /\ b.current = a.current /\ b.available = a.available /\ b.set = a.set
       /\ \A x \in WsViews :
            /\ b.view[x].mapped = a.view[x].mapped /\ b.view[x].minimized = a.view[x].minimized
            /\ b.view[x].above = a.view[x].above /\ b.view[x].wset = a.view[x].wset
            /\ b.view[x].enabled = a.view[x].enabled /\ b.view[x].output = a.view[x].output
            /\ b.view[x].parent = IF x \in V THEN p ELSE a.view[x].parent
  BY <1>8, <1>13, <1>14, ParentSet
<1>16. /\ c \in SetStates /\ c.current = b.current /\ c.available = b.available /\ c.set = b.set
       /\ \A x \in WsViews : /\ SameView(c.view[x], b.view[x]) /\ c.view[x].enabled = b.view[x].enabled
                             /\ c.view[x].output = IF x \in V THEN o ELSE b.view[x].output
  BY <1>10, <1>14, <1>15, OutputSet
<1>17. /\ d \in SetStates /\ d.current = c.current /\ d.available = c.available
       /\ \A k \in Index : /\ d.set[k].visible = c.set[k].visible /\ d.set[k].output = c.set[k].output
                           /\ k # i => d.set[k].views = c.set[k].views
       /\ d.set[i].views = c.set[i].views \cup V
       /\ \A x \in WsViews :
            /\ d.view[x].mapped = c.view[x].mapped /\ d.view[x].minimized = c.view[x].minimized
            /\ d.view[x].above = c.view[x].above /\ d.view[x].enabled = c.view[x].enabled
            /\ x \notin V \/ ~c.view[x].above => d.view[x].parent = c.view[x].parent
            /\ x \in V /\ x \notin c.set[i].views =>
                 d.view[x].wset = i /\ d.view[x].output = c.set[i].output
            /\ ~(x \in V /\ x \notin c.set[i].views) =>
                 d.view[x].wset = c.view[x].wset /\ d.view[x].output = c.view[x].output
  BY <1>11, <1>16, HousedViews
<1>18. /\ ws' = Collect(d) /\ ws.view[v].wset # NoSet /\ UNCHANGED <<doubled, raised>>
  <2>1. a.set[i].output = o
    BY <1>4, <1>9, <1>13
  <2>. QED
    BY <1>2, <1>3, <1>5, <1>6, <1>7, <1>8, <1>10, <1>11, <2>1 DEF SendWindow
<1>19. /\ d.current = ws.current /\ d.available = z
       /\ \A k \in Index : /\ d.set[k].visible = ws.set[k].visible /\ d.set[k].output = ws.set[k].output
                           /\ k # i => d.set[k].views = {x \in ws.set[k].views :
                                                           ~(x = v /\ ws.view[x].wset = k)}
       /\ d.set[i].views = ws.set[i].views \cup {v}
  BY <1>4, <1>5, <1>13, <1>15, <1>16, <1>17
<1>20. /\ d.view[v].mapped = ws.view[v].mapped /\ d.view[v].minimized = ws.view[v].minimized
       /\ d.view[v].above = ws.view[v].above /\ d.view[v].enabled = ws.view[v].enabled
       /\ d.view[v].output = o
       /\ ~ws.view[v].above => d.view[v].parent = InSet(i)
       /\ v \notin ws.set[i].views \/ ws.view[v].wset = i => d.view[v].wset = i
       /\ d.view[v].wset \in {i, NoSet}
  <2>1. /\ c.view[v].mapped = ws.view[v].mapped /\ c.view[v].minimized = ws.view[v].minimized
        /\ c.view[v].above = ws.view[v].above /\ c.view[v].enabled = ws.view[v].enabled
        /\ c.view[v].output = o /\ c.view[v].parent = p /\ c.view[v].wset = NoSet
    BY <1>4, <1>5, <1>13, <1>15, <1>16 DEF SameView
  <2>2. c.set[i].output = o
    BY <1>4, <1>9, <1>13, <1>15, <1>16
  <2>3. v \in c.set[i].views <=> v \in ws.set[i].views /\ ws.view[v].wset # i
    BY <1>4, <1>5, <1>13, <1>15, <1>16
  <2>. QED
    BY <1>5, <1>7, <1>17, <2>1, <2>2, <2>3
<1>21. ASSUME NEW x \in WsViews \ {v}
       PROVE  /\ SameView(d.view[x], ws.view[x]) /\ d.view[x].output = ws.view[x].output
              /\ d.view[x].enabled = ws.view[x].enabled
  BY <1>4, <1>5, <1>13, <1>15, <1>16, <1>17 DEF SameView
<1>22. SetsAgree(d)
  BY <1>1, <1>19, StateFields DEF SetsWhole, SetsAgree, Exists
<1>23. ViewsHeld(d)
  <2>1. ASSUME NEW x \in WsViews, d.view[x].wset # NoSet PROVE x \in d.set[d.view[x].wset].views
    <3>1. CASE x = v
      BY <1>19, <1>20, <2>1, <3>1
    <3>2. CASE x # v
      BY <1>12, <1>19, <1>21, <2>1, <3>2 DEF SameView
    <3>. QED
      BY <3>1, <3>2
  <2>2. ASSUME NEW x \in WsViews, d.view[x].output # NoOutput
        PROVE  /\ Exists(d, d.view[x].output)
               /\ d.view[x].wset = NoSet
                  \/ \E k \in Index : x \in d.set[k].views /\ d.set[k].output = d.view[x].output
    <3>1. CASE x = v
      <4>1. v \in d.set[i].views /\ d.set[i].output = d.view[v].output
        BY <1>9, <1>19, <1>20
      <4>2. Exists(d, d.set[i].output)
        BY <1>22, <2>2, <3>1, <4>1 DEF SetsAgree
      <4>. QED
        BY <3>1, <4>1, <4>2
    <3>2. CASE x # v
      <4>1. /\ Exists(ws, ws.view[x].output)
            /\ ws.view[x].wset = NoSet
               \/ \E k \in Index : x \in ws.set[k].views /\ ws.set[k].output = ws.view[x].output
        BY <1>1, <1>21, <2>2, <3>2 DEF SetsWhole, ViewsHeld
      <4>2. \A k \in Index : x \in ws.set[k].views => x \in d.set[k].views
        BY <1>19, <3>2
      <4>. QED
        BY <1>19, <1>21, <3>2, <4>1, <4>2 DEF Exists, SameView
    <3>. QED
      BY <3>1, <3>2
  <2>. QED
    BY <2>1, <2>2 DEF ViewsHeld
<1>24. InOneSet(d, doubled)
  <2>1. ASSUME NEW x \in WsViews \ doubled
        PROVE  /\ d.view[x].mapped => d.view[x].wset # NoSet
               /\ \A k \in Index : x \in d.set[k].views => d.view[x].wset = k
               /\ d.view[x].wset # NoSet => d.view[x].output = d.set[d.view[x].wset].output
    <3>1. /\ ws.view[x].mapped => ws.view[x].wset # NoSet
          /\ \A k \in Index : x \in ws.set[k].views => ws.view[x].wset = k
          /\ ws.view[x].wset # NoSet => ws.view[x].output = ws.set[ws.view[x].wset].output
          /\ ws.view[x].wset \in Index \cup {NoSet}
      BY <1>1, <2>1, StateFields DEF SetsWhole, InOneSet
    <3>2. CASE x = v
      <4>1. d.view[v].wset = i
        BY <1>20, <3>1, <3>2
      <4>2. \A k \in Index : v \in d.set[k].views => k = i
        BY <1>19, <3>1, <3>2
      <4>. QED
        BY <1>9, <1>19, <1>20, <3>2, <4>1, <4>2, WsetsAssumption
    <3>3. CASE x # v
      <4>1. \A k \in Index : x \in d.set[k].views => x \in ws.set[k].views
        BY <1>19, <3>3
      <4>. QED
        BY <1>19, <1>21, <3>1, <3>3, <4>1 DEF SameView
    <3>. QED
      BY <3>2, <3>3
  <2>. QED
    BY <2>1 DEF InOneSet
<1>25. UnderSet(d, doubled \cup raised)
  <2>1. ASSUME NEW x \in WsViews \ (doubled \cup raised)
        PROVE  /\ ~d.view[x].above
               /\ d.view[x].wset # NoSet => d.view[x].parent = InSet(d.view[x].wset)
               /\ d.view[x].enabled = (IF d.view[x].mapped THEN 1 ELSE 0)
                                      - (IF d.view[x].minimized THEN 1 ELSE 0)
    <3>1. /\ ~ws.view[x].above
          /\ ws.view[x].wset # NoSet => ws.view[x].parent = InSet(ws.view[x].wset)
          /\ ws.view[x].enabled = (IF ws.view[x].mapped THEN 1 ELSE 0)
                                  - (IF ws.view[x].minimized THEN 1 ELSE 0)
      BY <1>1, <2>1 DEF SetsWhole, UnderSet
    <3>2. CASE x = v
      BY <1>20, <3>1, <3>2
    <3>3. CASE x # v
      BY <1>21, <3>1, <3>3 DEF SameView
    <3>. QED
      BY <3>2, <3>3
  <2>. QED
    BY <2>1 DEF UnderSet
<1>26. SetsHeld(d)
  BY <1>1, <1>2, <1>19 DEF SetsHeld, Exists
<1>27. SetsWhole(ws', doubled, raised) /\ SetsHeld(ws')
  <2>1. SetsWhole(d, doubled, raised)
    BY <1>17, <1>22, <1>23, <1>24, <1>25 DEF SetsWhole
  <2>. QED
    BY <1>18, <1>26, <2>1, Collected
<1>. QED
  BY <1>18, <1>27 DEF WsInv

(* A set of the output has the view.                                       *)
OfOutput(s, v, o) == \E k \in Index : s.set[k].output = o /\ v \in s.set[k].views

(* on_output_removed of the sets of an output, and of their views.         *)
LEMMA Orphaned ==
  ASSUME NEW s \in SetStates, NEW o \in WsOutputs, NEW r, r = Orphans(s, o)
  PROVE  /\ r \in SetStates /\ r.current = s.current /\ r.available = s.available
         /\ \A k \in Index :
              /\ r.set[k].views = s.set[k].views /\ r.set[k].visible = s.set[k].visible
              /\ r.set[k].output = IF s.set[k].output = o THEN NoOutput ELSE s.set[k].output
         /\ \A v \in WsViews :
              /\ SameView(r.view[v], s.view[v]) /\ r.view[v].enabled = s.view[v].enabled
              /\ r.view[v].output = IF OfOutput(s, v, o) THEN NoOutput ELSE s.view[v].output
<1>1. PICK O : O = {k \in Index : s.set[k].output = o}
  OBVIOUS
<1>2. PICK n \in WsOutputs \cup {NoOutput} : n = NoOutput
  OBVIOUS
<1>3. PICK g : g = [k \in Index |-> IF k \in O THEN [s.set[k] EXCEPT !.output = n] ELSE s.set[k]]
  OBVIOUS
<1>4. ASSUME NEW k \in Index
      PROVE  /\ g[k] \in SetRecords /\ g[k].visible = s.set[k].visible /\ g[k].views = s.set[k].views
             /\ g[k].output = IF s.set[k].output = o THEN NoOutput ELSE s.set[k].output
  <2>1. s.set[k] \in SetRecords
    BY StateFields
  <2>2. PICK q : q = [s.set[k] EXCEPT !.output = n]
    OBVIOUS
  <2>3. q \in SetRecords /\ q.visible = s.set[k].visible /\ q.output = n /\ q.views = s.set[k].views
    BY <1>2, <2>1, <2>2, SetChanges
  <2>4. g[k] = IF s.set[k].output = o THEN q ELSE s.set[k]
    BY <1>1, <1>3, <2>2
  <2>. QED
    BY <1>2, <2>1, <2>3, <2>4
<1>5. g \in [Index -> SetRecords]
  BY <1>3, <1>4
<1>6. PICK t : t = [s EXCEPT !.set = g]
  OBVIOUS
<1>7. t \in SetStates /\ t.view = s.view /\ t.set = g /\ t.current = s.current /\ t.available = s.available
  BY <1>5, <1>6, StateParts
<1>8. PICK V : V = UNION {s.set[k].views : k \in O}
  OBVIOUS
<1>9. r = SetOutput(t, V, n)
  BY <1>1, <1>2, <1>3, <1>6, <1>8 DEF Orphans
<1>10. /\ r \in SetStates /\ r.current = t.current /\ r.available = t.available /\ r.set = t.set
       /\ \A v \in WsViews : /\ SameView(r.view[v], t.view[v]) /\ r.view[v].enabled = t.view[v].enabled
                             /\ r.view[v].output = IF v \in V THEN n ELSE t.view[v].output
  BY <1>2, <1>7, <1>9, OutputSet
<1>11. \A v : v \in V <=> OfOutput(s, v, o)
  BY <1>1, <1>8 DEF OfOutput
<1>. QED
  BY <1>2, <1>4, <1>7, <1>10, <1>11

(* An output is removed: views of its set in the scenegraph move to        *)
(* another output, and its sets lose it with the views that are left in    *)
(* them.                                                                   *)
LEMMA RemoveOutputKeeps ==
  ASSUME WsInv, NEW o \in WsOutputs, NEW to \in WsOutputs, RemoveOutput(o, to)
  PROVE  WsInv'
<1>1. SetsWhole(ws, doubled, raised) /\ SetsHeld(ws) /\ ws \in SetStates
  BY DEF WsInv, SetsWhole
<1>. DEFINE i == ws.current[o]
            U == {v \in ws.set[i].views : ws.view[v].above}
            back == KeepAbove(ws, o, U, FALSE)
            fallen == {v \in WsViews : back.view[v].parent = OnTop(o)}
            dropped == Reparent(back, fallen, Detached)
            V == {v \in dropped.set[i].views : InScene(dropped, v)}
            moved == MoveToOutput(dropped, V, to)
            others == {v \in WsViews : moved.view[v].output = o /\ moved.view[v].wset = NoSet}
            given == SetOutput(moved, others, to)
            left == Orphans(given, o)
            cur == [left.current EXCEPT ![o] = NoSet]
            s == [left EXCEPT !.current = cur]
<1>2. /\ Exists(ws, o) /\ Exists(ws, to) /\ to # o
      /\ ws' = Collect(s) /\ doubled \subseteq doubled' /\ raised' = raised
  <2>1. Exists(ws, o) /\ Exists(ws, to) /\ to # o /\ doubled \subseteq doubled' /\ raised' = raised
    <3>. HIDE DEF s
    <3>. QED
      BY DEF RemoveOutput
  <2>2. s = [left EXCEPT !.current[o] = NoSet]
    OBVIOUS
  <2>3. ws' = Collect([left EXCEPT !.current[o] = NoSet])
    BY Zenon DEF RemoveOutput
  <2>. QED
    BY <2>1, <2>2, <2>3
<1>3. i = ws.current[o]
  OBVIOUS
<1>4. PICK n \in BOOLEAN : ~n
  OBVIOUS
<1>5. U = {v \in ws.set[i].views : ws.view[v].above}
  OBVIOUS
<1>. HIDE DEF i, U
<1>6. back = KeepAbove(ws, o, U, n)
  BY <1>4
<1>. HIDE DEF back
<1>7. fallen = {v \in WsViews : back.view[v].parent = OnTop(o)}
  OBVIOUS
<1>. HIDE DEF fallen
<1>8. dropped = Reparent(back, fallen, Detached)
  OBVIOUS
<1>. HIDE DEF dropped
<1>9. V = {v \in dropped.set[i].views : InScene(dropped, v)}
  OBVIOUS
<1>. HIDE DEF V
<1>10. moved = MoveToOutput(dropped, V, to)
  OBVIOUS
<1>. HIDE DEF moved
<1>11. others = {v \in WsViews : moved.view[v].output = o /\ moved.view[v].wset = NoSet}
  OBVIOUS
<1>. HIDE DEF others
<1>12. given = SetOutput(moved, others, to)
  OBVIOUS
<1>. HIDE DEF given
<1>13. left = Orphans(given, o)
  OBVIOUS
<1>. HIDE DEF left
<1>14. cur = [left.current EXCEPT ![o] = NoSet]
  OBVIOUS
<1>. HIDE DEF cur
<1>15. s = [left EXCEPT !.current = cur]
  OBVIOUS
<1>. HIDE DEF s
<1>16. /\ i \in Index /\ ws.set[i].output = o /\ U \in SUBSET WsViews
  BY <1>1, <1>3, <1>5, <1>2, StateFields DEF Exists, SetsWhole, SetsAgree
<1>17. PICK j : j = ws.current[to]
  OBVIOUS
<1>18. j \in Index /\ ws.set[j].output = to /\ j # i /\ j \in ws.available
  <2>1. j \in Index /\ ws.set[j].output = to
    BY <1>1, <1>2, <1>17, StateFields DEF Exists, SetsWhole, SetsAgree
  <2>2. j \in ws.available
    BY <1>1, <1>2, <1>17 DEF SetsHeld
  <2>. QED
    BY <1>2, <1>16, <2>1, <2>2
<1>19. /\ back \in SetStates /\ back.current = ws.current /\ back.available = ws.available
       /\ back.set = ws.set
       /\ \A v \in WsViews :
            /\ back.view[v].mapped = ws.view[v].mapped /\ back.view[v].minimized = ws.view[v].minimized
            /\ back.view[v].wset = ws.view[v].wset
            /\ back.view[v].enabled = ws.view[v].enabled /\ back.view[v].output = ws.view[v].output
            /\ v \notin U => back.view[v].above = ws.view[v].above /\ back.view[v].parent = ws.view[v].parent
  <2>1. n \in BOOLEAN /\ back = KeepAbove(ws, o, U, n)
    BY <1>4, <1>6
  <2>2. Exists(ws, o) /\ U \in SUBSET WsViews /\ ws \in SetStates
    BY <1>1, <1>2, <1>16
  <2>. QED
    BY <2>1, <2>2, KeptAbove
<1>20. PICK p : p = Detached
  OBVIOUS
<1>21. /\ dropped \in SetStates /\ dropped.current = back.current /\ dropped.available = back.available
       /\ dropped.set = back.set
       /\ \A v \in WsViews :
            /\ dropped.view[v].mapped = back.view[v].mapped
            /\ dropped.view[v].minimized = back.view[v].minimized
            /\ dropped.view[v].above = back.view[v].above /\ dropped.view[v].wset = back.view[v].wset
            /\ dropped.view[v].enabled = back.view[v].enabled
            /\ dropped.view[v].output = back.view[v].output
            /\ dropped.view[v].parent = IF v \in fallen THEN p ELSE back.view[v].parent
  <2>1. p \in Parents /\ dropped = Reparent(back, fallen, p)
    BY <1>8, <1>20, ParentsDiffer
  <2>. QED
    BY <1>19, <2>1, ParentSet
<1>22. V \in SUBSET WsViews /\ V \subseteq ws.set[i].views
  BY <1>1, <1>9, <1>16, <1>19, <1>21, StateFields
<1>23. \A v \in WsViews : ws.view[v].wset # NoSet =>
         ws.view[v].wset \in Index /\ v \in ws.set[ws.view[v].wset].views
  BY <1>1, WholeParts
<1>24. PICK a : a = RemoveViews(dropped, V)
  OBVIOUS
<1>25. /\ a \in SetStates /\ a.current = dropped.current /\ a.available = dropped.available
       /\ \A k \in Index : /\ a.set[k].visible = dropped.set[k].visible
                           /\ a.set[k].output = dropped.set[k].output
                           /\ a.set[k].views = {x \in dropped.set[k].views :
                                                  ~(x \in V /\ dropped.view[x].wset = k)}
       /\ \A x \in WsViews :
            /\ a.view[x].mapped = dropped.view[x].mapped /\ a.view[x].minimized = dropped.view[x].minimized
            /\ a.view[x].above = dropped.view[x].above /\ a.view[x].parent = dropped.view[x].parent
            /\ a.view[x].enabled = dropped.view[x].enabled /\ a.view[x].output = dropped.view[x].output
            /\ a.view[x].wset = IF x \in V THEN NoSet ELSE dropped.view[x].wset
  <2>1. \A v \in WsViews : dropped.view[v].wset # NoSet =>
          v \in dropped.set[dropped.view[v].wset].views
    BY <1>19, <1>21, <1>23
  <2>. QED
    BY <1>21, <1>22, <1>24, <2>1, RemovedViews
<1>26. PICK y : y = InSet(j)
  OBVIOUS
<1>27. PICK b : b = Reparent(a, V, y)
  OBVIOUS
<1>28. /\ b \in SetStates /\ b.current = a.current /\ b.available = a.available /\ b.set = a.set
       /\ \A x \in WsViews :
            /\ b.view[x].mapped = a.view[x].mapped /\ b.view[x].minimized = a.view[x].minimized
            /\ b.view[x].above = a.view[x].above /\ b.view[x].wset = a.view[x].wset
            /\ b.view[x].enabled = a.view[x].enabled /\ b.view[x].output = a.view[x].output
            /\ b.view[x].parent = IF x \in V THEN y ELSE a.view[x].parent
  <2>1. y \in Parents
    BY <1>18, <1>26, ParentsDiffer
  <2>. QED
    BY <1>25, <1>27, <2>1, ParentSet
<1>29. moved = MovedToWset(AddViews(b, j, V), j, V)
  <2>1. dropped.current[to] = j
    BY <1>17, <1>19, <1>21
  <2>. QED
    BY <1>10, <1>24, <1>26, <1>27, <2>1 DEF MoveToOutput
<1>30. /\ moved \in SetStates /\ moved.current = b.current /\ moved.available = b.available
       /\ \A k \in Index : /\ moved.set[k].visible = b.set[k].visible
                           /\ moved.set[k].output = b.set[k].output
                           /\ k # j => moved.set[k].views = b.set[k].views
       /\ moved.set[j].views = b.set[j].views \cup V
       /\ \A x \in WsViews :
            /\ moved.view[x].mapped = b.view[x].mapped /\ moved.view[x].minimized = b.view[x].minimized
            /\ moved.view[x].above = b.view[x].above /\ moved.view[x].enabled = b.view[x].enabled
            /\ x \notin V \/ ~b.view[x].above => moved.view[x].parent = b.view[x].parent
            /\ x \in V /\ x \notin b.set[j].views =>
                 moved.view[x].wset = j /\ moved.view[x].output = b.set[j].output
            /\ ~(x \in V /\ x \notin b.set[j].views) =>
                 moved.view[x].wset = b.view[x].wset /\ moved.view[x].output = b.view[x].output
  BY <1>18, <1>22, <1>28, <1>29, HousedViews
<1>31. /\ moved.current = ws.current /\ moved.available = ws.available
       /\ \A k \in Index : /\ moved.set[k].visible = ws.set[k].visible
                           /\ moved.set[k].output = ws.set[k].output
                           /\ k # j => moved.set[k].views = {x \in ws.set[k].views :
                                                               ~(x \in V /\ ws.view[x].wset = k)}
       /\ moved.set[j].views = ws.set[j].views \cup V
  BY <1>18, <1>19, <1>21, <1>22, <1>25, <1>28, <1>30
<1>32. ASSUME NEW x \in WsViews
       PROVE  /\ moved.view[x].mapped = ws.view[x].mapped
              /\ moved.view[x].minimized = ws.view[x].minimized
              /\ moved.view[x].enabled = ws.view[x].enabled
              /\ ~ws.view[x].above => ~moved.view[x].above
              /\ x \notin V => /\ moved.view[x].wset = ws.view[x].wset
                               /\ moved.view[x].output = ws.view[x].output
              /\ x \in V => /\ \/ moved.view[x].wset = j /\ moved.view[x].output = to
                               \/ moved.view[x].wset = NoSet /\ moved.view[x].output = ws.view[x].output
                            /\ x \notin ws.set[j].views => moved.view[x].wset = j
              /\ x \in V /\ ~ws.view[x].above => moved.view[x].parent = InSet(j)
              /\ x \notin V /\ ~ws.view[x].above /\ ws.view[x].parent # OnTop(o) =>
                   moved.view[x].parent = ws.view[x].parent
  <2>1. /\ b.view[x].mapped = ws.view[x].mapped /\ b.view[x].minimized = ws.view[x].minimized
        /\ b.view[x].enabled = ws.view[x].enabled /\ b.view[x].output = ws.view[x].output
        /\ b.view[x].wset = IF x \in V THEN NoSet ELSE ws.view[x].wset
    BY <1>19, <1>21, <1>25, <1>28
  <2>2. ~ws.view[x].above => x \notin U /\ ~b.view[x].above
    BY <1>5, <1>19, <1>21, <1>25, <1>28
  <2>3. x \in V => b.view[x].parent = InSet(j)
    BY <1>26, <1>28
  <2>4. x \notin V /\ ~ws.view[x].above /\ ws.view[x].parent # OnTop(o) =>
          b.view[x].parent = ws.view[x].parent
    BY <1>7, <1>19, <1>21, <1>25, <1>28, <2>2
  <2>5. b.set[j].output = to
    BY <1>18, <1>19, <1>21, <1>25, <1>28
  <2>6. x \in b.set[j].views => x \in ws.set[j].views
    BY <1>18, <1>19, <1>21, <1>25, <1>28
  <2>. QED
    BY <1>30, <2>1, <2>2, <2>3, <2>4, <2>5, <2>6
<1>33. /\ given \in SetStates /\ given.current = moved.current /\ given.available = moved.available
       /\ given.set = moved.set
       /\ \A x \in WsViews : /\ SameView(given.view[x], moved.view[x])
                             /\ given.view[x].enabled = moved.view[x].enabled
                             /\ given.view[x].output = IF x \in others THEN to ELSE moved.view[x].output
  BY <1>12, <1>30, OutputSet
<1>34. /\ left \in SetStates /\ left.current = given.current /\ left.available = given.available
       /\ \A k \in Index :
            /\ left.set[k].views = given.set[k].views /\ left.set[k].visible = given.set[k].visible
            /\ left.set[k].output = IF given.set[k].output = o THEN NoOutput ELSE given.set[k].output
       /\ \A x \in WsViews :
            /\ SameView(left.view[x], given.view[x]) /\ left.view[x].enabled = given.view[x].enabled
            /\ left.view[x].output = IF OfOutput(given, x, o) THEN NoOutput ELSE given.view[x].output
  <2>1. given \in SetStates
    BY <1>33
  <2>. QED
    BY <1>13, <2>1, Orphaned
<1>35. /\ cur \in [WsOutputs -> Index \cup {NoSet}] /\ cur[o] = NoSet
       /\ \A x \in WsOutputs \ {o} : cur[x] = ws.current[x]
  BY <1>1, <1>14, <1>31, <1>33, <1>34, StateFields
<1>36. /\ s \in SetStates /\ s.current = cur /\ s.set = left.set /\ s.view = left.view
       /\ s.available = left.available
  BY <1>15, <1>34, <1>35, StateParts
<1>37. /\ s.available = ws.available
       /\ \A k \in Index : /\ s.set[k].visible = ws.set[k].visible
                           /\ s.set[k].output = IF ws.set[k].output = o THEN NoOutput ELSE ws.set[k].output
                           /\ k # j => s.set[k].views = {x \in ws.set[k].views :
                                                           ~(x \in V /\ ws.view[x].wset = k)}
       /\ s.set[j].views = ws.set[j].views \cup V /\ s.set[j].output = to
  BY <1>2, <1>18, <1>31, <1>33, <1>34, <1>36
<1>38. ASSUME NEW x \in WsViews
       PROVE  /\ s.view[x].mapped = ws.view[x].mapped
              /\ s.view[x].minimized = ws.view[x].minimized
              /\ s.view[x].enabled = ws.view[x].enabled
              /\ ~ws.view[x].above => ~s.view[x].above
              /\ s.view[x].wset = moved.view[x].wset
              /\ s.view[x].parent = moved.view[x].parent
              /\ \/ s.view[x].output = NoOutput
                 \/ s.view[x].output = IF moved.view[x].output = o /\ moved.view[x].wset = NoSet THEN to
                                       ELSE moved.view[x].output
              /\ (\E k \in Index : ws.set[k].output = o /\ x \in s.set[k].views) =>
                   s.view[x].output = NoOutput
              /\ (\A k \in Index : ws.set[k].output = o => x \notin s.set[k].views) =>
                   s.view[x].output = IF moved.view[x].output = o /\ moved.view[x].wset = NoSet THEN to
                                      ELSE moved.view[x].output
  <2>1. /\ SameView(s.view[x], given.view[x]) /\ SameView(given.view[x], moved.view[x])
        /\ s.view[x].enabled = moved.view[x].enabled
    BY <1>33, <1>34, <1>36
  <2>2. given.view[x].output = IF moved.view[x].output = o /\ moved.view[x].wset = NoSet THEN to
                               ELSE moved.view[x].output
    BY <1>11, <1>33
  <2>3. \A k \in Index : s.set[k].views = given.set[k].views /\ given.set[k].output = ws.set[k].output
    BY <1>31, <1>33, <1>34, <1>36
  <2>4. /\ (\E k \in Index : ws.set[k].output = o /\ x \in s.set[k].views) =>
             s.view[x].output = NoOutput
        /\ (\A k \in Index : ws.set[k].output = o => x \notin s.set[k].views) =>
             s.view[x].output = given.view[x].output
    BY <1>34, <1>36, <2>3 DEF OfOutput
  <2>5. /\ s.view[x].mapped = moved.view[x].mapped /\ s.view[x].minimized = moved.view[x].minimized
        /\ s.view[x].above = moved.view[x].above /\ s.view[x].wset = moved.view[x].wset
        /\ s.view[x].parent = moved.view[x].parent
    BY <2>1 DEF SameView
  <2>. QED
    BY <1>32, <2>1, <2>2, <2>4, <2>5
<1>39. SetsAgree(s)
  <2>1. SetsAgree(ws)
    BY <1>1 DEF SetsWhole
  <2>2. ASSUME NEW x \in WsOutputs, Exists(s, x)
        PROVE  s.set[s.current[x]].output = x /\ s.set[s.current[x]].visible
    <3>1. x # o /\ s.current[x] = ws.current[x] /\ Exists(ws, x)
      BY <1>35, <1>36, <2>2 DEF Exists
    <3>2. ws.current[x] \in Index /\ ws.set[ws.current[x]].output = x /\ ws.set[ws.current[x]].visible
      BY <1>1, <2>1, <3>1, StateFields DEF SetsAgree, Exists
    <3>. QED
      BY <1>37, <3>1, <3>2
  <2>3. ASSUME NEW k \in Index, s.set[k].output # NoOutput
        PROVE  /\ Exists(s, s.set[k].output)
               /\ s.set[k].visible => s.current[s.set[k].output] = k
    <3>1. ws.set[k].output # o /\ s.set[k].output = ws.set[k].output /\ s.set[k].visible = ws.set[k].visible
      BY <1>37, <2>3
    <3>2. /\ Exists(ws, ws.set[k].output) /\ ws.set[k].output \in WsOutputs
          /\ ws.set[k].visible => ws.current[ws.set[k].output] = k
      BY <1>1, <2>1, <2>3, <3>1, StateFields DEF SetsAgree
    <3>. QED
      BY <1>35, <1>36, <3>1, <3>2 DEF Exists
  <2>. QED
    BY <2>2, <2>3 DEF SetsAgree
<1>40. \A x \in WsOutputs \ {o} : Exists(ws, x) => Exists(s, x)
  BY <1>35, <1>36 DEF Exists
<1>41. ViewsHeld(s)
  <2>1. ASSUME NEW x \in WsViews, s.view[x].wset # NoSet PROVE x \in s.set[s.view[x].wset].views
    <3>1. CASE x \in V
      BY <1>32, <1>37, <1>38, <2>1, <3>1
    <3>2. CASE x \notin V
      BY <1>23, <1>32, <1>37, <1>38, <2>1, <3>2
    <3>. QED
      BY <3>1, <3>2
  <2>2. ASSUME NEW x \in WsViews, s.view[x].output # NoOutput
        PROVE  /\ Exists(s, s.view[x].output)
               /\ s.view[x].wset = NoSet
                  \/ \E k \in Index : x \in s.set[k].views /\ s.set[k].output = s.view[x].output
    <3>1. /\ s.view[x].output = IF moved.view[x].output = o /\ moved.view[x].wset = NoSet THEN to
                                ELSE moved.view[x].output
          /\ \A k \in Index : ws.set[k].output = o => x \notin s.set[k].views
      BY <1>38, <2>2
    <3>2. CASE x \in V /\ moved.view[x].wset = j /\ moved.view[x].output = to
      <4>1. s.view[x].output = to /\ x \in s.set[j].views
        BY <1>2, <1>37, <3>1, <3>2
      <4>. QED
        BY <1>2, <1>18, <1>37, <1>40, <4>1
    <3>3. CASE moved.view[x].wset = NoSet /\ moved.view[x].output = ws.view[x].output
      <4>1. s.view[x].wset = NoSet
        BY <1>38, <3>3
      <4>2. CASE ws.view[x].output = o
        BY <1>2, <1>40, <3>1, <3>3, <4>1, <4>2
      <4>3. CASE ws.view[x].output # o
        <5>1. s.view[x].output = ws.view[x].output
          BY <3>1, <3>3, <4>3
        <5>2. Exists(ws, ws.view[x].output) /\ ws.view[x].output \in WsOutputs
          BY <1>1, <2>2, <5>1, StateFields DEF SetsWhole, ViewsHeld
        <5>. QED
          BY <1>40, <4>1, <4>3, <5>1, <5>2
      <4>. QED
        BY <4>2, <4>3
    <3>4. CASE x \notin V /\ ws.view[x].wset # NoSet
      <4>1. moved.view[x].wset = ws.view[x].wset /\ moved.view[x].output = ws.view[x].output
        BY <1>32, <3>4
      <4>2. s.view[x].output = ws.view[x].output
        BY <3>1, <3>4, <4>1
      <4>3. Exists(ws, ws.view[x].output) /\ ws.view[x].output \in WsOutputs
        BY <1>1, <2>2, <4>2, StateFields DEF SetsWhole, ViewsHeld
      <4>4. PICK k \in Index : x \in ws.set[k].views /\ ws.set[k].output = ws.view[x].output
        BY <1>1, <2>2, <3>4, <4>2 DEF SetsWhole, ViewsHeld
      <4>5. x \in s.set[k].views
        BY <1>37, <3>4, <4>4
      <4>6. ws.set[k].output # o
        BY <3>1, <4>5
      <4>. QED
        BY <1>37, <1>40, <4>2, <4>3, <4>4, <4>5, <4>6
    <3>. QED
      BY <1>32, <3>2, <3>3, <3>4
  <2>. QED
    BY <2>1, <2>2 DEF ViewsHeld
<1>42. InOneSet(s, doubled)
  <2>1. ASSUME NEW x \in WsViews \ doubled
        PROVE  /\ s.view[x].mapped => s.view[x].wset # NoSet
               /\ \A k \in Index : x \in s.set[k].views => s.view[x].wset = k
               /\ s.view[x].wset # NoSet => s.view[x].output = s.set[s.view[x].wset].output
    <3>1. /\ ws.view[x].mapped => ws.view[x].wset # NoSet
          /\ \A k \in Index : x \in ws.set[k].views => ws.view[x].wset = k
          /\ ws.view[x].wset # NoSet => ws.view[x].output = ws.set[ws.view[x].wset].output
          /\ ws.view[x].wset \in Index \cup {NoSet}
      BY <1>1, <2>1, StateFields DEF SetsWhole, InOneSet
    <3>2. CASE x \in V
      <4>1. ws.view[x].wset = i
        BY <1>16, <1>22, <3>1, <3>2
      <4>2. x \notin ws.set[j].views
        BY <1>18, <3>1, <4>1
      <4>3. moved.view[x].wset = j /\ moved.view[x].output = to
        BY <1>18, <1>32, <3>2, <4>2, WsetsAssumption
      <4>4. \A k \in Index : x \in s.set[k].views => k = j
        BY <1>37, <3>1, <3>2, <4>1
      <4>5. s.view[x].output = to
        BY <1>2, <1>18, <1>38, <4>3, <4>4
      <4>. QED
        BY <1>18, <1>37, <1>38, <4>3, <4>4, <4>5, WsetsAssumption
    <3>3. CASE x \notin V
      <4>1. s.view[x].wset = ws.view[x].wset /\ moved.view[x].wset = ws.view[x].wset
            /\ moved.view[x].output = ws.view[x].output
        BY <1>32, <1>38, <3>3
      <4>2. \A k \in Index : x \in s.set[k].views <=> x \in ws.set[k].views
        BY <1>37, <3>3
      <4>3. ASSUME ws.view[x].wset # NoSet
            PROVE  s.view[x].output = s.set[ws.view[x].wset].output
        <5>1. ws.view[x].wset \in Index /\ x \in ws.set[ws.view[x].wset].views
          BY <1>23, <4>3
        <5>2. CASE ws.set[ws.view[x].wset].output = o
          BY <1>37, <1>38, <4>2, <5>1, <5>2
        <5>3. CASE ws.set[ws.view[x].wset].output # o
          <6>1. \A k \in Index : ws.set[k].output = o => x \notin s.set[k].views
            BY <3>1, <4>2, <5>3
          <6>2. s.view[x].output = ws.view[x].output
            BY <1>38, <4>1, <4>3, <6>1
          <6>. QED
            BY <1>37, <3>1, <4>3, <5>1, <5>3, <6>2
        <5>. QED
          BY <5>2, <5>3
      <4>. QED
        BY <1>38, <3>1, <4>1, <4>2, <4>3
    <3>. QED
      BY <3>2, <3>3
  <2>. QED
    BY <2>1 DEF InOneSet
<1>43. UnderSet(s, doubled \cup raised)
  <2>1. ASSUME NEW x \in WsViews \ (doubled \cup raised)
        PROVE  /\ ~s.view[x].above
               /\ s.view[x].wset # NoSet => s.view[x].parent = InSet(s.view[x].wset)
               /\ s.view[x].enabled = (IF s.view[x].mapped THEN 1 ELSE 0)
                                      - (IF s.view[x].minimized THEN 1 ELSE 0)
    <3>1. /\ ~ws.view[x].above
          /\ ws.view[x].wset # NoSet => ws.view[x].parent = InSet(ws.view[x].wset)
          /\ ws.view[x].enabled = (IF ws.view[x].mapped THEN 1 ELSE 0)
                                  - (IF ws.view[x].minimized THEN 1 ELSE 0)
      BY <1>1, <2>1 DEF SetsWhole, UnderSet
    <3>2. CASE x \in V
      <4>1. s.view[x].wset # NoSet => s.view[x].wset = j
        BY <1>32, <1>38, <3>2
      <4>2. s.view[x].parent = InSet(j)
        BY <1>32, <1>38, <3>1, <3>2
      <4>. QED
        BY <1>38, <3>1, <4>1, <4>2
    <3>3. CASE x \notin V
      <4>1. ASSUME ws.view[x].wset # NoSet PROVE ws.view[x].parent # OnTop(o)
        BY <1>23, <3>1, <4>1, ParentsDiffer
      <4>. QED
        BY <1>32, <1>38, <3>1, <3>3, <4>1
    <3>. QED
      BY <3>2, <3>3
  <2>. QED
    BY <2>1 DEF UnderSet
<1>44. SetsHeld(s)
  <2>1. ASSUME NEW x \in WsOutputs, Exists(s, x) PROVE s.current[x] \in s.available
    BY <1>1, <1>35, <1>36, <1>37, <2>1 DEF SetsHeld, Exists
  <2>2. ASSUME NEW k \in Index \ s.available PROVE s.set[k].views = {}
    BY <1>1, <1>18, <1>37, <2>2 DEF SetsHeld
  <2>. QED
    BY <2>1, <2>2 DEF SetsHeld
<1>45. SetsWhole(s, doubled, raised)
  BY <1>36, <1>39, <1>41, <1>42, <1>43 DEF SetsWhole
<1>46. SetsWhole(ws', doubled, raised) /\ SetsHeld(ws')
  BY <1>2, <1>44, <1>45, Collected
<1>47. SetsWhole(ws', doubled', raised')
  <2>1. InOneSet(ws', doubled')
    BY <1>2, <1>46 DEF SetsWhole, InOneSet
  <2>2. UnderSet(ws', doubled' \cup raised')
    BY <1>2, <1>46 DEF SetsWhole, UnderSet
  <2>. QED
    BY <1>46, <2>1, <2>2 DEF SetsWhole
<1>. QED
  BY <1>46, <1>47 DEF WsInv

(* Every step keeps the invariant.                                         *)
LEMMA SetsMove == WsInv /\ [WsNext]_wsVars => WsInv'
<1>1. SUFFICES ASSUME WsInv, [WsNext]_wsVars PROVE WsInv'
  OBVIOUS
<1>2. CASE UNCHANGED wsVars
  BY <1>1, <1>2 DEF wsVars, WsInv
<1>3. ASSUME NEW on \in BOOLEAN, Inhibit(on) PROVE WsInv'
  BY <1>1, <1>3 DEF Inhibit, WsInv
<1>4. CASE WsNext
  BY <1>1, <1>3, <1>4, AddOutputKeeps, RemoveOutputKeeps, SelectWorkspaceKeeps, MapViewKeeps,
     SendWindowKeeps, SetAlwaysOnTopKeeps, MinimizeKeeps, UnmapViewKeeps, DestroyViewKeeps DEF WsNext
<1>. QED
  BY <1>1, <1>2, <1>4

(* Views are to be seen with their sets.                                   *)
LEMMA SetsRight == WsInv => SetsShown
<1>1. SUFFICES ASSUME WsInv PROVE SetsShown
  OBVIOUS
<1>2. SetsWhole(ws, doubled, raised) /\ ws \in SetStates
  BY <1>1 DEF WsInv, SetsWhole
<1>3. OneSetShown
  BY <1>2 DEF SetsWhole, SetsAgree, OneSetShown
<1>4. ViewsInSets
  <2>1. ASSUME NEW v \in WsViews \ doubled, NEW i \in Index, ws.view[v].wset = i
        PROVE  v \in ws.set[i].views
    BY <1>2, <2>1, WsetsAssumption DEF SetsWhole, ViewsHeld
  <2>. QED
    BY <1>2, <2>1 DEF SetsWhole, InOneSet, ViewsInSets
<1>5. ShownWithSet
  <2>1. ASSUME NEW v \in WsViews \ (doubled \cup raised), ws.view[v].wset # NoSet
        PROVE  LET set == ws.set[ws.view[v].wset]
               IN Shown(v) <=> /\ ws.view[v].mapped /\ ~ws.view[v].minimized
                               /\ set.visible /\ set.output # NoOutput
    <3>1. PICK k \in Index : k = ws.view[v].wset
      BY <1>2, <2>1, StateFields
    <3>2. /\ ws.view[v].parent = InSet(k)
          /\ ws.view[v].enabled = (IF ws.view[v].mapped THEN 1 ELSE 0)
                                  - (IF ws.view[v].minimized THEN 1 ELSE 0)
      BY <1>2, <2>1, <3>1 DEF SetsWhole, UnderSet
    <3>3. \A i \in Index : ws.view[v].parent = InSet(i) <=> i = k
      BY <3>2, ParentsDiffer
    <3>4. \A o \in WsOutputs : ws.view[v].parent # OnTop(o)
      BY <3>2, ParentsDiffer
    <3>5. InScene(ws, v) <=> ws.set[k].output # NoOutput
      BY <3>3, <3>4 DEF InScene
    <3>6. ws.view[v].mapped => (ws.view[v].enabled > 0 <=> ~ws.view[v].minimized)
      BY <3>2
    <3>7. (\A i \in Index : ws.view[v].parent = InSet(i) => ws.set[i].visible) <=> ws.set[k].visible
      BY <3>3
    <3>. QED
      BY <3>1, <3>5, <3>6, <3>7 DEF Shown
  <2>. QED
    BY <2>1 DEF ShownWithSet
<1>. QED
  BY <1>3, <1>4, <1>5 DEF SetsShown

-----------------------------------------------------------------------------
(* Frames: render-manager.cpp and wlr-surface-node.cpp.                    *)

(* The states of an output, of a surface, the idle callbacks, and all that *)
(* a handler changes.                                                      *)
OutStates ==
  [present : BOOLEAN, on : BOOLEAN, pending : BOOLEAN, flip : {"none", "new", "ready"}, timer : BOOLEAN,
   needs : BOOLEAN, redraw : Nat, instances : SUBSET Surfaces, connected : SUBSET Surfaces, failed : BOOLEAN]
SurfaceStates ==
  [home : FrameOutputs, enabled : BOOLEAN, exposed : SUBSET FrameOutputs, callback : BOOLEAN, missed : BOOLEAN,
   visibility : [FrameOutputs -> Int], delta : [FrameOutputs -> Int]]
Calls == ({"outputs"} \X Surfaces) \cup ({"visible", "frame"} \X FrameOutputs)
FrameStates ==
  [out : [FrameOutputs -> OutStates], surf : [Surfaces -> SurfaceStates], idle : Seq(Calls)]

(* A sequence that holds everything once.                                  *)
EachOnce(q) == \A i, j \in DOMAIN q : q[i] = q[j] => i = j

(* What an output does, R being the idle callbacks that are to be called:  *)
(* when a frame is pending or registered, and that one that is owed is.    *)
Drives(x, framed) ==
  /\ x.pending <=> x.flip # "none" \/ x.timer
  /\ ~(x.timer /\ x.flip # "none")
  /\ x.pending => x.present /\ x.on
  /\ framed => ~x.pending /\ x.needs
  /\ ~x.present => ~x.needs /\ x.instances = {}
  /\ x.present /\ x.on /\ ~x.failed /\ (x.needs \/ x.redraw > 0) => x.pending \/ framed

(* What a surface counts for an output.                                    *)
Counts(x, v, d, shown, called) ==
  /\ v \in {0, 1}
  /\ x.present => v + d = (IF shown THEN 1 ELSE 0)
  /\ ~x.present => v = 0 /\ d <= 0
  /\ d # 0 => called

(* What an output owes a surface: a frame after it was entered, and one    *)
(* for the client that waits.                                              *)
Works(x) == x.present /\ x.on /\ ~x.failed
Entered(x, v, shown) == Works(x) /\ shown /\ v = 0 => x.needs \/ x.flip = "new"
Awaited(x, waits) == Works(x) /\ waits => x.needs \/ x.flip # "none"

WaitsFor(y, o) == y.enabled /\ y.callback /\ ~y.missed /\ o \in y.exposed
IsGenerated(y, o) == y.enabled /\ (limits => y.home = o)

OutputsDrive(f, R) == \A o \in FrameOutputs : Drives(f.out[o], <<"frame", o>> \in R)
CountsOn(f, R, o) ==
  \A s \in Surfaces :
    Counts(f.out[o], f.surf[s].visibility[o], f.surf[s].delta[o], s \in f.out[o].instances,
           <<"outputs", s>> \in R)
SurfacesCount(f, R) == \A o \in FrameOutputs : CountsOn(f, R, o)
EnteredOn(f, o) ==
  \A s \in Surfaces : Entered(f.out[o], f.surf[s].visibility[o], IsGenerated(f.surf[s], o))
AwaitedOn(f, o) == \A s \in Surfaces : Awaited(f.out[o], WaitsFor(f.surf[s], o))
OutputsOwe(f) == \A o \in FrameOutputs : EnteredOn(f, o) /\ AwaitedOn(f, o)

(* The instances are those that the scenegraph generates.                  *)
ShownRight(f, o) ==
  f.out[o].present => \A s \in Surfaces : s \in f.out[o].instances <=> IsGenerated(f.surf[s], o)
SceneShown(f) == \A o \in FrameOutputs : ShownRight(f, o)
WithinHome(f) == limits => \A s \in Surfaces : f.surf[s].exposed \subseteq {f.surf[s].home}

Served(f, R) ==
  f \in FrameStates /\ OutputsDrive(f, R) /\ SurfacesCount(f, R) /\ OutputsOwe(f) /\ SceneShown(f) /\ WithinHome(f)
Right(f) == EachOnce(f.idle) /\ Served(f, ToSet(f.idle))

FrameInv == Right(Now)

(* Induction over the natural numbers, for a set.                          *)
LEMMA SetInduction ==
  ASSUME NEW S \in SUBSET Nat, 0 \in S, \A n \in S : n + 1 \in S
  PROVE  S = Nat
<1>1. SUFFICES ASSUME Nat \ S # {} PROVE FALSE
  OBVIOUS
<1>2. IsWellFoundedOn(OpToRel(<, Nat), Nat)
  BY NatLessThanWellFounded
<1>3. Nat \ S \subseteq Nat
  OBVIOUS
<1>4. PICK x \in Nat \ S : \A y \in Nat \ S : ~ (<<y, x>> \in OpToRel(<, Nat))
  BY <1>1, <1>2, <1>3, WFMin
<1>5. \A y \in Nat \ S : ~ (y < x)
  BY <1>4 DEF OpToRel
<1>6. x # 0 /\ x - 1 \in Nat /\ x - 1 < x /\ (x - 1) + 1 = x
  <2>1. x \in Nat /\ x # 0
    BY <1>4
  <2> QED
    BY <2>1
<1>7. x - 1 \in S
  BY <1>5, <1>6
<1> QED
  BY <1>6, <1>7

(* What every round of a loop keeps holds after it.                        *)
LEMMA LoopKeeps ==
  ASSUME NEW n \in Nat, NEW g, NEW T, g[0] \in T[0],
         \A i \in 1..n : g[i - 1] \in T[i - 1] => g[i] \in T[i]
  PROVE  \A i \in 0..n : g[i] \in T[i]
<1> DEFINE S == {i \in Nat : i <= n => g[i] \in T[i]}
<1>1. 0 \in S
  OBVIOUS
<1>2. ASSUME NEW i \in S PROVE i + 1 \in S
  <2>1. i \in Nat /\ i + 1 \in Nat
    BY <1>2
  <2>2. SUFFICES ASSUME i + 1 <= n PROVE g[i + 1] \in T[i + 1]
    BY <2>1
  <2>3. i <= n /\ i + 1 \in 1..n /\ (i + 1) - 1 = i
    BY <2>1, <2>2
  <2>4. g[i] \in T[i]
    BY <1>2, <2>3
  <2> QED
    BY <2>3, <2>4
<1>3. S = Nat
  <2> HIDE DEF S
  <2>1. S \in SUBSET Nat
    BY DEF S
  <2> QED
    BY <1>1, <1>2, <2>1, SetInduction
<1> QED
  <2>1. ASSUME NEW i \in 0..n PROVE g[i] \in T[i]
    <3>1. i \in Nat /\ i <= n
      OBVIOUS
    <3>2. i \in S
      <4> HIDE DEF S
      <4> QED
        BY <1>3, <3>1
    <3> QED
      BY <3>1, <3>2
  <2> QED
    BY <2>1

(* The rounds of a loop that starts with f, its step given as a function.  *)
Rounds(g, f, Step, n) == g = [i \in 0..n |-> IF i = 0 THEN f ELSE Step[<<g[i - 1], i>>]]

(* A loop over n rounds is a function on 0..n, by induction on n.          *)
LEMMA RoundsExist ==
  ASSUME NEW n \in Nat, NEW f, NEW Step
  PROVE  \E g : Rounds(g, f, Step, n)
<1> DEFINE S == {m \in Nat : \E g : Rounds(g, f, Step, m)}
<1>1. 0 \in S
  <2>1. PICK g : g = [i \in 0..0 |-> f]
    OBVIOUS
  <2>2. 0..0 = {0}
    OBVIOUS
  <2>3. Rounds(g, f, Step, 0)
    BY <2>1, <2>2 DEF Rounds
  <2> QED
    BY <2>3
<1>2. ASSUME NEW m \in S PROVE m + 1 \in S
  <2>1. PICK g : Rounds(g, f, Step, m)
    BY <1>2
  <2>2. m \in Nat /\ m + 1 \in Nat
    BY <1>2
  <2>3. PICK h : h = [i \in 0..(m + 1) |-> IF i \in 0..m THEN g[i] ELSE Step[<<g[m], m + 1>>]]
    OBVIOUS
  <2>4. PICK k : k = [i \in 0..(m + 1) |-> IF i = 0 THEN f ELSE Step[<<h[i - 1], i>>]]
    OBVIOUS
  <2>5. ASSUME NEW i \in 0..(m + 1) PROVE h[i] = k[i]
    <3>1. CASE i = 0
      <4>1. 0 \in 0..m
        BY <2>2
      <4>2. g[0] = f
        BY <2>1, <4>1 DEF Rounds
      <4> QED
        BY <2>3, <2>4, <3>1, <4>1, <4>2
    <3>2. CASE i # 0 /\ i \in 0..m
      <4>1. i - 1 \in 0..m /\ i - 1 \in 0..(m + 1)
        BY <2>2, <3>2
      <4>2. g[i] = Step[<<g[i - 1], i>>]
        BY <2>1, <3>2 DEF Rounds
      <4>3. h[i] = g[i] /\ h[i - 1] = g[i - 1]
        BY <2>3, <2>5, <3>2, <4>1
      <4>4. k[i] = Step[<<h[i - 1], i>>]
        BY <2>4, <2>5, <3>2
      <4> QED
        BY <4>2, <4>3, <4>4
    <3>3. CASE i = m + 1
      <4>1. i - 1 = m /\ m \in 0..m /\ m \in 0..(m + 1) /\ i \notin 0..m /\ i # 0
        BY <2>2, <3>3
      <4>2. h[i] = Step[<<g[m], m + 1>>] /\ h[m] = g[m]
        BY <2>3, <2>5, <4>1
      <4>3. k[i] = Step[<<h[m], i>>]
        BY <2>4, <2>5, <4>1
      <4> QED
        BY <3>3, <4>2, <4>3
    <3> QED
      BY <2>2, <2>5, <3>1, <3>2, <3>3
  <2>6. h = k
    BY <2>3, <2>4, <2>5
  <2>7. Rounds(h, f, Step, m + 1)
    BY <2>4, <2>6 DEF Rounds
  <2> QED
    BY <2>2, <2>7
<1>3. S = Nat
  <2> HIDE DEF S
  <2>1. S \in SUBSET Nat
    BY DEF S
  <2> QED
    BY <1>1, <1>2, <2>1, SetInduction
<1> QED
  BY <1>3

(* A sequence without one of its elements.                                 *)
LEMMA OneTaken ==
  ASSUME NEW S, NEW q \in Seq(S), NEW i \in DOMAIN q, NEW r, r = RemoveAt(q, i)
  PROVE  /\ r \in Seq(S) /\ Len(r) = Len(q) - 1
         /\ \A j \in DOMAIN r : r[j] = IF j < i THEN q[j] ELSE q[j + 1]
<1>1. i \in 1..Len(q) /\ Len(q) \in Nat
  OBVIOUS
<1>2. /\ SubSeq(q, 1, i - 1) \in Seq(S) /\ Len(SubSeq(q, 1, i - 1)) = i - 1
      /\ \A j \in 1..(i - 1) : SubSeq(q, 1, i - 1)[j] = q[j]
  <2>1. /\ SubSeq(q, 1, i - 1) \in Seq(S)
        /\ Len(SubSeq(q, 1, i - 1)) = IF 1 <= i - 1 THEN (i - 1) - 1 + 1 ELSE 0
        /\ \A j \in 1..((i - 1) - 1 + 1) : SubSeq(q, 1, i - 1)[j] = q[1 + j - 1]
    <3>1. \A j \in 1..(i - 1) : q[j] \in S
      BY <1>1
    <3>2. 1 \in Int /\ i - 1 \in Int
      BY <1>1
    <3> QED
      BY <3>1, <3>2, SubSeqProperties
  <2> QED
    BY <1>1, <2>1
<1>3. /\ SubSeq(q, i + 1, Len(q)) \in Seq(S)
      /\ Len(SubSeq(q, i + 1, Len(q))) = Len(q) - i
      /\ \A j \in 1..(Len(q) - i) : SubSeq(q, i + 1, Len(q))[j] = q[j + i]
  <2>1. /\ SubSeq(q, i + 1, Len(q)) \in Seq(S)
        /\ Len(SubSeq(q, i + 1, Len(q))) = IF i + 1 <= Len(q) THEN Len(q) - (i + 1) + 1 ELSE 0
        /\ \A j \in 1..(Len(q) - (i + 1) + 1) : SubSeq(q, i + 1, Len(q))[j] = q[i + 1 + j - 1]
    <3>1. \A j \in (i + 1)..Len(q) : q[j] \in S
      BY <1>1
    <3>2. i + 1 \in Int /\ Len(q) \in Int
      BY <1>1
    <3> QED
      BY <3>1, <3>2, SubSeqProperties
  <2>2. \A j \in 1..(Len(q) - i) : i + 1 + j - 1 = j + i
    BY <1>1
  <2>3. Len(q) - (i + 1) + 1 = Len(q) - i
    BY <1>1
  <2>4. (IF i + 1 <= Len(q) THEN Len(q) - i ELSE 0) = Len(q) - i
    BY <1>1
  <2> QED
    BY <2>1, <2>2, <2>3, <2>4
<1>4. PICK a \in Seq(S) : a = SubSeq(q, 1, i - 1) /\ Len(a) = i - 1 /\ \A j \in 1..(i - 1) : a[j] = q[j]
  BY <1>2
<1>5. PICK b \in Seq(S) : /\ b = SubSeq(q, i + 1, Len(q)) /\ Len(b) = Len(q) - i
                          /\ \A j \in 1..(Len(q) - i) : b[j] = q[j + i]
  BY <1>3
<1>6. r = a \o b
  BY <1>4, <1>5 DEF RemoveAt
<1>7. /\ r \in Seq(S) /\ Len(r) = Len(a) + Len(b)
      /\ \A j \in 1..(Len(a) + Len(b)) : r[j] = IF j <= Len(a) THEN a[j] ELSE b[j - Len(a)]
  BY <1>6, ConcatProperties
<1>8. r \in Seq(S) /\ Len(r) = Len(q) - 1
  BY <1>1, <1>4, <1>5, <1>7
<1>9. ASSUME NEW j \in DOMAIN r PROVE r[j] = IF j < i THEN q[j] ELSE q[j + 1]
  <2>1. j \in 1..(Len(q) - 1)
    BY <1>8
  <2>2. CASE j < i
    <3>1. j \in 1..(Len(a) + Len(b)) /\ j <= Len(a) /\ j \in 1..(i - 1)
      BY <1>1, <1>4, <1>5, <2>1, <2>2
    <3> QED
      BY <1>4, <1>7, <2>2, <3>1
  <2>3. CASE ~(j < i)
    <3>1. j \in 1..(Len(a) + Len(b)) /\ ~(j <= Len(a)) /\ j - Len(a) \in 1..(Len(q) - i)
      <4>1. PICK la, lb, l : la = Len(a) /\ lb = Len(b) /\ l = Len(q)
        OBVIOUS
      <4>2. la = i - 1 /\ lb = l - i
        BY <1>4, <1>5, <4>1
      <4>3. l \in Nat /\ i \in 1..l /\ j \in 1..(l - 1) /\ j >= i
        BY <1>1, <2>1, <2>3, <4>1
      <4>4. j \in 1..(la + lb) /\ ~(j <= la) /\ j - la \in 1..(l - i)
        BY <4>2, <4>3
      <4> QED
        BY <4>1, <4>4
    <3>2. (j - Len(a)) + i = j + 1
      BY <1>1, <1>4, <2>1
    <3> QED
      BY <1>5, <1>7, <2>3, <3>1, <3>2
  <2> QED
    BY <2>2, <2>3
<1> QED
  BY <1>8, <1>9

(* Dropped() takes what it should.                                         *)
LEMMA DroppedIs ==
  ASSUME NEW S, NEW q \in Seq(S), EachOnce(q), NEW x, NEW r, r = Dropped(q, x)
  PROVE  r \in Seq(S) /\ EachOnce(r) /\ ToSet(r) = ToSet(q) \ {x}
<1>1. CASE x \notin ToSet(q)
  BY <1>1 DEF Dropped
<1>2. CASE x \in ToSet(q)
  <2>1. PICK i \in DOMAIN q : q[i] = x /\ r = RemoveAt(q, i)
    <3>1. PICK i : i = CHOOSE j \in DOMAIN q : q[j] = x
      OBVIOUS
    <3>2. i \in DOMAIN q /\ q[i] = x
      BY <1>2, <3>1 DEF ToSet
    <3>3. r = RemoveAt(q, i)
      BY <1>2, <3>1 DEF Dropped
    <3> QED
      BY <3>2, <3>3
  <2>2. /\ r \in Seq(S) /\ Len(r) = Len(q) - 1
        /\ \A j \in DOMAIN r : r[j] = IF j < i THEN q[j] ELSE q[j + 1]
    BY <2>1, OneTaken
  <2>3. PICK n \in Nat : n = Len(r)
    BY <2>2
  <2>4. DOMAIN r = 1..n /\ DOMAIN q = 1..(n + 1) /\ i \in 1..(n + 1)
    BY <2>1, <2>2, <2>3
  <2>5. PICK from : from = [j \in 1..n |-> IF j < i THEN j ELSE j + 1]
    OBVIOUS
  <2>6. /\ \A j \in 1..n : from[j] \in 1..(n + 1) /\ from[j] # i /\ r[j] = q[from[j]]
        /\ \A j, k \in 1..n : from[j] = from[k] => j = k
    <3>1. \A j \in 1..n : from[j] = IF j < i THEN j ELSE j + 1
      BY <2>5
    <3>2. \A j \in 1..n : from[j] \in 1..(n + 1) /\ from[j] # i
      BY <2>4, <3>1
    <3>3. \A j \in 1..n : r[j] = q[from[j]]
      BY <2>2, <2>4, <3>1
    <3>5. \A j, k \in 1..n : from[j] = from[k] => j = k
      BY <2>4, <3>1
    <3> QED
      BY <3>2, <3>3, <3>5
  <2>7. EachOnce(r)
    BY <2>4, <2>6 DEF EachOnce
  <2>8. ASSUME NEW a \in ToSet(r) PROVE a \in ToSet(q) \ {x}
    <3>1. PICK j \in 1..n : r[j] = a
      BY <2>4, <2>8 DEF ToSet
    <3>2. from[j] \in DOMAIN q /\ a = q[from[j]] /\ from[j] # i
      BY <2>4, <2>6, <3>1
    <3> QED
      BY <2>1, <3>2 DEF ToSet, EachOnce
  <2>9. ASSUME NEW a \in ToSet(q) \ {x} PROVE a \in ToSet(r)
    <3>1. PICK k \in 1..(n + 1) : q[k] = a
      BY <2>4, <2>9 DEF ToSet
    <3>2. k # i
      BY <2>1, <2>9, <3>1
    <3>3. CASE k < i
      <4>1. k \in 1..n /\ r[k] = a
        BY <2>2, <2>4, <3>1, <3>3
      <4> QED
        BY <2>4, <4>1 DEF ToSet
    <3>4. CASE k > i
      <4>1. k - 1 \in 1..n /\ ~(k - 1 < i) /\ (k - 1) + 1 = k
        BY <2>4, <3>4
      <4>2. r[k - 1] = a
        BY <2>2, <2>4, <3>1, <4>1
      <4> QED
        BY <2>4, <4>1, <4>2 DEF ToSet
    <3> QED
      BY <2>4, <3>1, <3>2, <3>3, <3>4
  <2> QED
    BY <2>2, <2>7, <2>8, <2>9
<1> QED
  BY <1>1, <1>2

AtEnd(q, x) == Append(q, x)

(* A sequence with an element more.                                        *)
LEMMA AppendedIs ==
  ASSUME NEW S, NEW q \in Seq(S), EachOnce(q), NEW x \in S, x \notin ToSet(q), NEW r, r = AtEnd(q, x)
  PROVE  r \in Seq(S) /\ EachOnce(r) /\ ToSet(r) = ToSet(q) \cup {x}
<1>1. PICK n \in Nat : n = Len(q)
  OBVIOUS
<1>2. /\ r \in Seq(S) /\ Len(r) = n + 1 /\ r[n + 1] = x /\ \A i \in 1..n : r[i] = q[i]
  BY <1>1 DEF AtEnd
<1>3. DOMAIN r = 1..(n + 1) /\ DOMAIN q = 1..n
  BY <1>1, <1>2
<1>4. ASSUME NEW i \in 1..n PROVE r[i] = q[i] /\ r[i] # x
  BY <1>2, <1>3, <1>4 DEF ToSet
<1>5. ASSUME NEW i \in 1..(n + 1), NEW j \in 1..(n + 1), r[i] = r[j] PROVE i = j
  <2>1. CASE i \in 1..n /\ j \in 1..n
    BY <1>3, <1>4, <1>5, <2>1 DEF EachOnce
  <2>2. CASE i = n + 1
    BY <1>2, <1>4, <1>5, <2>2
  <2>3. CASE j = n + 1
    BY <1>2, <1>4, <1>5, <2>3
  <2> QED
    BY <2>1, <2>2, <2>3
<1>6. ToSet(r) = ToSet(q) \cup {x}
  <2>1. ASSUME NEW a \in ToSet(r) PROVE a \in ToSet(q) \cup {x}
    BY <1>2, <1>3, <2>1 DEF ToSet
  <2>2. ASSUME NEW a \in ToSet(q) PROVE a \in ToSet(r)
    <3>1. PICK i \in 1..n : a = q[i]
      BY <1>3, <2>2 DEF ToSet
    <3>2. i \in 1..(n + 1) /\ a = r[i]
      BY <1>1, <1>2, <3>1
    <3> QED
      BY <1>3, <3>2 DEF ToSet
  <2>3. x \in ToSet(r)
    <3>1. n + 1 \in 1..(n + 1)
      BY <1>1
    <3> QED
      BY <1>2, <1>3, <3>1 DEF ToSet
  <2> QED
    BY <2>1, <2>2, <2>3
<1> QED
  BY <1>2, <1>3, <1>5, <1>6 DEF EachOnce

(* A finite set as a sequence holds everything once.                       *)
LEMMA SetToSeqIs ==
  ASSUME NEW S, IsFiniteSet(S), NEW q, q = SetToSeq(S)
  PROVE  q \in Seq(S) /\ EachOnce(q) /\ ToSet(q) = S
<1>1. PICK n \in Nat : n = Cardinality(S) /\ ExistsBijection(1..n, S)
  BY FS_CardinalityType
<1>2. PICK f \in [1..n -> S] : IsInjective(f)
  BY <1>1, Zenon DEF ExistsBijection, Bijection, Injection
<1>3. q \in [1..n -> S] /\ IsInjective(q)
  BY <1>1, <1>2, Zenon DEF SetToSeq
<1>4. q \in Seq(S) /\ DOMAIN q = 1..n
  BY <1>3
<1>5. EachOnce(q)
  BY <1>3, <1>4 DEF IsInjective, EachOnce
<1>6. S \subseteq ToSet(q)
  <2>1. IsFiniteSet(1..n) /\ Cardinality(1..n) = n
    BY <1>1, FS_Interval
  <2>2. q \in Injection(1..n, S)
    BY <1>3, Zenon DEF Injection
  <2>3. q \in Surjection(1..n, S)
    BY <1>1, <2>1, <2>2, FS_Injection
  <2> QED
    BY <1>4, <2>3 DEF Surjection, ToSet
<1> QED
  BY <1>4, <1>5, <1>6 DEF ToSet

(* Whether a call is registered.                                           *)
LEMMA ContainsIs ==
  ASSUME NEW S, NEW q \in Seq(S), NEW c
  PROVE  Contains(q, c) <=> c \in ToSet(q)
BY DEF Contains, ToSet

WithOut(f, o, y) == [f EXCEPT !.out = [f.out EXCEPT ![o] = y]]
WithSurf(f, s, y) == [f EXCEPT !.surf = [f.surf EXCEPT ![s] = y]]
WithIdle(f, q) == [f EXCEPT !.idle = q]
WithSurfaces(f, all) == [f EXCEPT !.surf = all]

(* The parts of a state.                                                   *)
LEMMA PartsTyped ==
  ASSUME NEW f \in FrameStates
  PROVE  f.out \in [FrameOutputs -> OutStates] /\ f.surf \in [Surfaces -> SurfaceStates] /\ f.idle \in Seq(Calls)
BY DEF FrameStates

(* What is left alone when an output changes.                              *)
LEMMA OutChanged ==
  ASSUME NEW f \in FrameStates, NEW o \in FrameOutputs, NEW y \in OutStates, NEW g, g = WithOut(f, o, y)
  PROVE  /\ g \in FrameStates /\ g.surf = f.surf /\ g.idle = f.idle
         /\ g.out[o] = y /\ \A p \in FrameOutputs : p # o => g.out[p] = f.out[p]
BY DEF FrameStates, WithOut

(* When a surface changes.                                                 *)
LEMMA SurfaceChanged ==
  ASSUME NEW f \in FrameStates, NEW s \in Surfaces, NEW y \in SurfaceStates, NEW g, g = WithSurf(f, s, y)
  PROVE  /\ g \in FrameStates /\ g.out = f.out /\ g.idle = f.idle
         /\ g.surf[s] = y /\ \A t \in Surfaces : t # s => g.surf[t] = f.surf[t]
BY DEF FrameStates, WithSurf

(* When the callbacks change.                                              *)
LEMMA IdleChanged ==
  ASSUME NEW f \in FrameStates, NEW q \in Seq(Calls), NEW g, g = WithIdle(f, q)
  PROVE  g \in FrameStates /\ g.out = f.out /\ g.surf = f.surf /\ g.idle = q
BY DEF FrameStates, WithIdle

(* When all surfaces change.                                               *)
LEMMA SurfacesChanged ==
  ASSUME NEW f \in FrameStates, NEW all \in [Surfaces -> SurfaceStates], NEW g, g = WithSurfaces(f, all)
  PROVE  g \in FrameStates /\ g.out = f.out /\ g.surf = all /\ g.idle = f.idle
BY DEF FrameStates, WithSurfaces

AskedOf(x) == [x EXCEPT !.failed = FALSE, !.needs = TRUE]
CommittedOf(x) == [x EXCEPT !.pending = TRUE, !.flip = "new", !.needs = FALSE]

(* The callbacks of an output and a surface.                               *)
LEMMA CallsAre ==
  /\ \A o \in FrameOutputs : <<"frame", o>> \in Calls /\ <<"visible", o>> \in Calls
  /\ \A s \in Surfaces : <<"outputs", s>> \in Calls
  /\ \A o, p, s : <<"frame", o>> # <<"visible", p>> /\ <<"frame", o>> # <<"outputs", s>>
                  /\ <<"visible", p>> # <<"outputs", s>>
  /\ \A a, o, p : <<a, o>> = <<a, p>> => o = p
BY DEF Calls

(* schedule_repaint() asks for a frame, and registers one if none is       *)
(* pending.                                                                *)
LEMMA ScheduleIs ==
  ASSUME NEW f \in FrameStates, EachOnce(f.idle), NEW o \in FrameOutputs, NEW g, g = ScheduleRepaint(f, o)
  PROVE  /\ g \in FrameStates /\ EachOnce(g.idle) /\ g.surf = f.surf
         /\ g.out[o] = AskedOf(f.out[o]) /\ \A p \in FrameOutputs : p # o => g.out[p] = f.out[p]
         /\ ToSet(g.idle) = ToSet(f.idle) \cup (IF f.out[o].pending THEN {} ELSE {<<"frame", o>>})
<1>1. PICK x \in OutStates : x = f.out[o]
  BY PartsTyped
<1>2. PICK y \in OutStates : y = AskedOf(x)
  BY DEF OutStates, AskedOf
<1>3. PICK h : h = WithOut(f, o, y)
  OBVIOUS
<1>4. /\ h \in FrameStates /\ h.surf = f.surf /\ h.idle = f.idle
      /\ h.out[o] = y /\ \A p \in FrameOutputs : p # o => h.out[p] = f.out[p]
  <2>1. y \in OutStates
    BY <1>2
  <2> QED
    BY <1>3, <2>1, OutChanged
<1>5. PICK c \in Calls : c = <<"frame", o>>
  BY CallsAre
<1>6. f.idle \in Seq(Calls)
  BY PartsTyped
<1>7. g = IF x.pending \/ Contains(f.idle, c) THEN h ELSE WithIdle(h, Append(f.idle, c))
  <2>1. PICK e : e = [f EXCEPT !.out[o].failed = FALSE]
    OBVIOUS
  <2>2. [e EXCEPT !.out[o].needs = TRUE] = h
    BY <1>1, <1>2, <1>3, <2>1 DEF FrameStates, OutStates, AskedOf, WithOut
  <2>3. e.out[o].pending = x.pending /\ e.idle = f.idle
    BY <1>1, <2>1 DEF FrameStates, OutStates
  <2>4. g = ScheduleFrame(e, o)
    BY <2>1 DEF ScheduleRepaint
  <2>5. g = IF e.out[o].pending \/ Contains(e.idle, <<"frame", o>>) THEN h ELSE [h EXCEPT !.idle = Append(@, <<"frame", o>>)]
    BY <2>2, <2>4 DEF ScheduleFrame
  <2>6. [h EXCEPT !.idle = Append(@, <<"frame", o>>)] = WithIdle(h, Append(f.idle, c))
    BY <1>4, <1>5 DEF WithIdle, FrameStates
  <2> QED
    BY <1>5, <2>3, <2>5, <2>6
<1>8. CASE x.pending \/ Contains(f.idle, c)
  <2>1. g = h
    BY <1>7, <1>8
  <2>2. x.pending \/ c \in ToSet(f.idle)
    BY <1>6, <1>8, ContainsIs
  <2>3. ToSet(g.idle) = ToSet(f.idle) \cup (IF x.pending THEN {} ELSE {c})
    BY <1>4, <2>1, <2>2
  <2> QED
    BY <1>1, <1>2, <1>4, <1>5, <2>1, <2>3
<1>9. CASE ~(x.pending \/ Contains(f.idle, c))
  <2>1. PICK q : q = AtEnd(f.idle, c)
    OBVIOUS
  <2>2. c \notin ToSet(f.idle)
    BY <1>6, <1>9, ContainsIs
  <2>3. q \in Seq(Calls) /\ EachOnce(q) /\ ToSet(q) = ToSet(f.idle) \cup {c}
    BY <1>5, <1>6, <2>1, <2>2, AppendedIs
  <2>4. g = WithIdle(h, q)
    BY <1>7, <1>9, <2>1 DEF AtEnd
  <2>5. g \in FrameStates /\ g.out = h.out /\ g.surf = h.surf /\ g.idle = q
    BY <1>4, <2>3, <2>4, IdleChanged
  <2> QED
    BY <1>1, <1>2, <1>4, <1>5, <1>9, <2>3, <2>5
<1> QED
  BY <1>8, <1>9

(* A commit with a buffer takes back the frame that was registered.        *)
LEMMA CommitIs ==
  ASSUME NEW f \in FrameStates, EachOnce(f.idle), NEW o \in FrameOutputs, NEW g, g = CommitBuffer(f, o)
  PROVE  /\ g \in FrameStates /\ EachOnce(g.idle) /\ g.surf = f.surf
         /\ g.out[o] = CommittedOf(f.out[o]) /\ \A p \in FrameOutputs : p # o => g.out[p] = f.out[p]
         /\ ToSet(g.idle) = ToSet(f.idle) \ {<<"frame", o>>}
<1>1. PICK x \in OutStates : x = f.out[o]
  BY PartsTyped
<1>2. PICK y \in OutStates : y = CommittedOf(x)
  BY DEF OutStates, CommittedOf
<1>3. PICK h : h = WithOut(f, o, y)
  OBVIOUS
<1>4. /\ h \in FrameStates /\ h.surf = f.surf /\ h.idle = f.idle
      /\ h.out[o] = y /\ \A p \in FrameOutputs : p # o => h.out[p] = f.out[p]
  <2>1. y \in OutStates
    BY <1>2
  <2> QED
    BY <1>3, <2>1, OutChanged
<1>5. PICK c : c = <<"frame", o>>
  OBVIOUS
<1>6. f.idle \in Seq(Calls)
  BY PartsTyped
<1>7. PICK q : q = Dropped(f.idle, c)
  OBVIOUS
<1>8. q \in Seq(Calls) /\ EachOnce(q) /\ ToSet(q) = ToSet(f.idle) \ {c}
  BY <1>6, <1>7, DroppedIs
<1>9. g = WithIdle(h, q)
  <2>1. [f EXCEPT !.out[o].pending = TRUE, !.out[o].flip = "new", !.out[o].needs = FALSE] = h
    BY <1>1, <1>2, <1>3 DEF FrameStates, OutStates, CommittedOf, WithOut
  <2>2. g = Never(h, c)
    BY <1>5, <2>1 DEF CommitBuffer
  <2> QED
    BY <1>4, <1>7, <2>2 DEF Never, WithIdle
<1>10. g \in FrameStates /\ g.out = h.out /\ g.surf = h.surf /\ g.idle = q
  BY <1>4, <1>8, <1>9, IdleChanged
<1> QED
  BY <1>1, <1>2, <1>4, <1>5, <1>8, <1>10

(* A callback is registered once.                                          *)
LEMMA OnceIs ==
  ASSUME NEW f \in FrameStates, EachOnce(f.idle), NEW c \in Calls, NEW g, g = Once(f, c)
  PROVE  /\ g \in FrameStates /\ EachOnce(g.idle) /\ g.surf = f.surf /\ g.out = f.out
         /\ ToSet(g.idle) = ToSet(f.idle) \cup {c}
<1>1. f.idle \in Seq(Calls)
  BY PartsTyped
<1>2. PICK p : p = Dropped(f.idle, c)
  OBVIOUS
<1>3. p \in Seq(Calls) /\ EachOnce(p) /\ ToSet(p) = ToSet(f.idle) \ {c}
  BY <1>1, <1>2, DroppedIs
<1>4. PICK q : q = AtEnd(p, c)
  OBVIOUS
<1>5. c \notin ToSet(p) /\ p \in Seq(Calls) /\ EachOnce(p)
  BY <1>3
<1>6. q \in Seq(Calls) /\ EachOnce(q) /\ ToSet(q) = ToSet(p) \cup {c}
  BY <1>4, <1>5, AppendedIs
<1>7. g = WithIdle(f, q)
  BY <1>2, <1>4 DEF Once, WithIdle, AtEnd
<1>8. g \in FrameStates /\ g.out = f.out /\ g.surf = f.surf /\ g.idle = q
  BY <1>6, <1>7, IdleChanged
<1> QED
  BY <1>3, <1>6, <1>8

(* A loop whose rounds, given as a function, lead from each set of states  *)
(* to the next one.                                                        *)
LEMMA LoopRuns ==
  ASSUME NEW n \in Nat, NEW f, NEW step, NEW T, f \in T[0],
         \A i \in 1..n : \A r \in T[i - 1] : step[<<r, i>>] \in T[i]
  PROVE  \E h : Rounds(h, f, step, n) /\ \A i \in 0..n : h[i] \in T[i]
<1>1. PICK h : Rounds(h, f, step, n)
  BY RoundsExist
<1>2. h[0] = f /\ \A i \in 1..n : h[i] = step[<<h[i - 1], i>>]
  BY <1>1 DEF Rounds
<1>3. h[0] \in T[0] /\ \A i \in 1..n : h[i - 1] \in T[i - 1] => h[i] \in T[i]
  BY <1>2
<1>4. \A i \in 0..n : h[i] \in T[i]
  BY <1>3, LoopKeeps
<1> QED
  BY <1>1, <1>4

(* The order in which loops go through outputs and surfaces.               *)
LEMMA InOrderIs ==
  ASSUME FramesAssumption, NEW q, q = InOrder
  PROVE  /\ q \in Seq(FrameOutputs \cup Surfaces) /\ EachOnce(q)
         /\ ToSet(q) = FrameOutputs \cup Surfaces
<1>1. IsFiniteSet(FrameOutputs \cup Surfaces)
  BY FS_Union DEF FramesAssumption
<1>2. PICK S : S = FrameOutputs \cup Surfaces
  OBVIOUS
<1>3. IsFiniteSet(S) /\ q = SetToSeq(S)
  BY <1>1, <1>2 DEF InOrder
<1>4. q \in Seq(S) /\ EachOnce(q) /\ ToSet(q) = S
  BY <1>3, SetToSeqIs
<1> QED
  BY <1>2, <1>4

ShiftedOf(y, o, by) == [y EXCEPT !.delta = [y.delta EXCEPT ![o] = y.delta[o] + by]]
SameButDelta(y, z) ==
  /\ z.home = y.home /\ z.enabled = y.enabled /\ z.exposed = y.exposed
  /\ z.callback = y.callback /\ z.missed = y.missed /\ z.visibility = y.visibility

(* One surface is entered or left once.                                    *)
LEMMA ShiftIs ==
  ASSUME NEW f \in FrameStates, EachOnce(f.idle), NEW s \in Surfaces, NEW o \in FrameOutputs, NEW by \in Int,
         NEW g, g = Shift(f, s, o, by)
  PROVE  /\ g \in FrameStates /\ EachOnce(g.idle) /\ g.out = f.out
         /\ ToSet(g.idle) = ToSet(f.idle) \cup {<<"outputs", s>>}
         /\ \A t \in Surfaces : t # s => g.surf[t] = f.surf[t]
         /\ g.surf[s] = ShiftedOf(f.surf[s], o, by)
<1>1. PICK y \in SurfaceStates : y = f.surf[s]
  BY PartsTyped
<1>2. PICK z : z = ShiftedOf(y, o, by)
  OBVIOUS
<1>3. z \in SurfaceStates
  BY <1>1, <1>2 DEF ShiftedOf, SurfaceStates
<1>4. PICK h : h = WithSurf(f, s, z)
  OBVIOUS
<1>5. /\ h \in FrameStates /\ h.out = f.out /\ h.idle = f.idle /\ h.surf[s] = z
      /\ \A t \in Surfaces : t # s => h.surf[t] = f.surf[t]
  BY <1>3, <1>4, SurfaceChanged
<1>6. PICK c \in Calls : c = <<"outputs", s>>
  BY CallsAre
<1>7. g = Once(h, c)
  <2>1. [f EXCEPT !.surf[s].delta[o] = @ + by] = h
    BY <1>1, <1>2, <1>4 DEF FrameStates, SurfaceStates, ShiftedOf, WithSurf
  <2> QED
    BY <1>6, <2>1 DEF Shift
<1>8. c \in Calls /\ EachOnce(h.idle)
  BY <1>5, <1>6
<1>9. /\ g \in FrameStates /\ EachOnce(g.idle) /\ g.surf = h.surf /\ g.out = h.out
      /\ ToSet(g.idle) = ToSet(h.idle) \cup {c}
  BY <1>5, <1>7, <1>8, OnceIs
<1> QED
  BY <1>1, <1>2, <1>5, <1>6, <1>9

(* Of a loop that enters or leaves surfaces.                               *)
DeltasOnly(f, g) ==
  /\ EachOnce(g.idle) /\ g.out = f.out
  /\ \A s \in Surfaces : SameButDelta(f.surf[s], g.surf[s])
  /\ ToSet(f.idle) \subseteq ToSet(g.idle) /\ ToSet(g.idle) \subseteq ToSet(f.idle) \cup ({"outputs"} \X Surfaces)
  /\ \A s \in Surfaces : g.surf[s].delta = f.surf[s].delta \/ <<"outputs", s>> \in ToSet(g.idle)
ShiftedUpTo(f, S, o, by, q, i, g) ==
  /\ DeltasOnly(f, g)
  /\ \A s \in Surfaces, p \in FrameOutputs :
       g.surf[s].delta[p] =
         f.surf[s].delta[p] + (IF p = o /\ s \in S /\ \E j \in 1..i : q[j] = s THEN by ELSE 0)

(* One round of it.                                                        *)
LEMMA ShiftedOne ==
  ASSUME NEW f \in FrameStates, NEW S \in SUBSET Surfaces, NEW o \in FrameOutputs, NEW by \in Int,
         NEW V, NEW q \in Seq(V), EachOnce(q), NEW i \in 1..Len(q), NEW r \in FrameStates,
         ShiftedUpTo(f, S, o, by, q, i - 1, r),
         NEW g, g = IF q[i] \in S THEN Shift(r, q[i], o, by) ELSE r
  PROVE  g \in FrameStates /\ ShiftedUpTo(f, S, o, by, q, i, g)
<1>1. PICK x : x = q[i]
  OBVIOUS
<1>2. \A j \in 1..(i - 1) : j \in 1..i /\ q[j] # x
  BY <1>1 DEF EachOnce
<1>3. \A s : (\E j \in 1..i : q[j] = s) <=> (\E j \in 1..(i - 1) : q[j] = s) \/ s = x
  BY <1>1
<1>4. EachOnce(r.idle) /\ DeltasOnly(f, r)
  BY DEF ShiftedUpTo, DeltasOnly
<1>5. CASE x \in S
  <2>1. x \in Surfaces /\ g = Shift(r, x, o, by)
    BY <1>1, <1>5
  <2>2. /\ g \in FrameStates /\ EachOnce(g.idle) /\ g.out = r.out
        /\ ToSet(g.idle) = ToSet(r.idle) \cup {<<"outputs", x>>}
        /\ \A t \in Surfaces : t # x => g.surf[t] = r.surf[t]
        /\ g.surf[x] = ShiftedOf(r.surf[x], o, by)
    BY <1>4, <2>1, ShiftIs
  <2>3. PICK y \in SurfaceStates : y = r.surf[x]
    BY <2>1, PartsTyped
  <2>4. PICK z : z = ShiftedOf(y, o, by)
    OBVIOUS
  <2>5. /\ SameButDelta(y, z)
        /\ \A p \in FrameOutputs : z.delta[p] = y.delta[p] + (IF p = o THEN by ELSE 0)
    BY <2>3, <2>4 DEF ShiftedOf, SurfaceStates, SameButDelta
  <2>6. g.surf[x] = z
    BY <2>2, <2>3, <2>4
  <2>7. ASSUME NEW s \in Surfaces
        PROVE  /\ SameButDelta(f.surf[s], g.surf[s])
               /\ g.surf[s].delta = f.surf[s].delta \/ <<"outputs", s>> \in ToSet(g.idle)
    <3>1. CASE s = x
      BY <1>4, <2>2, <2>3, <2>5, <2>6, <3>1 DEF DeltasOnly, SameButDelta
    <3>2. CASE s # x
      BY <1>4, <2>2, <3>2 DEF DeltasOnly
    <3> QED
      BY <3>1, <3>2
  <2>8. DeltasOnly(f, g)
    <3>1. <<"outputs", x>> \in {"outputs"} \X Surfaces
      BY <2>1
    <3> QED
      BY <1>4, <2>2, <2>7, <3>1 DEF DeltasOnly
  <2>9. ASSUME NEW s \in Surfaces, NEW p \in FrameOutputs
        PROVE  g.surf[s].delta[p] =
                 f.surf[s].delta[p] + (IF p = o /\ s \in S /\ \E j \in 1..i : q[j] = s THEN by ELSE 0)
    <3>1. r.surf[s].delta[p] =
            f.surf[s].delta[p] + (IF p = o /\ s \in S /\ \E j \in 1..(i - 1) : q[j] = s THEN by ELSE 0)
      BY DEF ShiftedUpTo
    <3>2. PICK d \in Int : d = f.surf[s].delta[p]
      <4>1. f.surf[s] \in SurfaceStates
        BY PartsTyped
      <4> QED
        BY <4>1 DEF SurfaceStates
    <3>3. CASE s = x
      <4>1. r.surf[s].delta[p] = d
        BY <1>2, <3>1, <3>2, <3>3
      <4> QED
        BY <1>3, <1>5, <2>3, <2>5, <2>6, <3>2, <3>3, <4>1
    <3>4. CASE s # x
      BY <1>3, <2>2, <3>1, <3>4
    <3> QED
      BY <3>3, <3>4
  <2> QED
    BY <2>2, <2>8, <2>9 DEF ShiftedUpTo
<1>6. CASE x \notin S
  <2>1. g = r
    BY <1>1, <1>6
  <2>2. ASSUME NEW s \in S PROVE (\E j \in 1..i : q[j] = s) <=> (\E j \in 1..(i - 1) : q[j] = s)
    BY <1>3, <1>6, <2>2
  <2>3. ASSUME NEW s \in Surfaces, NEW p \in FrameOutputs
        PROVE  r.surf[s].delta[p] =
                 f.surf[s].delta[p] + (IF p = o /\ s \in S /\ \E j \in 1..i : q[j] = s THEN by ELSE 0)
    <3>1. r.surf[s].delta[p] =
            f.surf[s].delta[p] + (IF p = o /\ s \in S /\ \E j \in 1..(i - 1) : q[j] = s THEN by ELSE 0)
      BY DEF ShiftedUpTo
    <3> QED
      BY <2>2, <3>1
  <2> QED
    BY <1>4, <2>1, <2>3 DEF ShiftedUpTo
<1> QED
  BY <1>5, <1>6

(* What a loop over all surfaces does.                                     *)
LEMMA ShiftedIs ==
  ASSUME FramesAssumption, NEW f \in FrameStates, EachOnce(f.idle), NEW S \in SUBSET Surfaces,
         NEW o \in FrameOutputs, NEW by \in Int, NEW g, g = Shifted(f, S, o, by)
  PROVE  /\ g \in FrameStates /\ DeltasOnly(f, g)
         /\ \A s \in Surfaces, p \in FrameOutputs :
              g.surf[s].delta[p] = f.surf[s].delta[p] + (IF p = o /\ s \in S THEN by ELSE 0)
<1> DEFINE Onward(r, x) == IF x \in S THEN Shift(r, x, o, by) ELSE r
           Loop(up, q) == up = [i \in 0..Len(q) |-> IF i = 0 THEN f ELSE Onward(up[i - 1], q[i])]
<1>1. PICK q \in Seq(FrameOutputs \cup Surfaces) :
        q = InOrder /\ EachOnce(q) /\ ToSet(q) = FrameOutputs \cup Surfaces
  BY InOrderIs
<1>2. PICK n \in Nat : n = Len(q)
  BY <1>1
<1>3. PICK T : T = [i \in 0..n |-> {r \in FrameStates : ShiftedUpTo(f, S, o, by, q, i, r)}]
  OBVIOUS
<1>4. \A i \in 0..n : T[i] = {r \in FrameStates : ShiftedUpTo(f, S, o, by, q, i, r)}
  BY <1>3
<1>5. f \in T[0]
  <2>1. ShiftedUpTo(f, S, o, by, q, 0, f)
    <3>1. ASSUME NEW s \in Surfaces, NEW p \in FrameOutputs PROVE f.surf[s].delta[p] \in Int
      <4>1. f.surf[s] \in SurfaceStates
        BY PartsTyped
      <4> QED
        BY <4>1 DEF SurfaceStates
    <3> QED
      BY <3>1 DEF ShiftedUpTo, DeltasOnly, SameButDelta
  <2> QED
    BY <1>2, <1>4, <2>1
<1>6. ASSUME NEW i \in 1..n, NEW r \in T[i - 1] PROVE Onward(r, q[i]) \in T[i]
  <2>1. i - 1 \in 0..n /\ i \in 0..n /\ i \in 1..Len(q)
    BY <1>2
  <2>2. r \in FrameStates /\ ShiftedUpTo(f, S, o, by, q, i - 1, r)
    BY <1>4, <1>6, <2>1
  <2>3. PICK u : u = Onward(r, q[i])
    OBVIOUS
  <2>4. u \in FrameStates /\ ShiftedUpTo(f, S, o, by, q, i, u)
    BY <1>1, <2>1, <2>2, <2>3, ShiftedOne
  <2> QED
    BY <1>4, <2>1, <2>3, <2>4
<1> HIDE DEF Onward
<1>7. PICK step : step = [turn \in FrameStates \X (1..n) |-> Onward(turn[1], q[turn[2]])]
  OBVIOUS
<1>8. \A r \in FrameStates, i \in 1..n : step[<<r, i>>] = Onward(r, q[i])
  BY <1>7
<1>9. PICK h : Rounds(h, f, step, n) /\ \A i \in 0..n : h[i] \in T[i]
  <2>1. ASSUME NEW i \in 1..n, NEW r \in T[i - 1] PROVE step[<<r, i>>] \in T[i]
    <3>1. i - 1 \in 0..n
      OBVIOUS
    <3>2. r \in FrameStates
      BY <1>4, <2>1, <3>1
    <3> QED
      BY <1>6, <1>8, <2>1, <3>2
  <2> QED
    BY <1>5, <2>1, LoopRuns
<1>10. Loop(h, q)
  <2>1. PICK k : k = [i \in 0..n |-> IF i = 0 THEN f ELSE Onward(h[i - 1], q[i])]
    OBVIOUS
  <2>2. h = [i \in 0..n |-> IF i = 0 THEN f ELSE step[<<h[i - 1], i>>]]
    BY <1>9 DEF Rounds
  <2>3. ASSUME NEW i \in 0..n PROVE k[i] = h[i]
    <3>1. CASE i = 0
      BY <2>1, <2>2, <3>1
    <3>2. CASE i # 0
      <4>1. i \in 1..n /\ i - 1 \in 0..n
        BY <3>2
      <4>2. h[i - 1] \in FrameStates
        BY <1>4, <1>9, <4>1
      <4> QED
        BY <1>8, <2>1, <2>2, <3>2, <4>1, <4>2
    <3> QED
      BY <3>1, <3>2
  <2>4. h = k
    BY <2>1, <2>2, <2>3
  <2> QED
    BY <1>2, <2>1, <2>4
<1>11. PICK e : Loop(e, q) /\ e = CHOOSE x : Loop(x, q)
  BY <1>10
<1>12. g = e[Len(q)]
  <2>1. e = CHOOSE x : Loop(x, q)
    BY <1>11
  <2> QED
    BY <1>1, <2>1, Zenon DEF Shifted, Each, Folded, Onward
<1>13. e[0] = f /\ \A i \in 1..n : e[i] = Onward(e[i - 1], q[i])
  BY <1>2, <1>11
<1>14. \A i \in 0..n : e[i] \in T[i]
  <2>1. e[0] \in T[0]
    BY <1>5, <1>13
  <2>2. ASSUME NEW i \in 1..n, e[i - 1] \in T[i - 1] PROVE e[i] \in T[i]
    BY <1>6, <1>13, <2>2
  <2> QED
    BY <2>1, <2>2, LoopKeeps
<1>15. g \in FrameStates /\ ShiftedUpTo(f, S, o, by, q, n, g)
  BY <1>2, <1>4, <1>12, <1>14
<1>16. \A s \in S : \E j \in 1..n : q[j] = s
  <2>1. DOMAIN q = 1..n
    BY <1>1, <1>2
  <2> QED
    BY <1>1, <2>1 DEF ToSet
<1> QED
  BY <1>15, <1>16 DEF ShiftedUpTo

(* Of a change of the scenegraph: what it leaves alone, and that a surface *)
(* whose count changes has a callback.                                     *)
SameDrive(x, y) ==
  /\ y.present = x.present /\ y.on = x.on /\ y.pending = x.pending /\ y.flip = x.flip /\ y.timer = x.timer
  /\ y.needs = x.needs /\ y.redraw = x.redraw /\ y.failed = x.failed
SceneCalls == ({"outputs"} \X Surfaces) \cup ({"visible"} \X FrameOutputs)
SceneOnly(f, g) ==
  /\ EachOnce(g.idle)
  /\ \A o \in FrameOutputs : SameDrive(f.out[o], g.out[o])
  /\ \A s \in Surfaces : SameButDelta(f.surf[s], g.surf[s])
  /\ ToSet(f.idle) \subseteq ToSet(g.idle) /\ ToSet(g.idle) \subseteq ToSet(f.idle) \cup SceneCalls
  /\ \A s \in Surfaces : g.surf[s].delta = f.surf[s].delta \/ <<"outputs", s>> \in ToSet(g.idle)
ShownOn(f, s, o) == IF s \in f.out[o].instances THEN 1 ELSE 0
Balanced(f, g) ==
  \A s \in Surfaces, o \in FrameOutputs :
    g.surf[s].delta[o] = f.surf[s].delta[o] + ShownOn(g, s, o) - ShownOn(f, s, o)
RegeneratedOf(x, new) == [x EXCEPT !.instances = new, !.connected = {}]

(* What is left alone twice is left alone.                                 *)
LEMMA SceneOnlyTwice ==
  ASSUME NEW f \in FrameStates, NEW g \in FrameStates, NEW h \in FrameStates, SceneOnly(f, g), SceneOnly(g, h)
  PROVE  SceneOnly(f, h)
<1>1. /\ \A o \in FrameOutputs : SameDrive(f.out[o], h.out[o])
      /\ \A s \in Surfaces : SameButDelta(f.surf[s], h.surf[s])
  BY DEF SceneOnly, SameDrive, SameButDelta
<1>2. ToSet(f.idle) \subseteq ToSet(h.idle) /\ ToSet(h.idle) \subseteq ToSet(f.idle) \cup SceneCalls
  BY DEF SceneOnly
<1>3. \A s \in Surfaces : h.surf[s].delta = f.surf[s].delta \/ <<"outputs", s>> \in ToSet(h.idle)
  BY DEF SceneOnly
<1> QED
  BY <1>1, <1>2, <1>3 DEF SceneOnly

(* Counts are integers.                                                    *)
LEMMA CountsTyped ==
  ASSUME NEW f \in FrameStates, NEW s \in Surfaces
  PROVE  /\ f.surf[s] \in SurfaceStates
         /\ \A o \in FrameOutputs : f.surf[s].delta[o] \in Int /\ f.surf[s].visibility[o] \in Int
<1>1. f.surf[s] \in SurfaceStates
  BY PartsTyped
<1> QED
  BY <1>1 DEF SurfaceStates

(* The instances of one output are made anew.                              *)
LEMMA RegenerateIs ==
  ASSUME FramesAssumption, NEW f \in FrameStates, EachOnce(f.idle), NEW o \in FrameOutputs,
         NEW g, g = Regenerate(f, o)
  PROVE  /\ g \in FrameStates /\ SceneOnly(f, g) /\ Balanced(f, g)
         /\ g.out[o].instances = Generated(f, o)
         /\ \A p \in FrameOutputs : p # o => g.out[p].instances = f.out[p].instances
<1>1. PICK x \in OutStates : x = f.out[o]
  BY PartsTyped
<1>2. PICK new \in SUBSET Surfaces : new = Generated(f, o)
  BY DEF Generated
<1>3. PICK old \in SUBSET Surfaces : old = f.out[o].instances
  BY <1>1 DEF OutStates
<1>4. PICK left : left = Shifted(f, old, o, -1)
  OBVIOUS
<1>5. /\ left \in FrameStates /\ DeltasOnly(f, left)
      /\ \A s \in Surfaces, p \in FrameOutputs :
           left.surf[s].delta[p] = f.surf[s].delta[p] + (IF p = o /\ s \in old THEN -1 ELSE 0)
  <2>1. old \in SUBSET Surfaces /\ -1 \in Int
    BY <1>3
  <2> QED
    BY <1>4, <2>1, ShiftedIs
<1>6. PICK back : back = Shifted(left, new, o, 1)
  OBVIOUS
<1>7. /\ back \in FrameStates /\ DeltasOnly(left, back)
      /\ \A s \in Surfaces, p \in FrameOutputs :
           back.surf[s].delta[p] = left.surf[s].delta[p] + (IF p = o /\ s \in new THEN 1 ELSE 0)
  <2>1. new \in SUBSET Surfaces /\ 1 \in Int /\ EachOnce(left.idle)
    BY <1>2, <1>5 DEF DeltasOnly
  <2> QED
    BY <1>5, <1>6, <2>1, ShiftedIs
<1>8. back.out = f.out /\ EachOnce(back.idle)
  BY <1>5, <1>7 DEF DeltasOnly
<1>9. PICK y : y = RegeneratedOf(x, new)
  OBVIOUS
<1>10. y \in OutStates /\ SameDrive(x, y) /\ y.instances = new
  BY <1>1, <1>2, <1>9 DEF RegeneratedOf, OutStates, SameDrive
<1>11. PICK h : h = WithOut(back, o, y)
  OBVIOUS
<1>12. /\ h \in FrameStates /\ h.surf = back.surf /\ h.idle = back.idle
       /\ h.out[o] = y /\ \A p \in FrameOutputs : p # o => h.out[p] = f.out[p]
  <2>1. y \in OutStates
    BY <1>10
  <2>2. /\ h \in FrameStates /\ h.surf = back.surf /\ h.idle = back.idle
        /\ h.out[o] = y /\ \A p \in FrameOutputs : p # o => h.out[p] = back.out[p]
    BY <1>7, <1>11, <2>1, OutChanged
  <2> QED
    BY <1>8, <2>2
<1>13. PICK c \in Calls : c = <<"visible", o>>
  BY CallsAre
<1>14. g = Once(h, c)
  <2>1. g = Once([back EXCEPT !.out[o].instances = new, !.out[o].connected = {}], c)
    BY <1>2, <1>3, <1>4, <1>6, <1>13 DEF Regenerate, Enter, Leave
  <2>2. [back EXCEPT !.out[o].instances = new, !.out[o].connected = {}] = h
    BY <1>1, <1>7, <1>8, <1>9, <1>11 DEF FrameStates, OutStates, RegeneratedOf, WithOut
  <2> QED
    BY <2>1, <2>2
<1>15. /\ g \in FrameStates /\ EachOnce(g.idle) /\ g.surf = back.surf /\ g.out = h.out
       /\ ToSet(g.idle) = ToSet(back.idle) \cup {c}
  <2>1. c \in Calls /\ EachOnce(h.idle)
    BY <1>8, <1>12, <1>13
  <2> QED
    BY <1>12, <1>14, <2>1, OnceIs
<1>16. SceneOnly(f, g)
  <2>1. \A p \in FrameOutputs : SameDrive(f.out[p], g.out[p])
    BY <1>1, <1>10, <1>12, <1>15 DEF SameDrive
  <2>2. \A s \in Surfaces : SameButDelta(f.surf[s], g.surf[s])
    BY <1>5, <1>7, <1>15 DEF DeltasOnly, SameButDelta
  <2>3. ToSet(f.idle) \subseteq ToSet(g.idle)
    BY <1>5, <1>7, <1>15 DEF DeltasOnly
  <2>4. ToSet(g.idle) \subseteq ToSet(f.idle) \cup SceneCalls
    <3>1. c \in SceneCalls
      BY <1>13 DEF SceneCalls
    <3>2. ToSet(back.idle) \subseteq ToSet(f.idle) \cup SceneCalls
      BY <1>5, <1>7 DEF DeltasOnly, SceneCalls
    <3> QED
      BY <1>15, <3>1, <3>2
  <2>5. \A s \in Surfaces : g.surf[s].delta = f.surf[s].delta \/ <<"outputs", s>> \in ToSet(g.idle)
    BY <1>5, <1>7, <1>15 DEF DeltasOnly
  <2> QED
    BY <1>15, <2>1, <2>2, <2>3, <2>4, <2>5 DEF SceneOnly
<1>17. Balanced(f, g)
  <2>1. ASSUME NEW s \in Surfaces, NEW p \in FrameOutputs
        PROVE  g.surf[s].delta[p] = f.surf[s].delta[p] + ShownOn(g, s, p) - ShownOn(f, s, p)
    <3>1. PICK d \in Int : d = f.surf[s].delta[p]
      BY CountsTyped
    <3>2. g.surf[s].delta[p] = d + (IF p = o /\ s \in old THEN -1 ELSE 0) + (IF p = o /\ s \in new THEN 1 ELSE 0)
      BY <1>5, <1>7, <1>15, <3>1
    <3>3. CASE p = o
      <4>1. ShownOn(f, s, p) = (IF s \in old THEN 1 ELSE 0) /\ ShownOn(g, s, p) = (IF s \in new THEN 1 ELSE 0)
        BY <1>3, <1>10, <1>12, <1>15, <3>3 DEF ShownOn
      <4> QED
        BY <3>1, <3>2, <3>3, <4>1
    <3>4. CASE p # o
      <4>1. ShownOn(f, s, p) = ShownOn(g, s, p) /\ ShownOn(f, s, p) \in {0, 1}
        BY <1>12, <1>15, <3>4 DEF ShownOn
      <4> QED
        BY <3>1, <3>2, <3>4, <4>1
    <3> QED
      BY <3>3, <3>4
  <2> QED
    BY <2>1 DEF Balanced
<1> QED
  BY <1>2, <1>10, <1>12, <1>15, <1>16, <1>17

RegeneratedUpTo(f, q, i, g) ==
  /\ SceneOnly(f, g) /\ Balanced(f, g)
  /\ \A o \in FrameOutputs :
       g.out[o].instances =
         IF o \in Plugged(f) /\ \E j \in 1..i : q[j] = o THEN Generated(f, o) ELSE f.out[o].instances

(* One round of update().                                                  *)
LEMMA RegeneratedOne ==
  ASSUME FramesAssumption, NEW f \in FrameStates, NEW q, NEW n \in Nat, NEW i \in 1..n,
         NEW r \in FrameStates, RegeneratedUpTo(f, q, i - 1, r),
         NEW g, g = IF q[i] \in Plugged(f) THEN Regenerate(r, q[i]) ELSE r
  PROVE  g \in FrameStates /\ RegeneratedUpTo(f, q, i, g)
<1>1. PICK x : x = q[i]
  OBVIOUS
<1>2. \A o : (\E j \in 1..i : q[j] = o) <=> (\E j \in 1..(i - 1) : q[j] = o) \/ o = x
  BY <1>1
<1>3. SceneOnly(f, r) /\ Balanced(f, r)
  BY DEF RegeneratedUpTo
<1>4. \A o \in FrameOutputs :
        r.out[o].instances =
          IF o \in Plugged(f) /\ \E j \in 1..(i - 1) : q[j] = o THEN Generated(f, o) ELSE f.out[o].instances
  BY DEF RegeneratedUpTo
<1>5. CASE x \in Plugged(f)
  <2>1. x \in FrameOutputs /\ g = Regenerate(r, x) /\ EachOnce(r.idle)
    BY <1>1, <1>3, <1>5 DEF Plugged, SceneOnly
  <2>2. /\ g \in FrameStates /\ SceneOnly(r, g) /\ Balanced(r, g) /\ g.out[x].instances = Generated(r, x)
        /\ \A p \in FrameOutputs : p # x => g.out[p].instances = r.out[p].instances
    BY <2>1, RegenerateIs
  <2>3. SceneOnly(f, g)
    BY <1>3, <2>2, SceneOnlyTwice
  <2>4. Generated(r, x) = Generated(f, x)
    BY <1>3 DEF Generated, SceneOnly, SameButDelta
  <2>5. Balanced(f, g)
    <3>1. ASSUME NEW s \in Surfaces, NEW p \in FrameOutputs
          PROVE  g.surf[s].delta[p] = f.surf[s].delta[p] + ShownOn(g, s, p) - ShownOn(f, s, p)
      <4>1. PICK d \in Int, a \in Int, b \in Int, c \in Int :
              d = f.surf[s].delta[p] /\ a = ShownOn(f, s, p) /\ b = ShownOn(r, s, p) /\ c = ShownOn(g, s, p)
        BY CountsTyped DEF ShownOn
      <4>2. r.surf[s].delta[p] = d + b - a /\ g.surf[s].delta[p] = r.surf[s].delta[p] + c - b
        BY <1>3, <2>2, <4>1 DEF Balanced
      <4> QED
        BY <4>1, <4>2
    <3> QED
      BY <3>1 DEF Balanced
  <2>6. ASSUME NEW o \in FrameOutputs
        PROVE  g.out[o].instances =
                 IF o \in Plugged(f) /\ \E j \in 1..i : q[j] = o THEN Generated(f, o) ELSE f.out[o].instances
    <3>1. CASE o = x
      BY <1>2, <1>5, <2>2, <2>4, <3>1
    <3>2. CASE o # x
      BY <1>2, <1>4, <2>2, <3>2
    <3> QED
      BY <3>1, <3>2
  <2> QED
    BY <2>2, <2>3, <2>5, <2>6 DEF RegeneratedUpTo
<1>6. CASE x \notin Plugged(f)
  <2>1. g = r
    BY <1>1, <1>6
  <2>2. ASSUME NEW o \in FrameOutputs
        PROVE  g.out[o].instances =
                 IF o \in Plugged(f) /\ \E j \in 1..i : q[j] = o THEN Generated(f, o) ELSE f.out[o].instances
    <3>1. CASE o = x
      BY <1>4, <1>6, <2>1, <3>1
    <3>2. CASE o # x
      BY <1>2, <1>4, <2>1, <3>2
    <3> QED
      BY <3>1, <3>2
  <2> QED
    BY <1>3, <2>1, <2>2 DEF RegeneratedUpTo
<1> QED
  BY <1>5, <1>6

(* update() makes the instances of all outputs anew.                       *)
LEMMA UpdateSceneIs ==
  ASSUME FramesAssumption, NEW f \in FrameStates, EachOnce(f.idle), NEW g, g = UpdateScene(f)
  PROVE  /\ g \in FrameStates /\ SceneOnly(f, g) /\ Balanced(f, g)
         /\ \A o \in FrameOutputs :
              g.out[o].instances = IF o \in Plugged(f) THEN Generated(f, o) ELSE f.out[o].instances
<1> DEFINE Onward(r, x) == IF x \in Plugged(f) THEN Regenerate(r, x) ELSE r
           Loop(up, q) == up = [i \in 0..Len(q) |-> IF i = 0 THEN f ELSE Onward(up[i - 1], q[i])]
<1>1. PICK q \in Seq(FrameOutputs \cup Surfaces) :
        q = InOrder /\ EachOnce(q) /\ ToSet(q) = FrameOutputs \cup Surfaces
  BY InOrderIs
<1>2. PICK n \in Nat : n = Len(q)
  BY <1>1
<1>3. PICK T : T = [i \in 0..n |-> {r \in FrameStates : RegeneratedUpTo(f, q, i, r)}]
  OBVIOUS
<1>4. \A i \in 0..n : T[i] = {r \in FrameStates : RegeneratedUpTo(f, q, i, r)}
  BY <1>3
<1>5. f \in T[0]
  <2>1. RegeneratedUpTo(f, q, 0, f)
    <3>1. ASSUME NEW s \in Surfaces, NEW p \in FrameOutputs
          PROVE  f.surf[s].delta[p] = f.surf[s].delta[p] + ShownOn(f, s, p) - ShownOn(f, s, p)
      BY CountsTyped DEF ShownOn
    <3> QED
      BY <3>1 DEF RegeneratedUpTo, SceneOnly, Balanced, SameDrive, SameButDelta
  <2> QED
    BY <1>2, <1>4, <2>1
<1>6. ASSUME NEW i \in 1..n, NEW r \in T[i - 1] PROVE Onward(r, q[i]) \in T[i]
  <2>1. i - 1 \in 0..n /\ i \in 0..n /\ i \in 1..Len(q)
    BY <1>2
  <2>2. r \in FrameStates /\ RegeneratedUpTo(f, q, i - 1, r)
    BY <1>4, <1>6, <2>1
  <2>3. PICK u : u = Onward(r, q[i])
    OBVIOUS
  <2>4. u \in FrameStates /\ RegeneratedUpTo(f, q, i, u)
    BY <1>2, <2>2, <2>3, RegeneratedOne
  <2> QED
    BY <1>4, <2>1, <2>3, <2>4
<1> HIDE DEF Onward
<1>7. PICK step : step = [turn \in FrameStates \X (1..n) |-> Onward(turn[1], q[turn[2]])]
  OBVIOUS
<1>8. \A r \in FrameStates, i \in 1..n : step[<<r, i>>] = Onward(r, q[i])
  BY <1>7
<1>9. PICK h : Rounds(h, f, step, n) /\ \A i \in 0..n : h[i] \in T[i]
  <2>1. ASSUME NEW i \in 1..n, NEW r \in T[i - 1] PROVE step[<<r, i>>] \in T[i]
    <3>1. i - 1 \in 0..n
      OBVIOUS
    <3>2. r \in FrameStates
      BY <1>4, <2>1, <3>1
    <3> QED
      BY <1>6, <1>8, <2>1, <3>2
  <2> QED
    BY <1>5, <2>1, LoopRuns
<1>10. Loop(h, q)
  <2>1. PICK k : k = [i \in 0..n |-> IF i = 0 THEN f ELSE Onward(h[i - 1], q[i])]
    OBVIOUS
  <2>2. h = [i \in 0..n |-> IF i = 0 THEN f ELSE step[<<h[i - 1], i>>]]
    BY <1>9 DEF Rounds
  <2>3. ASSUME NEW i \in 0..n PROVE k[i] = h[i]
    <3>1. CASE i = 0
      BY <2>1, <2>2, <3>1
    <3>2. CASE i # 0
      <4>1. i \in 1..n /\ i - 1 \in 0..n
        BY <3>2
      <4>2. h[i - 1] \in FrameStates
        BY <1>4, <1>9, <4>1
      <4> QED
        BY <1>8, <2>1, <2>2, <3>2, <4>1, <4>2
    <3> QED
      BY <3>1, <3>2
  <2>4. h = k
    BY <2>1, <2>2, <2>3
  <2> QED
    BY <1>2, <2>1, <2>4
<1>11. PICK e : Loop(e, q) /\ e = CHOOSE x : Loop(x, q)
  BY <1>10
<1>12. g = e[Len(q)]
  <2>1. e = CHOOSE x : Loop(x, q)
    BY <1>11
  <2> QED
    BY <1>1, <2>1, Zenon DEF UpdateScene, Each, Folded, Onward
<1>13. e[0] = f /\ \A i \in 1..n : e[i] = Onward(e[i - 1], q[i])
  BY <1>2, <1>11
<1>14. \A i \in 0..n : e[i] \in T[i]
  <2>1. e[0] \in T[0]
    BY <1>5, <1>13
  <2>2. ASSUME NEW i \in 1..n, e[i - 1] \in T[i - 1] PROVE e[i] \in T[i]
    BY <1>6, <1>13, <2>2
  <2> QED
    BY <2>1, <2>2, LoopKeeps
<1>15. g \in FrameStates /\ RegeneratedUpTo(f, q, n, g)
  BY <1>2, <1>4, <1>12, <1>14
<1>16. \A o \in FrameOutputs : \E j \in 1..n : q[j] = o
  <2>1. DOMAIN q = 1..n
    BY <1>1, <1>2
  <2> QED
    BY <1>1, <2>1 DEF ToSet
<1> QED
  BY <1>15, <1>16 DEF RegeneratedUpTo

GeometryUpTo(f, g) == SceneOnly(f, g) /\ g.out = f.out /\ g.surf = f.surf

(* update() of the geometry only has visibility computed again.            *)
LEMMA UpdateGeometryIs ==
  ASSUME FramesAssumption, NEW f \in FrameStates, EachOnce(f.idle), NEW g, g = UpdateGeometry(f)
  PROVE  g \in FrameStates /\ SceneOnly(f, g) /\ g.out = f.out /\ g.surf = f.surf
<1> DEFINE Onward(r, x) == IF x \in Plugged(f) THEN Once(r, <<"visible", x>>) ELSE r
           Loop(up, q) == up = [i \in 0..Len(q) |-> IF i = 0 THEN f ELSE Onward(up[i - 1], q[i])]
<1>1. PICK q \in Seq(FrameOutputs \cup Surfaces) :
        q = InOrder /\ EachOnce(q) /\ ToSet(q) = FrameOutputs \cup Surfaces
  BY InOrderIs
<1>2. PICK n \in Nat : n = Len(q)
  BY <1>1
<1>3. PICK T : T = [i \in 0..n |-> {r \in FrameStates : GeometryUpTo(f, r)}]
  OBVIOUS
<1>4. \A i \in 0..n : T[i] = {r \in FrameStates : GeometryUpTo(f, r)}
  BY <1>3
<1>5. f \in T[0]
  <2>1. GeometryUpTo(f, f)
    BY DEF GeometryUpTo, SceneOnly, SameDrive, SameButDelta
  <2> QED
    BY <1>2, <1>4, <2>1
<1>6. ASSUME NEW i \in 1..n, NEW r \in T[i - 1] PROVE Onward(r, q[i]) \in T[i]
  <2>1. i - 1 \in 0..n /\ i \in 0..n /\ i \in 1..Len(q)
    BY <1>2
  <2>2. r \in FrameStates /\ GeometryUpTo(f, r)
    BY <1>4, <1>6, <2>1
  <2>3. PICK u : u = Onward(r, q[i])
    OBVIOUS
  <2>4. u \in FrameStates /\ GeometryUpTo(f, u)
    <3>1. PICK x : x = q[i]
      OBVIOUS
    <3>2. CASE x \in Plugged(f)
      <4>1. PICK c : c = <<"visible", x>>
        OBVIOUS
      <4>2. c \in Calls /\ c \in SceneCalls /\ x \in FrameOutputs
        BY <3>2, <4>1, CallsAre DEF Plugged, SceneCalls
      <4>3. u = Once(r, c) /\ EachOnce(r.idle)
        BY <2>2, <2>3, <3>1, <3>2, <4>1 DEF GeometryUpTo, SceneOnly
      <4>4. /\ u \in FrameStates /\ EachOnce(u.idle) /\ u.surf = r.surf /\ u.out = r.out
            /\ ToSet(u.idle) = ToSet(r.idle) \cup {c}
        BY <2>2, <4>2, <4>3, OnceIs
      <4> QED
        BY <2>2, <4>2, <4>4 DEF GeometryUpTo, SceneOnly
    <3>3. CASE x \notin Plugged(f)
      BY <2>2, <2>3, <3>1, <3>3
    <3> QED
      BY <3>2, <3>3
  <2> QED
    BY <1>4, <2>1, <2>3, <2>4
<1> HIDE DEF Onward
<1>7. PICK step : step = [turn \in FrameStates \X (1..n) |-> Onward(turn[1], q[turn[2]])]
  OBVIOUS
<1>8. \A r \in FrameStates, i \in 1..n : step[<<r, i>>] = Onward(r, q[i])
  BY <1>7
<1>9. PICK h : Rounds(h, f, step, n) /\ \A i \in 0..n : h[i] \in T[i]
  <2>1. ASSUME NEW i \in 1..n, NEW r \in T[i - 1] PROVE step[<<r, i>>] \in T[i]
    <3>1. i - 1 \in 0..n
      OBVIOUS
    <3>2. r \in FrameStates
      BY <1>4, <2>1, <3>1
    <3> QED
      BY <1>6, <1>8, <2>1, <3>2
  <2> QED
    BY <1>5, <2>1, LoopRuns
<1>10. Loop(h, q)
  <2>1. PICK k : k = [i \in 0..n |-> IF i = 0 THEN f ELSE Onward(h[i - 1], q[i])]
    OBVIOUS
  <2>2. h = [i \in 0..n |-> IF i = 0 THEN f ELSE step[<<h[i - 1], i>>]]
    BY <1>9 DEF Rounds
  <2>3. ASSUME NEW i \in 0..n PROVE k[i] = h[i]
    <3>1. CASE i = 0
      BY <2>1, <2>2, <3>1
    <3>2. CASE i # 0
      <4>1. i \in 1..n /\ i - 1 \in 0..n
        BY <3>2
      <4>2. h[i - 1] \in FrameStates
        BY <1>4, <1>9, <4>1
      <4> QED
        BY <1>8, <2>1, <2>2, <3>2, <4>1, <4>2
    <3> QED
      BY <3>1, <3>2
  <2>4. h = k
    BY <2>1, <2>2, <2>3
  <2> QED
    BY <1>2, <2>1, <2>4
<1>11. PICK e : Loop(e, q) /\ e = CHOOSE x : Loop(x, q)
  BY <1>10
<1>12. g = e[Len(q)]
  <2>1. e = CHOOSE x : Loop(x, q)
    BY <1>11
  <2> QED
    BY <1>1, <2>1, Zenon DEF UpdateGeometry, Each, Folded, Onward
<1>13. e[0] = f /\ \A i \in 1..n : e[i] = Onward(e[i - 1], q[i])
  BY <1>2, <1>11
<1>14. \A i \in 0..n : e[i] \in T[i]
  <2>1. e[0] \in T[0]
    BY <1>5, <1>13
  <2>2. ASSUME NEW i \in 1..n, e[i - 1] \in T[i - 1] PROVE e[i] \in T[i]
    BY <1>6, <1>13, <2>2
  <2> QED
    BY <2>1, <2>2, LoopKeeps
<1>15. g \in FrameStates /\ GeometryUpTo(f, g)
  BY <1>2, <1>4, <1>12, <1>14
<1> QED
  BY <1>15 DEF GeometryUpTo

(* Of outputs that are to repaint.                                         *)
Framed(f, o) == <<"frame", o>> \in ToSet(f.idle)
OutputsCalled(f, s) == <<"outputs", s>> \in ToSet(f.idle)
Repaints(f, g, o) == g.out[o] = AskedOf(f.out[o]) /\ (Framed(g, o) <=> Framed(f, o) \/ ~f.out[o].pending)
StaysIdle(f, g, o) == g.out[o] = f.out[o] /\ (Framed(g, o) <=> Framed(f, o))
RepaintsOnly(f, D, g) ==
  /\ EachOnce(g.idle) /\ g.surf = f.surf
  /\ \A s \in Surfaces : OutputsCalled(g, s) <=> OutputsCalled(f, s)
  /\ \A o \in FrameOutputs : IF o \in D THEN Repaints(f, g, o) ELSE StaysIdle(f, g, o)
Reached(D, q, i) == {o \in D : \E j \in 1..i : q[j] = o}

(* A repaint of one output.                                                *)
LEMMA ScheduleOnly ==
  ASSUME NEW f \in FrameStates, EachOnce(f.idle), NEW o \in FrameOutputs, NEW g, g = ScheduleRepaint(f, o)
  PROVE  g \in FrameStates /\ RepaintsOnly(f, {o}, g)
<1>1. /\ g \in FrameStates /\ EachOnce(g.idle) /\ g.surf = f.surf
      /\ g.out[o] = AskedOf(f.out[o]) /\ \A p \in FrameOutputs : p # o => g.out[p] = f.out[p]
      /\ ToSet(g.idle) = ToSet(f.idle) \cup (IF f.out[o].pending THEN {} ELSE {<<"frame", o>>})
  BY ScheduleIs
<1>2. \A s \in Surfaces : OutputsCalled(g, s) <=> OutputsCalled(f, s)
  BY <1>1, CallsAre DEF OutputsCalled
<1>3. \A p \in FrameOutputs : p # o => (Framed(g, p) <=> Framed(f, p))
  BY <1>1, CallsAre DEF Framed
<1>4. Framed(g, o) <=> Framed(f, o) \/ ~f.out[o].pending
  BY <1>1 DEF Framed
<1> QED
  BY <1>1, <1>2, <1>3, <1>4 DEF RepaintsOnly, Repaints, StaysIdle

(* One round of a loop over outputs that are to repaint.                   *)
LEMMA RepaintedOne ==
  ASSUME NEW f \in FrameStates, NEW D \in SUBSET FrameOutputs, NEW V, NEW q \in Seq(V), EachOnce(q),
         NEW i \in 1..Len(q), NEW r \in FrameStates, RepaintsOnly(f, Reached(D, q, i - 1), r),
         NEW g, g = IF q[i] \in D THEN ScheduleRepaint(r, q[i]) ELSE r
  PROVE  g \in FrameStates /\ RepaintsOnly(f, Reached(D, q, i), g)
<1>1. PICK x : x = q[i]
  OBVIOUS
<1>2. \A j \in 1..(i - 1) : j \in 1..i /\ q[j] # x
  BY <1>1 DEF EachOnce
<1>3. \A s : (\E j \in 1..i : q[j] = s) <=> (\E j \in 1..(i - 1) : q[j] = s) \/ s = x
  BY <1>1
<1>4. EachOnce(r.idle)
  BY DEF RepaintsOnly
<1>5. CASE x \in D
  <2>1. x \in FrameOutputs /\ g = ScheduleRepaint(r, x)
    BY <1>1, <1>5
  <2>2. g \in FrameStates /\ RepaintsOnly(r, {x}, g)
    BY <1>4, <2>1, ScheduleOnly
  <2>3. PICK A, B : A = Reached(D, q, i - 1) /\ B = Reached(D, q, i)
    OBVIOUS
  <2>4. x \notin A /\ x \in B /\ \A o \in FrameOutputs : o # x => (o \in A <=> o \in B)
    BY <1>2, <1>3, <1>5, <2>3 DEF Reached
  <2>5. ASSUME NEW o \in FrameOutputs PROVE IF o \in B THEN Repaints(f, g, o) ELSE StaysIdle(f, g, o)
    <3>1. IF o \in A THEN Repaints(f, r, o) ELSE StaysIdle(f, r, o)
      BY <2>3 DEF RepaintsOnly
    <3>2. CASE o = x
      <4>1. StaysIdle(f, r, o) /\ Repaints(r, g, o)
        BY <2>2, <2>4, <3>1, <3>2 DEF RepaintsOnly
      <4>2. Repaints(f, g, o)
        BY <4>1 DEF StaysIdle, Repaints
      <4> QED
        BY <2>4, <3>2, <4>2
    <3>3. CASE o # x
      <4>1. StaysIdle(r, g, o)
        BY <2>2, <3>3 DEF RepaintsOnly
      <4>2. Repaints(f, r, o) => Repaints(f, g, o)
        BY <4>1 DEF StaysIdle, Repaints
      <4>3. StaysIdle(f, r, o) => StaysIdle(f, g, o)
        BY <4>1 DEF StaysIdle
      <4> QED
        BY <2>4, <3>1, <3>3, <4>2, <4>3
    <3> QED
      BY <3>2, <3>3
  <2>6. EachOnce(g.idle) /\ g.surf = f.surf /\ \A s \in Surfaces : OutputsCalled(g, s) <=> OutputsCalled(f, s)
    BY <2>2 DEF RepaintsOnly
  <2>7. RepaintsOnly(f, B, g)
    BY <2>5, <2>6 DEF RepaintsOnly
  <2> QED
    BY <2>2, <2>3, <2>7
<1>6. CASE x \notin D
  <2>1. g = r
    BY <1>1, <1>6
  <2>2. Reached(D, q, i) = Reached(D, q, i - 1)
    BY <1>3, <1>6 DEF Reached
  <2> QED
    BY <2>1, <2>2
<1> QED
  BY <1>5, <1>6

(* Every output of a set is to repaint, and no other.                      *)
LEMMA RepaintedIs ==
  ASSUME FramesAssumption, NEW f \in FrameStates, EachOnce(f.idle), NEW D \in SUBSET FrameOutputs,
         NEW g, g = Repainted(f, D)
  PROVE  g \in FrameStates /\ RepaintsOnly(f, D, g)
<1> DEFINE Onward(r, x) == IF x \in D THEN ScheduleRepaint(r, x) ELSE r
           Loop(up, q) == up = [i \in 0..Len(q) |-> IF i = 0 THEN f ELSE Onward(up[i - 1], q[i])]
<1>1. PICK q \in Seq(FrameOutputs \cup Surfaces) :
        q = InOrder /\ EachOnce(q) /\ ToSet(q) = FrameOutputs \cup Surfaces
  BY InOrderIs
<1>2. PICK n \in Nat : n = Len(q)
  BY <1>1
<1>3. PICK T : T = [i \in 0..n |-> {r \in FrameStates : RepaintsOnly(f, Reached(D, q, i), r)}]
  OBVIOUS
<1>4. \A i \in 0..n : T[i] = {r \in FrameStates : RepaintsOnly(f, Reached(D, q, i), r)}
  BY <1>3
<1>5. f \in T[0]
  <2>1. PICK A : A = Reached(D, q, 0)
    OBVIOUS
  <2>2. A = {}
    BY <2>1 DEF Reached
  <2>3. RepaintsOnly(f, A, f)
    BY <2>2 DEF RepaintsOnly, StaysIdle
  <2> QED
    BY <1>2, <1>4, <2>1, <2>3
<1>6. ASSUME NEW i \in 1..n, NEW r \in T[i - 1] PROVE Onward(r, q[i]) \in T[i]
  <2>1. i - 1 \in 0..n /\ i \in 0..n /\ i \in 1..Len(q)
    BY <1>2
  <2>2. r \in FrameStates /\ RepaintsOnly(f, Reached(D, q, i - 1), r)
    BY <1>4, <1>6, <2>1
  <2>3. PICK u : u = Onward(r, q[i])
    OBVIOUS
  <2>4. u \in FrameStates /\ RepaintsOnly(f, Reached(D, q, i), u)
    BY <1>1, <2>1, <2>2, <2>3, RepaintedOne
  <2> QED
    BY <1>4, <2>1, <2>3, <2>4
<1> HIDE DEF Onward
<1>7. PICK step : step = [turn \in FrameStates \X (1..n) |-> Onward(turn[1], q[turn[2]])]
  OBVIOUS
<1>8. \A r \in FrameStates, i \in 1..n : step[<<r, i>>] = Onward(r, q[i])
  BY <1>7
<1>9. PICK h : Rounds(h, f, step, n) /\ \A i \in 0..n : h[i] \in T[i]
  <2>1. ASSUME NEW i \in 1..n, NEW r \in T[i - 1] PROVE step[<<r, i>>] \in T[i]
    <3>1. i - 1 \in 0..n
      OBVIOUS
    <3>2. r \in FrameStates
      BY <1>4, <2>1, <3>1
    <3> QED
      BY <1>6, <1>8, <2>1, <3>2
  <2> QED
    BY <1>5, <2>1, LoopRuns
<1>10. Loop(h, q)
  <2>1. PICK k : k = [i \in 0..n |-> IF i = 0 THEN f ELSE Onward(h[i - 1], q[i])]
    OBVIOUS
  <2>2. h = [i \in 0..n |-> IF i = 0 THEN f ELSE step[<<h[i - 1], i>>]]
    BY <1>9 DEF Rounds
  <2>3. ASSUME NEW i \in 0..n PROVE k[i] = h[i]
    <3>1. CASE i = 0
      BY <2>1, <2>2, <3>1
    <3>2. CASE i # 0
      <4>1. i \in 1..n /\ i - 1 \in 0..n
        BY <3>2
      <4>2. h[i - 1] \in FrameStates
        BY <1>4, <1>9, <4>1
      <4> QED
        BY <1>8, <2>1, <2>2, <3>2, <4>1, <4>2
    <3> QED
      BY <3>1, <3>2
  <2>4. h = k
    BY <2>1, <2>2, <2>3
  <2> QED
    BY <1>2, <2>1, <2>4
<1>11. PICK e : Loop(e, q) /\ e = CHOOSE x : Loop(x, q)
  BY <1>10
<1>12. g = e[Len(q)]
  <2>1. e = CHOOSE x : Loop(x, q)
    BY <1>11
  <2> QED
    BY <1>1, <2>1, Zenon DEF Repainted, Each, Folded, Onward
<1>13. e[0] = f /\ \A i \in 1..n : e[i] = Onward(e[i - 1], q[i])
  BY <1>2, <1>11
<1>14. \A i \in 0..n : e[i] \in T[i]
  <2>1. e[0] \in T[0]
    BY <1>5, <1>13
  <2>2. ASSUME NEW i \in 1..n, e[i - 1] \in T[i - 1] PROVE e[i] \in T[i]
    BY <1>6, <1>13, <2>2
  <2> QED
    BY <2>1, <2>2, LoopKeeps
<1>15. g \in FrameStates /\ RepaintsOnly(f, Reached(D, q, n), g)
  BY <1>2, <1>4, <1>12, <1>14
<1>16. Reached(D, q, n) = D
  <2>1. DOMAIN q = 1..n
    BY <1>1, <1>2
  <2> QED
    BY <1>1, <2>1 DEF Reached, ToSet
<1> QED
  BY <1>15, <1>16

(* Outputs that are to repaint owe nothing, and the others what they did.  *)
LEMMA RepaintsKeep ==
  ASSUME NEW f \in FrameStates, NEW g \in FrameStates, NEW D, D \subseteq Plugged(f), RepaintsOnly(f, D, g),
         OutputsDrive(f, ToSet(f.idle))
  PROVE  /\ OutputsDrive(g, ToSet(g.idle)) /\ Plugged(g) = Plugged(f)
         /\ \A o \in FrameOutputs : CountsOn(f, ToSet(f.idle), o) => CountsOn(g, ToSet(g.idle), o)
         /\ \A o \in D : EnteredOn(g, o) /\ AwaitedOn(g, o)
         /\ \A o \in FrameOutputs : (EnteredOn(f, o) => EnteredOn(g, o)) /\ (AwaitedOn(f, o) => AwaitedOn(g, o))
         /\ \A o \in FrameOutputs : g.out[o].instances = f.out[o].instances /\ g.out[o].present = f.out[o].present
         /\ \A o \in FrameOutputs : ShownRight(f, o) => ShownRight(g, o)
<1>1. g.surf = f.surf /\ \A s \in Surfaces : OutputsCalled(g, s) <=> OutputsCalled(f, s)
  BY DEF RepaintsOnly
<1>2. ASSUME NEW o \in FrameOutputs
      PROVE  /\ Drives(g.out[o], Framed(g, o)) /\ g.out[o].instances = f.out[o].instances
             /\ g.out[o].present = f.out[o].present
             /\ o \in D => g.out[o].needs
             /\ o \in D \/ g.out[o] = f.out[o]
  <2>1. PICK x \in OutStates : x = f.out[o]
    BY PartsTyped
  <2>2. Drives(x, Framed(f, o))
    BY <2>1 DEF OutputsDrive, Framed
  <2>3. CASE o \in D
    <3>1. Repaints(f, g, o) /\ x.present
      BY <2>1, <2>3 DEF RepaintsOnly, Plugged
    <3>2. PICK y : y = AskedOf(x)
      OBVIOUS
    <3>3. /\ y.pending = x.pending /\ y.flip = x.flip /\ y.timer = x.timer /\ y.needs = TRUE
          /\ y.present = x.present /\ y.instances = x.instances
      BY <2>1, <3>2 DEF AskedOf, OutStates
    <3>4. g.out[o] = y /\ (Framed(g, o) <=> Framed(f, o) \/ ~x.pending)
      BY <2>1, <3>1, <3>2 DEF Repaints
    <3>5. PICK a \in BOOLEAN, b \in BOOLEAN : (a <=> Framed(f, o)) /\ (b <=> Framed(g, o))
      OBVIOUS
    <3>6. Drives(y, b)
      <4>1. y.on = x.on
        BY <2>1, <3>2 DEF AskedOf, OutStates
      <4>2. Drives(x, a)
        BY <2>2, <3>5 DEF Drives
      <4>3. b <=> a \/ ~x.pending
        BY <3>4, <3>5
      <4> QED
        BY <3>1, <3>3, <4>1, <4>2, <4>3 DEF Drives
    <3>7. Drives(y, Framed(g, o))
      BY <3>5, <3>6 DEF Drives
    <3> QED
      BY <2>1, <2>3, <3>3, <3>4, <3>7
  <2>4. CASE o \notin D
    <3>1. g.out[o] = f.out[o] /\ (Framed(g, o) <=> Framed(f, o))
      BY <2>4 DEF RepaintsOnly, StaysIdle
    <3> QED
      BY <2>1, <2>2, <2>4, <3>1 DEF Drives
  <2> QED
    BY <2>3, <2>4
<1>3. OutputsDrive(g, ToSet(g.idle))
  BY <1>2 DEF OutputsDrive, Framed
<1>4. ASSUME NEW o \in FrameOutputs, CountsOn(f, ToSet(f.idle), o), NEW s \in Surfaces
      PROVE  Counts(g.out[o], g.surf[s].visibility[o], g.surf[s].delta[o], s \in g.out[o].instances,
                    <<"outputs", s>> \in ToSet(g.idle))
  <2>1. Counts(f.out[o], f.surf[s].visibility[o], f.surf[s].delta[o], s \in f.out[o].instances,
               <<"outputs", s>> \in ToSet(f.idle))
    BY <1>4 DEF CountsOn
  <2> QED
    BY <1>1, <1>2, <2>1 DEF Counts, OutputsCalled
<1>5. D \subseteq FrameOutputs
  BY DEF Plugged
<1>6. \A o \in D : EnteredOn(g, o) /\ AwaitedOn(g, o)
  BY <1>2, <1>5 DEF EnteredOn, AwaitedOn, Entered, Awaited
<1>7. ASSUME NEW o \in FrameOutputs
      PROVE  (EnteredOn(f, o) => EnteredOn(g, o)) /\ (AwaitedOn(f, o) => AwaitedOn(g, o))
  <2>1. CASE o \in D
    BY <1>6, <2>1
  <2>2. CASE o \notin D
    BY <1>1, <1>2, <2>2 DEF EnteredOn, AwaitedOn
  <2> QED
    BY <2>1, <2>2
<1>8. \A o \in FrameOutputs : ShownRight(f, o) => ShownRight(g, o)
  BY <1>1, <1>2 DEF ShownRight
<1>9. Plugged(g) = Plugged(f)
  BY <1>2 DEF Plugged
<1> QED
  BY <1>2, <1>3, <1>4, <1>6, <1>7, <1>8, <1>9 DEF CountsOn

(* What is right, and what outputs owe, when some of them repaint.         *)
LEMMA RepaintsRight ==
  ASSUME NEW f \in FrameStates, NEW g \in FrameStates, NEW D, D \subseteq Plugged(f), RepaintsOnly(f, D, g), Right(f)
  PROVE  Right(g)
<1>1. /\ OutputsDrive(f, ToSet(f.idle)) /\ SurfacesCount(f, ToSet(f.idle)) /\ OutputsOwe(f)
      /\ SceneShown(f) /\ WithinHome(f)
  BY DEF Right, Served
<1>2. /\ OutputsDrive(g, ToSet(g.idle))
      /\ \A o \in FrameOutputs : CountsOn(f, ToSet(f.idle), o) => CountsOn(g, ToSet(g.idle), o)
      /\ \A o \in FrameOutputs : (EnteredOn(f, o) => EnteredOn(g, o)) /\ (AwaitedOn(f, o) => AwaitedOn(g, o))
      /\ \A o \in FrameOutputs : ShownRight(f, o) => ShownRight(g, o)
  BY <1>1, RepaintsKeep
<1>3. OutputsOwe(g) /\ SceneShown(g)
  BY <1>1, <1>2 DEF OutputsOwe, SceneShown
<1>4. WithinHome(g) /\ EachOnce(g.idle)
  BY <1>1 DEF WithinHome, RepaintsOnly
<1>5. SurfacesCount(g, ToSet(g.idle))
  BY <1>1, <1>2 DEF SurfacesCount
<1> QED
  BY <1>2, <1>3, <1>4, <1>5 DEF Right, Served

(* What a change of the scenegraph does to what outputs drive and surfaces *)
(* count.                                                                  *)
LEMMA SceneKeeps ==
  ASSUME NEW f \in FrameStates, NEW g \in FrameStates, SceneOnly(f, g), OutputsDrive(f, ToSet(f.idle)),
         \A o \in FrameOutputs : ~f.out[o].present => g.out[o].instances = f.out[o].instances
  PROVE  /\ OutputsDrive(g, ToSet(g.idle)) /\ Plugged(g) = Plugged(f)
         /\ \A o \in FrameOutputs : (EnteredOn(f, o) => EnteredOn(g, o)) /\ (AwaitedOn(f, o) => AwaitedOn(g, o))
         /\ WithinHome(f) => WithinHome(g)
         /\ \A s \in Surfaces, o \in FrameOutputs : IsGenerated(g.surf[s], o) <=> IsGenerated(f.surf[s], o)
         /\ Balanced(f, g) => \A o \in FrameOutputs : CountsOn(f, ToSet(f.idle), o) => CountsOn(g, ToSet(g.idle), o)
<1>1. ASSUME NEW o \in FrameOutputs
      PROVE  SameDrive(f.out[o], g.out[o]) /\ (Framed(g, o) <=> Framed(f, o))
  <2>1. <<"frame", o>> \notin SceneCalls
    BY CallsAre DEF SceneCalls
  <2> QED
    BY <2>1 DEF SceneOnly, Framed
<1>2. \A s \in Surfaces : SameButDelta(f.surf[s], g.surf[s])
  BY DEF SceneOnly
<1>3. OutputsDrive(g, ToSet(g.idle))
  <2>1. ASSUME NEW o \in FrameOutputs PROVE Drives(g.out[o], Framed(g, o))
    <3>1. Drives(f.out[o], Framed(f, o))
      BY DEF OutputsDrive, Framed
    <3> QED
      BY <1>1, <3>1 DEF Drives, SameDrive
  <2> QED
    BY <2>1 DEF OutputsDrive, Framed
<1>4. \A s \in Surfaces, o \in FrameOutputs :
        /\ IsGenerated(g.surf[s], o) <=> IsGenerated(f.surf[s], o)
        /\ WaitsFor(g.surf[s], o) <=> WaitsFor(f.surf[s], o)
  BY <1>2 DEF IsGenerated, WaitsFor, SameButDelta
<1>5. ASSUME NEW o \in FrameOutputs
      PROVE  (EnteredOn(f, o) => EnteredOn(g, o)) /\ (AwaitedOn(f, o) => AwaitedOn(g, o))
  <2>1. ASSUME EnteredOn(f, o), NEW s \in Surfaces
        PROVE  Entered(g.out[o], g.surf[s].visibility[o], IsGenerated(g.surf[s], o))
    <3>1. Entered(f.out[o], f.surf[s].visibility[o], IsGenerated(f.surf[s], o))
      BY <2>1 DEF EnteredOn
    <3> QED
      BY <1>1, <1>2, <1>4, <3>1 DEF Entered, Works, SameDrive, SameButDelta
  <2>2. ASSUME AwaitedOn(f, o), NEW s \in Surfaces PROVE Awaited(g.out[o], WaitsFor(g.surf[s], o))
    <3>1. Awaited(f.out[o], WaitsFor(f.surf[s], o))
      BY <2>2 DEF AwaitedOn
    <3> QED
      BY <1>1, <1>4, <3>1 DEF Awaited, Works, SameDrive
  <2> QED
    BY <2>1, <2>2 DEF EnteredOn, AwaitedOn
<1>6. WithinHome(f) => WithinHome(g)
  BY <1>2 DEF WithinHome, SameButDelta
<1>7. ASSUME Balanced(f, g), NEW o \in FrameOutputs, CountsOn(f, ToSet(f.idle), o), NEW s \in Surfaces
      PROVE  Counts(g.out[o], g.surf[s].visibility[o], g.surf[s].delta[o], s \in g.out[o].instances,
                    <<"outputs", s>> \in ToSet(g.idle))
  <2>1. Counts(f.out[o], f.surf[s].visibility[o], f.surf[s].delta[o], s \in f.out[o].instances,
               <<"outputs", s>> \in ToSet(f.idle))
    BY <1>7 DEF CountsOn
  <2>2. PICK d \in Int, e \in Int, v \in Int : d = f.surf[s].delta[o] /\ e = g.surf[s].delta[o] /\ v = f.surf[s].visibility[o]
    BY CountsTyped
  <2>3. g.surf[s].visibility[o] = v /\ g.out[o].present = f.out[o].present
    BY <1>1, <1>2, <2>2 DEF SameButDelta, SameDrive
  <2>4. e = d + ShownOn(g, s, o) - ShownOn(f, s, o)
    BY <1>7, <2>2 DEF Balanced
  <2>5. e # 0 => <<"outputs", s>> \in ToSet(g.idle)
    <3>1. g.surf[s].delta = f.surf[s].delta \/ <<"outputs", s>> \in ToSet(g.idle)
      BY DEF SceneOnly
    <3>2. d # 0 => <<"outputs", s>> \in ToSet(g.idle)
      BY <2>1, <2>2 DEF Counts, SceneOnly
    <3> QED
      BY <2>2, <3>1, <3>2
  <2>6. f.out[o].present => v + e = ShownOn(g, s, o)
    <3>1. f.out[o].present => v + d = ShownOn(f, s, o)
      BY <2>1, <2>2 DEF Counts, ShownOn
    <3>2. ShownOn(f, s, o) \in Int /\ ShownOn(g, s, o) \in Int
      BY DEF ShownOn
    <3> QED
      BY <2>2, <2>4, <3>1, <3>2
  <2>7. ~f.out[o].present => e = d
    <3>1. ~f.out[o].present => ShownOn(g, s, o) = ShownOn(f, s, o) /\ ShownOn(f, s, o) \in Int
      BY DEF ShownOn
    <3> QED
      BY <2>2, <2>4, <3>1
  <2> QED
    BY <2>1, <2>2, <2>3, <2>5, <2>6, <2>7 DEF Counts, ShownOn
<1>8. Plugged(g) = Plugged(f)
  BY <1>1 DEF Plugged, SameDrive
<1> QED
  BY <1>3, <1>4, <1>5, <1>6, <1>7, <1>8 DEF CountsOn

(* update() of the scene shows it, and keeps what outputs owe.             *)
LEMMA UpdateSceneKeeps ==
  ASSUME FramesAssumption, NEW f \in FrameStates, EachOnce(f.idle), OutputsDrive(f, ToSet(f.idle)),
         NEW g, g = UpdateScene(f)
  PROVE  /\ g \in FrameStates /\ EachOnce(g.idle) /\ OutputsDrive(g, ToSet(g.idle)) /\ Plugged(g) = Plugged(f)
         /\ SceneOnly(f, g) /\ Balanced(f, g) /\ SceneShown(g) /\ (WithinHome(f) => WithinHome(g))
         /\ \A o \in FrameOutputs : (EnteredOn(f, o) => EnteredOn(g, o)) /\ (AwaitedOn(f, o) => AwaitedOn(g, o))
         /\ \A o \in FrameOutputs : CountsOn(f, ToSet(f.idle), o) => CountsOn(g, ToSet(g.idle), o)
<1>1. /\ g \in FrameStates /\ SceneOnly(f, g) /\ Balanced(f, g)
      /\ \A o \in FrameOutputs :
           g.out[o].instances = IF o \in Plugged(f) THEN Generated(f, o) ELSE f.out[o].instances
  BY UpdateSceneIs
<1>2. \A o \in FrameOutputs : ~f.out[o].present => g.out[o].instances = f.out[o].instances
  BY <1>1 DEF Plugged
<1>3. /\ OutputsDrive(g, ToSet(g.idle)) /\ Plugged(g) = Plugged(f)
      /\ \A o \in FrameOutputs : (EnteredOn(f, o) => EnteredOn(g, o)) /\ (AwaitedOn(f, o) => AwaitedOn(g, o))
      /\ WithinHome(f) => WithinHome(g)
      /\ \A s \in Surfaces, o \in FrameOutputs : IsGenerated(g.surf[s], o) <=> IsGenerated(f.surf[s], o)
      /\ Balanced(f, g) => \A o \in FrameOutputs : CountsOn(f, ToSet(f.idle), o) => CountsOn(g, ToSet(g.idle), o)
  BY <1>1, <1>2, SceneKeeps
<1>4. ASSUME NEW o \in FrameOutputs, g.out[o].present, NEW s \in Surfaces
      PROVE  s \in g.out[o].instances <=> IsGenerated(g.surf[s], o)
  <2>1. o \in Plugged(f)
    BY <1>1, <1>4 DEF Plugged, SceneOnly, SameDrive
  <2>2. s \in Generated(f, o) <=> IsGenerated(f.surf[s], o)
    BY DEF Generated, IsGenerated
  <2> QED
    BY <1>1, <1>3, <2>1, <2>2
<1>5. SceneShown(g)
  BY <1>4 DEF SceneShown, ShownRight
<1> QED
  BY <1>1, <1>3, <1>5 DEF SceneOnly

(* What is left alone by what happens on one output: surfaces are told of  *)
(* a frame at most.                                                        *)
ToldOnly(y, z) ==
  /\ z.home = y.home /\ z.enabled = y.enabled /\ z.exposed = y.exposed
  /\ z.visibility = y.visibility /\ z.delta = y.delta
  /\ z.callback /\ ~z.missed => y.callback /\ ~y.missed
OnlyOn(f, g, o) ==
  /\ \A p \in FrameOutputs : p # o => g.out[p] = f.out[p]
  /\ g.out[o].present = f.out[o].present /\ g.out[o].instances = f.out[o].instances
  /\ \A s \in Surfaces : ToldOnly(f.surf[s], g.surf[s])
CallsElse(R, Q, o) ==
  /\ \A s \in Surfaces : <<"outputs", s>> \in R => <<"outputs", s>> \in Q
  /\ \A p \in FrameOutputs : p # o => (<<"frame", p>> \in Q <=> <<"frame", p>> \in R)

(* All is right after something happens on an output that it is right for. *)
LEMMA OneOutputKeeps ==
  ASSUME NEW f \in FrameStates, NEW g \in FrameStates, NEW o \in FrameOutputs, NEW R, NEW Q, Served(f, R),
         OnlyOn(f, g, o), CallsElse(R, Q, o), Drives(g.out[o], <<"frame", o>> \in Q), EnteredOn(g, o), AwaitedOn(g, o)
  PROVE  Served(g, Q)
<1>1. OutputsDrive(f, R) /\ SurfacesCount(f, R) /\ OutputsOwe(f) /\ SceneShown(f) /\ WithinHome(f)
  BY DEF Served
<1>2. \A s \in Surfaces : ToldOnly(f.surf[s], g.surf[s])
  BY DEF OnlyOn
<1>3. ASSUME NEW p \in FrameOutputs PROVE Drives(g.out[p], <<"frame", p>> \in Q)
  <2>1. CASE p = o
    BY <2>1
  <2>2. CASE p # o
    <3>1. g.out[p] = f.out[p] /\ (<<"frame", p>> \in Q <=> <<"frame", p>> \in R)
      BY <2>2 DEF OnlyOn, CallsElse
    <3> QED
      BY <1>1, <3>1 DEF OutputsDrive, Drives
  <2> QED
    BY <2>1, <2>2
<1>4. ASSUME NEW p \in FrameOutputs PROVE g.out[p].present = f.out[p].present /\ g.out[p].instances = f.out[p].instances
  <2>1. CASE p = o
    BY <2>1 DEF OnlyOn
  <2>2. CASE p # o
    BY <2>2 DEF OnlyOn
  <2> QED
    BY <2>1, <2>2
<1>5. ASSUME NEW p \in FrameOutputs, NEW s \in Surfaces
      PROVE  Counts(g.out[p], g.surf[s].visibility[p], g.surf[s].delta[p], s \in g.out[p].instances,
                    <<"outputs", s>> \in Q)
  <2>1. Counts(f.out[p], f.surf[s].visibility[p], f.surf[s].delta[p], s \in f.out[p].instances, <<"outputs", s>> \in R)
    BY <1>1 DEF SurfacesCount, CountsOn
  <2>2. g.surf[s].visibility = f.surf[s].visibility /\ g.surf[s].delta = f.surf[s].delta
    BY <1>2 DEF ToldOnly
  <2>3. <<"outputs", s>> \in R => <<"outputs", s>> \in Q
    BY DEF CallsElse
  <2> QED
    BY <1>4, <2>1, <2>2, <2>3 DEF Counts
<1>6. \A p \in FrameOutputs, s \in Surfaces :
        /\ IsGenerated(g.surf[s], p) <=> IsGenerated(f.surf[s], p)
        /\ WaitsFor(g.surf[s], p) => WaitsFor(f.surf[s], p)
  BY <1>2 DEF IsGenerated, WaitsFor, ToldOnly
<1>7. ASSUME NEW p \in FrameOutputs PROVE EnteredOn(g, p) /\ AwaitedOn(g, p)
  <2>1. CASE p = o
    BY <2>1
  <2>2. CASE p # o
    <3>1. EnteredOn(f, p) /\ AwaitedOn(f, p) /\ g.out[p] = f.out[p]
      BY <1>1, <2>2 DEF OutputsOwe, OnlyOn
    <3>2. ASSUME NEW s \in Surfaces PROVE Entered(g.out[p], g.surf[s].visibility[p], IsGenerated(g.surf[s], p))
      <4>1. Entered(f.out[p], f.surf[s].visibility[p], IsGenerated(f.surf[s], p))
        BY <3>1 DEF EnteredOn
      <4>2. g.surf[s].visibility = f.surf[s].visibility
        BY <1>2 DEF ToldOnly
      <4> QED
        BY <1>6, <3>1, <4>1, <4>2 DEF Entered
    <3>3. ASSUME NEW s \in Surfaces PROVE Awaited(g.out[p], WaitsFor(g.surf[s], p))
      <4>1. Awaited(f.out[p], WaitsFor(f.surf[s], p))
        BY <3>1 DEF AwaitedOn
      <4> QED
        BY <1>6, <3>1, <4>1 DEF Awaited
    <3> QED
      BY <3>2, <3>3 DEF EnteredOn, AwaitedOn
  <2> QED
    BY <2>1, <2>2
<1>8. SceneShown(g)
  BY <1>1, <1>4, <1>6 DEF SceneShown, ShownRight
<1>9. WithinHome(g)
  BY <1>1, <1>2 DEF WithinHome, ToldOnly
<1> QED
  BY <1>3, <1>5, <1>7, <1>8, <1>9 DEF Served, OutputsDrive, SurfacesCount, CountsOn, OutputsOwe

(* An output that can paint, and what it is after it has, or after it has  *)
(* delayed that.                                                           *)
CanPaint(x) == x.present /\ x.on /\ ~x.pending /\ x.flip = "none" /\ ~x.timer
After(x, y) ==
  /\ y.present = x.present /\ y.on = x.on /\ y.instances = x.instances
  /\ \/ y.pending /\ y.flip = "new" /\ y.timer = x.timer
     \/ y.timer /\ y.pending /\ y.flip = x.flip /\ y.needs = x.needs /\ y.failed = x.failed
     \/ /\ y.pending = x.pending /\ y.flip = x.flip /\ y.timer = x.timer /\ y.needs = x.needs
        /\ \/ y.failed
           \/ y.failed = x.failed /\ y.redraw = x.redraw /\ ~x.needs /\ x.redraw = 0
Painted(f, h, o) ==
  /\ EachOnce(h.idle) /\ h.surf = f.surf
  /\ ToSet(h.idle) \subseteq ToSet(f.idle) /\ ToSet(f.idle) \subseteq ToSet(h.idle) \cup {<<"frame", o>>}
  /\ \A p \in FrameOutputs : p # o => h.out[p] = f.out[p]
  /\ After(f.out[o], h.out[o])

(* An output that changes alone.                                           *)
LEMMA OutputAfter ==
  ASSUME NEW f \in FrameStates, EachOnce(f.idle), NEW o \in FrameOutputs, NEW y \in OutStates,
         After(f.out[o], y), NEW h, h = WithOut(f, o, y)
  PROVE  h \in FrameStates /\ Painted(f, h, o)
<1>1. /\ h \in FrameStates /\ h.surf = f.surf /\ h.idle = f.idle
      /\ h.out[o] = y /\ \A p \in FrameOutputs : p # o => h.out[p] = f.out[p]
  BY OutChanged
<1> QED
  BY <1>1 DEF Painted

(* A paint that fails.                                                     *)
LEMMA FailureIs ==
  ASSUME NEW f \in FrameStates, EachOnce(f.idle), NEW o \in FrameOutputs,
         NEW h, h = [f EXCEPT !.out[o].failed = TRUE]
  PROVE  h \in FrameStates /\ Painted(f, h, o)
<1>1. PICK x \in OutStates : x = f.out[o]
  BY PartsTyped
<1>2. PICK y : y = [x EXCEPT !.failed = TRUE]
  OBVIOUS
<1>3. /\ y \in OutStates /\ y.present = x.present /\ y.on = x.on /\ y.instances = x.instances
      /\ y.failed = TRUE /\ y.pending = x.pending /\ y.flip = x.flip /\ y.timer = x.timer /\ y.needs = x.needs
  BY <1>2 DEF OutStates
<1>4. After(x, y)
  <2>1. y.failed
    BY <1>3
  <2> QED
    <3>1. y.failed /\ y.pending = x.pending /\ y.flip = x.flip /\ y.timer = x.timer /\ y.needs = x.needs
      BY <1>3, <2>1
    <3>2. y.present = x.present /\ y.on = x.on /\ y.instances = x.instances
      BY <1>3
    <3> QED
      BY <3>1, <3>2, Zenon DEF After
<1>5. h = WithOut(f, o, y)
  BY <1>1, <1>2 DEF WithOut, FrameStates
<1>6. y \in OutStates /\ After(f.out[o], y)
  BY <1>1, <1>3, <1>4
<1> QED
  BY <1>5, <1>6, OutputAfter

(* A surface is scanned out.                                               *)
LEMMA ScanoutIs ==
  ASSUME NEW f \in FrameStates, EachOnce(f.idle), NEW o \in FrameOutputs, NEW needs \in BOOLEAN,
         NEW h, h = [CommitBuffer(f, o) EXCEPT !.out[o].needs = needs]
  PROVE  h \in FrameStates /\ Painted(f, h, o)
<1>1. PICK x \in OutStates : x = f.out[o]
  BY PartsTyped
<1>2. PICK c : c = CommitBuffer(f, o)
  OBVIOUS
<1>3. /\ c \in FrameStates /\ EachOnce(c.idle) /\ c.surf = f.surf
      /\ c.out[o] = CommittedOf(f.out[o]) /\ \A p \in FrameOutputs : p # o => c.out[p] = f.out[p]
      /\ ToSet(c.idle) = ToSet(f.idle) \ {<<"frame", o>>}
  BY <1>2, CommitIs, SMTT(30)
<1>4. PICK y : y = [CommittedOf(x) EXCEPT !.needs = needs]
  OBVIOUS
<1>5. /\ y \in OutStates /\ y.present = x.present /\ y.on = x.on /\ y.instances = x.instances
      /\ y.pending = TRUE /\ y.flip = "new" /\ y.timer = x.timer
  BY <1>4 DEF CommittedOf, OutStates
<1>6. After(x, y)
  BY <1>5 DEF After
<1>7. PICK k : k = WithOut(c, o, y)
  OBVIOUS
<1>8. /\ k \in FrameStates /\ k.surf = c.surf /\ k.idle = c.idle
      /\ k.out[o] = y /\ \A p \in FrameOutputs : p # o => k.out[p] = c.out[p]
  <2>1. c \in FrameStates /\ y \in OutStates
    BY <1>3, <1>5
  <2> QED
    BY <1>7, <2>1, OutChanged
<1>9. h = k
  <2>1. h = [c EXCEPT !.out[o].needs = needs] /\ c.out[o] = CommittedOf(x)
    BY <1>1, <1>2, <1>3
  <2> QED
    BY <1>3, <1>4, <1>7, <2>1 DEF WithOut, FrameStates
<1> QED
  BY <1>1, <1>3, <1>6, <1>8, <1>9 DEF Painted

(* What paint() does.                                                      *)
LEMMA PaintIs ==
  ASSUME NEW f \in FrameStates, EachOnce(f.idle), NEW o \in FrameOutputs, NEW wanted,
         NEW h, h = Paint(f, o, wanted)
  PROVE  h \in FrameStates /\ Painted(f, h, o)
<1>1. PICK x \in OutStates : x = f.out[o]
  BY PartsTyped
<1>2. PICK c : c = CommitBuffer(f, o)
  OBVIOUS
<1>3. /\ c \in FrameStates /\ EachOnce(c.idle) /\ c.surf = f.surf
      /\ c.out[o] = CommittedOf(f.out[o]) /\ \A p \in FrameOutputs : p # o => c.out[p] = f.out[p]
      /\ ToSet(c.idle) = ToSet(f.idle) \ {<<"frame", o>>}
  BY <1>2, CommitIs, SMTT(30)
<1>4. PICK z \in OutStates : z = CommittedOf(x)
  BY DEF OutStates, CommittedOf
<1>5. /\ z.present = x.present /\ z.on = x.on /\ z.instances = x.instances
      /\ z.pending /\ z.flip = "new" /\ z.timer = x.timer
  BY <1>4 DEF CommittedOf, OutStates
<1>6. CASE wanted = "scanout" /\ x.connected # {}
  <2>1. h = [CommitBuffer(f, o) EXCEPT !.out[o].needs = x.needs] /\ x.needs \in BOOLEAN
    BY <1>1, <1>6 DEF Paint, OutStates
  <2> QED
    BY <2>1, ScanoutIs
<1>7. CASE ~(wanted = "scanout" /\ x.connected # {}) /\ ~x.needs /\ x.redraw = 0
  <2>1. h = f
    BY <1>1, <1>7 DEF Paint
  <2> QED
    BY <1>1, <1>7, <2>1 DEF Painted, After
<1>8. CASE ~(wanted = "scanout" /\ x.connected # {}) /\ ~(~x.needs /\ x.redraw = 0) /\ wanted = "failure"
  <2>1. h = [f EXCEPT !.out[o].failed = TRUE]
    BY <1>1, <1>8 DEF Paint
  <2> QED
    BY <2>1, FailureIs
<1>9. CASE ~(wanted = "scanout" /\ x.connected # {}) /\ ~(~x.needs /\ x.redraw = 0) /\ wanted # "failure"
  <2>1. h = PostPaint(c, o)
    BY <1>1, <1>2, <1>9 DEF Paint
  <2>2. c.out[o] = z
    BY <1>1, <1>3, <1>4
  <2>3. CASE c.out[o].redraw > 0
    <3>1. h = ScheduleRepaint(c, o)
      BY <2>1, <2>3 DEF PostPaint
    <3>2. /\ h \in FrameStates /\ EachOnce(h.idle) /\ h.surf = c.surf
          /\ h.out[o] = AskedOf(c.out[o]) /\ \A p \in FrameOutputs : p # o => h.out[p] = c.out[p]
          /\ ToSet(h.idle) = ToSet(c.idle) \cup (IF c.out[o].pending THEN {} ELSE {<<"frame", o>>})
      BY <1>3, <3>1, ScheduleIs
    <3>3. PICK y : y = AskedOf(z)
      OBVIOUS
    <3>4. After(x, y)
      BY <1>5, <3>3 DEF AskedOf, OutStates, After
    <3>5. h.out[o] = y /\ ToSet(h.idle) = ToSet(c.idle)
      BY <1>5, <2>2, <3>2, <3>3
    <3> QED
      BY <1>1, <1>3, <3>2, <3>4, <3>5 DEF Painted
  <2>4. CASE ~(c.out[o].redraw > 0)
    <3>1. h = c
      BY <2>1, <2>4 DEF PostPaint
    <3>2. After(x, z)
      BY <1>5 DEF After
    <3> QED
      BY <1>1, <1>3, <2>2, <3>1, <3>2 DEF Painted
  <2> QED
    BY <2>3, <2>4
<1> QED
  BY <1>6, <1>7, <1>8, <1>9

(* What a delay does.                                                      *)
LEMMA DelayedIs ==
  ASSUME NEW f \in FrameStates, EachOnce(f.idle), NEW o \in FrameOutputs, NEW h, h = Delayed(f, o)
  PROVE  h \in FrameStates /\ Painted(f, h, o)
<1>1. PICK x \in OutStates : x = f.out[o]
  BY PartsTyped
<1>2. PICK y : y = [x EXCEPT !.timer = TRUE, !.pending = TRUE]
  OBVIOUS
<1>3. y \in OutStates /\ After(x, y)
  BY <1>2 DEF OutStates, After
<1>4. h = WithOut(f, o, y)
  BY <1>1, <1>2 DEF Delayed, WithOut, FrameStates, OutStates
<1>5. y \in OutStates /\ After(f.out[o], y)
  BY <1>1, <1>3
<1> QED
  BY <1>4, <1>5, OutputAfter

(* Clients are told of a frame.                                            *)
LEMMA FrameDoneIs ==
  ASSUME NEW h \in FrameStates, NEW o \in FrameOutputs, NEW g, g = FrameDone(h, o)
  PROVE  /\ g \in FrameStates /\ g.out = h.out /\ g.idle = h.idle
         /\ \A s \in Surfaces : ToldOnly(h.surf[s], g.surf[s])
         /\ h.out[o].flip = "none" =>
              \A s \in Surfaces : s \in h.out[o].instances => ~(g.surf[s].callback /\ ~g.surf[s].missed)
<1>1. PICK x \in OutStates : x = h.out[o]
  BY PartsTyped
<1>2. h.surf \in [Surfaces -> SurfaceStates]
  BY PartsTyped
<1>3. PICK last \in BOOLEAN : last <=> x.flip = "none"
  OBVIOUS
<1>4. PICK all : all = [s \in Surfaces |->
        IF s \in x.connected THEN [h.surf[s] EXCEPT !.callback = FALSE, !.missed = FALSE]
        ELSE IF s \in x.instances /\ x.flip = "none"
             THEN [h.surf[s] EXCEPT !.missed = @ \/ h.surf[s].callback]
        ELSE h.surf[s]]
  OBVIOUS
<1>5. g = WithSurfaces(h, all)
  BY <1>1, <1>4 DEF FrameDone, WithSurfaces
<1>6. ASSUME NEW s \in Surfaces
      PROVE  /\ all[s] \in SurfaceStates /\ ToldOnly(h.surf[s], all[s])
             /\ last /\ s \in x.instances => ~(all[s].callback /\ ~all[s].missed)
  <2>1. PICK y \in SurfaceStates : y = h.surf[s]
    BY <1>2
  <2>2. PICK z : z = all[s]
    OBVIOUS
  <2>3. CASE s \in x.connected
    <3>1. z = [y EXCEPT !.callback = FALSE, !.missed = FALSE]
      BY <1>4, <2>1, <2>2, <2>3
    <3> QED
      BY <2>1, <2>2, <3>1 DEF SurfaceStates, ToldOnly
  <2>4. CASE s \notin x.connected /\ s \in x.instances /\ x.flip = "none"
    <3>1. z = [y EXCEPT !.missed = y.missed \/ y.callback]
      BY <1>4, <2>1, <2>2, <2>4
    <3>2. PICK b \in BOOLEAN : b = (y.missed \/ y.callback)
      OBVIOUS
    <3>3. z = [y EXCEPT !.missed = b]
      BY <3>1, <3>2
    <3>4. z \in SurfaceStates /\ z.callback = y.callback /\ z.missed = b /\ ToldOnly(y, z)
      BY <3>2, <3>3 DEF SurfaceStates, ToldOnly
    <3> QED
      BY <2>1, <2>2, <3>2, <3>4
  <2>5. CASE s \notin x.connected /\ ~(s \in x.instances /\ x.flip = "none")
    <3>1. z = y
      BY <1>4, <2>1, <2>2, <2>5
    <3> QED
      BY <1>3, <2>1, <2>2, <2>5, <3>1 DEF ToldOnly
  <2> QED
    BY <2>3, <2>4, <2>5
<1>7. all \in [Surfaces -> SurfaceStates]
  <2>1. all = [s \in Surfaces |-> all[s]]
    BY <1>4
  <2> QED
    BY <1>6, <2>1
<1>8. g \in FrameStates /\ g.out = h.out /\ g.surf = all /\ g.idle = h.idle
  BY <1>5, <1>7, SurfacesChanged
<1> QED
  BY <1>1, <1>3, <1>6, <1>8

(* What holds of an output after it has painted, or after a delay.         *)
LEMMA AfterKeeps ==
  ASSUME NEW x \in OutStates, NEW y \in OutStates, CanPaint(x), After(x, y)
  PROVE  /\ Drives(y, FALSE)
         /\ \A v, shown : Entered(x, v, shown) => Entered(y, v, shown)
         /\ \A waits : Awaited(x, waits) => Awaited(y, waits)
         /\ y.flip # "none" => \A waits : Awaited(y, waits)
<1>1. Drives(y, FALSE)
  BY DEF CanPaint, After, Drives, OutStates
<1>2. ASSUME NEW v, NEW shown, Entered(x, v, shown) PROVE Entered(y, v, shown)
  BY <1>2 DEF CanPaint, After, Entered, Works, OutStates
<1>3. ASSUME NEW waits, Awaited(x, waits) PROVE Awaited(y, waits)
  BY <1>3 DEF CanPaint, After, Awaited, Works, OutStates
<1> QED
  BY <1>1, <1>2, <1>3 DEF Awaited

(* The same in a state.                                                    *)
LEMMA PaintedKeeps ==
  ASSUME NEW f \in FrameStates, NEW h \in FrameStates, NEW o \in FrameOutputs, Painted(f, h, o), CanPaint(f.out[o]),
         EnteredOn(f, o)
  PROVE  /\ Drives(h.out[o], FALSE) /\ EnteredOn(h, o) /\ (AwaitedOn(f, o) => AwaitedOn(h, o))
         /\ h.out[o].flip # "none" => \A g \in FrameStates : g.out = h.out => AwaitedOn(g, o)
         /\ h.out[o].present /\ f.out[o].present /\ h.out[o].instances = f.out[o].instances
<1>1. PICK x \in OutStates, y \in OutStates : x = f.out[o] /\ y = h.out[o]
  BY PartsTyped
<1>2. CanPaint(x) /\ After(x, y) /\ h.surf = f.surf
  BY <1>1 DEF Painted
<1>3. /\ Drives(y, FALSE)
      /\ \A v, shown : Entered(x, v, shown) => Entered(y, v, shown)
      /\ \A waits : Awaited(x, waits) => Awaited(y, waits)
      /\ y.flip # "none" => \A waits : Awaited(y, waits)
  BY <1>2, AfterKeeps
<1>4. EnteredOn(h, o) /\ (AwaitedOn(f, o) => AwaitedOn(h, o))
  BY <1>1, <1>2, <1>3 DEF EnteredOn, AwaitedOn
<1>5. h.out[o].flip # "none" => \A g \in FrameStates : g.out = h.out => AwaitedOn(g, o)
  BY <1>1, <1>3 DEF AwaitedOn
<1>6. y.present /\ x.present /\ y.instances = x.instances
  BY <1>2 DEF After, CanPaint
<1> QED
  BY <1>1, <1>3, <1>4, <1>5, <1>6

Tended(f, g, o) ==
  /\ EachOnce(g.idle)
  /\ ToSet(g.idle) \subseteq ToSet(f.idle) /\ ToSet(f.idle) \subseteq ToSet(g.idle) \cup {<<"frame", o>>}

(* paint() on an output that owes what it should.                          *)
LEMMA PaintKeeps ==
  ASSUME NEW b \in FrameStates, NEW R, Served(b, R), NEW f \in FrameStates, EachOnce(f.idle),
         NEW o \in FrameOutputs, OnlyOn(b, f, o), CanPaint(f.out[o]), EnteredOn(f, o), AwaitedOn(f, o),
         NEW Q, CallsElse(R, Q, o), <<"frame", o>> \notin Q, NEW wanted, NEW g, g = Paint(f, o, wanted)
  PROVE  g \in FrameStates /\ Tended(f, g, o) /\ Served(g, Q)
<1>1. g \in FrameStates /\ Painted(f, g, o)
  BY PaintIs
<1>2. Drives(g.out[o], FALSE) /\ EnteredOn(g, o) /\ AwaitedOn(g, o) /\ g.out[o].instances = f.out[o].instances
      /\ g.out[o].present /\ f.out[o].present
  BY <1>1, PaintedKeeps
<1>3. OnlyOn(b, g, o)
  BY <1>1, <1>2 DEF OnlyOn, Painted
<1>4. Drives(g.out[o], <<"frame", o>> \in Q)
  BY <1>2 DEF Drives
<1>5. Served(g, Q)
  BY <1>1, <1>2, <1>3, <1>4, OneOutputKeeps
<1> QED
  BY <1>1, <1>5 DEF Tended, Painted

(* on_frame of an output: whoever waits for it is told of this frame or of *)
(* the one that is to come.                                                *)
LEMMA OnFrameKeeps ==
  ASSUME NEW b \in FrameStates, NEW R, Served(b, R), NEW f \in FrameStates, EachOnce(f.idle),
         NEW o \in FrameOutputs, OnlyOn(b, f, o), CanPaint(f.out[o]), EnteredOn(f, o),
         NEW Q, CallsElse(R, Q, o), <<"frame", o>> \notin Q, NEW wanted, NEW g, g = OnFrame(f, o, wanted)
  PROVE  g \in FrameStates /\ Tended(f, g, o) /\ Served(g, Q)
<1>1. PICK h : h \in FrameStates /\ Painted(f, h, o) /\ g = FrameDone(h, o)
  <2>1. PICK h : h = IF wanted = "delay" THEN Delayed(f, o) ELSE Paint(f, o, wanted)
    OBVIOUS
  <2>2. g = FrameDone(h, o)
    BY <2>1 DEF OnFrame
  <2>3. CASE wanted = "delay"
    <3>1. h = Delayed(f, o)
      BY <2>1, <2>3
    <3>2. h \in FrameStates /\ Painted(f, h, o)
      BY <3>1, DelayedIs
    <3> QED
      BY <2>2, <3>2
  <2>4. CASE wanted # "delay"
    <3>1. h = Paint(f, o, wanted)
      BY <2>1, <2>4
    <3>2. h \in FrameStates /\ Painted(f, h, o)
      BY <3>1, PaintIs
    <3> QED
      BY <2>2, <3>2
  <2> QED
    BY <2>3, <2>4
<1>2. /\ Drives(h.out[o], FALSE) /\ EnteredOn(h, o)
      /\ h.out[o].flip # "none" => \A k \in FrameStates : k.out = h.out => AwaitedOn(k, o)
      /\ h.out[o].present /\ f.out[o].present /\ h.out[o].instances = f.out[o].instances
  BY <1>1, PaintedKeeps
<1>3. /\ g \in FrameStates /\ g.out = h.out /\ g.idle = h.idle
      /\ \A s \in Surfaces : ToldOnly(h.surf[s], g.surf[s])
      /\ h.out[o].flip = "none" =>
           \A s \in Surfaces : s \in h.out[o].instances => ~(g.surf[s].callback /\ ~g.surf[s].missed)
  BY <1>1, FrameDoneIs
<1>4. OnlyOn(b, g, o)
  <2>1. \A s \in Surfaces : ToldOnly(b.surf[s], f.surf[s]) /\ f.surf[s] = h.surf[s] /\ ToldOnly(h.surf[s], g.surf[s])
    BY <1>1, <1>3 DEF OnlyOn, Painted
  <2>2. \A s \in Surfaces : ToldOnly(b.surf[s], g.surf[s])
    BY <2>1 DEF ToldOnly
  <2> QED
    BY <1>1, <1>2, <1>3, <2>2 DEF OnlyOn, Painted
<1>5. EnteredOn(g, o)
  <2>1. ASSUME NEW s \in Surfaces PROVE Entered(g.out[o], g.surf[s].visibility[o], IsGenerated(g.surf[s], o))
    <3>1. Entered(h.out[o], h.surf[s].visibility[o], IsGenerated(h.surf[s], o))
      BY <1>2 DEF EnteredOn
    <3>2. ToldOnly(h.surf[s], g.surf[s])
      BY <1>3
    <3>3. g.surf[s].visibility[o] = h.surf[s].visibility[o] /\ (IsGenerated(g.surf[s], o) <=> IsGenerated(h.surf[s], o))
      BY <3>2 DEF ToldOnly, IsGenerated
    <3> QED
      BY <1>3, <3>1, <3>3 DEF Entered
  <2> QED
    BY <2>1 DEF EnteredOn
<1>6. AwaitedOn(g, o)
  <2>1. CASE h.out[o].flip # "none"
    BY <1>2, <1>3, <2>1
  <2>2. CASE h.out[o].flip = "none"
    <3>1. ASSUME NEW s \in Surfaces PROVE ~WaitsFor(g.surf[s], o)
      <4>1. SUFFICES ASSUME WaitsFor(g.surf[s], o) PROVE FALSE
        OBVIOUS
      <4>2. ToldOnly(b.surf[s], g.surf[s]) /\ b.out[o].present
        BY <1>2, <1>4 DEF OnlyOn
      <4>3. b.surf[s].enabled /\ o \in b.surf[s].exposed
        BY <4>1, <4>2 DEF WaitsFor, ToldOnly
      <4>4. IsGenerated(b.surf[s], o)
        BY <4>3 DEF IsGenerated, Served, WithinHome
      <4>5. s \in b.out[o].instances
        BY <4>2, <4>4 DEF Served, SceneShown, ShownRight
      <4>6. s \in h.out[o].instances
        BY <1>3, <1>4, <4>5 DEF OnlyOn
      <4> QED
        BY <1>3, <2>2, <4>1, <4>6 DEF WaitsFor
    <3> QED
      BY <3>1 DEF AwaitedOn, Awaited
  <2> QED
    BY <2>1, <2>2
<1>7. Drives(g.out[o], <<"frame", o>> \in Q)
  BY <1>2, <1>3 DEF Drives
<1>8. Served(g, Q)
  BY <1>3, <1>4, <1>5, <1>6, <1>7, OneOutputKeeps
<1> QED
  BY <1>1, <1>3, <1>8 DEF Tended, Painted

(* update_pending_outputs() of a surface.                                  *)
LEMMA OutputsCallKeeps ==
  ASSUME NEW f \in FrameStates, NEW s \in Surfaces, NEW R, NEW Q, Served(f, R),
         \A d : d \in Q <=> d \in R /\ d # <<"outputs", s>>, NEW g, g = UpdateOutputs(f, s)
  PROVE  g \in FrameStates /\ g.idle = f.idle /\ Served(g, Q)
<1>1. PICK x \in SurfaceStates : x = f.surf[s]
  BY PartsTyped
<1>20. PICK none, seen : /\ none = [o \in FrameOutputs |-> 0]
                         /\ seen = [o \in FrameOutputs |-> IF x.visibility[o] + x.delta[o] < 0 THEN 0
                                                         ELSE x.visibility[o] + x.delta[o]]
  OBVIOUS
<1>2. PICK y : y = [x EXCEPT !.delta = none, !.visibility = seen]
  OBVIOUS
<1>3. /\ y \in SurfaceStates /\ y.home = x.home /\ y.enabled = x.enabled /\ y.exposed = x.exposed
      /\ y.callback = x.callback /\ y.missed = x.missed
      /\ \A o \in FrameOutputs :
           /\ y.delta[o] = 0 /\ x.visibility[o] \in Int /\ x.delta[o] \in Int
           /\ y.visibility[o] = IF x.visibility[o] + x.delta[o] < 0 THEN 0 ELSE x.visibility[o] + x.delta[o]
  <2>1. ASSUME NEW o \in FrameOutputs
        PROVE  /\ none[o] = 0 /\ x.visibility[o] \in Int /\ x.delta[o] \in Int /\ none[o] \in Int /\ seen[o] \in Int
               /\ seen[o] = IF x.visibility[o] + x.delta[o] < 0 THEN 0 ELSE x.visibility[o] + x.delta[o]
    <3>1. x.visibility[o] \in Int /\ x.delta[o] \in Int
      BY DEF SurfaceStates
    <3> QED
      BY <1>20, <3>1
  <2>2. none \in [FrameOutputs -> Int] /\ seen \in [FrameOutputs -> Int]
    BY <1>20, <2>1
  <2>3. /\ y \in SurfaceStates /\ y.home = x.home /\ y.enabled = x.enabled /\ y.exposed = x.exposed
        /\ y.callback = x.callback /\ y.missed = x.missed /\ y.delta = none /\ y.visibility = seen
    BY <1>2, <2>2 DEF SurfaceStates
  <2> QED
    BY <2>1, <2>3
<1>4. g = WithSurf(f, s, y)
  BY <1>1, <1>2, <1>20 DEF UpdateOutputs, WithSurf, FrameStates, SurfaceStates
<1>5. /\ g \in FrameStates /\ g.out = f.out /\ g.idle = f.idle
      /\ g.surf[s] = y /\ \A t \in Surfaces : t # s => g.surf[t] = f.surf[t]
  <2>1. y \in SurfaceStates
    BY <1>3
  <2> QED
    BY <1>4, <2>1, SurfaceChanged
<1>6. OutputsDrive(f, R) /\ SurfacesCount(f, R) /\ OutputsOwe(f) /\ SceneShown(f) /\ WithinHome(f)
  BY DEF Served
<1>7. OutputsDrive(g, Q)
  <2>1. ASSUME NEW o \in FrameOutputs PROVE <<"frame", o>> \in Q <=> <<"frame", o>> \in R
    BY CallsAre
  <2> QED
    BY <1>5, <1>6, <2>1 DEF OutputsDrive, Drives
<1>8. ASSUME NEW o \in FrameOutputs
      PROVE  /\ Counts(f.out[o], x.visibility[o], x.delta[o], s \in f.out[o].instances, <<"outputs", s>> \in R)
             /\ x.visibility[o] \in Int /\ x.delta[o] \in Int
             /\ y.delta[o] = 0 /\ y.visibility[o] = IF x.visibility[o] + x.delta[o] < 0 THEN 0 ELSE x.visibility[o] + x.delta[o]
  BY <1>1, <1>3, <1>6 DEF SurfacesCount, CountsOn
<1>9. ASSUME NEW o \in FrameOutputs
      PROVE  /\ f.out[o].present => y.visibility[o] = (IF s \in f.out[o].instances THEN 1 ELSE 0)
             /\ ~f.out[o].present => y.visibility[o] = 0
  BY <1>8 DEF Counts
<1>10. ASSUME NEW o \in FrameOutputs, NEW t \in Surfaces
       PROVE  Counts(g.out[o], g.surf[t].visibility[o], g.surf[t].delta[o], t \in g.out[o].instances,
                     <<"outputs", t>> \in Q)
  <2>1. CASE t = s
    <3>1. Counts(f.out[o], y.visibility[o], y.delta[o], s \in f.out[o].instances, <<"outputs", s>> \in Q)
      BY <1>8, <1>9 DEF Counts
    <3> QED
      BY <1>5, <2>1, <3>1
  <2>2. CASE t # s
    <3>1. <<"outputs", t>> \in Q <=> <<"outputs", t>> \in R
      BY <2>2, CallsAre
    <3>2. Counts(f.out[o], f.surf[t].visibility[o], f.surf[t].delta[o], t \in f.out[o].instances, <<"outputs", t>> \in R)
      BY <1>6 DEF SurfacesCount, CountsOn
    <3> QED
      BY <1>5, <2>2, <3>1, <3>2 DEF Counts
  <2> QED
    BY <2>1, <2>2
<1>11. \A o \in FrameOutputs, t \in Surfaces :
         /\ IsGenerated(g.surf[t], o) <=> IsGenerated(f.surf[t], o)
         /\ WaitsFor(g.surf[t], o) <=> WaitsFor(f.surf[t], o)
  BY <1>1, <1>3, <1>5 DEF IsGenerated, WaitsFor
<1>12. SceneShown(g)
  BY <1>5, <1>6, <1>11 DEF SceneShown, ShownRight
<1>13. WithinHome(g)
  BY <1>1, <1>3, <1>5, <1>6 DEF WithinHome
<1>14. ASSUME NEW o \in FrameOutputs, NEW t \in Surfaces
       PROVE  /\ Entered(g.out[o], g.surf[t].visibility[o], IsGenerated(g.surf[t], o))
              /\ Awaited(g.out[o], WaitsFor(g.surf[t], o))
  <2>1. Entered(f.out[o], f.surf[t].visibility[o], IsGenerated(f.surf[t], o)) /\ Awaited(f.out[o], WaitsFor(f.surf[t], o))
    BY <1>6 DEF OutputsOwe, EnteredOn, AwaitedOn
  <2>2. Awaited(g.out[o], WaitsFor(g.surf[t], o))
    BY <1>5, <1>11, <2>1 DEF Awaited
  <2>3. CASE t = s
    <3>1. f.out[o].present /\ IsGenerated(g.surf[s], o) => s \in f.out[o].instances
      BY <1>6, <1>11 DEF SceneShown, ShownRight
    <3>2. f.out[o].present /\ IsGenerated(g.surf[s], o) => g.surf[s].visibility[o] # 0
      BY <1>5, <1>9, <3>1
    <3> QED
      BY <1>5, <2>2, <2>3, <3>2 DEF Entered, Works
  <2>4. CASE t # s
    BY <1>5, <1>11, <2>1, <2>2, <2>4 DEF Entered
  <2> QED
    BY <2>3, <2>4
<1> QED
  BY <1>5, <1>7, <1>10, <1>12, <1>13, <1>14
     DEF Served, SurfacesCount, CountsOn, OutputsOwe, EnteredOn, AwaitedOn

(* compute_visibility() on an output.                                      *)
LEMMA VisibleCallKeeps ==
  ASSUME NEW f \in FrameStates, NEW o \in FrameOutputs, NEW R, NEW Q, Served(f, R),
         \A d : d \in Q <=> d \in R /\ d # <<"visible", o>>, NEW g, g = ComputeVisibility(f, o)
  PROVE  g \in FrameStates /\ g.idle = f.idle /\ Served(g, Q)
<1>1. PICK x \in OutStates : x = f.out[o]
  BY PartsTyped
<1>2. PICK seen \in SUBSET Surfaces : seen = {s \in x.instances : o \in f.surf[s].exposed}
  BY DEF OutStates
<1>3. PICK y : y = [x EXCEPT !.connected = seen]
  OBVIOUS
<1>4. /\ y \in OutStates /\ y.present = x.present /\ y.on = x.on /\ y.pending = x.pending /\ y.flip = x.flip
      /\ y.timer = x.timer /\ y.needs = x.needs /\ y.redraw = x.redraw /\ y.instances = x.instances
      /\ y.failed = x.failed
  BY <1>2, <1>3 DEF OutStates
<1>5. g = WithOut(f, o, y)
  BY <1>1, <1>2, <1>3 DEF ComputeVisibility, WithOut, FrameStates
<1>6. /\ g \in FrameStates /\ g.surf = f.surf /\ g.idle = f.idle
      /\ g.out[o] = y /\ \A p \in FrameOutputs : p # o => g.out[p] = f.out[p]
  <2>1. y \in OutStates
    BY <1>4
  <2> QED
    BY <1>5, <2>1, OutChanged
<1>7. OnlyOn(f, g, o)
  BY <1>1, <1>4, <1>6 DEF OnlyOn, ToldOnly
<1>8. CallsElse(R, Q, o) /\ (<<"frame", o>> \in Q <=> <<"frame", o>> \in R)
  BY CallsAre DEF CallsElse
<1>9. Drives(x, <<"frame", o>> \in R) /\ EnteredOn(f, o) /\ AwaitedOn(f, o)
  BY <1>1 DEF Served, OutputsDrive, OutputsOwe
<1>10. Drives(g.out[o], <<"frame", o>> \in Q)
  BY <1>4, <1>6, <1>8, <1>9 DEF Drives
<1>11. EnteredOn(g, o) /\ AwaitedOn(g, o)
  BY <1>1, <1>4, <1>6, <1>9 DEF EnteredOn, AwaitedOn, Entered, Awaited, Works
<1>12. Served(g, Q)
  BY <1>6, <1>7, <1>8, <1>10, <1>11, OneOutputKeeps
<1> QED
  BY <1>6, <1>12

(* A sequence with nothing in it.                                          *)
LEMMA NothingCalled ==
  /\ <<>> \in Seq(Calls) /\ EachOnce(<<>>) /\ ToSet(<<>>) = {}
  /\ \A q \in Seq(Calls) : ToSet(q) \subseteq {} => q = <<>>
<1>1. ASSUME NEW q \in Seq(Calls), ToSet(q) \subseteq {} PROVE q = <<>>
  <2>1. Len(q) = 0
    <3>1. SUFFICES ASSUME Len(q) # 0 PROVE FALSE
      OBVIOUS
    <3>2. 1 \in DOMAIN q
      BY <3>1
    <3>3. q[1] \in ToSet(q)
      BY <3>2 DEF ToSet
    <3> QED
      BY <1>1, <3>3
  <2> QED
    BY <2>1
<1>2. EachOnce(<<>>) /\ ToSet(<<>>) = {}
  BY DEF EachOnce, ToSet
<1> QED
  BY <1>1, <1>2

(* The frame of an output that has registered one.                         *)
LEMMA FrameCallKeeps ==
  ASSUME NEW f \in FrameStates, NEW o \in FrameOutputs, NEW R, NEW Q, Served(f, R), f.idle = <<>>, <<"frame", o>> \in R,
         \A d : d \in Q <=> d \in R /\ d # <<"frame", o>>, NEW wanted,
         NEW g, g = IF f.out[o].on THEN OnFrame(f, o, wanted) ELSE f
  PROVE  g \in FrameStates /\ g.idle = <<>> /\ Served(g, Q)
<1>1. PICK x \in OutStates : x = f.out[o]
  BY PartsTyped
<1>2. Drives(x, TRUE) /\ EnteredOn(f, o) /\ AwaitedOn(f, o)
  <2>1. Drives(x, <<"frame", o>> \in R)
    BY <1>1 DEF Served, OutputsDrive
  <2> QED
    BY <2>1 DEF Drives, Served, OutputsOwe
<1>3. CallsElse(R, Q, o) /\ <<"frame", o>> \notin Q
  BY CallsAre DEF CallsElse
<1>4. OnlyOn(f, f, o)
  BY DEF OnlyOn, ToldOnly
<1>5. CASE x.on
  <2>1. CanPaint(f.out[o])
    BY <1>1, <1>2, <1>5 DEF Drives, CanPaint, OutStates
  <2>2. g = OnFrame(f, o, wanted)
    BY <1>1, <1>5
  <2>3. EachOnce(f.idle)
    BY NothingCalled
  <2>4. g \in FrameStates /\ Tended(f, g, o) /\ Served(g, Q)
    BY <1>2, <1>3, <1>4, <2>1, <2>2, <2>3, OnFrameKeeps
  <2>5. g.idle = <<>>
    <3>1. g.idle \in Seq(Calls)
      BY <2>4, PartsTyped
    <3>2. ToSet(g.idle) \subseteq {}
      BY <2>4, NothingCalled DEF Tended
    <3> QED
      BY <3>1, <3>2, NothingCalled
  <2> QED
    BY <2>4, <2>5
<1>6. CASE ~x.on
  <2>1. g = f
    BY <1>1, <1>6
  <2>2. Drives(f.out[o], <<"frame", o>> \in Q)
    BY <1>1, <1>2, <1>3, <1>6 DEF Drives
  <2>3. Served(f, Q)
    BY <1>2, <1>3, <1>4, <2>2, OneOutputKeeps
  <2> QED
    BY <2>1, <2>3
<1> QED
  BY <1>5, <1>6

(* Any of the callbacks.                                                   *)
LEMMA CallKeeps ==
  ASSUME NEW f \in FrameStates, NEW c \in Calls, NEW R, NEW Q, Served(f, R), f.idle = <<>>, c \in R,
         \A d : d \in Q <=> d \in R /\ d # c, NEW wanted, NEW g, g = Call(f, c, wanted)
  PROVE  g \in FrameStates /\ g.idle = <<>> /\ Served(g, Q)
<1>1. ASSUME NEW s \in Surfaces, c = <<"outputs", s>> PROVE g \in FrameStates /\ g.idle = <<>> /\ Served(g, Q)
  <2>1. g = UpdateOutputs(f, s)
    BY <1>1 DEF Call
  <2> QED
    BY <1>1, <2>1, OutputsCallKeeps
<1>2. ASSUME NEW o \in FrameOutputs, c = <<"visible", o>> PROVE g \in FrameStates /\ g.idle = <<>> /\ Served(g, Q)
  <2>1. g = ComputeVisibility(f, o)
    BY <1>2 DEF Call
  <2> QED
    BY <1>2, <2>1, VisibleCallKeeps
<1>3. ASSUME NEW o \in FrameOutputs, c = <<"frame", o>> PROVE g \in FrameStates /\ g.idle = <<>> /\ Served(g, Q)
  <2>1. g = IF f.out[o].on THEN OnFrame(f, o, wanted[o]) ELSE f
    BY <1>3 DEF Call
  <2>2. PICK w : w = wanted[o]
    OBVIOUS
  <2>3. g = IF f.out[o].on THEN OnFrame(f, o, w) ELSE f
    BY <2>1, <2>2
  <2> QED
    BY <1>3, <2>3, FrameCallKeeps
<1> QED
  BY <1>1, <1>2, <1>3 DEF Calls

(* What is still to be called after some rounds.                           *)
Uncalled(q, i) == {q[j] : j \in (i + 1)..Len(q)}

(* The callbacks are called in their order.                                *)
Called(f, p, wanted) == Folded(LAMBDA r, call : Call(r, call, wanted), f, p)

(* All of the callbacks that were registered are called, and no others.    *)
LEMMA CallsKeep ==
  ASSUME NEW f \in FrameStates, f.idle = <<>>, NEW p \in Seq(Calls), EachOnce(p), Served(f, ToSet(p)), NEW wanted,
         NEW g, g = Called(f, p, wanted)
  PROVE  g \in FrameStates /\ g.idle = <<>> /\ Served(g, {})
<1> DEFINE Onward(r, x) == Call(r, x, wanted)
           Loop(up, q) == up = [i \in 0..Len(q) |-> IF i = 0 THEN f ELSE Onward(up[i - 1], q[i])]
<1>1. PICK q \in Seq(Calls) : q = p /\ EachOnce(q)
  OBVIOUS
<1>2. PICK n \in Nat : n = Len(q)
  BY <1>1
<1>3. PICK T : T = [i \in 0..n |-> {r \in FrameStates : r.idle = <<>> /\ Served(r, Uncalled(q, i))}]
  OBVIOUS
<1>4. \A i \in 0..n : T[i] = {r \in FrameStates : r.idle = <<>> /\ Served(r, Uncalled(q, i))}
  BY <1>3
<1>5. f \in T[0]
  <2>1. PICK all : all = Uncalled(q, 0)
    OBVIOUS
  <2>2. all = ToSet(q)
    <3>1. 0 + 1 = 1 /\ DOMAIN q = 1..Len(q)
      BY <1>1
    <3> QED
      BY <2>1, <3>1 DEF Uncalled, ToSet
  <2>3. Served(f, all)
    BY <1>1, <2>2
  <2> QED
    BY <1>2, <1>4, <2>1, <2>3
<1>6. ASSUME NEW i \in 1..n, NEW r \in T[i - 1] PROVE Onward(r, q[i]) \in T[i]
  <2>1. i - 1 \in 0..n /\ i \in 0..n /\ i \in 1..Len(q)
    BY <1>2
  <2>2. r \in FrameStates /\ r.idle = <<>> /\ Served(r, Uncalled(q, i - 1))
    BY <1>4, <1>6, <2>1
  <2>3. PICK u : u = Onward(r, q[i])
    OBVIOUS
  <2>4. u \in FrameStates /\ u.idle = <<>> /\ Served(u, Uncalled(q, i))
    <3>1. PICK R, Q : R = Uncalled(q, i - 1) /\ Q = Uncalled(q, i)
      OBVIOUS
    <3>2. q[i] \in Calls /\ q[i] \in R
      BY <2>1, <3>1 DEF Uncalled
    <3>3. ASSUME NEW d PROVE d \in Q <=> d \in R /\ d # q[i]
      <4>1. \A j \in (i + 1)..Len(q) : q[j] # q[i] /\ j \in ((i - 1) + 1)..Len(q)
        BY <1>1, <2>1 DEF EachOnce
      <4>2. \A j \in ((i - 1) + 1)..Len(q) : q[j] # q[i] => j \in (i + 1)..Len(q)
        BY <2>1
      <4> QED
        BY <3>1, <4>1, <4>2 DEF Uncalled
    <3>4. Served(r, R) /\ r.idle = <<>>
      BY <2>2, <3>1
    <3>5. PICK c : c = q[i]
      OBVIOUS
    <3>6. c \in Calls /\ c \in R /\ u = Call(r, c, wanted) /\ \A d : d \in Q <=> d \in R /\ d # c
      BY <2>3, <3>2, <3>3, <3>5
    <3>7. u \in FrameStates /\ u.idle = <<>> /\ Served(u, Q)
      BY <2>2, <3>4, <3>6, CallKeeps
    <3> QED
      BY <3>1, <3>7
  <2> QED
    BY <1>4, <2>1, <2>3, <2>4
<1> HIDE DEF Onward
<1>7. PICK step : step = [turn \in FrameStates \X (1..n) |-> Onward(turn[1], q[turn[2]])]
  OBVIOUS
<1>8. \A r \in FrameStates, i \in 1..n : step[<<r, i>>] = Onward(r, q[i])
  BY <1>7
<1>9. PICK h : Rounds(h, f, step, n) /\ \A i \in 0..n : h[i] \in T[i]
  <2>1. ASSUME NEW i \in 1..n, NEW r \in T[i - 1] PROVE step[<<r, i>>] \in T[i]
    <3>1. i - 1 \in 0..n
      OBVIOUS
    <3>2. r \in FrameStates
      BY <1>4, <2>1, <3>1
    <3> QED
      BY <1>6, <1>8, <2>1, <3>2
  <2> QED
    BY <1>5, <2>1, LoopRuns
<1>10. Loop(h, q)
  <2>1. PICK k : k = [i \in 0..n |-> IF i = 0 THEN f ELSE Onward(h[i - 1], q[i])]
    OBVIOUS
  <2>2. h = [i \in 0..n |-> IF i = 0 THEN f ELSE step[<<h[i - 1], i>>]]
    BY <1>9 DEF Rounds
  <2>3. ASSUME NEW i \in 0..n PROVE k[i] = h[i]
    <3>1. CASE i = 0
      BY <2>1, <2>2, <3>1
    <3>2. CASE i # 0
      <4>1. i \in 1..n /\ i - 1 \in 0..n
        BY <3>2
      <4>2. h[i - 1] \in FrameStates
        BY <1>4, <1>9, <4>1
      <4> QED
        BY <1>8, <2>1, <2>2, <3>2, <4>1, <4>2
    <3> QED
      BY <3>1, <3>2
  <2>4. h = k
    BY <2>1, <2>2, <2>3
  <2> QED
    BY <1>2, <2>1, <2>4
<1>11. PICK e : Loop(e, q) /\ e = CHOOSE x : Loop(x, q)
  BY <1>10
<1>12. g = e[Len(q)]
  <2>1. e = CHOOSE x : Loop(x, q)
    BY <1>11
  <2> QED
    BY <1>1, <2>1, Zenon DEF Called, Folded, Onward
<1>13. e[0] = f /\ \A i \in 1..n : e[i] = Onward(e[i - 1], q[i])
  BY <1>2, <1>11
<1>14. \A i \in 0..n : e[i] \in T[i]
  <2>1. e[0] \in T[0]
    BY <1>5, <1>13
  <2>2. ASSUME NEW i \in 1..n, e[i - 1] \in T[i - 1] PROVE e[i] \in T[i]
    BY <1>6, <1>13, <2>2
  <2> QED
    BY <2>1, <2>2, LoopKeeps
<1>15. g \in FrameStates /\ g.idle = <<>> /\ Served(g, Uncalled(q, n))
  BY <1>2, <1>4, <1>12, <1>14
<1>16. Uncalled(q, n) = {}
  BY <1>2 DEF Uncalled
<1> QED
  BY <1>15, <1>16

FlippedOf(x) == [x EXCEPT !.flip = IF x.flip = "new" THEN "ready" ELSE x.flip]

(* What was committed will be flipped.                                     *)
LEMMA FlippedIs ==
  ASSUME NEW f \in FrameStates, NEW all, all = [o \in FrameOutputs |-> FlippedOf(f.out[o])],
         Served(f, {}), NEW g, g = [f EXCEPT !.out = all]
  PROVE  g \in FrameStates /\ g.idle = f.idle /\ Served(g, {})
<1>1. ASSUME NEW o \in FrameOutputs, NEW x, x = f.out[o], NEW y, y = all[o]
      PROVE  /\ y \in OutStates /\ y.present = x.present /\ y.on = x.on /\ y.pending = x.pending
             /\ y.timer = x.timer /\ y.needs = x.needs /\ y.redraw = x.redraw /\ y.instances = x.instances
             /\ y.failed = x.failed /\ (y.flip = "none" <=> x.flip = "none")
  <2>1. x \in OutStates
    BY <1>1, PartsTyped
  <2>2. y = FlippedOf(x)
    BY <1>1
  <2> QED
    BY <2>1, <2>2 DEF FlippedOf, OutStates
<1>2. g \in FrameStates /\ g.out = all /\ g.surf = f.surf /\ g.idle = f.idle
  <2>1. all \in [FrameOutputs -> OutStates]
    BY <1>1
  <2> QED
    BY <2>1 DEF FrameStates
<1>3. OutputsDrive(f, {}) /\ SurfacesCount(f, {}) /\ OutputsOwe(f) /\ SceneShown(f) /\ WithinHome(f)
  BY DEF Served
<1>4. OutputsDrive(g, {})
  BY <1>1, <1>2, <1>3 DEF OutputsDrive, Drives
<1>5. SurfacesCount(g, {})
  BY <1>1, <1>2, <1>3 DEF SurfacesCount, CountsOn, Counts
<1>6. SceneShown(g) /\ WithinHome(g)
  BY <1>1, <1>2, <1>3 DEF SceneShown, ShownRight, WithinHome
<1>7. ASSUME NEW o \in FrameOutputs, NEW s \in Surfaces
      PROVE  /\ Entered(g.out[o], g.surf[s].visibility[o], IsGenerated(g.surf[s], o))
             /\ Awaited(g.out[o], WaitsFor(g.surf[s], o))
  <2>1. Awaited(f.out[o], WaitsFor(f.surf[s], o))
    BY <1>3 DEF OutputsOwe, AwaitedOn
  <2>2. Awaited(g.out[o], WaitsFor(g.surf[s], o))
    BY <1>1, <1>2, <2>1 DEF Awaited, Works
  <2>3. PICK v \in Int, d \in Int : v = f.surf[s].visibility[o] /\ d = f.surf[s].delta[o]
    BY CountsTyped
  <2>4. Counts(f.out[o], v, d, s \in f.out[o].instances, FALSE)
    BY <1>3, <2>3 DEF SurfacesCount, CountsOn, Counts
  <2>5. f.out[o].present /\ s \in f.out[o].instances => v = 1
    BY <2>3, <2>4 DEF Counts
  <2>6. f.out[o].present /\ IsGenerated(f.surf[s], o) => s \in f.out[o].instances
    BY <1>3 DEF SceneShown, ShownRight
  <2> QED
    BY <1>1, <1>2, <2>2, <2>3, <2>5, <2>6 DEF Entered, Works
<1> QED
  BY <1>2, <1>4, <1>5, <1>6, <1>7 DEF Served, OutputsOwe, EnteredOn, AwaitedOn

(* The parts of what is right.                                             *)
LEMMA RightIs ==
  ASSUME NEW b, Right(b)
  PROVE  /\ b \in FrameStates /\ EachOnce(b.idle) /\ Served(b, ToSet(b.idle))
         /\ OutputsDrive(b, ToSet(b.idle)) /\ SurfacesCount(b, ToSet(b.idle)) /\ OutputsOwe(b)
         /\ SceneShown(b) /\ WithinHome(b)
         /\ \A o \in FrameOutputs :
              Drives(b.out[o], Framed(b, o)) /\ CountsOn(b, ToSet(b.idle), o) /\ EnteredOn(b, o) /\ AwaitedOn(b, o)
BY DEF Right, Served, OutputsDrive, OutputsOwe, SurfacesCount, Framed

FlipDoneOf(x) == [x EXCEPT !.flip = "none", !.pending = FALSE]
TimerDoneOf(x) == [x EXCEPT !.timer = FALSE, !.pending = FALSE]

(* A page flip.                                                            *)
LEMMA FlipKeeps ==
  ASSUME NEW b, Right(b), NEW o \in FrameOutputs, b.out[o].flip = "ready",
         NEW f, f = WithOut(b, o, FlipDoneOf(b.out[o])), NEW wanted, NEW g, g = OnFrame(f, o, wanted)
  PROVE  Right(g)
<1>1. /\ b \in FrameStates /\ EachOnce(b.idle) /\ Served(b, ToSet(b.idle))
      /\ Drives(b.out[o], Framed(b, o)) /\ EnteredOn(b, o)
  BY RightIs
<1>2. PICK x \in OutStates : x = b.out[o]
  BY <1>1, PartsTyped
<1>3. PICK y : y = FlipDoneOf(x)
  OBVIOUS
<1>4. /\ y \in OutStates /\ y.flip = "none" /\ y.pending = FALSE /\ y.present = x.present /\ y.on = x.on
      /\ y.timer = x.timer /\ y.needs = x.needs /\ y.redraw = x.redraw /\ y.instances = x.instances
      /\ y.failed = x.failed
  BY <1>3 DEF FlipDoneOf, OutStates
<1>5. /\ f \in FrameStates /\ f.surf = b.surf /\ f.idle = b.idle
      /\ f.out[o] = y /\ \A p \in FrameOutputs : p # o => f.out[p] = b.out[p]
  <2>1. y \in OutStates /\ f = WithOut(b, o, y)
    BY <1>2, <1>3, <1>4
  <2> QED
    BY <1>1, <2>1, OutChanged
<1>6. ~Framed(b, o) /\ CanPaint(f.out[o])
  BY <1>1, <1>2, <1>4, <1>5 DEF Drives, CanPaint, OutStates
<1>7. EnteredOn(f, o)
  BY <1>1, <1>2, <1>4, <1>5 DEF EnteredOn, Entered, Works
<1>8. OnlyOn(b, f, o)
  BY <1>2, <1>4, <1>5 DEF OnlyOn, ToldOnly
<1>9. PICK R : R = ToSet(b.idle)
  OBVIOUS
<1>10. CallsElse(R, R, o) /\ <<"frame", o>> \notin R /\ Served(b, R) /\ EachOnce(f.idle)
  BY <1>1, <1>5, <1>6, <1>9 DEF CallsElse, Framed
<1>11. g \in FrameStates /\ Tended(f, g, o) /\ Served(g, R)
  BY <1>1, <1>5, <1>6, <1>7, <1>8, <1>10, OnFrameKeeps
<1>12. ToSet(g.idle) = R
  BY <1>5, <1>9, <1>10, <1>11 DEF Tended
<1> QED
  BY <1>11, <1>12 DEF Right, Tended

(* The timer of a delayed repaint.                                         *)
LEMMA TimerKeeps ==
  ASSUME NEW b, Right(b), NEW o \in FrameOutputs, b.out[o].timer,
         NEW f, f = WithOut(b, o, TimerDoneOf(b.out[o])), NEW wanted, NEW g, g = Paint(f, o, wanted)
  PROVE  Right(g)
<1>1. /\ b \in FrameStates /\ EachOnce(b.idle) /\ Served(b, ToSet(b.idle))
      /\ Drives(b.out[o], Framed(b, o)) /\ EnteredOn(b, o) /\ AwaitedOn(b, o)
  BY RightIs
<1>2. PICK x \in OutStates : x = b.out[o]
  BY <1>1, PartsTyped
<1>3. PICK y : y = TimerDoneOf(x)
  OBVIOUS
<1>4. /\ y \in OutStates /\ y.flip = x.flip /\ y.pending = FALSE /\ y.present = x.present /\ y.on = x.on
      /\ y.timer = FALSE /\ y.needs = x.needs /\ y.redraw = x.redraw /\ y.instances = x.instances
      /\ y.failed = x.failed
  BY <1>3 DEF TimerDoneOf, OutStates
<1>5. /\ f \in FrameStates /\ f.surf = b.surf /\ f.idle = b.idle
      /\ f.out[o] = y /\ \A p \in FrameOutputs : p # o => f.out[p] = b.out[p]
  <2>1. y \in OutStates /\ f = WithOut(b, o, y)
    BY <1>2, <1>3, <1>4
  <2> QED
    BY <1>1, <2>1, OutChanged
<1>6. ~Framed(b, o) /\ CanPaint(f.out[o])
  BY <1>1, <1>2, <1>4, <1>5 DEF Drives, CanPaint, OutStates
<1>7. EnteredOn(f, o) /\ AwaitedOn(f, o)
  BY <1>1, <1>2, <1>4, <1>5 DEF EnteredOn, Entered, AwaitedOn, Awaited, Works
<1>8. OnlyOn(b, f, o)
  BY <1>2, <1>4, <1>5 DEF OnlyOn, ToldOnly
<1>9. PICK R : R = ToSet(b.idle)
  OBVIOUS
<1>10. CallsElse(R, R, o) /\ <<"frame", o>> \notin R /\ Served(b, R) /\ EachOnce(f.idle)
  BY <1>1, <1>5, <1>6, <1>9 DEF CallsElse, Framed
<1>11. g \in FrameStates /\ Tended(f, g, o) /\ Served(g, R)
  BY <1>1, <1>5, <1>6, <1>7, <1>8, <1>10, PaintKeeps
<1>12. ToSet(g.idle) = R
  BY <1>5, <1>9, <1>10, <1>11 DEF Tended
<1> QED
  BY <1>11, <1>12 DEF Right, Tended

OffOf(x) == [x EXCEPT !.on = FALSE, !.pending = FALSE, !.flip = "none"]
OnOf(x) == [x EXCEPT !.on = TRUE]

(* An output is switched off.                                              *)
LEMMA SwitchOffKeeps ==
  ASSUME NEW b, Right(b), NEW o \in FrameOutputs, ~b.out[o].timer,
         NEW g, g = WithOut(b, o, OffOf(b.out[o]))
  PROVE  Right(g)
<1>1. /\ b \in FrameStates /\ EachOnce(b.idle) /\ Served(b, ToSet(b.idle)) /\ Drives(b.out[o], Framed(b, o))
  BY RightIs
<1>2. PICK x \in OutStates : x = b.out[o]
  BY <1>1, PartsTyped
<1>3. PICK y : y = OffOf(x)
  OBVIOUS
<1>4. /\ y \in OutStates /\ y.flip = "none" /\ y.pending = FALSE /\ y.present = x.present /\ y.on = FALSE
      /\ y.timer = x.timer /\ y.needs = x.needs /\ y.redraw = x.redraw /\ y.instances = x.instances
      /\ y.failed = x.failed
  BY <1>3 DEF OffOf, OutStates
<1>5. /\ g \in FrameStates /\ g.surf = b.surf /\ g.idle = b.idle
      /\ g.out[o] = y /\ \A p \in FrameOutputs : p # o => g.out[p] = b.out[p]
  <2>1. y \in OutStates /\ g = WithOut(b, o, y)
    BY <1>2, <1>3, <1>4
  <2> QED
    BY <1>1, <2>1, OutChanged
<1>6. PICK R : R = ToSet(b.idle)
  OBVIOUS
<1>7. Drives(g.out[o], <<"frame", o>> \in R) /\ EnteredOn(g, o) /\ AwaitedOn(g, o)
  BY <1>1, <1>2, <1>4, <1>5, <1>6 DEF Drives, Framed, EnteredOn, Entered, AwaitedOn, Awaited, Works
<1>8. OnlyOn(b, g, o) /\ CallsElse(R, R, o)
  BY <1>2, <1>4, <1>5 DEF OnlyOn, ToldOnly, CallsElse
<1>9. Served(g, R)
  BY <1>1, <1>5, <1>6, <1>7, <1>8, OneOutputKeeps
<1> QED
  BY <1>1, <1>5, <1>6, <1>9 DEF Right

(* It is switched on again: a commit and a repaint.                        *)
LEMMA SwitchOnKeeps ==
  ASSUME NEW b, Right(b), NEW o \in FrameOutputs, b.out[o].present, ~b.out[o].on,
         NEW f, f = WithOut(b, o, OnOf(b.out[o])), NEW c, c = CommitBuffer(f, o), NEW g, g = ScheduleRepaint(c, o)
  PROVE  Right(g)
<1>1. /\ b \in FrameStates /\ EachOnce(b.idle) /\ Served(b, ToSet(b.idle)) /\ Drives(b.out[o], Framed(b, o))
  BY RightIs
<1>2. PICK x \in OutStates : x = b.out[o]
  BY <1>1, PartsTyped
<1>3. PICK y : y = OnOf(x)
  OBVIOUS
<1>4. y \in OutStates
  BY <1>3 DEF OnOf, OutStates
<1>5. /\ f \in FrameStates /\ f.surf = b.surf /\ f.idle = b.idle
      /\ f.out[o] = y /\ \A p \in FrameOutputs : p # o => f.out[p] = b.out[p]
  <2>1. y \in OutStates /\ f = WithOut(b, o, y)
    BY <1>2, <1>3, <1>4
  <2> QED
    BY <1>1, <2>1, OutChanged
<1>6. /\ c \in FrameStates /\ EachOnce(c.idle) /\ c.surf = f.surf
      /\ c.out[o] = CommittedOf(f.out[o]) /\ \A p \in FrameOutputs : p # o => c.out[p] = f.out[p]
      /\ ToSet(c.idle) = ToSet(f.idle) \ {<<"frame", o>>}
  <2>1. EachOnce(f.idle)
    BY <1>1, <1>5
  <2> QED
    BY <1>5, <2>1, CommitIs, SMTT(30)
<1>7. /\ g \in FrameStates /\ EachOnce(g.idle) /\ g.surf = c.surf
      /\ g.out[o] = AskedOf(c.out[o]) /\ \A p \in FrameOutputs : p # o => g.out[p] = c.out[p]
      /\ ToSet(g.idle) = ToSet(c.idle) \cup (IF c.out[o].pending THEN {} ELSE {<<"frame", o>>})
  BY <1>6, ScheduleIs
<1>8. PICK z : z = AskedOf(CommittedOf(y))
  OBVIOUS
<1>9. /\ z.flip = "new" /\ z.pending = TRUE /\ z.present = x.present /\ z.on = TRUE
      /\ z.timer = x.timer /\ z.needs = TRUE /\ z.redraw = x.redraw /\ z.instances = x.instances
  BY <1>3, <1>8 DEF OnOf, AskedOf, CommittedOf, OutStates
<1>10. g.out[o] = z /\ c.out[o].pending
  <2>1. CommittedOf(y).pending
    BY <1>4 DEF CommittedOf, OutStates
  <2> QED
    BY <1>5, <1>6, <1>7, <1>8, <2>1
<1>11. PICK R, Q : R = ToSet(b.idle) /\ Q = ToSet(g.idle)
  OBVIOUS
<1>12. Q = R \ {<<"frame", o>>}
  BY <1>5, <1>6, <1>7, <1>10, <1>11
<1>13. CallsElse(R, Q, o) /\ <<"frame", o>> \notin Q
  BY <1>12, CallsAre DEF CallsElse
<1>14. ~x.timer /\ x.present
  BY <1>1, <1>2 DEF Drives, OutStates
<1>15. Drives(z, FALSE)
  BY <1>9, <1>14 DEF Drives
<1>16. Drives(g.out[o], <<"frame", o>> \in Q) /\ EnteredOn(g, o) /\ AwaitedOn(g, o)
  BY <1>9, <1>10, <1>13, <1>15 DEF Drives, EnteredOn, Entered, AwaitedOn, Awaited
<1>17. OnlyOn(b, g, o)
  <2>1. g.surf = b.surf /\ \A p \in FrameOutputs : p # o => g.out[p] = b.out[p]
    BY <1>5, <1>6, <1>7
  <2>2. g.out[o].present = b.out[o].present /\ g.out[o].instances = b.out[o].instances
    BY <1>2, <1>9, <1>10
  <2> QED
    BY <2>1, <2>2 DEF OnlyOn, ToldOnly
<1>18. Served(b, R)
  BY <1>1, <1>11
<1>19. Served(g, Q)
  BY <1>1, <1>7, <1>13, <1>16, <1>17, <1>18, OneOutputKeeps
<1> QED
  BY <1>7, <1>11, <1>19 DEF Right

RedrawOf(x, n) == [x EXCEPT !.redraw = n]

(* A plugin wants constant redrawing, or no more.                          *)
LEMMA RedrawKeeps ==
  ASSUME NEW b, Right(b), NEW o \in FrameOutputs, b.out[o].present, NEW by \in {-1, 1}, NEW n, n = b.out[o].redraw + by,
         n >= 0, NEW f, f = WithOut(b, o, RedrawOf(b.out[o], n)),
         NEW g, g = IF n > 1 THEN f ELSE ScheduleRepaint(f, o)
  PROVE  Right(g)
<1>1. /\ b \in FrameStates /\ EachOnce(b.idle) /\ Served(b, ToSet(b.idle)) /\ Drives(b.out[o], Framed(b, o))
      /\ EnteredOn(b, o) /\ AwaitedOn(b, o)
  BY RightIs
<1>2. PICK x \in OutStates : x = b.out[o]
  BY <1>1, PartsTyped
<1>3. x.redraw \in Nat /\ n \in Nat /\ (n > 1 => x.redraw > 0)
  <2>1. x.redraw \in Nat /\ n = x.redraw + by
    BY <1>2 DEF OutStates
  <2> QED
    BY <2>1
<1>4. PICK y : y = RedrawOf(x, n)
  OBVIOUS
<1>5. /\ y \in OutStates /\ y.flip = x.flip /\ y.pending = x.pending /\ y.present = x.present /\ y.on = x.on
      /\ y.timer = x.timer /\ y.needs = x.needs /\ y.redraw = n /\ y.instances = x.instances
      /\ y.failed = x.failed
  BY <1>3, <1>4 DEF RedrawOf, OutStates
<1>6. /\ f \in FrameStates /\ f.surf = b.surf /\ f.idle = b.idle
      /\ f.out[o] = y /\ \A p \in FrameOutputs : p # o => f.out[p] = b.out[p]
  <2>1. y \in OutStates /\ f = WithOut(b, o, y)
    BY <1>2, <1>4, <1>5
  <2> QED
    BY <1>1, <2>1, OutChanged
<1>7. CASE n > 1
  <2>1. PICK R : R = ToSet(b.idle)
    OBVIOUS
  <2>2. Drives(y, <<"frame", o>> \in R)
    BY <1>1, <1>2, <1>3, <1>5, <1>7, <2>1 DEF Drives, Framed
  <2>3. EnteredOn(f, o) /\ AwaitedOn(f, o)
    BY <1>1, <1>2, <1>5, <1>6 DEF EnteredOn, Entered, AwaitedOn, Awaited, Works
  <2>4. OnlyOn(b, f, o) /\ CallsElse(R, R, o) /\ Served(b, R)
    BY <1>1, <1>2, <1>5, <1>6, <2>1 DEF OnlyOn, ToldOnly, CallsElse
  <2>5. Drives(f.out[o], <<"frame", o>> \in R)
    BY <1>6, <2>2
  <2>6. Served(f, R)
    BY <1>1, <1>6, <2>3, <2>4, <2>5, OneOutputKeeps
  <2> QED
    BY <1>1, <1>6, <1>7, <2>1, <2>6 DEF Right
<1>8. CASE ~(n > 1)
  <2>1. g = ScheduleRepaint(f, o) /\ EachOnce(f.idle)
    BY <1>1, <1>6, <1>8
  <2>2. /\ g \in FrameStates /\ EachOnce(g.idle) /\ g.surf = f.surf
        /\ g.out[o] = AskedOf(f.out[o]) /\ \A p \in FrameOutputs : p # o => g.out[p] = f.out[p]
        /\ ToSet(g.idle) = ToSet(f.idle) \cup (IF f.out[o].pending THEN {} ELSE {<<"frame", o>>})
    BY <1>6, <2>1, ScheduleIs
  <2>3. PICK z : z = AskedOf(y)
    OBVIOUS
  <2>4. /\ z.flip = y.flip /\ z.pending = y.pending /\ z.present = y.present /\ z.on = y.on
        /\ z.timer = y.timer /\ z.needs = TRUE /\ z.redraw = y.redraw /\ z.instances = y.instances
    BY <1>5, <2>3 DEF AskedOf, OutStates
  <2>5. PICK R, Q : R = ToSet(b.idle) /\ Q = ToSet(g.idle)
    OBVIOUS
  <2>6. /\ CallsElse(R, Q, o) /\ (<<"frame", o>> \in Q <=> <<"frame", o>> \in R \/ ~x.pending)
    BY <1>2, <1>5, <1>6, <2>2, <2>5, CallsAre DEF CallsElse
  <2>7. PICK A \in BOOLEAN, B \in BOOLEAN : (A <=> <<"frame", o>> \in R) /\ (B <=> <<"frame", o>> \in Q)
    OBVIOUS
  <2>8. Drives(x, A) /\ x.present
    BY <1>1, <1>2, <2>5, <2>7 DEF Drives, Framed
  <2>9. Drives(z, B)
    BY <1>5, <2>4, <2>6, <2>7, <2>8 DEF Drives
  <2>10. g.out[o] = z
    BY <1>6, <2>2, <2>3
  <2>11. Drives(g.out[o], <<"frame", o>> \in Q) /\ EnteredOn(g, o) /\ AwaitedOn(g, o)
    <3>1. Drives(g.out[o], <<"frame", o>> \in Q)
      BY <2>7, <2>9, <2>10 DEF Drives
    <3> QED
      BY <2>4, <2>10, <3>1 DEF EnteredOn, Entered, AwaitedOn, Awaited
  <2>12. OnlyOn(b, g, o)
    <3>1. g.surf = b.surf /\ \A p \in FrameOutputs : p # o => g.out[p] = b.out[p]
      BY <1>6, <2>2
    <3>2. g.out[o].present = b.out[o].present /\ g.out[o].instances = b.out[o].instances
      BY <1>2, <1>5, <2>4, <2>10
    <3> QED
      BY <3>1, <3>2 DEF OnlyOn, ToldOnly
  <2>13. Served(b, R)
    BY <1>1, <2>5
  <2>14. Served(g, Q)
    BY <1>1, <2>2, <2>6, <2>11, <2>12, <2>13, OneOutputKeeps
  <2> QED
    BY <2>2, <2>5, <2>14 DEF Right
<1> QED
  BY <1>7, <1>8

(* What a repaint or an update of the scene needs of a state, and keeps.   *)
Sound(f) ==
  f \in FrameStates /\ EachOnce(f.idle) /\ OutputsDrive(f, ToSet(f.idle)) /\ SurfacesCount(f, ToSet(f.idle)) /\ WithinHome(f)
OwesOn(f, o) == EnteredOn(f, o) /\ AwaitedOn(f, o)

(* An output that is gone owes nothing.                                    *)
LEMMA GoneOwesNothing ==
  ASSUME NEW f, NEW o, ~f.out[o].present
  PROVE  OwesOn(f, o)
BY DEF OwesOn, EnteredOn, AwaitedOn, Entered, Awaited, Works

(* Some outputs repaint.                                                   *)
LEMMA RepaintedKeeps ==
  ASSUME FramesAssumption, NEW f, Sound(f), NEW D, D \subseteq Plugged(f), NEW g, g = Repainted(f, D)
  PROVE  /\ Sound(g) /\ Plugged(g) = Plugged(f) /\ g.surf = f.surf
         /\ \A o \in D : OwesOn(g, o)
         /\ \A o \in FrameOutputs : OwesOn(f, o) => OwesOn(g, o)
         /\ \A o \in FrameOutputs : g.out[o].instances = f.out[o].instances /\ g.out[o].present = f.out[o].present
         /\ SceneShown(f) => SceneShown(g)
         /\ \A s \in Surfaces : OutputsCalled(g, s) <=> OutputsCalled(f, s)
<1>1. f \in FrameStates /\ EachOnce(f.idle) /\ D \in SUBSET FrameOutputs
  BY DEF Sound, Plugged
<1>2. g \in FrameStates /\ RepaintsOnly(f, D, g)
  BY <1>1, RepaintedIs
<1>3. /\ OutputsDrive(f, ToSet(f.idle)) /\ SurfacesCount(f, ToSet(f.idle)) /\ WithinHome(f)
  BY DEF Sound
<1>4. /\ OutputsDrive(g, ToSet(g.idle)) /\ Plugged(g) = Plugged(f)
      /\ \A o \in FrameOutputs : CountsOn(f, ToSet(f.idle), o) => CountsOn(g, ToSet(g.idle), o)
      /\ \A o \in D : EnteredOn(g, o) /\ AwaitedOn(g, o)
      /\ \A o \in FrameOutputs : (EnteredOn(f, o) => EnteredOn(g, o)) /\ (AwaitedOn(f, o) => AwaitedOn(g, o))
      /\ \A o \in FrameOutputs : g.out[o].instances = f.out[o].instances /\ g.out[o].present = f.out[o].present
      /\ \A o \in FrameOutputs : ShownRight(f, o) => ShownRight(g, o)
  BY <1>1, <1>2, <1>3, RepaintsKeep
<1>5. g.surf = f.surf /\ EachOnce(g.idle) /\ \A s \in Surfaces : OutputsCalled(g, s) <=> OutputsCalled(f, s)
  BY <1>2 DEF RepaintsOnly
<1>6. Sound(g)
  BY <1>2, <1>3, <1>4, <1>5 DEF Sound, SurfacesCount, WithinHome
<1>7. SceneShown(f) => SceneShown(g)
  BY <1>4 DEF SceneShown
<1> QED
  BY <1>4, <1>5, <1>6, <1>7 DEF OwesOn

(* All is right when the outputs that owe something repaint.               *)
LEMMA RepaintedRight ==
  ASSUME FramesAssumption, NEW f, Sound(f), SceneShown(f), NEW D, D \subseteq Plugged(f),
         \A o \in FrameOutputs : o \notin D => OwesOn(f, o), NEW g, g = Repainted(f, D)
  PROVE  Right(g)
<1>1. /\ Sound(g) /\ SceneShown(g) /\ \A o \in D : OwesOn(g, o)
      /\ \A o \in FrameOutputs : OwesOn(f, o) => OwesOn(g, o)
  BY RepaintedKeeps
<1>2. \A o \in FrameOutputs : OwesOn(g, o)
  BY <1>1
<1> QED
  BY <1>1, <1>2 DEF Right, Served, Sound, OutputsOwe, OwesOn

(* update() of a scene that owes nothing.                                  *)
LEMMA SceneRight ==
  ASSUME FramesAssumption, NEW f, Sound(f), \A o \in FrameOutputs : OwesOn(f, o), NEW g, g = UpdateScene(f)
  PROVE  Right(g)
<1>1. /\ f \in FrameStates /\ EachOnce(f.idle) /\ OutputsDrive(f, ToSet(f.idle))
      /\ SurfacesCount(f, ToSet(f.idle)) /\ WithinHome(f)
  BY DEF Sound
<1>2. /\ g \in FrameStates /\ EachOnce(g.idle) /\ OutputsDrive(g, ToSet(g.idle))
      /\ SceneShown(g) /\ (WithinHome(f) => WithinHome(g))
      /\ \A o \in FrameOutputs : (EnteredOn(f, o) => EnteredOn(g, o)) /\ (AwaitedOn(f, o) => AwaitedOn(g, o))
      /\ \A o \in FrameOutputs : CountsOn(f, ToSet(f.idle), o) => CountsOn(g, ToSet(g.idle), o)
  BY <1>1, UpdateSceneKeeps
<1> QED
  BY <1>1, <1>2 DEF Right, Served, SurfacesCount, OutputsOwe, OwesOn

(* update() of the geometry.                                               *)
LEMMA GeometryRight ==
  ASSUME FramesAssumption, NEW f, Right(f), NEW g, g = UpdateGeometry(f)
  PROVE  Right(g)
<1>1. /\ f \in FrameStates /\ EachOnce(f.idle) /\ OutputsDrive(f, ToSet(f.idle)) /\ SurfacesCount(f, ToSet(f.idle))
      /\ OutputsOwe(f) /\ SceneShown(f) /\ WithinHome(f)
  BY RightIs
<1>2. g \in FrameStates /\ SceneOnly(f, g) /\ g.out = f.out /\ g.surf = f.surf
  BY <1>1, UpdateGeometryIs
<1>3. Balanced(f, g)
  <2>1. ASSUME NEW s \in Surfaces, NEW o \in FrameOutputs
        PROVE  g.surf[s].delta[o] = f.surf[s].delta[o] + ShownOn(g, s, o) - ShownOn(f, s, o)
    <3>1. f.surf[s].delta[o] \in Int
      BY <1>1, CountsTyped
    <3> QED
      BY <1>2, <3>1 DEF ShownOn
  <2> QED
    BY <2>1 DEF Balanced
<1>4. \A o \in FrameOutputs : ~f.out[o].present => g.out[o].instances = f.out[o].instances
  BY <1>2
<1>5. /\ OutputsDrive(g, ToSet(g.idle))
      /\ Balanced(f, g) => \A o \in FrameOutputs : CountsOn(f, ToSet(f.idle), o) => CountsOn(g, ToSet(g.idle), o)
  BY <1>1, <1>2, <1>4, SceneKeeps
<1>6. SurfacesCount(g, ToSet(g.idle))
  BY <1>1, <1>3, <1>5 DEF SurfacesCount
<1>7. OutputsOwe(g) /\ SceneShown(g) /\ WithinHome(g)
  BY <1>1, <1>2 DEF OutputsOwe, EnteredOn, AwaitedOn, SceneShown, ShownRight, WithinHome
<1>8. EachOnce(g.idle)
  BY <1>2 DEF SceneOnly
<1> QED
  BY <1>2, <1>5, <1>6, <1>7, <1>8 DEF Right, Served

(* What a surface that changes otherwise leaves sound.                     *)
LEMMA SurfaceSound ==
  ASSUME NEW b, Right(b), NEW s \in Surfaces, NEW y \in SurfaceStates,
         y.visibility = b.surf[s].visibility, y.delta = b.surf[s].delta, limits => y.exposed \subseteq {y.home},
         NEW f, f = WithSurf(b, s, y)
  PROVE  /\ Sound(f) /\ f.out = b.out /\ f.idle = b.idle /\ f.surf[s] = y
         /\ \A t \in Surfaces : t # s => f.surf[t] = b.surf[t]
<1>1. /\ b \in FrameStates /\ EachOnce(b.idle) /\ OutputsDrive(b, ToSet(b.idle)) /\ SurfacesCount(b, ToSet(b.idle))
      /\ WithinHome(b)
  BY RightIs
<1>2. /\ f \in FrameStates /\ f.out = b.out /\ f.idle = b.idle /\ f.surf[s] = y
      /\ \A t \in Surfaces : t # s => f.surf[t] = b.surf[t]
  BY <1>1, SurfaceChanged
<1>3. \A t \in Surfaces : f.surf[t].visibility = b.surf[t].visibility /\ f.surf[t].delta = b.surf[t].delta
  BY <1>2
<1>4. SurfacesCount(f, ToSet(f.idle))
  BY <1>1, <1>2, <1>3 DEF SurfacesCount, CountsOn
<1>5. WithinHome(f)
  BY <1>1, <1>2 DEF WithinHome
<1>6. OutputsDrive(f, ToSet(f.idle))
  BY <1>1, <1>2 DEF OutputsDrive
<1> QED
  BY <1>1, <1>2, <1>4, <1>5, <1>6 DEF Sound

(* A surface that comes, goes or moves, and the outputs where it may be.   *)
LEMMA SurfaceRepainted ==
  ASSUME FramesAssumption, NEW b, Right(b), NEW s \in Surfaces, NEW y \in SurfaceStates,
         y.visibility = b.surf[s].visibility, y.delta = b.surf[s].delta, limits => y.exposed \subseteq {y.home},
         NEW f, f = WithSurf(b, s, y), NEW h, h = DamageParent(f, s)
  PROVE  /\ Sound(h) /\ h.surf = f.surf /\ f.surf[s] = y /\ \A o \in FrameOutputs : OwesOn(h, o)
         /\ y.home = b.surf[s].home /\ y.enabled = b.surf[s].enabled => SceneShown(h)
<1>1. /\ Sound(f) /\ f.out = b.out /\ f.idle = b.idle /\ f.surf[s] = y
      /\ \A t \in Surfaces : t # s => f.surf[t] = b.surf[t]
  BY SurfaceSound
<1>2. PICK D : D = {o \in Plugged(f) : limits => f.surf[s].home = o}
  OBVIOUS
<1>3. D \subseteq Plugged(f) /\ h = Repainted(f, D)
  BY <1>2 DEF DamageParent
<1>4. /\ Sound(h) /\ h.surf = f.surf
      /\ \A o \in D : OwesOn(h, o)
      /\ \A o \in FrameOutputs : OwesOn(f, o) => OwesOn(h, o)
      /\ SceneShown(f) => SceneShown(h)
  BY <1>1, <1>3, RepaintedKeeps
<1>5. ASSUME NEW o \in FrameOutputs, o \notin D PROVE OwesOn(f, o)
  <2>1. CASE ~f.out[o].present
    BY <2>1, GoneOwesNothing
  <2>2. CASE f.out[o].present
    <3>1. limits /\ y.home # o
      BY <1>1, <1>2, <1>5, <2>2 DEF Plugged
    <3>2. ~IsGenerated(f.surf[s], o) /\ ~WaitsFor(f.surf[s], o)
      BY <1>1, <3>1 DEF IsGenerated, WaitsFor
    <3>3. EnteredOn(b, o) /\ AwaitedOn(b, o)
      BY RightIs
    <3>4. \A t \in Surfaces : /\ Entered(f.out[o], f.surf[t].visibility[o], IsGenerated(f.surf[t], o))
                              /\ Awaited(f.out[o], WaitsFor(f.surf[t], o))
      BY <1>1, <3>2, <3>3 DEF EnteredOn, AwaitedOn, Entered, Awaited
    <3> QED
      BY <3>4 DEF OwesOn, EnteredOn, AwaitedOn
  <2> QED
    BY <2>1, <2>2
<1>6. \A o \in FrameOutputs : OwesOn(h, o)
  BY <1>4, <1>5
<1>7. ASSUME y.home = b.surf[s].home, y.enabled = b.surf[s].enabled PROVE SceneShown(f)
  <2>1. \A t \in Surfaces, o \in FrameOutputs : IsGenerated(f.surf[t], o) <=> IsGenerated(b.surf[t], o)
    BY <1>1, <1>7 DEF IsGenerated
  <2>2. SceneShown(b)
    BY RightIs
  <2> QED
    BY <1>1, <2>1, <2>2 DEF SceneShown, ShownRight
<1> QED
  BY <1>1, <1>4, <1>6, <1>7

EnabledOf(y, enabled) == [y EXCEPT !.enabled = enabled]
MovedToOf(y, o, where) == [y EXCEPT !.home = o, !.exposed = where]
AskingOf(y) == [y EXCEPT !.callback = TRUE, !.missed = FALSE]

(* A node is enabled or disabled.                                          *)
LEMMA EnableKeeps ==
  ASSUME FramesAssumption, NEW b, Right(b), NEW s \in Surfaces, NEW enabled \in BOOLEAN,
         NEW f, f = WithSurf(b, s, EnabledOf(b.surf[s], enabled)),
         NEW g, g = UpdateScene(DamageParent(f, s))
  PROVE  Right(g)
<1>1. PICK x \in SurfaceStates : x = b.surf[s]
  BY RightIs, PartsTyped
<1>2. PICK y : y = EnabledOf(x, enabled)
  OBVIOUS
<1>3. y \in SurfaceStates /\ y.visibility = x.visibility /\ y.delta = x.delta /\ y.exposed = x.exposed /\ y.home = x.home
  BY <1>2 DEF SurfaceStates, EnabledOf
<1>4. limits => y.exposed \subseteq {y.home}
  <2>1. WithinHome(b)
    BY RightIs
  <2> QED
    BY <1>1, <1>3, <2>1 DEF WithinHome
<1>5. PICK h : h = DamageParent(f, s)
  OBVIOUS
<1>6. y \in SurfaceStates /\ y.visibility = b.surf[s].visibility /\ y.delta = b.surf[s].delta /\ f = WithSurf(b, s, y)
  BY <1>1, <1>2, <1>3
<1>7. /\ Sound(h) /\ h.surf = f.surf /\ f.surf[s] = y /\ \A o \in FrameOutputs : OwesOn(h, o)
      /\ y.home = b.surf[s].home /\ y.enabled = b.surf[s].enabled => SceneShown(h)
  <2>1. PICK k : k = WithSurf(b, s, y)
    OBVIOUS
  <2>2. PICK j : j = DamageParent(k, s)
    OBVIOUS
  <2>3. /\ Sound(j) /\ j.surf = k.surf /\ k.surf[s] = y /\ \A o \in FrameOutputs : OwesOn(j, o)
        /\ y.home = b.surf[s].home /\ y.enabled = b.surf[s].enabled => SceneShown(j)
    BY <1>3, <1>4, <1>6, <2>1, <2>2, SurfaceRepainted
  <2>4. k = f /\ j = h
    BY <1>5, <1>6, <2>1, <2>2
  <2> QED
    BY <2>3, <2>4
<1>8. g = UpdateScene(h)
  BY <1>5
<1> QED
  BY <1>7, <1>8, SceneRight

(* A view moves.                                                           *)
LEMMA MoveKeeps ==
  ASSUME FramesAssumption, NEW b, Right(b), NEW s \in Surfaces, NEW o \in FrameOutputs, NEW where \in SUBSET FrameOutputs,
         limits => where \subseteq {o},
         NEW f, f = WithSurf(b, s, MovedToOf(b.surf[s], o, where)), NEW h, h = DamageParent(f, s),
         NEW g, g = IF b.surf[s].home = o THEN UpdateGeometry(h) ELSE UpdateScene(DamageParent(h, s))
  PROVE  Right(g)
<1>1. PICK x \in SurfaceStates : x = b.surf[s]
  BY RightIs, PartsTyped
<1>2. PICK y : y = MovedToOf(x, o, where)
  OBVIOUS
<1>3. y \in SurfaceStates /\ y.visibility = x.visibility /\ y.delta = x.delta /\ y.exposed = where /\ y.home = o
      /\ y.enabled = x.enabled
  BY <1>2 DEF SurfaceStates, MovedToOf
<1>4. limits => y.exposed \subseteq {y.home}
  BY <1>3
<1>5. y \in SurfaceStates /\ y.visibility = b.surf[s].visibility /\ y.delta = b.surf[s].delta /\ f = WithSurf(b, s, y)
  BY <1>1, <1>2, <1>3
<1>6. /\ Sound(h) /\ h.surf = f.surf /\ \A p \in FrameOutputs : OwesOn(h, p)
      /\ y.home = b.surf[s].home /\ y.enabled = b.surf[s].enabled => SceneShown(h)
  BY <1>4, <1>5, SurfaceRepainted
<1>7. CASE b.surf[s].home = o
  <2>1. SceneShown(h)
    BY <1>1, <1>3, <1>6, <1>7
  <2>2. Right(h)
    BY <1>6, <2>1 DEF Right, Served, Sound, OutputsOwe, OwesOn
  <2>3. g = UpdateGeometry(h)
    BY <1>7
  <2> QED
    BY <2>2, <2>3, GeometryRight
<1>8. CASE b.surf[s].home # o
  <2>1. PICK D : D = {p \in Plugged(h) : limits => h.surf[s].home = p}
    OBVIOUS
  <2>2. PICK k : k = Repainted(h, D)
    OBVIOUS
  <2>3. D \subseteq Plugged(h)
    BY <2>1
  <2>4. Sound(k) /\ \A p \in FrameOutputs : OwesOn(h, p) => OwesOn(k, p)
    BY <1>6, <2>2, <2>3, RepaintedKeeps
  <2>5. g = UpdateScene(k)
    BY <1>8, <2>1, <2>2 DEF DamageParent
  <2> QED
    BY <1>6, <2>4, <2>5, SceneRight
<1> QED
  BY <1>7, <1>8

(* Other nodes come or go on an output.                                    *)
LEMMA OthersKeep ==
  ASSUME FramesAssumption, NEW b, Right(b), NEW o \in FrameOutputs, b.out[o].present,
         NEW g, g = UpdateScene(ScheduleRepaint(b, o))
  PROVE  Right(g)
<1>1. b \in FrameStates /\ EachOnce(b.idle)
  BY RightIs
<1>2. PICK f : f = ScheduleRepaint(b, o)
  OBVIOUS
<1>3. f \in FrameStates /\ RepaintsOnly(b, {o}, f)
  BY <1>1, <1>2, ScheduleOnly
<1>4. PICK D : D = {o} /\ D \subseteq Plugged(b)
  BY DEF Plugged
<1>5. RepaintsOnly(b, D, f)
  BY <1>3, <1>4
<1>6. Right(f)
  BY <1>1, <1>3, <1>4, <1>5, RepaintsRight
<1>7. Sound(f) /\ \A p \in FrameOutputs : OwesOn(f, p)
  BY <1>6 DEF Right, Served, Sound, OutputsOwe, OwesOn
<1>8. g = UpdateScene(f)
  BY <1>2
<1> QED
  BY <1>7, <1>8, SceneRight

(* A client commits: where it is not known to be shown yet, the frame that *)
(* follows its new instance is still to come.                              *)
LEMMA CommitKeeps ==
  ASSUME FramesAssumption, NEW b, Right(b), NEW s \in Surfaces, NEW damaged \in BOOLEAN,
         NEW f, f = WithSurf(b, s, AskingOf(b.surf[s])),
         NEW g, g = Redrawn(IF damaged THEN Damage(f, s) ELSE f, s)
  PROVE  Right(g)
<1>1. PICK x \in SurfaceStates : x = b.surf[s]
  BY RightIs, PartsTyped
<1>2. PICK y : y = AskingOf(x)
  OBVIOUS
<1>3. y \in SurfaceStates /\ y.visibility = x.visibility /\ y.delta = x.delta /\ y.exposed = x.exposed /\ y.home = x.home
      /\ y.enabled = x.enabled
  BY <1>2 DEF SurfaceStates, AskingOf
<1>4. limits => y.exposed \subseteq {y.home}
  <2>1. WithinHome(b)
    BY RightIs
  <2> QED
    BY <1>1, <1>3, <2>1 DEF WithinHome
<1>5. y \in SurfaceStates /\ y.visibility = b.surf[s].visibility /\ y.delta = b.surf[s].delta /\ f = WithSurf(b, s, y)
  BY <1>1, <1>2, <1>3
<1>6. /\ Sound(f) /\ f.out = b.out /\ f.idle = b.idle /\ f.surf[s] = y
      /\ \A t \in Surfaces : t # s => f.surf[t] = b.surf[t]
  BY <1>4, <1>5, SurfaceSound
<1>7. \A t \in Surfaces, o \in FrameOutputs :
        /\ f.surf[t].visibility = b.surf[t].visibility
        /\ IsGenerated(f.surf[t], o) <=> IsGenerated(b.surf[t], o)
        /\ t # s => (WaitsFor(f.surf[t], o) <=> WaitsFor(b.surf[t], o))
  BY <1>1, <1>3, <1>6 DEF IsGenerated
<1>8. SceneShown(f)
  <2>1. SceneShown(b)
    BY RightIs
  <2> QED
    BY <1>6, <1>7, <2>1 DEF SceneShown, ShownRight
<1>9. \A o \in FrameOutputs : EnteredOn(f, o)
  <2>1. \A o \in FrameOutputs : EnteredOn(b, o)
    BY RightIs
  <2> QED
    BY <1>6, <1>7, <2>1 DEF EnteredOn, Entered
<1>10. PICK V : V = {o \in FrameOutputs : f.surf[s].visibility[o] > 0}
  OBVIOUS
<1>11. ASSUME NEW o \in FrameOutputs
       PROVE  Counts(f.out[o], f.surf[s].visibility[o], f.surf[s].delta[o], s \in f.out[o].instances,
                     <<"outputs", s>> \in ToSet(f.idle))
  BY <1>6 DEF Sound, SurfacesCount, CountsOn
<1>12. V \subseteq Plugged(f)
  <2>1. ASSUME NEW o \in V PROVE f.out[o].present
    BY <1>10, <1>11, <2>1 DEF Counts
  <2> QED
    BY <1>10, <2>1 DEF Plugged
<1>13. ASSUME NEW o \in FrameOutputs, o \notin V PROVE OwesOn(f, o)
  <2>1. ASSUME NEW t \in Surfaces PROVE Awaited(f.out[o], WaitsFor(f.surf[t], o))
    <3>1. CASE t = s
      <4>1. f.surf[s].visibility[o] = 0
        BY <1>10, <1>11, <1>13 DEF Counts
      <4>2. WaitsFor(f.surf[s], o) => IsGenerated(f.surf[s], o)
        BY <1>6 DEF WaitsFor, IsGenerated, Sound, WithinHome
      <4>3. Entered(f.out[o], f.surf[s].visibility[o], IsGenerated(f.surf[s], o))
        BY <1>9 DEF EnteredOn
      <4> QED
        BY <3>1, <4>1, <4>2, <4>3 DEF Entered, Awaited
    <3>2. CASE t # s
      <4>1. AwaitedOn(b, o)
        BY RightIs
      <4> QED
        BY <1>6, <1>7, <3>2, <4>1 DEF AwaitedOn, Awaited
    <3> QED
      BY <3>1, <3>2
  <2> QED
    BY <1>9, <2>1 DEF OwesOn, AwaitedOn
<1>14. PICK h : h = IF damaged THEN Damage(f, s) ELSE f
  OBVIOUS
<1>15. /\ Sound(h) /\ Plugged(h) = Plugged(f) /\ h.surf = f.surf /\ SceneShown(h)
       /\ \A o \in FrameOutputs : OwesOn(f, o) => OwesOn(h, o)
  <2>1. CASE damaged
    <3>1. PICK D : D = {o \in Plugged(f) : s \in f.out[o].instances}
      OBVIOUS
    <3>2. D \subseteq Plugged(f) /\ h = Repainted(f, D)
      BY <1>14, <2>1, <3>1 DEF Damage
    <3>3. /\ Sound(h) /\ Plugged(h) = Plugged(f) /\ h.surf = f.surf /\ (SceneShown(f) => SceneShown(h))
          /\ \A o \in FrameOutputs : OwesOn(f, o) => OwesOn(h, o)
      BY <1>6, <3>2, RepaintedKeeps
    <3> QED
      BY <1>8, <3>3
  <2>2. CASE ~damaged
    BY <1>6, <1>8, <1>14, <2>2
  <2> QED
    BY <2>1, <2>2
<1>16. g = Repainted(h, V)
  BY <1>10, <1>14, <1>15 DEF Redrawn
<1>17. V \subseteq Plugged(h) /\ \A o \in FrameOutputs : o \notin V => OwesOn(h, o)
  BY <1>12, <1>13, <1>15
<1> QED
  BY <1>15, <1>16, <1>17, RepaintedRight

(* An output is added.                                                     *)
LEMMA AddKeeps ==
  ASSUME FramesAssumption, NEW b, Right(b), NEW o \in FrameOutputs, ~b.out[o].present,
         \A s \in Surfaces : b.surf[s].delta[o] = 0,
         NEW f, f = WithOut(b, o, NewOutput), NEW g, g = DamageLayers(UpdateScene(f))
  PROVE  Right(g)
<1>1. /\ b \in FrameStates /\ EachOnce(b.idle) /\ OutputsDrive(b, ToSet(b.idle)) /\ SurfacesCount(b, ToSet(b.idle))
      /\ WithinHome(b) /\ Drives(b.out[o], Framed(b, o)) /\ CountsOn(b, ToSet(b.idle), o)
  BY RightIs
<1>2. PICK y : y = NewOutput
  OBVIOUS
<1>3. /\ y \in OutStates /\ y.present = TRUE /\ y.on = TRUE /\ y.pending = FALSE /\ y.flip = "none" /\ y.timer = FALSE
      /\ y.needs = FALSE /\ y.redraw = 0 /\ y.instances = {}
  BY <1>2 DEF NewOutput, OutStates
<1>4. /\ f \in FrameStates /\ f.surf = b.surf /\ f.idle = b.idle
      /\ f.out[o] = y /\ \A p \in FrameOutputs : p # o => f.out[p] = b.out[p]
  <2>1. y \in OutStates /\ f = WithOut(b, o, y)
    BY <1>2, <1>3
  <2> QED
    BY <1>1, <2>1, OutChanged
<1>5. OutputsDrive(f, ToSet(f.idle))
  <2>1. ~Framed(b, o)
    BY <1>1 DEF Drives
  <2>2. Drives(y, FALSE)
    BY <1>3 DEF Drives
  <2>3. Drives(f.out[o], <<"frame", o>> \in ToSet(f.idle))
    BY <1>4, <2>1, <2>2 DEF Drives, Framed
  <2>4. ASSUME NEW p \in FrameOutputs, p # o PROVE Drives(f.out[p], <<"frame", p>> \in ToSet(f.idle))
    BY <1>1, <1>4, <2>4 DEF OutputsDrive
  <2> QED
    BY <2>3, <2>4 DEF OutputsDrive
<1>6. ASSUME NEW p \in FrameOutputs PROVE CountsOn(f, ToSet(f.idle), p)
  <2>1. CASE p = o
    <3>1. ASSUME NEW s \in Surfaces
          PROVE  Counts(f.out[o], f.surf[s].visibility[o], f.surf[s].delta[o], s \in f.out[o].instances,
                        <<"outputs", s>> \in ToSet(f.idle))
      <4>1. Counts(b.out[o], b.surf[s].visibility[o], b.surf[s].delta[o], s \in b.out[o].instances,
                   <<"outputs", s>> \in ToSet(b.idle))
        BY <1>1 DEF CountsOn
      <4>2. b.surf[s].visibility[o] = 0 /\ b.surf[s].delta[o] = 0
        BY <4>1 DEF Counts
      <4> QED
        BY <1>3, <1>4, <4>2 DEF Counts
    <3> QED
      BY <2>1, <3>1 DEF CountsOn
  <2>2. CASE p # o
    BY <1>1, <1>4, <2>2 DEF SurfacesCount, CountsOn
  <2> QED
    BY <2>1, <2>2
<1>7. WithinHome(f) /\ EachOnce(f.idle)
  BY <1>1, <1>4 DEF WithinHome
<1>8. PICK h : h = UpdateScene(f)
  OBVIOUS
<1>9. /\ h \in FrameStates /\ EachOnce(h.idle) /\ OutputsDrive(h, ToSet(h.idle))
      /\ SceneShown(h) /\ (WithinHome(f) => WithinHome(h))
      /\ \A p \in FrameOutputs : CountsOn(f, ToSet(f.idle), p) => CountsOn(h, ToSet(h.idle), p)
  BY <1>4, <1>5, <1>7, <1>8, UpdateSceneKeeps
<1>10. Sound(h) /\ SceneShown(h)
  BY <1>6, <1>7, <1>9 DEF Sound, SurfacesCount
<1>11. PICK D : D = Plugged(h)
  OBVIOUS
<1>12. g = Repainted(h, D)
  BY <1>8, <1>11 DEF DamageLayers
<1>13. ASSUME NEW p \in FrameOutputs, p \notin D PROVE OwesOn(h, p)
  <2>1. ~h.out[p].present
    BY <1>11, <1>13 DEF Plugged
  <2> QED
    BY <2>1, GoneOwesNothing
<1>14. D \subseteq Plugged(h) /\ \A p \in FrameOutputs : p \notin D => OwesOn(h, p)
  BY <1>11, <1>13
<1> QED
  BY <1>10, <1>12, <1>14, RepaintedRight

(* What an output that goes leaves of a state: all is sound but what is    *)
(* counted for it.                                                         *)
SoundBut(f, o) ==
  /\ f \in FrameStates /\ EachOnce(f.idle) /\ OutputsDrive(f, ToSet(f.idle)) /\ WithinHome(f)
  /\ \A p \in FrameOutputs : p # o => CountsOn(f, ToSet(f.idle), p)
MovedOf(y, o, to) == [y EXCEPT !.home = IF y.home = o THEN to ELSE y.home, !.exposed = y.exposed \ {o}]
Elsewhere(f, o, to) == [s \in Surfaces |-> MovedOf(f.surf[s], o, to)]
GoneOutput == [NewOutput EXCEPT !.present = FALSE]
NothingCounted(f, o) == \A s \in Surfaces : f.surf[s].visibility[o] = 0 /\ f.surf[s].delta[o] = 0
LeftCounted(f, o) ==
  \A s \in Surfaces : /\ f.surf[s].visibility[o] = 0 /\ f.surf[s].delta[o] <= 0
                      /\ f.surf[s].delta[o] # 0 => OutputsCalled(f, s)

ShownSince(f, o, before) ==
  \A s \in Surfaces : /\ f.surf[s].visibility[o] = 0 /\ f.surf[s].delta[o] = ShownOn(f, s, o) - before[s]
                      /\ f.surf[s].delta[o] # 0 => OutputsCalled(f, s)

(* The views of the output are moved to another.                           *)
LEMMA ElsewhereSound ==
  ASSUME NEW b, Right(b), NEW o \in FrameOutputs, NEW to \in FrameOutputs, NEW f, f = WithSurfaces(b, Elsewhere(b, o, to))
  PROVE  Sound(f) /\ f.out = b.out
<1>1. /\ b \in FrameStates /\ EachOnce(b.idle) /\ OutputsDrive(b, ToSet(b.idle)) /\ SurfacesCount(b, ToSet(b.idle))
      /\ WithinHome(b)
  BY RightIs
<1>2. PICK all : all = Elsewhere(b, o, to)
  OBVIOUS
<1>3. ASSUME NEW s \in Surfaces
      PROVE  /\ all[s] \in SurfaceStates
             /\ all[s].visibility = b.surf[s].visibility /\ all[s].delta = b.surf[s].delta
             /\ all[s].home = (IF b.surf[s].home = o THEN to ELSE b.surf[s].home)
             /\ all[s].exposed = b.surf[s].exposed \ {o}
  <2>1. PICK y \in SurfaceStates : y = b.surf[s]
    BY <1>1, PartsTyped
  <2>2. all[s] = MovedOf(y, o, to)
    BY <1>2, <2>1 DEF Elsewhere
  <2>3. /\ MovedOf(y, o, to) \in SurfaceStates
        /\ MovedOf(y, o, to).visibility = y.visibility /\ MovedOf(y, o, to).delta = y.delta
        /\ MovedOf(y, o, to).home = (IF y.home = o THEN to ELSE y.home)
        /\ MovedOf(y, o, to).exposed = y.exposed \ {o}
    BY DEF MovedOf, SurfaceStates
  <2> QED
    BY <2>1, <2>2, <2>3
<1>4. all \in [Surfaces -> SurfaceStates]
  <2>1. all = [s \in Surfaces |-> MovedOf(b.surf[s], o, to)]
    BY <1>2 DEF Elsewhere
  <2>2. \A s \in Surfaces : all[s] \in SurfaceStates
    BY <1>3
  <2> QED
    BY <2>1, <2>2
<1>5. f \in FrameStates /\ f.out = b.out /\ f.surf = all /\ f.idle = b.idle
  <2>1. f = WithSurfaces(b, all)
    BY <1>2
  <2> QED
    BY <1>1, <1>4, <2>1, SurfacesChanged
<1>6. SurfacesCount(f, ToSet(f.idle))
  <2>1. \A s \in Surfaces : f.surf[s].visibility = b.surf[s].visibility /\ f.surf[s].delta = b.surf[s].delta
    BY <1>3, <1>5
  <2> QED
    BY <1>1, <1>5, <2>1 DEF SurfacesCount, CountsOn
<1>7. WithinHome(f)
  BY <1>1, <1>3, <1>5 DEF WithinHome
<1>8. OutputsDrive(f, ToSet(f.idle))
  BY <1>1, <1>5 DEF OutputsDrive
<1> QED
  BY <1>1, <1>5, <1>6, <1>7, <1>8 DEF Sound

ForgottenOf(y, o) == [y EXCEPT !.visibility = [y.visibility EXCEPT ![o] = 0], !.delta = [y.delta EXCEPT ![o] = 0]]

(* on_output_remove of the surfaces.                                       *)
LEMMA ForgottenIs ==
  ASSUME NEW b, Sound(b), NEW o \in FrameOutputs, NEW f, f = Forgotten(b, o)
  PROVE  SoundBut(f, o) /\ f.out = b.out /\ NothingCounted(f, o)
<1>1. /\ b \in FrameStates /\ EachOnce(b.idle) /\ OutputsDrive(b, ToSet(b.idle)) /\ SurfacesCount(b, ToSet(b.idle))
      /\ WithinHome(b)
  BY DEF Sound
<1>2. PICK all : all = [s \in Surfaces |-> ForgottenOf(b.surf[s], o)]
  OBVIOUS
<1>3. ASSUME NEW s \in Surfaces
      PROVE  /\ all[s] \in SurfaceStates
             /\ all[s].visibility[o] = 0 /\ all[s].delta[o] = 0
             /\ \A p \in FrameOutputs : p # o =>
                  all[s].visibility[p] = b.surf[s].visibility[p] /\ all[s].delta[p] = b.surf[s].delta[p]
             /\ all[s].home = b.surf[s].home /\ all[s].exposed = b.surf[s].exposed
  <2>1. PICK y \in SurfaceStates : y = b.surf[s]
    BY <1>1, PartsTyped
  <2>2. PICK z : z = ForgottenOf(y, o)
    OBVIOUS
  <2>3. y.visibility \in [FrameOutputs -> Int] /\ y.delta \in [FrameOutputs -> Int]
    BY DEF SurfaceStates
  <2>4. /\ z.visibility = [y.visibility EXCEPT ![o] = 0] /\ z.delta = [y.delta EXCEPT ![o] = 0]
        /\ z.home = y.home /\ z.exposed = y.exposed
    BY <2>2 DEF ForgottenOf, SurfaceStates
  <2>5. z \in SurfaceStates
    <3>1. PICK v : v = [y.visibility EXCEPT ![o] = 0]
      OBVIOUS
    <3>2. PICK d : d = [y.delta EXCEPT ![o] = 0]
      OBVIOUS
    <3>3. v \in [FrameOutputs -> Int] /\ d \in [FrameOutputs -> Int]
      BY <2>3, <3>1, <3>2
    <3>5. z = [y EXCEPT !.visibility = v, !.delta = d]
      BY <2>2, <3>1, <3>2 DEF ForgottenOf
    <3> QED
      BY <3>3, <3>5 DEF SurfaceStates
  <2>6. all[s] = z
    BY <1>2, <2>1, <2>2
  <2> QED
    BY <2>1, <2>3, <2>4, <2>5, <2>6
<1>4. all \in [Surfaces -> SurfaceStates]
  <2>1. \A s \in Surfaces : all[s] \in SurfaceStates
    BY <1>3
  <2> QED
    BY <1>2, <2>1
<1>5. f = WithSurfaces(b, all)
  <2>1. \A s \in Surfaces : b.surf[s] \in SurfaceStates
    BY <1>1, PartsTyped
  <2>2. ASSUME NEW s \in Surfaces
        PROVE  ForgottenOf(b.surf[s], o) = [b.surf[s] EXCEPT !.visibility[o] = 0, !.delta[o] = 0]
    <3>1. PICK y \in SurfaceStates : y = b.surf[s]
      BY <2>1
    <3>2. ForgottenOf(y, o) = [y EXCEPT !.visibility[o] = 0, !.delta[o] = 0]
      BY DEF ForgottenOf, SurfaceStates
    <3> QED
      BY <3>1, <3>2
  <2>3. all = [s \in Surfaces |-> [b.surf[s] EXCEPT !.visibility[o] = 0, !.delta[o] = 0]]
    BY <1>2, <2>2
  <2> QED
    BY <2>3 DEF Forgotten, WithSurfaces
<1>6. f \in FrameStates /\ f.out = b.out /\ f.surf = all /\ f.idle = b.idle
  BY <1>1, <1>4, <1>5, SurfacesChanged
<1>7. \A p \in FrameOutputs : p # o => CountsOn(f, ToSet(f.idle), p)
  <2>1. ASSUME NEW p \in FrameOutputs, p # o PROVE CountsOn(f, ToSet(f.idle), p)
    <3>1. CountsOn(b, ToSet(b.idle), p)
      BY <1>1 DEF SurfacesCount
    <3>2. \A s \in Surfaces : f.surf[s].visibility[p] = b.surf[s].visibility[p] /\ f.surf[s].delta[p] = b.surf[s].delta[p]
      BY <1>3, <1>6, <2>1
    <3> QED
      BY <1>6, <3>1, <3>2 DEF CountsOn
  <2> QED
    BY <2>1
<1>8. WithinHome(f) /\ NothingCounted(f, o)
  BY <1>1, <1>3, <1>6 DEF WithinHome, NothingCounted
<1>9. OutputsDrive(f, ToSet(f.idle))
  BY <1>1, <1>6 DEF OutputsDrive
<1> QED
  BY <1>1, <1>6, <1>7, <1>8, <1>9 DEF SoundBut

(* The nodes of the output leave the scenegraph: the other outputs are     *)
(* repainted.                                                              *)
LEMMA DeadIs ==
  ASSUME FramesAssumption, NEW b, NEW o \in FrameOutputs, SoundBut(b, o), NothingCounted(b, o),
         NEW f, f = UpdateScene(b), NEW g, g = DamageLayers(f)
  PROVE  /\ SoundBut(g, o) /\ SceneShown(g) /\ \A p \in FrameOutputs : OwesOn(g, p)
         /\ \A s \in Surfaces :
              /\ g.surf[s].visibility[o] = 0 /\ g.surf[s].delta[o] = ShownOn(g, s, o) - ShownOn(b, s, o)
              /\ g.surf[s].delta[o] # 0 => OutputsCalled(g, s)
<1>1. /\ b \in FrameStates /\ EachOnce(b.idle) /\ OutputsDrive(b, ToSet(b.idle)) /\ WithinHome(b)
      /\ \A p \in FrameOutputs : p # o => CountsOn(b, ToSet(b.idle), p)
  BY DEF SoundBut
<1>2. /\ f \in FrameStates /\ EachOnce(f.idle) /\ OutputsDrive(f, ToSet(f.idle)) /\ Plugged(f) = Plugged(b)
      /\ SceneOnly(b, f) /\ Balanced(b, f) /\ SceneShown(f) /\ (WithinHome(b) => WithinHome(f))
      /\ \A p \in FrameOutputs : CountsOn(b, ToSet(b.idle), p) => CountsOn(f, ToSet(f.idle), p)
  BY <1>1, UpdateSceneKeeps
<1>3. PICK D : D = Plugged(f)
  OBVIOUS
<1>4. D \in SUBSET FrameOutputs /\ D \subseteq Plugged(f) /\ g = Repainted(f, D)
  BY <1>3 DEF DamageLayers, Plugged
<1>5. g \in FrameStates /\ RepaintsOnly(f, D, g)
  BY <1>2, <1>4, RepaintedIs
<1>6. /\ OutputsDrive(g, ToSet(g.idle)) /\ Plugged(g) = Plugged(f)
      /\ \A p \in FrameOutputs : CountsOn(f, ToSet(f.idle), p) => CountsOn(g, ToSet(g.idle), p)
      /\ \A p \in D : EnteredOn(g, p) /\ AwaitedOn(g, p)
      /\ \A p \in FrameOutputs : g.out[p].instances = f.out[p].instances /\ g.out[p].present = f.out[p].present
      /\ \A p \in FrameOutputs : ShownRight(f, p) => ShownRight(g, p)
  BY <1>2, <1>4, <1>5, RepaintsKeep
<1>7. /\ EachOnce(g.idle) /\ g.surf = f.surf /\ \A s \in Surfaces : OutputsCalled(g, s) <=> OutputsCalled(f, s)
  BY <1>5 DEF RepaintsOnly
<1>8. SoundBut(g, o)
  <2>1. WithinHome(g)
    BY <1>1, <1>2, <1>7 DEF WithinHome
  <2> QED
    BY <1>1, <1>2, <1>5, <1>6, <1>7, <2>1 DEF SoundBut
<1>9. SceneShown(g)
  BY <1>2, <1>6 DEF SceneShown
<1>10. ASSUME NEW p \in FrameOutputs PROVE OwesOn(g, p)
  <2>1. CASE p \in D
    BY <1>6, <2>1 DEF OwesOn
  <2>2. CASE p \notin D
    <3>1. ~g.out[p].present
      BY <1>3, <1>6, <2>2 DEF Plugged
    <3> QED
      BY <3>1, GoneOwesNothing
  <2> QED
    BY <2>1, <2>2
<1>11. ASSUME NEW s \in Surfaces
       PROVE  /\ g.surf[s].visibility[o] = 0 /\ g.surf[s].delta[o] = ShownOn(g, s, o) - ShownOn(b, s, o)
              /\ g.surf[s].delta[o] # 0 => OutputsCalled(g, s)
  <2>1. b.surf[s].visibility[o] = 0 /\ b.surf[s].delta[o] = 0
    BY DEF NothingCounted
  <2>2. SameButDelta(b.surf[s], f.surf[s]) /\ (f.surf[s].delta = b.surf[s].delta \/ OutputsCalled(f, s))
    BY <1>2 DEF SceneOnly, OutputsCalled
  <2>3. f.surf[s].delta[o] = b.surf[s].delta[o] + ShownOn(f, s, o) - ShownOn(b, s, o)
    BY <1>2 DEF Balanced
  <2>4. ShownOn(g, s, o) = ShownOn(f, s, o) /\ ShownOn(f, s, o) \in Int /\ ShownOn(b, s, o) \in Int
    BY <1>6 DEF ShownOn
  <2>5. g.surf[s].visibility[o] = 0
    BY <1>7, <2>1, <2>2 DEF SameButDelta
  <2>6. g.surf[s].delta[o] = ShownOn(g, s, o) - ShownOn(b, s, o)
    BY <1>7, <2>1, <2>3, <2>4
  <2>7. g.surf[s].delta[o] # 0 => OutputsCalled(g, s)
    BY <1>7, <2>1, <2>2
  <2> QED
    BY <2>5, <2>6, <2>7
<1> QED
  BY <1>8, <1>9, <1>10, <1>11

(* An output leaves surfaces.                                              *)
LEMMA LeaveIs ==
  ASSUME FramesAssumption, NEW f \in FrameStates, EachOnce(f.idle), NEW S \in SUBSET Surfaces,
         NEW o \in FrameOutputs, NEW g, g = Leave(f, S, o)
  PROVE  /\ g \in FrameStates /\ DeltasOnly(f, g)
         /\ \A s \in Surfaces, p \in FrameOutputs :
              g.surf[s].delta[p] = f.surf[s].delta[p] + (IF p = o /\ s \in S THEN -1 ELSE 0)
<1>1. PICK k : k = Shifted(f, S, o, -1)
  OBVIOUS
<1>2. /\ k \in FrameStates /\ DeltasOnly(f, k)
      /\ \A s \in Surfaces, p \in FrameOutputs :
           k.surf[s].delta[p] = f.surf[s].delta[p] + (IF p = o /\ s \in S THEN -1 ELSE 0)
  <2>1. -1 \in Int
    OBVIOUS
  <2> QED
    BY <1>1, <2>1, ShiftedIs
<1> QED
  BY <1>1, <1>2 DEF Leave

(* Its instances are cleared.                                              *)
LEMMA ClearedIs ==
  ASSUME FramesAssumption, NEW b, NEW o \in FrameOutputs, SoundBut(b, o), SceneShown(b),
         \A p \in FrameOutputs : OwesOn(b, p), NEW before \in [Surfaces -> {0, 1}], ShownSince(b, o, before),
         NEW g, g = Leave(b, b.out[o].instances, o)
  PROVE  SoundBut(g, o) /\ SceneShown(g) /\ LeftCounted(g, o) /\ \A p \in FrameOutputs : OwesOn(g, p)
<1>1. /\ b \in FrameStates /\ EachOnce(b.idle) /\ OutputsDrive(b, ToSet(b.idle)) /\ WithinHome(b)
      /\ \A p \in FrameOutputs : p # o => CountsOn(b, ToSet(b.idle), p)
  BY DEF SoundBut
<1>2. PICK S : S = b.out[o].instances
  OBVIOUS
<1>3. S \in SUBSET Surfaces
  <2>1. b.out[o] \in OutStates
    BY <1>1, PartsTyped
  <2> QED
    BY <1>2, <2>1 DEF OutStates
<1>4. PICK k : k = Leave(b, S, o)
  OBVIOUS
<1>5. /\ k \in FrameStates /\ DeltasOnly(b, k)
      /\ \A s \in Surfaces, p \in FrameOutputs :
           k.surf[s].delta[p] = b.surf[s].delta[p] + (IF p = o /\ s \in S THEN -1 ELSE 0)
  <2>1. b \in FrameStates /\ EachOnce(b.idle)
    BY <1>1
  <2> QED
    BY <1>3, <1>4, <2>1, LeaveIs
<1>6. /\ g \in FrameStates /\ DeltasOnly(b, g)
      /\ \A s \in Surfaces, p \in FrameOutputs :
           g.surf[s].delta[p] = b.surf[s].delta[p] + (IF p = o /\ s \in S THEN -1 ELSE 0)
  <2>1. g = k
    BY <1>2, <1>4
  <2> QED
    BY <1>5, <2>1
<1>7. /\ EachOnce(g.idle) /\ g.out = b.out
      /\ \A s \in Surfaces : SameButDelta(b.surf[s], g.surf[s])
      /\ \A s \in Surfaces : OutputsCalled(b, s) => OutputsCalled(g, s)
      /\ \A s \in Surfaces : g.surf[s].delta = b.surf[s].delta \/ OutputsCalled(g, s)
  BY <1>6 DEF DeltasOnly, OutputsCalled
<1>8. \A p \in FrameOutputs : Framed(g, p) <=> Framed(b, p)
  <2>1. \A p \in FrameOutputs : <<"frame", p>> \notin {"outputs"} \X Surfaces
    BY CallsAre
  <2> QED
    BY <1>6, <2>1 DEF DeltasOnly, Framed
<1>9. OutputsDrive(g, ToSet(g.idle))
  <2>1. ASSUME NEW p \in FrameOutputs PROVE Drives(g.out[p], Framed(g, p))
    <3>1. Drives(b.out[p], Framed(b, p))
      BY <1>1 DEF OutputsDrive, Framed
    <3>2. g.out[p] = b.out[p] /\ (Framed(g, p) <=> Framed(b, p))
      BY <1>7, <1>8
    <3> QED
      BY <3>1, <3>2 DEF Drives
  <2> QED
    BY <2>1 DEF OutputsDrive, Framed
<1>10. ASSUME NEW p \in FrameOutputs, p # o PROVE CountsOn(g, ToSet(g.idle), p)
  <2>1. ASSUME NEW s \in Surfaces
        PROVE  Counts(g.out[p], g.surf[s].visibility[p], g.surf[s].delta[p], s \in g.out[p].instances, OutputsCalled(g, s))
    <3>1. Counts(b.out[p], b.surf[s].visibility[p], b.surf[s].delta[p], s \in b.out[p].instances, OutputsCalled(b, s))
      BY <1>1, <1>10 DEF CountsOn, OutputsCalled
    <3>2. g.surf[s].delta[p] = b.surf[s].delta[p]
      <4>1. b.surf[s].delta[p] \in Int
        BY <1>1, CountsTyped
      <4> QED
        BY <1>6, <1>10, <4>1
    <3>3. g.surf[s].visibility = b.surf[s].visibility
      BY <1>7 DEF SameButDelta
    <3> QED
      BY <1>7, <3>1, <3>2, <3>3 DEF Counts
  <2> QED
    BY <2>1 DEF CountsOn, OutputsCalled
<1>11. \A s \in Surfaces, p \in FrameOutputs :
         /\ IsGenerated(g.surf[s], p) <=> IsGenerated(b.surf[s], p)
         /\ WaitsFor(g.surf[s], p) <=> WaitsFor(b.surf[s], p)
         /\ g.surf[s].visibility = b.surf[s].visibility
  BY <1>7 DEF IsGenerated, WaitsFor, SameButDelta
<1>12. WithinHome(g)
  BY <1>1, <1>7 DEF WithinHome, SameButDelta
<1>13. SceneShown(g)
  BY <1>7, <1>11 DEF SceneShown, ShownRight
<1>14. ASSUME NEW p \in FrameOutputs PROVE OwesOn(g, p)
  <2>1. g.out[p] = b.out[p]
    BY <1>7
  <2>2. EnteredOn(b, p) /\ AwaitedOn(b, p)
    BY DEF OwesOn
  <2>3. EnteredOn(g, p)
    BY <1>11, <2>1, <2>2 DEF EnteredOn, Entered
  <2>4. AwaitedOn(g, p)
    BY <1>11, <2>1, <2>2 DEF AwaitedOn, Awaited
  <2> QED
    BY <2>3, <2>4 DEF OwesOn
<1>15. LeftCounted(g, o)
  <2>1. ASSUME NEW s \in Surfaces
        PROVE  /\ g.surf[s].visibility[o] = 0 /\ g.surf[s].delta[o] <= 0
               /\ g.surf[s].delta[o] # 0 => OutputsCalled(g, s)
    <3>1. /\ b.surf[s].visibility[o] = 0 /\ b.surf[s].delta[o] = ShownOn(b, s, o) - before[s]
          /\ b.surf[s].delta[o] # 0 => OutputsCalled(b, s)
      BY DEF ShownSince
    <3>2. g.surf[s].delta[o] = b.surf[s].delta[o] + (IF s \in S THEN -1 ELSE 0)
      BY <1>6
    <3>3. ShownOn(b, s, o) = (IF s \in S THEN 1 ELSE 0) /\ before[s] \in {0, 1}
      BY <1>2 DEF ShownOn
    <3>4. g.surf[s].delta[o] <= 0
      BY <3>1, <3>2, <3>3
    <3> QED
      BY <1>7, <1>11, <3>1, <3>4
  <2> QED
    BY <2>1 DEF LeftCounted
<1> QED
  BY <1>6, <1>7, <1>9, <1>10, <1>12, <1>13, <1>14, <1>15 DEF SoundBut

(* The output is gone, and its callbacks with it.                          *)
LEMMA GoneRight ==
  ASSUME NEW b, NEW o \in FrameOutputs, SoundBut(b, o), SceneShown(b), LeftCounted(b, o),
         \A p \in FrameOutputs : OwesOn(b, p), NEW f, f = WithOut(b, o, GoneOutput),
         NEW g, g = Never(Never(f, <<"frame", o>>), <<"visible", o>>)
  PROVE  Right(g)
<1>1. /\ b \in FrameStates /\ EachOnce(b.idle) /\ OutputsDrive(b, ToSet(b.idle)) /\ WithinHome(b)
      /\ \A p \in FrameOutputs : p # o => CountsOn(b, ToSet(b.idle), p)
  BY DEF SoundBut
<1>2. PICK y : y = GoneOutput
  OBVIOUS
<1>3. /\ y \in OutStates /\ y.present = FALSE /\ y.pending = FALSE /\ y.flip = "none" /\ y.timer = FALSE
      /\ y.needs = FALSE /\ y.instances = {}
  BY <1>2 DEF GoneOutput, NewOutput, OutStates
<1>4. /\ f \in FrameStates /\ f.surf = b.surf /\ f.idle = b.idle
      /\ f.out[o] = y /\ \A p \in FrameOutputs : p # o => f.out[p] = b.out[p]
  <2>1. y \in OutStates /\ f = WithOut(b, o, y)
    BY <1>2, <1>3
  <2> QED
    BY <1>1, <2>1, OutChanged
<1>5. PICK c : c = Dropped(f.idle, <<"frame", o>>)
  OBVIOUS
<1>6. PICK d : d = Dropped(c, <<"visible", o>>)
  OBVIOUS
<1>7. f.idle \in Seq(Calls) /\ EachOnce(f.idle)
  BY <1>1, <1>4, PartsTyped
<1>8. c \in Seq(Calls) /\ EachOnce(c) /\ ToSet(c) = ToSet(f.idle) \ {<<"frame", o>>}
  BY <1>5, <1>7, DroppedIs
<1>9. d \in Seq(Calls) /\ EachOnce(d) /\ ToSet(d) = ToSet(c) \ {<<"visible", o>>}
  BY <1>6, <1>8, DroppedIs
<1>10. g = WithIdle(f, d)
  <2>1. PICK e : e = Never(f, <<"frame", o>>)
    OBVIOUS
  <2>2. e = WithIdle(f, c)
    BY <1>5, <2>1 DEF Never, WithIdle
  <2>3. e.idle = c /\ e \in FrameStates
    BY <1>4, <1>8, <2>2, IdleChanged
  <2>4. g = [e EXCEPT !.idle = d]
    BY <1>6, <2>1, <2>3 DEF Never
  <2> QED
    BY <1>4, <2>2, <2>4 DEF WithIdle, FrameStates
<1>11. g \in FrameStates /\ g.out = f.out /\ g.surf = f.surf /\ g.idle = d
  BY <1>4, <1>9, <1>10, IdleChanged
<1>12. /\ ~Framed(g, o) /\ \A p \in FrameOutputs : p # o => (Framed(g, p) <=> Framed(b, p))
       /\ \A s \in Surfaces : OutputsCalled(g, s) <=> OutputsCalled(b, s)
  BY <1>4, <1>8, <1>9, <1>11, CallsAre DEF Framed, OutputsCalled
<1>13. OutputsDrive(g, ToSet(g.idle))
  <2>1. Drives(g.out[o], Framed(g, o))
    BY <1>3, <1>4, <1>11, <1>12 DEF Drives
  <2>2. ASSUME NEW p \in FrameOutputs, p # o PROVE Drives(g.out[p], Framed(g, p))
    <3>1. Drives(b.out[p], Framed(b, p))
      BY <1>1 DEF OutputsDrive, Framed
    <3>2. g.out[p] = b.out[p] /\ (Framed(g, p) <=> Framed(b, p))
      BY <1>4, <1>11, <1>12, <2>2
    <3> QED
      BY <3>1, <3>2 DEF Drives
  <2> QED
    BY <2>1, <2>2 DEF OutputsDrive, Framed
<1>14. ASSUME NEW p \in FrameOutputs PROVE CountsOn(g, ToSet(g.idle), p)
  <2>1. CASE p = o
    <3>1. ASSUME NEW s \in Surfaces
          PROVE  Counts(g.out[o], g.surf[s].visibility[o], g.surf[s].delta[o], s \in g.out[o].instances, OutputsCalled(g, s))
      <4>1. /\ b.surf[s].visibility[o] = 0 /\ b.surf[s].delta[o] <= 0
            /\ b.surf[s].delta[o] # 0 => OutputsCalled(b, s)
        BY DEF LeftCounted
      <4> QED
        BY <1>3, <1>4, <1>11, <1>12, <4>1 DEF Counts
    <3> QED
      BY <2>1, <3>1 DEF CountsOn, OutputsCalled
  <2>2. CASE p # o
    <3>1. ASSUME NEW s \in Surfaces
          PROVE  Counts(g.out[p], g.surf[s].visibility[p], g.surf[s].delta[p], s \in g.out[p].instances, OutputsCalled(g, s))
      <4>1. Counts(b.out[p], b.surf[s].visibility[p], b.surf[s].delta[p], s \in b.out[p].instances, OutputsCalled(b, s))
        BY <1>1, <2>2 DEF CountsOn, OutputsCalled
      <4> QED
        BY <1>4, <1>11, <1>12, <2>2, <4>1 DEF Counts
    <3> QED
      BY <3>1 DEF CountsOn, OutputsCalled
  <2> QED
    BY <2>1, <2>2
<1>15. ASSUME NEW p \in FrameOutputs PROVE OwesOn(g, p) /\ ShownRight(g, p)
  <2>1. CASE p = o
    <3>1. ~g.out[p].present
      BY <1>3, <1>4, <1>11, <2>1
    <3> QED
      BY <3>1, GoneOwesNothing DEF ShownRight
  <2>2. CASE p # o
    <3>1. g.out[p] = b.out[p] /\ g.surf = b.surf
      BY <1>4, <1>11, <2>2
    <3>2. OwesOn(b, p) /\ ShownRight(b, p)
      BY DEF SceneShown
    <3> QED
      BY <3>1, <3>2 DEF OwesOn, EnteredOn, AwaitedOn, ShownRight
  <2> QED
    BY <2>1, <2>2
<1>16. WithinHome(g)
  BY <1>1, <1>4, <1>11 DEF WithinHome
<1>17. OutputsOwe(g) /\ SceneShown(g) /\ SurfacesCount(g, ToSet(g.idle))
  BY <1>14, <1>15 DEF OutputsOwe, SceneShown, SurfacesCount, OwesOn
<1> QED
  BY <1>9, <1>11, <1>13, <1>16, <1>17 DEF Right, Served

(* An output is removed.                                                   *)
LEMMA RemoveKeeps ==
  ASSUME FramesAssumption, NEW b, Right(b), NEW o \in FrameOutputs, NEW to \in FrameOutputs,
         NEW f, f = WithSurfaces(b, Elsewhere(b, o, to)), NEW moved, moved = UpdateScene(f),
         NEW dead, dead = DamageLayers(UpdateScene(Forgotten(moved, o))),
         NEW cleared, cleared = Leave(dead, dead.out[o].instances, o),
         NEW x, x = WithOut(cleared, o, GoneOutput),
         NEW g, g = Never(Never(x, <<"frame", o>>), <<"visible", o>>)
  PROVE  Right(g)
<1>1. Sound(f)
  BY ElsewhereSound
<1>2. /\ f \in FrameStates /\ EachOnce(f.idle) /\ OutputsDrive(f, ToSet(f.idle)) /\ SurfacesCount(f, ToSet(f.idle))
      /\ WithinHome(f)
  BY <1>1 DEF Sound
<1>3. /\ moved \in FrameStates /\ EachOnce(moved.idle) /\ OutputsDrive(moved, ToSet(moved.idle))
      /\ (WithinHome(f) => WithinHome(moved))
      /\ \A p \in FrameOutputs : CountsOn(f, ToSet(f.idle), p) => CountsOn(moved, ToSet(moved.idle), p)
  BY <1>2, UpdateSceneKeeps
<1>4. Sound(moved)
  BY <1>2, <1>3 DEF Sound, SurfacesCount
<1>5. PICK c : c = Forgotten(moved, o)
  OBVIOUS
<1>6. SoundBut(c, o) /\ NothingCounted(c, o)
  BY <1>4, <1>5, ForgottenIs
<1>7. PICK d : d = UpdateScene(c)
  OBVIOUS
<1>8. dead = DamageLayers(d)
  BY <1>5, <1>7
<1>9. /\ SoundBut(dead, o) /\ SceneShown(dead) /\ \A p \in FrameOutputs : OwesOn(dead, p)
      /\ \A s \in Surfaces :
           /\ dead.surf[s].visibility[o] = 0 /\ dead.surf[s].delta[o] = ShownOn(dead, s, o) - ShownOn(c, s, o)
           /\ dead.surf[s].delta[o] # 0 => OutputsCalled(dead, s)
  BY <1>6, <1>7, <1>8, DeadIs
<1>10. PICK before : before = [s \in Surfaces |-> ShownOn(c, s, o)]
  OBVIOUS
<1>11. before \in [Surfaces -> {0, 1}] /\ \A s \in Surfaces : before[s] = ShownOn(c, s, o)
  BY <1>10 DEF ShownOn
<1>12. ShownSince(dead, o, before)
  BY <1>9, <1>11 DEF ShownSince
<1>13. SoundBut(cleared, o) /\ SceneShown(cleared) /\ LeftCounted(cleared, o) /\ \A p \in FrameOutputs : OwesOn(cleared, p)
  BY <1>9, <1>11, <1>12, ClearedIs
<1> QED
  BY <1>13, GoneRight

(* What is right of the next state.                                        *)
LEMMA ThenRight ==
  ASSUME NEW g, Right(g), Then(g), UNCHANGED limits
  PROVE  FrameInv'
<1>1. /\ g \in FrameStates /\ EachOnce(g.idle) /\ OutputsDrive(g, ToSet(g.idle)) /\ SurfacesCount(g, ToSet(g.idle))
      /\ OutputsOwe(g) /\ SceneShown(g) /\ WithinHome(g)
  BY RightIs
<1>2. fo' = g.out /\ fs' = g.surf /\ idles' = g.idle /\ limits' = limits
  BY DEF Then
<1>3. g = [out |-> fo', surf |-> fs', idle |-> idles']
  BY <1>1, <1>2 DEF FrameStates
<1>4. (Now \in FrameStates)' /\ EachOnce(Now.idle)'
  BY <1>1, <1>2, <1>3 DEF Now, EachOnce
<1>5. OutputsDrive(Now, ToSet(Now.idle))'
  BY <1>1, <1>2 DEF Now, OutputsDrive, Drives, ToSet
<1>6. SurfacesCount(Now, ToSet(Now.idle))'
  BY <1>1, <1>2 DEF Now, SurfacesCount, CountsOn, Counts, ToSet
<1>7. OutputsOwe(Now)'
  BY <1>1, <1>2 DEF Now, OutputsOwe, EnteredOn, AwaitedOn, Entered, Awaited, Works, IsGenerated, WaitsFor
<1>8. SceneShown(Now)' /\ WithinHome(Now)'
  BY <1>1, <1>2 DEF Now, SceneShown, ShownRight, IsGenerated, WithinHome
<1> QED
  BY <1>4, <1>5, <1>6, <1>7, <1>8 DEF FrameInv, Right, Served

(* A page flip.                                                            *)
LEMMA PageFlipKeeps ==
  ASSUME FrameInv, NEW o \in FrameOutputs, NEW wanted, PageFlip(o, wanted)
  PROVE  FrameInv'
<1>1. PICK b : b = Now
  OBVIOUS
<1>2. Right(b) /\ b \in FrameStates /\ b.out[o] \in OutStates
  BY <1>1, RightIs, PartsTyped DEF FrameInv
<1>3. PICK f : f = [b EXCEPT !.out[o].flip = "none", !.out[o].pending = FALSE]
  OBVIOUS
<1>4. f = WithOut(b, o, FlipDoneOf(b.out[o]))
  BY <1>2, <1>3 DEF WithOut, FlipDoneOf, FrameStates, OutStates
<1>5. PICK g : g = OnFrame(f, o, wanted)
  OBVIOUS
<1>6. b.out[o].flip = "ready" /\ Then(g) /\ UNCHANGED limits
  <2>1. b.out[o].flip = "ready"
    BY <1>1 DEF PageFlip, Now
  <2> QED
    BY <1>1, <1>3, <1>5, <2>1 DEF PageFlip, Request
<1>7. Right(g)
  BY <1>2, <1>4, <1>5, <1>6, FlipKeeps
<1> QED
  BY <1>6, <1>7, ThenRight

(* The repaint timer.                                                      *)
LEMMA RepaintTimerKeeps ==
  ASSUME FrameInv, NEW o \in FrameOutputs, NEW wanted, RepaintTimer(o, wanted)
  PROVE  FrameInv'
<1>1. PICK b : b = Now
  OBVIOUS
<1>2. Right(b) /\ b \in FrameStates /\ b.out[o] \in OutStates
  BY <1>1, RightIs, PartsTyped DEF FrameInv
<1>3. PICK f : f = [b EXCEPT !.out[o].timer = FALSE, !.out[o].pending = FALSE]
  OBVIOUS
<1>4. f = WithOut(b, o, TimerDoneOf(b.out[o]))
  BY <1>2, <1>3 DEF WithOut, TimerDoneOf, FrameStates, OutStates
<1>5. PICK g : g = Paint(f, o, wanted)
  OBVIOUS
<1>6. b.out[o].timer /\ Then(g) /\ UNCHANGED limits
  <2>1. b.out[o].timer
    BY <1>1 DEF RepaintTimer, Now
  <2> QED
    BY <1>1, <1>3, <1>5, <2>1 DEF RepaintTimer, Request
<1>7. Right(g)
  BY <1>2, <1>4, <1>5, <1>6, TimerKeeps
<1> QED
  BY <1>6, <1>7, ThenRight

(* set_redraw_always().                                                    *)
LEMMA SetRedrawKeeps ==
  ASSUME FrameInv, NEW o \in FrameOutputs, NEW by \in {-1, 1}, SetRedrawAlways(o, by)
  PROVE  FrameInv'
<1>1. PICK b : b = Now
  OBVIOUS
<1>2. Right(b) /\ b \in FrameStates /\ b.out[o] \in OutStates
  BY <1>1, RightIs, PartsTyped DEF FrameInv
<1>3. PICK n : n = b.out[o].redraw + by
  OBVIOUS
<1>4. PICK f : f = [b EXCEPT !.out[o].redraw = n]
  OBVIOUS
<1>5. f = WithOut(b, o, RedrawOf(b.out[o], n))
  BY <1>2, <1>4 DEF WithOut, RedrawOf, FrameStates, OutStates
<1>6. PICK g : g = IF n > 1 THEN f ELSE ScheduleRepaint(f, o)
  OBVIOUS
<1>7. b.out = fo
  BY <1>1 DEF Now
<1>8. b.out[o].present /\ n >= 0 /\ Then(g) /\ UNCHANGED limits
  BY <1>1, <1>3, <1>4, <1>6, <1>7 DEF SetRedrawAlways, Request
<1>9. Right(g)
  BY <1>2, <1>3, <1>5, <1>6, <1>8, RedrawKeeps
<1> QED
  BY <1>8, <1>9, ThenRight

(* The output is switched off.                                             *)
LEMMA SwitchedOffKeeps ==
  ASSUME FrameInv, NEW o \in FrameOutputs, SwitchOff(o)
  PROVE  FrameInv'
<1>1. PICK b : b = Now
  OBVIOUS
<1>2. Right(b) /\ b \in FrameStates /\ b.out[o] \in OutStates
  BY <1>1, RightIs, PartsTyped DEF FrameInv
<1>3. PICK g : g = [b EXCEPT !.out[o].on = FALSE, !.out[o].pending = FALSE, !.out[o].flip = "none"]
  OBVIOUS
<1>4. g = WithOut(b, o, OffOf(b.out[o]))
  BY <1>2, <1>3 DEF WithOut, OffOf, FrameStates, OutStates
<1>5. ~b.out[o].timer
  BY <1>1 DEF SwitchOff, Now
<1>6. Then(g) /\ UNCHANGED limits
  BY <1>1, <1>3 DEF SwitchOff, Request
<1>7. Right(g)
  BY <1>2, <1>4, <1>5, SwitchOffKeeps
<1> QED
  BY <1>6, <1>7, ThenRight

(* The output is switched on.                                              *)
LEMMA SwitchedOnKeeps ==
  ASSUME FrameInv, NEW o \in FrameOutputs, SwitchOn(o)
  PROVE  FrameInv'
<1>1. PICK b : b = Now
  OBVIOUS
<1>2. Right(b) /\ b \in FrameStates /\ b.out[o] \in OutStates
  BY <1>1, RightIs, PartsTyped DEF FrameInv
<1>3. PICK f : f = [b EXCEPT !.out[o].on = TRUE]
  OBVIOUS
<1>4. f = WithOut(b, o, OnOf(b.out[o]))
  BY <1>2, <1>3 DEF WithOut, OnOf, FrameStates, OutStates
<1>5. PICK c : c = CommitBuffer(f, o)
  OBVIOUS
<1>6. PICK g : g = ScheduleRepaint(c, o)
  OBVIOUS
<1>7. b.out[o].present /\ ~b.out[o].on
  BY <1>1 DEF SwitchOn, Now
<1>8. Then(g) /\ UNCHANGED limits
  BY <1>1, <1>3, <1>5, <1>6 DEF SwitchOn, Request
<1>9. Right(g)
  BY <1>2, <1>4, <1>5, <1>6, <1>7, SwitchOnKeeps
<1> QED
  BY <1>8, <1>9, ThenRight

(* Other nodes come or go.                                                 *)
LEMMA UpdateOthersKeeps ==
  ASSUME FramesAssumption, FrameInv, NEW o \in FrameOutputs, UpdateOthers(o)
  PROVE  FrameInv'
<1>1. PICK b : b = Now
  OBVIOUS
<1>2. Right(b)
  BY <1>1 DEF FrameInv
<1>3. PICK g : g = UpdateScene(ScheduleRepaint(b, o))
  OBVIOUS
<1>4. b.out[o].present
  BY <1>1 DEF UpdateOthers, Now
<1>5. Then(g) /\ UNCHANGED limits
  BY <1>1, <1>3 DEF UpdateOthers, Request
<1>6. Right(g)
  BY <1>2, <1>3, <1>4, OthersKeep
<1> QED
  BY <1>5, <1>6, ThenRight

(* An output comes.                                                        *)
LEMMA AddFrameOutputKeeps ==
  ASSUME FramesAssumption, FrameInv, NEW o \in FrameOutputs, AddFrameOutput(o)
  PROVE  FrameInv'
<1>1. PICK b : b = Now
  OBVIOUS
<1>2. Right(b) /\ b \in FrameStates
  BY <1>1, RightIs DEF FrameInv
<1>3. PICK f : f = [b EXCEPT !.out[o] = NewOutput]
  OBVIOUS
<1>4. f = WithOut(b, o, NewOutput)
  BY <1>2, <1>3 DEF WithOut, FrameStates
<1>5. PICK g : g = DamageLayers(UpdateScene(f))
  OBVIOUS
<1>6. ~b.out[o].present /\ \A s \in Surfaces : b.surf[s].delta[o] = 0
  BY <1>1 DEF AddFrameOutput, Now
<1>7. Then(g) /\ UNCHANGED limits
  BY <1>1, <1>3, <1>5 DEF AddFrameOutput, Request
<1>8. Right(g)
  BY <1>2, <1>4, <1>5, <1>6, AddKeeps
<1> QED
  BY <1>7, <1>8, ThenRight

(* An output goes.                                                         *)
LEMMA RemoveFrameOutputKeeps ==
  ASSUME FramesAssumption, FrameInv, NEW o \in FrameOutputs, NEW to \in FrameOutputs, RemoveFrameOutput(o, to)
  PROVE  FrameInv'
<1>1. PICK b : b = Now
  OBVIOUS
<1>2. Right(b) /\ b \in FrameStates
  BY <1>1, RightIs DEF FrameInv
<1>3. PICK elsewhere : elsewhere = [s \in Surfaces |->
        [fs[s] EXCEPT !.home = IF fs[s].home = o THEN to ELSE fs[s].home, !.exposed = fs[s].exposed \ {o}]]
  OBVIOUS
<1>4. PICK f : f = [b EXCEPT !.surf = elsewhere]
  OBVIOUS
<1>5. f = WithSurfaces(b, Elsewhere(b, o, to))
  <2>1. b.surf = fs
    BY <1>1 DEF Now
  <2>2. elsewhere = Elsewhere(b, o, to)
    BY <1>3, <2>1 DEF Elsewhere, MovedOf
  <2> QED
    BY <1>4, <2>2 DEF WithSurfaces
<1>6. PICK moved : moved = UpdateScene(f)
  OBVIOUS
<1>7. PICK dead : dead = DamageLayers(UpdateScene(Forgotten(moved, o)))
  OBVIOUS
<1>8. PICK cleared : cleared = Leave(dead, dead.out[o].instances, o)
  OBVIOUS
<1>9. PICK x : x = [cleared EXCEPT !.out[o] = [NewOutput EXCEPT !.present = FALSE]]
  OBVIOUS
<1>10. x = WithOut(cleared, o, GoneOutput)
  BY <1>9 DEF WithOut, GoneOutput
<1>11. PICK g : g = Never(Never(x, <<"frame", o>>), <<"visible", o>>)
  OBVIOUS
<1>12. Then(g) /\ UNCHANGED limits
  BY <1>1, <1>3, <1>4, <1>6, <1>7, <1>8, <1>9, <1>11 DEF RemoveFrameOutput, Request
<1>13. Right(g)
  BY <1>2, <1>5, <1>6, <1>7, <1>8, <1>10, <1>11, RemoveKeeps
<1> QED
  BY <1>12, <1>13, ThenRight

(* A view moves.                                                           *)
LEMMA MoveSurfaceKeeps ==
  ASSUME FramesAssumption, FrameInv, NEW s \in Surfaces, NEW o \in FrameOutputs, NEW where \in SUBSET FrameOutputs,
         MoveSurface(s, o, where)
  PROVE  FrameInv'
<1>1. PICK b : b = Now
  OBVIOUS
<1>2. Right(b) /\ b \in FrameStates /\ b.surf[s] \in SurfaceStates
  BY <1>1, RightIs, PartsTyped DEF FrameInv
<1>3. PICK f : f = [b EXCEPT !.surf[s].home = o, !.surf[s].exposed = where]
  OBVIOUS
<1>4. f = WithSurf(b, s, MovedToOf(b.surf[s], o, where))
  BY <1>2, <1>3 DEF WithSurf, MovedToOf, FrameStates, SurfaceStates
<1>5. PICK h : h = DamageParent(f, s)
  OBVIOUS
<1>6. PICK g : g = IF b.surf[s].home = o THEN UpdateGeometry(h) ELSE UpdateScene(DamageParent(h, s))
  OBVIOUS
<1>7. b.surf = fs
  BY <1>1 DEF Now
<1>8. Then(g) /\ UNCHANGED limits
  BY <1>1, <1>3, <1>5, <1>6, <1>7 DEF MoveSurface, Request
<1>9. limits => where \subseteq {o}
  BY DEF MoveSurface, Exposable
<1>10. Right(g)
  BY <1>2, <1>4, <1>5, <1>6, <1>9, MoveKeeps
<1> QED
  BY <1>8, <1>10, ThenRight

(* A client commits.                                                       *)
LEMMA CommitSurfaceKeeps ==
  ASSUME FramesAssumption, FrameInv, NEW s \in Surfaces, NEW damaged \in BOOLEAN, CommitSurface(s, damaged)
  PROVE  FrameInv'
<1>1. PICK b : b = Now
  OBVIOUS
<1>2. Right(b) /\ b \in FrameStates /\ b.surf[s] \in SurfaceStates
  BY <1>1, RightIs, PartsTyped DEF FrameInv
<1>3. PICK f : f = [b EXCEPT !.surf[s].callback = TRUE, !.surf[s].missed = FALSE]
  OBVIOUS
<1>4. f = WithSurf(b, s, AskingOf(b.surf[s]))
  BY <1>2, <1>3 DEF WithSurf, AskingOf, FrameStates, SurfaceStates
<1>5. PICK g : g = Redrawn(IF damaged THEN Damage(f, s) ELSE f, s)
  OBVIOUS
<1>6. Then(g) /\ UNCHANGED limits
  BY <1>1, <1>3, <1>5 DEF CommitSurface, Request
<1>7. Right(g)
  BY <1>2, <1>4, <1>5, CommitKeeps
<1> QED
  BY <1>6, <1>7, ThenRight

(* A node is enabled or disabled.                                          *)
LEMMA EnableNodeKeeps ==
  ASSUME FramesAssumption, FrameInv, NEW s \in Surfaces, NEW enabled \in BOOLEAN, EnableNode(s, enabled)
  PROVE  FrameInv'
<1>1. PICK b : b = Now
  OBVIOUS
<1>2. Right(b) /\ b \in FrameStates /\ b.surf[s] \in SurfaceStates
  BY <1>1, RightIs, PartsTyped DEF FrameInv
<1>3. PICK f : f = [b EXCEPT !.surf[s].enabled = enabled]
  OBVIOUS
<1>4. f = WithSurf(b, s, EnabledOf(b.surf[s], enabled))
  BY <1>2, <1>3 DEF WithSurf, EnabledOf, FrameStates, SurfaceStates
<1>5. PICK g : g = UpdateScene(DamageParent(f, s))
  OBVIOUS
<1>6. Then(g) /\ UNCHANGED limits
  BY <1>1, <1>3, <1>5 DEF EnableNode, Request
<1>7. Right(g)
  BY <1>2, <1>4, <1>5, EnableKeeps
<1> QED
  BY <1>6, <1>7, ThenRight

(* The event loop runs its idle callbacks.                                 *)
LEMMA RunIdlesKeeps ==
  ASSUME FrameInv, NEW wanted, RunIdles(wanted)
  PROVE  FrameInv'
<1>1. PICK b : b = Now
  OBVIOUS
<1>2. b \in FrameStates /\ EachOnce(b.idle) /\ Served(b, ToSet(b.idle))
  BY <1>1, RightIs DEF FrameInv
<1>3. PICK p : p = b.idle
  OBVIOUS
<1>4. p \in Seq(Calls) /\ EachOnce(p)
  BY <1>2, <1>3, PartsTyped
<1>5. PICK f : f = [b EXCEPT !.idle = <<>>]
  OBVIOUS
<1>6. f \in FrameStates /\ f.out = b.out /\ f.surf = b.surf /\ f.idle = <<>>
  BY <1>2, <1>5, NothingCalled, IdleChanged DEF WithIdle
<1>7. Served(f, ToSet(p))
  BY <1>2, <1>3, <1>6 DEF Served, OutputsDrive, SurfacesCount, CountsOn, OutputsOwe, EnteredOn, AwaitedOn,
     SceneShown, ShownRight, WithinHome
<1>8. PICK h : h = Called(f, p, wanted)
  OBVIOUS
<1>9. h \in FrameStates /\ h.idle = <<>> /\ Served(h, {})
  BY <1>4, <1>6, <1>7, <1>8, CallsKeep
<1>10. PICK all : all = [o \in FrameOutputs |-> FlippedOf(h.out[o])]
  OBVIOUS
<1>11. PICK g : g = [h EXCEPT !.out = all]
  OBVIOUS
<1>12. g \in FrameStates /\ g.idle = h.idle /\ Served(g, {})
  BY <1>9, <1>10, <1>11, FlippedIs
<1>13. Right(g)
  BY <1>9, <1>12, NothingCalled DEF Right
<1>14. h = Folded(LAMBDA r, call : Call(r, call, wanted), [Now EXCEPT !.idle = <<>>], idles)
  <2>1. p = idles
    BY <1>1, <1>3 DEF Now
  <2> QED
    BY <1>1, <1>5, <1>8, <2>1 DEF Called
<1>15. g = [h EXCEPT !.out = [o \in FrameOutputs |->
                   [h.out[o] EXCEPT !.flip = IF h.out[o].flip = "new" THEN "ready" ELSE h.out[o].flip]]]
  BY <1>10, <1>11 DEF FlippedOf
<1>16. Then(g) /\ UNCHANGED limits
  BY <1>14, <1>15 DEF RunIdles, Request
<1> QED
  BY <1>13, <1>16, ThenRight

(* The first state is right.                                               *)
LEMMA FrameStarts ==
  ASSUME FramesAssumption, FrameInit
  PROVE  FrameInv
<1>1. PICK first \in FrameOutputs :
        /\ fo = [o \in FrameOutputs |-> [NewOutput EXCEPT !.present = o = first]]
        /\ fs = [s \in Surfaces |-> [home |-> first, enabled |-> FALSE, exposed |-> {},
             callback |-> FALSE, missed |-> FALSE, visibility |-> [o \in FrameOutputs |-> 0],
             delta |-> [o \in FrameOutputs |-> 0]]]
        /\ idles = <<>>
  BY DEF FrameInit
<1>2. PICK b : b = Now
  OBVIOUS
<1>3. b.out = fo /\ b.surf = fs /\ b.idle = <<>> /\ b = [out |-> fo, surf |-> fs, idle |-> <<>>]
  BY <1>1, <1>2 DEF Now
<1>4. ASSUME NEW o \in FrameOutputs
      PROVE  /\ b.out[o] \in OutStates /\ b.out[o].on /\ ~b.out[o].pending /\ b.out[o].flip = "none" /\ ~b.out[o].timer
             /\ ~b.out[o].needs /\ b.out[o].redraw = 0 /\ b.out[o].instances = {}
  <2>1. PICK there \in BOOLEAN : there <=> o = first
    OBVIOUS
  <2>2. PICK x : x = [NewOutput EXCEPT !.present = there]
    OBVIOUS
  <2>3. /\ x \in OutStates /\ x.on /\ ~x.pending /\ x.flip = "none" /\ ~x.timer
        /\ ~x.needs /\ x.redraw = 0 /\ x.instances = {}
    BY <2>1, <2>2 DEF NewOutput, OutStates
  <2>4. b.out[o] = x
    <3>1. b.out[o] = [NewOutput EXCEPT !.present = (o = first)]
      BY <1>1, <1>3
    <3>2. (o = first) = there
      BY <2>1
    <3> QED
      BY <2>2, <3>1, <3>2
  <2> QED
    BY <2>3, <2>4
<1>5. ASSUME NEW s \in Surfaces
      PROVE  /\ b.surf[s] \in SurfaceStates /\ ~b.surf[s].enabled /\ b.surf[s].exposed = {}
             /\ \A o \in FrameOutputs : b.surf[s].visibility[o] = 0 /\ b.surf[s].delta[o] = 0
  BY <1>1, <1>3 DEF SurfaceStates
<1>6. b \in FrameStates
  <2>1. fo \in [FrameOutputs -> OutStates]
    BY <1>1, <1>3, <1>4
  <2>2. fs \in [Surfaces -> SurfaceStates]
    BY <1>1, <1>3, <1>5
  <2>3. <<>> \in Seq(Calls)
    BY NothingCalled
  <2> QED
    BY <1>3, <2>1, <2>2, <2>3 DEF FrameStates
<1>7. EachOnce(b.idle) /\ ToSet(b.idle) = {}
  BY <1>3, NothingCalled
<1>8. OutputsDrive(b, {})
  BY <1>4 DEF OutputsDrive, Drives
<1>9. SurfacesCount(b, {})
  BY <1>4, <1>5 DEF SurfacesCount, CountsOn, Counts
<1>10. OutputsOwe(b)
  BY <1>5 DEF OutputsOwe, EnteredOn, AwaitedOn, Entered, Awaited, IsGenerated, WaitsFor
<1>11. SceneShown(b) /\ WithinHome(b)
  BY <1>4, <1>5 DEF SceneShown, ShownRight, IsGenerated, WithinHome
<1> QED
  BY <1>2, <1>6, <1>7, <1>8, <1>9, <1>10, <1>11 DEF FrameInv, Right, Served

(* Nothing moves.                                                          *)
LEMMA FramesStutter ==
  ASSUME FrameInv, UNCHANGED frameVars
  PROVE  FrameInv'
<1>1. PICK b : b = Now
  OBVIOUS
<1>2. Right(b) /\ Then(b) /\ UNCHANGED limits
  BY <1>1 DEF FrameInv, Then, Now, frameVars
<1> QED
  BY <1>2, ThenRight

(* Every step leaves all right.                                            *)
LEMMA FramesMove ==
  ASSUME FramesAssumption, FrameInv, [FrameNext]_frameVars
  PROVE  FrameInv'
<1>1. CASE UNCHANGED frameVars
  BY <1>1, FramesStutter
<1>2. ASSUME NEW o \in FrameOutputs, NEW wanted \in Outcomes, PageFlip(o, wanted) \/ RepaintTimer(o, wanted)
      PROVE  FrameInv'
  BY <1>2, PageFlipKeeps, RepaintTimerKeeps
<1>3. ASSUME NEW o \in FrameOutputs, NEW by \in {-1, 1}, SetRedrawAlways(o, by)
      PROVE  FrameInv'
  BY <1>3, SetRedrawKeeps
<1>4. ASSUME NEW o \in FrameOutputs, SwitchOff(o) \/ SwitchOn(o) \/ UpdateOthers(o) \/ AddFrameOutput(o)
      PROVE  FrameInv'
  BY <1>4, SwitchedOffKeeps, SwitchedOnKeeps, UpdateOthersKeeps, AddFrameOutputKeeps
<1>5. ASSUME NEW o \in FrameOutputs, NEW to \in FrameOutputs, RemoveFrameOutput(o, to)
      PROVE  FrameInv'
  BY <1>5, RemoveFrameOutputKeeps
<1>6. ASSUME NEW o \in FrameOutputs, NEW s \in Surfaces, NEW where \in SUBSET FrameOutputs, MoveSurface(s, o, where)
      PROVE  FrameInv'
  BY <1>6, MoveSurfaceKeeps
<1>7. ASSUME NEW s \in Surfaces, NEW on \in BOOLEAN, CommitSurface(s, on) \/ EnableNode(s, on)
      PROVE  FrameInv'
  BY <1>7, CommitSurfaceKeeps, EnableNodeKeeps
<1>8. ASSUME NEW wanted \in [FrameOutputs -> Outcomes], RunIdles(wanted)
      PROVE  FrameInv'
  BY <1>8, RunIdlesKeeps
<1>9. CASE FrameNext
  BY <1>2, <1>3, <1>4, <1>5, <1>6, <1>7, <1>8, <1>9 DEF FrameNext
<1> QED
  BY <1>1, <1>9

(* What the run checks.                                                    *)
LEMMA ServedSo ==
  ASSUME FrameInv
  PROVE  ClientsServed
<1>1. PICK b : b = Now
  OBVIOUS
<1>2. /\ b \in FrameStates /\ EachOnce(b.idle) /\ OutputsDrive(b, ToSet(b.idle)) /\ SurfacesCount(b, ToSet(b.idle))
      /\ OutputsOwe(b) /\ SceneShown(b)
  BY <1>1, RightIs DEF FrameInv
<1>3. b.out = fo /\ b.surf = fs /\ b.idle = idles
  BY <1>1 DEF Now
<1>4. ASSUME Quiet, NEW s \in Surfaces, NEW o \in FrameOutputs
      PROVE  fs[s].visibility[o] = IF s \in fo[o].instances THEN 1 ELSE 0
  <2>1. ToSet(b.idle) = {}
    BY <1>3, <1>4, NothingCalled DEF Quiet
  <2>2. Counts(b.out[o], b.surf[s].visibility[o], b.surf[s].delta[o], s \in b.out[o].instances, OutputsCalled(b, s))
    BY <1>2 DEF SurfacesCount, CountsOn, OutputsCalled
  <2>3. Drives(b.out[o], Framed(b, o)) /\ ~Framed(b, o)
    BY <1>2, <2>1 DEF OutputsDrive, Framed
  <2>4. b.surf[s].visibility[o] \in Int
    BY <1>2, CountsTyped
  <2>5. ~OutputsCalled(b, s)
    BY <2>1 DEF OutputsCalled
  <2> QED
    BY <1>3, <2>2, <2>3, <2>4, <2>5 DEF Counts, Drives
<1>5. ASSUME Quiet, NEW o \in FrameOutputs, Usable(o), ~Coming(o)
      PROVE  /\ ~fo[o].needs /\ fo[o].redraw = 0
             /\ \A s \in Surfaces : Waits(s, o) => fs[s].missed
  <2>1. ToSet(b.idle) = {}
    BY <1>3, <1>5, NothingCalled DEF Quiet
  <2>2. Drives(b.out[o], Framed(b, o)) /\ ~Framed(b, o)
    BY <1>2, <2>1 DEF OutputsDrive, Framed
  <2>3. b.out[o] \in OutStates
    BY <1>2, PartsTyped
  <2>4. ~fo[o].needs /\ fo[o].redraw = 0
    BY <1>3, <1>5, <2>2, <2>3 DEF Drives, Usable, Coming, OutStates
  <2>5. ASSUME NEW s \in Surfaces, Waits(s, o) PROVE fs[s].missed
    <3>1. Awaited(b.out[o], WaitsFor(b.surf[s], o))
      BY <1>2 DEF OutputsOwe, AwaitedOn
    <3> QED
      BY <1>3, <1>5, <2>4, <2>5, <3>1 DEF Awaited, Works, WaitsFor, Waits, Usable, Coming
  <2> QED
    BY <2>4, <2>5
<1> QED
  BY <1>4, <1>5 DEF ClientsServed, EnteredWhereShown, FramesCome

(* Clients know where they are shown and get their frames there, however   *)
(* paints fail or are delayed, outputs come and go, and the scenegraph     *)
(* changes before the idle callbacks have run.                             *)
THEOREM FramesRight == FrameSpec => []ClientsServed
<1>1. FrameInit => FrameInv
  BY FramesAssumption, FrameStarts
<1>2. FrameInv /\ [FrameNext]_frameVars => FrameInv'
  BY FramesAssumption, FramesMove
<1>3. FrameInv => ClientsServed
  BY ServedSo
<1>. QED
  BY <1>1, <1>2, <1>3, PTL DEF FrameSpec

-----------------------------------------------------------------------------
(* The whole run.                                                          *)
LEMMA PartsStart == DesktopInit => DragInit /\ GridInit /\ WsInit /\ FrameInit
BY DEF DesktopInit

(* The parts move as they do alone.                                        *)
LEMMA PartsMove ==
  [DesktopNext]_desktopVars =>
    [DragNext]_dragVars /\ [GridNext]_gridVars /\ [WsNext]_wsVars /\ [FrameNext]_frameVars
BY DEF DesktopNext, desktopVars

(* However a drag ends, by a button, a finger, a lock, another plugin, an  *)
(* unmapped view or an unplugged output, nothing of it is left.            *)
THEOREM DesktopEndsDrags == DesktopSpec => []DragLeavesNothing
<1>1. DesktopInit => DragInv
  BY PartsStart, DragStarts
<1>2. DragInv /\ [DesktopNext]_desktopVars => DragInv'
  BY PartsMove, DragMoves
<1>3. DragInv => DragLeavesNothing
  BY DEF DragInv
<1>. QED
  BY <1>1, <1>2, <1>3, PTL DEF DesktopSpec

(* Switches, new grids and new sizes of the output leave a view on its     *)
(* workspace, as soon as its client has answered.                          *)
THEOREM DesktopKeepsPlaces == DesktopSpec => []KeepsPlace
<1>1. DesktopInit => GridInv
  BY PartsStart, GridStarts
<1>2. GridInv /\ [DesktopNext]_desktopVars => GridInv'
  BY PartsMove, GridMoves
<1>3. GridInv => KeepsPlace
  BY PlacedSo
<1>. QED
  BY <1>1, <1>2, <1>3, PTL DEF DesktopSpec

(* Sets are shown as the outputs' current ones, and views with their sets: *)
(* through selecting and stealing sets, sending views to them, and outputs *)
(* that come and go.                                                       *)
THEOREM DesktopShowsSets == DesktopSpec => []SetsShown
<1>1. DesktopInit => WsInv
  BY PartsStart, WsStart
<1>2. WsInv /\ [DesktopNext]_desktopVars => WsInv'
  BY PartsMove, SetsMove
<1>3. WsInv => SetsShown
  BY SetsRight
<1>. QED
  BY <1>1, <1>2, <1>3, PTL DEF DesktopSpec

(* Clients know where they are shown and get their frames there, for any   *)
(* number of outputs and surfaces.                                         *)
THEOREM DesktopServesClients == DesktopSpec => []ClientsServed
<1>1. DesktopInit => FrameInv
  BY PartsStart, FramesAssumption, FrameStarts
<1>2. FrameInv /\ [DesktopNext]_desktopVars => FrameInv'
  BY PartsMove, FramesAssumption, FramesMove
<1>3. FrameInv => ClientsServed
  BY ServedSo
<1>. QED
  BY <1>1, <1>2, <1>3, PTL DEF DesktopSpec
=============================================================================

-------------------------------- MODULE Frames --------------------------------
(***************************************************************************)
(* When an output paints, and which clients may draw their next frame:     *)
(* the swapchain_damage_manager_t and the frame handler of an output       *)
(* (src/src/output/render-manager.cpp), the instances that the scenegraph  *)
(* generates for it (src/src/core/scene.cpp), and the surfaces' nodes      *)
(* (src/src/view/wlr-surface-node.cpp).                                    *)
(*                                                                         *)
(* The event loop handles requests of clients, timers and page flips, and  *)
(* then all idle callbacks in the order in which they were registered.     *)
(* What is committed until then is flipped later.  A region is empty or    *)
(* not; an output paints in one step.  The session is active.              *)
(***************************************************************************)
EXTENDS Integers, Sequences, FiniteSets, SequencesExt

CONSTANTS
  FrameOutputs, Surfaces,
  MaxRedraw   \* bound: plugins that ask for constant redrawing

ASSUME FramesAssumption == MaxRedraw \in Nat /\ IsFiniteSet(FrameOutputs) /\ IsFiniteSet(Surfaces)

VARIABLES
  fo,     \* per output, see NewOutput
  fs,     \* per surface: [home: output, enabled: in the scenegraph, exposed: outputs with a visible
          \* part of it, callback: the client waits for a frame, visibility, delta: of the same name,
          \* missed: history, a last frame came when there were new instances of it]
  idles,  \* idle callbacks
  limits  \* the output nodes have a limit_region

frameVars == <<fo, fs, idles, limits>>

(* frame_pending, the page flip that is to come (when the event loop has   *)
(* run its idle callbacks, "ready"), repaint_timer, needs_frame (which     *)
(* stands for force_next_frame, too), constant_redraw_counter, the         *)
(* surfaces with a render instance, those that are connected to the        *)
(* output's frame_done signal, and whether the last paint has failed.      *)
NewOutput == [present |-> TRUE, on |-> TRUE, pending |-> FALSE, flip |-> "none", timer |-> FALSE,
              needs |-> FALSE, redraw |-> 0, instances |-> {}, connected |-> {}, failed |-> FALSE]

Now == [out |-> fo, surf |-> fs, idle |-> idles]
Then(f) == fo' = f.out /\ fs' = f.surf /\ idles' = f.idle

(* Of a sequence that holds everything once.                               *)
Dropped(q, x) == IF x \in ToSet(q) THEN RemoveAt(q, CHOOSE i \in DOMAIN q : q[i] = x) ELSE q

Never(f, call) == [f EXCEPT !.idle = Dropped(@, call)]

(* run_once() with a callback: one that waits already starts again.        *)
Once(f, call) == [f EXCEPT !.idle = Append(Dropped(@, call), call)]
Plugged(f) == {o \in FrameOutputs : f.out[o].present}
(* FoldLeft, in a form that TLC evaluates without the subsets of DOMAIN.   *)
Folded(Change(_, _), f, seq) ==
  LET upTo[i \in 0..Len(seq)] == IF i = 0 THEN f ELSE Change(upTo[i - 1], seq[i]) IN upTo[Len(seq)]

InOrder == SetToSeq(FrameOutputs \union Surfaces)
Each(f, S, Change(_, _)) ==
  Folded(LAMBDA g, x : IF x \in S THEN Change(g, x) ELSE g, f, InOrder)

-----------------------------------------------------------------------------
(* wlr_output_schedule_frame(), and a commit with a buffer.                *)
ScheduleFrame(f, o) ==
  LET g == [f EXCEPT !.out[o].needs = TRUE]
  IN IF f.out[o].pending \/ Contains(f.idle, <<"frame", o>>) THEN g
     ELSE [g EXCEPT !.idle = Append(@, <<"frame", o>>)]

CommitBuffer(f, o) ==
  Never([f EXCEPT !.out[o].pending = TRUE, !.out[o].flip = "new", !.out[o].needs = FALSE],
        <<"frame", o>>)

(* schedule_repaint().                                                     *)
ScheduleRepaint(f, o) == ScheduleFrame([f EXCEPT !.out[o].failed = FALSE], o)
Repainted(f, S) == Each(f, S, LAMBDA g, o : ScheduleRepaint(g, o))

(* handle_enter() and handle_leave().                                      *)
Shift(f, s, o, by) == Once([f EXCEPT !.surf[s].delta[o] = @ + by], <<"outputs", s>>)
Shifted(f, S, o, by) == Each(f, S, LAMBDA g, s : Shift(g, s, o, by))
Enter(f, S, o) == Shifted(f, S, o, 1)
Leave(f, S, o) == Shifted(f, S, o, -1)

(* gen_render_instances() from the root: an output node with limits is     *)
(* only for its own output.                                                *)
Generated(f, o) ==
  {s \in Surfaces : f.surf[s].enabled /\ (limits => f.surf[s].home = o)}

Regenerate(f, o) ==
  LET new == Generated(f, o)
      g == Enter(Leave(f, f.out[o].instances, o), new, o)
  IN Once([g EXCEPT !.out[o].instances = new, !.out[o].connected = {}], <<"visible", o>>)

(* update(): of the children or the enabled state of some node.            *)
UpdateScene(f) == Each(f, Plugged(f), LAMBDA g, o : Regenerate(g, o))
UpdateGeometry(f) == Each(f, Plugged(f), LAMBDA g, o : Once(g, <<"visible", o>>))

(* A surface is damaged through each instance of it; when it comes or      *)
(* goes, through those of its parent.                                      *)
Damage(f, s) == Repainted(f, {o \in Plugged(f) : s \in f.out[o].instances})
DamageParent(f, s) == Repainted(f, {o \in Plugged(f) : limits => f.surf[s].home = o})

\* Mutant of UpdateOutputs: an output that is gone is left, too.
UpdateOutputsGone(f, s) ==
  LET y == f.surf[s]
  IN [f EXCEPT !.surf[s].delta = [o \in FrameOutputs |-> 0],
               !.surf[s].visibility = [o \in FrameOutputs |-> y.visibility[o] + y.delta[o]]]

(* update_pending_outputs().  An output that is gone has no visibility.    *)
UpdateOutputs(f, s) ==
  LET v == f.surf[s].visibility
      d == f.surf[s].delta
  IN [f EXCEPT !.surf[s].delta = [o \in FrameOutputs |-> 0],
               !.surf[s].visibility = [o \in FrameOutputs |->
                  IF v[o] + d[o] < 0 THEN 0 ELSE v[o] + d[o]]]

(* compute_visibility() of the instances.                                  *)
ComputeVisibility(f, o) ==
  [f EXCEPT !.out[o].connected = {s \in f.out[o].instances : o \in f.surf[s].exposed}]

-----------------------------------------------------------------------------
(* paint().  The outcome that is wanted of it is possible, or not: to scan *)
(* a surface out (which leaves force_next_frame), to fail, or to paint a   *)
(* frame.                                                                  *)
PostPaint(f, o) == IF f.out[o].redraw > 0 THEN ScheduleRepaint(f, o) ELSE f

Paint(f, o, wanted) ==
  IF wanted = "scanout" /\ f.out[o].connected # {}
  THEN [CommitBuffer(f, o) EXCEPT !.out[o].needs = f.out[o].needs]
  ELSE IF ~f.out[o].needs /\ f.out[o].redraw = 0 THEN f
  ELSE IF wanted = "failure" THEN [f EXCEPT !.out[o].failed = TRUE]
  ELSE PostPaint(CommitBuffer(f, o), o)

Outcomes == {"scanout", "failure", "frame", "delay"}

(* frame_done_signal: instances that are new do not listen yet.            *)
FrameDone(f, o) ==
  LET last == f.out[o].flip = "none"
      told == [s \in Surfaces |->
        IF s \in f.out[o].connected THEN [f.surf[s] EXCEPT !.callback = FALSE, !.missed = FALSE]
        ELSE IF s \in f.out[o].instances /\ last
             THEN [f.surf[s] EXCEPT !.missed = @ \/ f.surf[s].callback]
        ELSE f.surf[s]]
  IN [f EXCEPT !.surf = told]

(* on_frame with a repaint delay.                                          *)
Delayed(f, o) == [f EXCEPT !.out[o].timer = TRUE, !.out[o].pending = TRUE]

(* on_frame.                                                               *)
OnFrame(f, o, wanted) ==
  FrameDone(IF wanted = "delay" THEN Delayed(f, o) ELSE Paint(f, o, wanted), o)

-----------------------------------------------------------------------------
Request(f) == Then(f) /\ UNCHANGED limits

PageFlip(o, wanted) ==
  /\ fo[o].flip = "ready"
  /\ Request(OnFrame([Now EXCEPT !.out[o].flip = "none", !.out[o].pending = FALSE], o, wanted))

RepaintTimer(o, wanted) ==
  /\ fo[o].timer /\ wanted # "delay"
  /\ Request(Paint([Now EXCEPT !.out[o].timer = FALSE, !.out[o].pending = FALSE], o, wanted))

(* The idle callbacks; they register no others.                            *)
Call(f, call, wanted) ==
  LET x == call[2]
  IN CASE call[1] = "outputs" -> UpdateOutputs(f, x)
       [] call[1] = "visible" -> ComputeVisibility(f, x)
       [] call[1] = "frame" -> IF f.out[x].on THEN OnFrame(f, x, wanted[x]) ELSE f

RunIdles(wanted) ==
  /\ \A o \in FrameOutputs : wanted[o] = "frame" \/ Contains(idles, <<"frame", o>>)
  /\ LET f == Folded(LAMBDA g, call : Call(g, call, wanted), [Now EXCEPT !.idle = <<>>], idles)
         flipped == [o \in FrameOutputs |-> [f.out[o] EXCEPT !.flip = IF @ = "new" THEN "ready" ELSE @]]
     IN Request([f EXCEPT !.out = flipped])

\* Mutant of Redrawn: a commit without damage does not cause a frame.
RedrawnNever(f, s) == f

(* on_surface_commit redraws where the surface is known to be shown.       *)
Redrawn(f, s) == Repainted(f, {o \in FrameOutputs : f.surf[s].visibility[o] > 0})

(* A client commits, with or without damage, and asks for a frame.         *)
CommitSurface(s, damaged) ==
  LET f == [Now EXCEPT !.surf[s].callback = TRUE, !.surf[s].missed = FALSE]
  IN Request(Redrawn(IF damaged THEN Damage(f, s) ELSE f, s))

(* set_node_enabled(): a view is mapped, minimized, shown by a plugin.     *)
EnableNode(s, enabled) ==
  /\ fs[s].enabled # enabled
  /\ Request(UpdateScene(DamageParent([Now EXCEPT !.surf[s].enabled = enabled], s)))

(* The view moves, on its output or to another.                            *)
Exposable(f, o) == IF limits THEN {{}, {o}} ELSE SUBSET Plugged(f)

MoveSurface(s, o, where) ==
  LET f == DamageParent([Now EXCEPT !.surf[s].home = o, !.surf[s].exposed = where], s)
  IN /\ o \in Plugged(Now) /\ where \in Exposable(Now, o)
     /\ Request(IF fs[s].home = o THEN UpdateGeometry(f) ELSE UpdateScene(DamageParent(f, s)))

\* Mutant of SetRedrawAlways: the first plugin does not cause a frame.
SetRedrawAlwaysLater(o, by) ==
  LET n == fo[o].redraw + by
  IN /\ fo[o].present /\ n >= 0
     /\ n <= MaxRedraw /\ \A p \in FrameOutputs \ {o} : fo[p].redraw + n <= MaxRedraw
     /\ Request([Now EXCEPT !.out[o].redraw = n])

(* set_redraw_always().                                                    *)
SetRedrawAlways(o, by) ==
  LET n == fo[o].redraw + by
      f == [Now EXCEPT !.out[o].redraw = n]
  IN /\ fo[o].present /\ n >= 0
     /\ n <= MaxRedraw /\ \A p \in FrameOutputs \ {o} : fo[p].redraw + n <= MaxRedraw
     /\ Request(IF n > 1 THEN f ELSE ScheduleRepaint(f, o))

(* The output is switched off, and on again with output_mode_changed; the  *)
(* backend commits a mode for it then.                                     *)
SwitchOff(o) ==
  /\ fo[o].present /\ fo[o].on /\ ~fo[o].timer
  /\ Request([Now EXCEPT !.out[o].on = FALSE, !.out[o].pending = FALSE, !.out[o].flip = "none"])

SwitchOn(o) ==
  /\ fo[o].present /\ ~fo[o].on
  /\ Request(ScheduleRepaint(CommitBuffer([Now EXCEPT !.out[o].on = TRUE], o), o))

\* Nodes that are in the scenegraph beside those of the surfaces come and go, on an output.
UpdateOthers(o) == fo[o].present /\ Request(UpdateScene(ScheduleRepaint(Now, o)))

\* The bounding box of a layer, which is damaged on each output.
DamageLayers(f) == Repainted(f, Plugged(f))

(* start_rendering() of a new output.  The delta that a surface may still  *)
(* have is that of an output which had the same name before.               *)
AddFrameOutput(o) ==
  /\ ~fo[o].present /\ \A s \in Surfaces : fs[s].delta[o] = 0
  /\ Request(DamageLayers(UpdateScene([Now EXCEPT !.out[o] = NewOutput])))

(* on_output_remove of the surfaces.                                       *)
Forgotten(f, o) ==
  [f EXCEPT !.surf = [s \in Surfaces |-> [f.surf[s] EXCEPT !.visibility[o] = 0, !.delta[o] = 0]]]

(* destroy_wayfire_output(), and the destructor, where the output's nodes  *)
(* leave the scenegraph before its instances are cleared.                  *)
RemoveFrameOutput(o, to) ==
  LET elsewhere == [s \in Surfaces |->
        [fs[s] EXCEPT !.home = IF @ = o THEN to ELSE @, !.exposed = @ \ {o}]]
      moved == UpdateScene([Now EXCEPT !.surf = elsewhere])
      dead == DamageLayers(UpdateScene(Forgotten(moved, o)))
      cleared == Leave(dead, dead.out[o].instances, o)
  IN /\ fo[o].present /\ fo[to].present /\ to # o
     /\ Request(Never(Never([cleared EXCEPT !.out[o] = [NewOutput EXCEPT !.present = FALSE]],
                            <<"frame", o>>), <<"visible", o>>))

FrameInit ==
  /\ \E first \in FrameOutputs :
       /\ fo = [o \in FrameOutputs |-> [NewOutput EXCEPT !.present = o = first]]
       /\ fs = [s \in Surfaces |-> [home |-> first, enabled |-> FALSE, exposed |-> {},
            callback |-> FALSE, missed |-> FALSE, visibility |-> [o \in FrameOutputs |-> 0],
            delta |-> [o \in FrameOutputs |-> 0]]]
  /\ idles = <<>> /\ limits \in BOOLEAN

FrameNext ==
  \/ \E o \in FrameOutputs :
       \/ \E wanted \in Outcomes : PageFlip(o, wanted) \/ RepaintTimer(o, wanted)
       \/ \E by \in {-1, 1} : SetRedrawAlways(o, by)
       \/ SwitchOff(o) \/ SwitchOn(o) \/ UpdateOthers(o) \/ AddFrameOutput(o)
       \/ \E to \in FrameOutputs : RemoveFrameOutput(o, to)
       \/ \E s \in Surfaces, where \in SUBSET FrameOutputs : MoveSurface(s, o, where)
  \/ \E s \in Surfaces, on \in BOOLEAN : CommitSurface(s, on) \/ EnableNode(s, on)
  \/ \E wanted \in [FrameOutputs -> Outcomes] : RunIdles(wanted)

FrameSpec == FrameInit /\ [][FrameNext]_frameVars

-----------------------------------------------------------------------------
Quiet == idles = <<>> /\ \A o \in FrameOutputs : fo[o].flip # "new"

(* When the event loop waits, a surface has entered exactly the outputs    *)
(* that have an instance of it, and none that is gone.                     *)
EnteredWhereShown ==
  Quiet => \A s \in Surfaces, o \in FrameOutputs :
    fs[s].visibility[o] = IF s \in fo[o].instances THEN 1 ELSE 0

Coming(o) == fo[o].flip # "none" \/ fo[o].timer
Waits(s, o) == fs[s].enabled /\ fs[s].callback /\ o \in fs[s].exposed
Usable(o) == fo[o].present /\ fo[o].on /\ ~fo[o].failed

(* When the event loop waits, an output whose last paint has not failed    *)
(* has a frame to come if something was damaged, a plugin redraws          *)
(* constantly, or a client to be seen there waits for its frame (and was   *)
(* not missed by the last frame).                                          *)
FramesCome ==
  Quiet => \A o \in FrameOutputs : Usable(o) /\ ~Coming(o) =>
    /\ ~fo[o].needs /\ fo[o].redraw = 0
    /\ \A s \in Surfaces : Waits(s, o) => fs[s].missed

(* Clients know where they are shown, and get their frames there.          *)
ClientsServed == EnteredWhereShown /\ FramesCome

(* wlr-surface-node.cpp:389: a surface that is visible on an output gets   *)
(* its wl_surface.frame with the frame of the output.                      *)
VisibleGetFrames ==
  Quiet => \A s \in Surfaces, o \in FrameOutputs : Usable(o) /\ Waits(s, o) => Coming(o)
=============================================================================

---------------------------- MODULE XdgToplevel ----------------------------
(***************************************************************************)
(* One xdg toplevel and its view: the double-buffered state of             *)
(* xdg_toplevel_t (src/src/view/xdg-shell/xdg-toplevel.cpp), the view that *)
(* is mapped, unmapped and freed by it (xdg-toplevel-view.cpp), the client *)
(* that answers configure events, and the transaction system as seen by    *)
(* this one object.                                                        *)
(*                                                                         *)
(* Of the transaction system only what ObjectUpdates promises is used: a   *)
(* requested object waits (queued) while other members of its group, or    *)
(* itself, belong to a running transaction; it then runs until it is ready *)
(* and its group is, or until the timeout.  Widths stand for sizes: the    *)
(* code treats the two dimensions alike.                                   *)
(***************************************************************************)
EXTENDS Integers, FiniteSets

CONSTANTS
  Widths,        \* widths a client may give its surface
  OutputWidth,   \* width of the workarea and of a fullscreen toplevel
  Requests,      \* what plugins may ask: records [x, w, gravity, full, margin]
  Modulus,       \* configure serials wrap around at this number (2^32)
  MaxSerial      \* bound: serials used in one behaviour

ASSUME WidthsAssumption == Widths \subseteq Nat \ {0} /\ OutputWidth \in Nat \ {0}
ASSUME SerialsAssumption == Modulus \in Nat \ {0} /\ MaxSerial \in Nat
ASSUME RequestsAssumption ==
  Requests \subseteq [x: Int, w: Int, gravity: {"left", "right"}, full: BOOLEAN, margin: Nat]

VARIABLES
  pending, committed, current,   \* toplevel_t::_pending, _committed, _current
  armed,          \* xdg_toplevel_t::pending_ready
  target,         \* xdg_toplevel_t::target_configure
  shown,          \* width of the buffer the surface node shows, 0 for none
  alive,          \* xdg_toplevel_t::toplevel is not NULL
  surf,           \* the wlr_surface: width of its buffer, last acked serial
  conf,           \* wlroots: last serial, scheduled configure, sent ones, initialized
  queued,         \* is_object_pending(), alone ("own") or with others ("shared")
  running,        \* is_object_committed()
  signalled,      \* times the object was ready since its last commit()
  handler,        \* the event handler that is being executed
  applying,       \* inside apply(), while its signal is being emitted
  controller,     \* xdg_toplevel_controller_t holds its view reference
  selfRef,        \* xdg_toplevel_view_t::_self_ref is set
  viewMapped,     \* view_priv_impl::is_mapped
  asked,          \* history: serial of the configure this commit() waits for
  anchor,         \* history: where the window manager put the anchored edge
  ignored,        \* history: the client's last commit was passed over
  late            \* history: the last transaction timed out

tlvars  == <<pending, committed, current, armed, target, shown, alive>>
txvars  == <<queued, running, signalled>>
view    == <<controller, selfRef, viewMapped>>
history == <<asked, anchor, ignored, late>>
vars == <<tlvars, surf, conf, txvars, handler, applying, view, history>>

States == [mapped: BOOLEAN, x: Int, w: Int, gravity: {"left", "right"},
           full: BOOLEAN, margin: Nat]

(* shrink_dimensions_by_margins() and its inverse; a client only knows the *)
(* inner size.                                                             *)
Shrunk(s) == s.w - s.margin

Edge(s) == IF s.gravity = "right" THEN s.x + s.w ELSE s.x

\* Mutant of AdjustForGravity: the position is kept whatever the gravity is.
AdjustForTopLeft(s, w) == [s EXCEPT !.w = w]

(* adjust_geometry_for_gravity()                                           *)
AdjustForGravity(s, w) ==
  [s EXCEPT !.x = IF s.gravity = "right" THEN @ + s.w - w ELSE @, !.w = w]

ViewAlive == controller \/ selfRef

Wire(serial) == serial % Modulus

IsPending == queued # "no"

(* A transaction of this object only is never blocked by another one: it   *)
(* is started by the very call that schedules it or ends its predecessor.  *)
Due == queued = "own" /\ ~running

InEventLoop == handler = "none" /\ ~applying /\ ~Due

Quiet == ~IsPending /\ ~running /\ handler = "none"

-----------------------------------------------------------------------------
NewState == [mapped |-> FALSE, x |-> 0, w |-> 0, gravity |-> "left",
             full |-> FALSE, margin |-> 0]

Init ==
  /\ pending = NewState /\ committed = NewState /\ current = NewState
  /\ armed = FALSE /\ target = 0 /\ shown = 0 /\ alive = TRUE
  /\ surf = [w |-> 0, serial |-> 0]
  /\ conf = [last |-> 0, scheduled |-> 0, sent |-> {}, initialized |-> FALSE]
  /\ queued = "no" /\ running = FALSE /\ signalled = 0
  /\ handler = "none" /\ applying = FALSE
  /\ controller = TRUE /\ selfRef = FALSE /\ viewMapped = FALSE
  /\ asked = 0 /\ anchor = 0 /\ ignored = FALSE /\ late = FALSE

-----------------------------------------------------------------------------
(* wlroots.                                                                *)

(* wlr_xdg_surface_schedule_configure(): one configure per event loop      *)
(* iteration, however many changes it carries.                             *)
Scheduled ==
  IF conf.scheduled # 0 THEN conf
  ELSE [conf EXCEPT !.last = @ + 1, !.scheduled = conf.last + 1]

SendConfigure ==
  /\ InEventLoop
  /\ conf.scheduled # 0
  /\ conf' = [conf EXCEPT !.sent = @ \cup {conf.scheduled}, !.scheduled = 0]
  /\ UNCHANGED <<tlvars, surf, txvars, handler, applying, view, history>>

-----------------------------------------------------------------------------
(* Requests by plugins and the window manager.                             *)

(* toplevel_view_interface_t::set_geometry() and its like: write pending,  *)
(* then schedule the object.  Plugins also run inside apply(), when the    *)
(* view tells them that it was mapped or changed.                          *)
PluginRequest(r, group) ==
  /\ InEventLoop \/ applying
  /\ alive \/ viewMapped
  /\ pending' = [pending EXCEPT !.x = r.x, !.w = r.w, !.gravity = r.gravity,
                                !.full = r.full, !.margin = r.margin]
  /\ queued' = IF queued = "shared" THEN "shared" ELSE group
  /\ anchor' = Edge(pending')
  /\ UNCHANGED <<committed, current, armed, target, shown, alive, surf, conf, running,
                 signalled, handler, applying, view, asked, ignored, late>>

-----------------------------------------------------------------------------
(* Signalling that the object is ready: emit_ready().                      *)
EmitReady ==
  /\ armed' = FALSE
  /\ signalled' = IF armed THEN signalled + 1 ELSE signalled

\* Mutant of Asked: the serial of a change of state is not stored.
AskedForSize(resize, restate) ==
  IF resize \/ restate
  THEN /\ conf' = Scheduled
       /\ target' = IF resize THEN Wire(conf'.scheduled) ELSE target
       /\ asked' = conf'.scheduled
       /\ armed' = TRUE
       /\ signalled' = 0
  ELSE /\ asked' = 0
       /\ armed' = FALSE
       /\ signalled' = 1
       /\ UNCHANGED <<conf, target>>

(* Ask the client for a new size or a new state, or be ready at once.      *)
Asked(resize, restate) ==
  IF resize \/ restate
  THEN /\ conf' = Scheduled
       /\ target' = Wire(conf'.scheduled)
       /\ asked' = conf'.scheduled
       /\ armed' = TRUE
       /\ signalled' = 0
  ELSE /\ asked' = 0
       /\ armed' = FALSE
       /\ signalled' = 1
       /\ UNCHANGED <<conf, target>>

(* xdg_toplevel_t::commit(). The size a toplevel has is the current one,   *)
(* or that of its surface when it is about to be mapped.                   *)
Commit ==
  /\ IsPending /\ ~running
  /\ handler # "commit"
  /\ queued' = "no"
  /\ running' = TRUE
  /\ committed' = pending
  /\ LET free == ~alive \/ (current.mapped /\ ~pending.mapped)
         now == IF pending.mapped /\ ~current.mapped THEN surf.w ELSE Shrunk(current)
     IN  Asked(~free /\ now # Shrunk(pending), ~free /\ current.full # pending.full)
  /\ conf'.last <= MaxSerial
  /\ UNCHANGED <<pending, current, shown, alive, surf, handler, applying, view,
                 anchor, ignored, late>>

(* What apply() makes current: without a client the size cannot change,    *)
(* and an unmapped view stays so.                                          *)
Applied ==
  IF alive THEN committed
  ELSE [committed EXCEPT !.w = current.w, !.mapped = @ /\ current.mapped]

\* Mutant of PendingAfter: what was requested in the meantime is overwritten.
PendingAlways == Applied

PendingAfter == IF IsPending THEN pending ELSE Applied

(* apply_pending_state()                                                   *)
ShownAfter == IF alive THEN surf.w ELSE shown

(* xdg_toplevel_t::apply(), up to the signal to the view, which maps or    *)
(* unmaps itself: handle_toplevel_state_changed().  Timeouts come from the *)
(* event loop.                                                             *)
ApplyState(timedOut) ==
  /\ running /\ ~applying
  /\ handler # "commit"
  /\ IF timedOut THEN InEventLoop /\ signalled = 0 ELSE signalled > 0
  /\ committed' = Applied
  /\ current' = Applied
  /\ pending' = PendingAfter
  /\ shown' = ShownAfter
  /\ viewMapped' = IF ViewAlive /\ Applied.mapped # current.mapped THEN Applied.mapped
                   ELSE viewMapped
  /\ applying' = TRUE
  /\ late' = (late \/ timedOut)
  /\ UNCHANGED <<armed, target, alive, surf, conf, txvars, handler, controller, selfRef,
                 asked, anchor, ignored>>

\* Mutants of ApplyEnd: the reference is dropped although another transaction is
\* waiting, or it is never dropped.
ApplyEndDrop ==
  /\ applying
  /\ applying' = FALSE
  /\ running' = FALSE
  /\ selfRef' = FALSE
  /\ UNCHANGED <<tlvars, surf, conf, queued, signalled, handler, controller, viewMapped,
                 history>>
ApplyEndKeep ==
  /\ applying
  /\ applying' = FALSE
  /\ running' = FALSE
  /\ UNCHANGED <<tlvars, surf, conf, queued, signalled, handler, view, history>>

(* The rest of handle_toplevel_state_changed(), and on_tx_apply().         *)
ApplyEnd ==
  /\ applying
  /\ applying' = FALSE
  /\ running' = FALSE
  /\ selfRef' = (selfRef /\ IsPending)
  /\ UNCHANGED <<tlvars, surf, conf, queued, signalled, handler, controller, viewMapped,
                 history>>

-----------------------------------------------------------------------------
(* The client.                                                             *)

(* The first commit, without a buffer: only a configure is sent back.      *)
InitialCommit ==
  /\ InEventLoop
  /\ alive /\ ~conf.initialized
  /\ conf.last < MaxSerial
  /\ conf' = [Scheduled EXCEPT !.initialized = TRUE]
  /\ UNCHANGED <<tlvars, surf, txvars, handler, applying, view, history>>

(* schedule_object()                                                       *)
Enqueue == queued' = IF IsPending THEN queued ELSE "own"

(* start_map_tx(), with adjust_view_pending_geometry_on_start_map().       *)
StartMap(w) ==
  LET outer == w + pending.margin
  IN  /\ pending' = [pending EXCEPT
                       !.mapped = TRUE,
                       !.x = IF pending.full THEN 0 ELSE @,
                       !.w = IF pending.full \/ outer > OutputWidth THEN OutputWidth
                             ELSE outer]
      /\ Enqueue
      /\ anchor' = Edge(pending')
      /\ UNCHANGED selfRef

(* start_unmap_tx()                                                        *)
StartUnmap ==
  /\ selfRef' = TRUE
  /\ pending' = [pending EXCEPT !.mapped = FALSE]
  /\ Enqueue
  /\ UNCHANGED anchor

(* A later commit acks serial s (or nothing new) and attaches a buffer of  *)
(* width w, or none.  wlroots maps or unmaps the surface before it tells   *)
(* the toplevel of the commit.                                             *)
ClientCommit(w, s) ==
  /\ InEventLoop
  /\ alive /\ conf.initialized
  /\ s \in conf.sent \cup ({surf.serial} \ {0})
  /\ surf' = [w |-> w, serial |-> s]
  /\ CASE surf.w = 0 /\ w # 0 ->
            /\ StartMap(w)
            /\ handler' = "mapping"
            /\ conf' = [conf EXCEPT !.sent = {n \in @ : n > s}]
       [] surf.w # 0 /\ w = 0 ->
            /\ StartUnmap
            /\ handler' = "mapping"
            /\ conf' = [conf EXCEPT !.sent = {}, !.scheduled = 0, !.initialized = FALSE]
       [] OTHER ->
            /\ handler' = "commit"
            /\ conf' = [conf EXCEPT !.sent = {n \in @ : n > s}]
            /\ UNCHANGED <<pending, queued, selfRef, anchor>>
  /\ UNCHANGED <<committed, current, armed, target, shown, alive, running, signalled,
                 applying, controller, viewMapped, asked, ignored, late>>

(* A client need not obey: what becomes current is what it has done.       *)
Accepted == AdjustForGravity(committed, surf.w + committed.margin)

(* handle_surface_commit(), for a commit that is not the initial one.      *)
HandleCommitted ==
  /\ running
  /\ IF Wire(surf.serial) < target
     THEN UNCHANGED <<committed, armed, signalled>>
     ELSE /\ committed' = Accepted
          /\ EmitReady
  /\ ignored' = (Wire(surf.serial) < target)
  /\ UNCHANGED <<pending, shown, queued>>

HandlePending ==
  /\ ~running /\ IsPending
  /\ ignored' = (surf.w # Shrunk(current))
  /\ UNCHANGED <<pending, committed, armed, signalled, shown, queued>>

HandleQuiet ==
  /\ ~running /\ ~IsPending
  /\ IF surf.w + current.margin = current.w \/ ~current.mapped
     THEN /\ shown' = surf.w
          /\ UNCHANGED <<pending, queued>>
     ELSE /\ pending' = AdjustForGravity(pending, surf.w + current.margin)
          /\ Enqueue
          /\ UNCHANGED shown
  /\ ignored' = FALSE
  /\ UNCHANGED <<committed, armed, signalled>>

HandleSurfaceCommit ==
  /\ handler \in {"commit", "mapping"} /\ ~applying /\ ~Due
  /\ HandleCommitted \/ HandlePending \/ HandleQuiet
  /\ handler' = "none"
  /\ late' = (late /\ ignored')
  /\ UNCHANGED <<current, target, alive, surf, conf, running, applying, view, asked,
                 anchor>>

(* The toplevel is destroyed: a mapped surface is unmapped first, then the *)
(* controller drops the view and xdg_toplevel_t forgets the toplevel.      *)
Destroy ==
  /\ InEventLoop
  /\ alive
  /\ handler' = "destroy"
  /\ surf' = [surf EXCEPT !.w = 0]
  /\ IF surf.w # 0 THEN StartUnmap ELSE UNCHANGED <<pending, queued, selfRef, anchor>>
  /\ UNCHANGED <<committed, current, armed, target, shown, alive, conf, running, signalled,
                 applying, controller, viewMapped, asked, ignored, late>>

DestroyEnd ==
  /\ handler = "destroy" /\ ~applying /\ ~Due
  /\ handler' = "none"
  /\ alive' = FALSE
  /\ controller' = FALSE
  /\ conf' = [conf EXCEPT !.sent = {}, !.scheduled = 0]
  /\ EmitReady
  /\ UNCHANGED <<pending, committed, current, target, shown, surf, queued, running,
                 applying, selfRef, viewMapped, history>>

-----------------------------------------------------------------------------
Transaction == Commit \/ (\E t \in BOOLEAN : ApplyState(t)) \/ ApplyEnd

Client ==
  \/ InitialCommit
  \/ \E w \in Widths \cup {0}, s \in 1 .. MaxSerial : ClientCommit(w, s)
  \/ Destroy

Next ==
  \/ SendConfigure
  \/ \E r \in Requests, group \in {"own", "shared"} : PluginRequest(r, group)
  \/ Transaction
  \/ Client
  \/ HandleSurfaceCommit
  \/ DestroyEnd

SafetySpec == Init /\ [][Next]_vars

(* Handlers return, and the transaction system starts what waits and ends  *)
(* what runs, as ObjectUpdates promises.  Clients and plugins are free.    *)
Fairness ==
  /\ WF_vars(HandleSurfaceCommit) /\ WF_vars(DestroyEnd)
  /\ WF_vars(Commit) /\ WF_vars(\E t \in BOOLEAN : ApplyState(t)) /\ WF_vars(ApplyEnd)

Spec == SafetySpec /\ Fairness

-----------------------------------------------------------------------------
TypeOK ==
  /\ pending \in States /\ committed \in States /\ current \in States
  /\ armed \in BOOLEAN /\ target \in 0 .. Modulus - 1 /\ alive \in BOOLEAN
  /\ shown \in Widths \cup {0}
  /\ surf \in [w: Widths \cup {0}, serial: 0 .. MaxSerial]
  /\ conf \in [last: 0 .. MaxSerial, scheduled: 0 .. MaxSerial,
               sent: SUBSET (1 .. MaxSerial), initialized: BOOLEAN]
  /\ queued \in {"no", "own", "shared"} /\ running \in BOOLEAN /\ signalled \in Nat
  /\ handler \in {"none", "mapping", "commit", "destroy"} /\ applying \in BOOLEAN
  /\ controller \in BOOLEAN /\ selfRef \in BOOLEAN /\ viewMapped \in BOOLEAN
  /\ asked \in 0 .. MaxSerial /\ anchor \in Int /\ ignored \in BOOLEAN /\ late \in BOOLEAN

(* A toplevel is ready at most once per commit(), as transaction_t relies  *)
(* on ("object emitted ready multiple times?", transaction.cpp:25), and a  *)
(* living one only if it needed no answer or the client has acked the      *)
(* configure this commit() asked for, or a later one: "Desired state not   *)
(* reached => wait for the desired state to be reached"                    *)
(* (xdg-toplevel.cpp:167).                                                 *)
ReadyMeansAnswered ==
  running => signalled <= 1 /\ (alive /\ signalled = 1 => surf.serial >= asked)

(* Between transactions a view is mapped exactly when its surface is,      *)
(* whatever order maps, unmaps, timeouts and merges came in; a destroyed   *)
(* toplevel leaves no mapped view.                                         *)
MapFollowsSurface ==
  Quiet => viewMapped = (alive /\ surf.w # 0)

(* A view is never freed before it was unmapped: _self_ref bridges the gap *)
(* between the end of the client's objects and the unmap transaction.      *)
NoMappedViewFreed == viewMapped => ViewAlive

(* The edge given by the gravity stays where the window manager put it,    *)
(* however the client resizes itself or answers (toplevel.hpp:39).         *)
Anchored == Quiet /\ alive /\ current.mapped => Edge(current) = anchor

(* Between transactions the geometry of a mapped toplevel is that of its   *)
(* surface and of what is shown, unless the client was too late for a      *)
(* timeout or its last commit came while another state was awaited.        *)
GeometryShown ==
  Quiet /\ alive /\ current.mapped /\ ~ignored /\ ~late
    => current.w = surf.w + current.margin /\ shown = surf.w

(* Between transactions a toplevel is seen where it was put, in the size   *)
(* that its client drew.                                                   *)
ShownAsPlaced == Anchored /\ GeometryShown

(* Once its toplevel is destroyed and its transactions are over, a view    *)
(* is freed.                                                               *)
ViewFreed == ~alive ~> ~ViewAlive
=============================================================================

------------------------- MODULE XwaylandToplevel -------------------------
(***************************************************************************)
(* One X11 window that is a toplevel, and its view: xwayland_toplevel_t    *)
(* (src/src/view/xwayland/xwayland-toplevel.cpp), wayfire_xwayland_view    *)
(* (xwayland-toplevel-view.hpp) and the controller that owns the view for  *)
(* as long as the window keeps its type (src/src/view/xwayland.cpp).       *)
(*                                                                         *)
(* X11 has no serials: a transaction waits until the surface has the size  *)
(* it asked for, and the X server is told of a geometry at other times     *)
(* too.  The transaction system is seen as in XdgToplevel, and a width     *)
(* stands for a size again.  Margins are those of the left side, where     *)
(* they also move the window inside of its frame; one of the right side    *)
(* would only make the frame wider.                                        *)
(***************************************************************************)
EXTENDS Integers

CONSTANTS
  XWidths,       \* widths a client may draw
  ScreenWidth,   \* width of the workarea and of a fullscreen window
  XRequests,     \* what plugins may ask: records [x, w, gravity, full, margin]
  Offsets,       \* where the view's output may be in the layout
  Positions      \* where a client may put its window

ASSUME XWidthsAssumption == XWidths \subseteq Nat \ {0} /\ ScreenWidth \in Nat \ {0}
ASSUME PlacesAssumption ==
  /\ XRequests \subseteq [x: Int, w: Int, gravity: {"left", "right"}, full: BOOLEAN, margin: Nat]
  /\ Offsets \subseteq Int /\ Positions \subseteq Int

VARIABLES
  xpending, xcommitted, xcurrent,  \* toplevel_t::_pending, _committed, _current
  awaiting,      \* xwayland_toplevel_t::pending_ready
  node,          \* main_surface is set, and on_surface_commit connected
  seen,          \* width of the buffer that main_surface shows
  offset,        \* output_offset
  lives,         \* xwayland_toplevel_t::xw is not NULL
  idleReady,     \* idle_ready is scheduled
  drawn,         \* the wlr_surface: width of its buffer, 0 if not mapped
  associated,    \* the X11 window has a wlr_surface
  told,          \* what the X server was last told of the geometry
  xqueued, xrunning, xsignalled,   \* the transaction system, as in XdgToplevel
  within,        \* the event handler that is being executed
  inApply,       \* inside apply(), while its signal is being emitted
  owned,         \* xwayland_view_controller_t holds its view reference
  xselfRef,      \* wayfire_xwayland_view::_self_ref is set
  xmapped,       \* view_priv_impl::is_mapped
  placed,        \* history: where the window manager put the anchored edge
  unmapLost      \* history: a toplevel became mapped when its window had no surface

xtoplevel == <<xpending, xcommitted, xcurrent, awaiting, node, seen, offset, lives, idleReady>>
xwindow   == <<drawn, associated>>
xtx       == <<xqueued, xrunning, xsignalled>>
xview     == <<owned, xselfRef, xmapped>>
xvars == <<xtoplevel, xwindow, told, xtx, within, inApply, xview, placed, unmapLost>>

XEdge(s) == IF s.gravity = "right" THEN s.x + s.w ELSE s.x

(* shrink_dimensions_by_margins()                                          *)
Inner(s) == s.w - s.margin

\* Mutant of Resized: the position is kept whatever the gravity is.
ResizedTopLeft(s, w) == [s EXCEPT !.w = w]

(* adjust_geometry_for_gravity()                                           *)
Resized(s, w) == [s EXCEPT !.x = IF s.gravity = "right" THEN @ + s.w - w ELSE @, !.w = w]

AtMost(a, b) == IF a < b THEN a ELSE b

AtLeast(a, b) == IF a < b THEN b ELSE a

(* wf::clamp() into the workarea                                           *)
Within(x, w) ==
  LET size == AtMost(w, ScreenWidth)
  IN  [x |-> AtLeast(0, AtMost(x, ScreenWidth - size)), w |-> size]

(* The centre of a view is on the current workspace.                       *)
IsHere(s) == 2 * s.x + s.w \in 0 .. 2 * ScreenWidth - 1

(* Bound: clients of windows that have moved further do not draw.          *)
IsNear == \A s \in {xpending, xcommitted, xcurrent} : s.x \in -1 .. 1

XViewAlive == owned \/ xselfRef

(* A transaction of this object only starts as soon as it can, and ends as *)
(* soon as the object is ready.                                            *)
XDue == (xqueued = "own" /\ xrunning = "no") \/ (xrunning = "own" /\ xsignalled > 0)

XIdle == within = "none" /\ ~inApply /\ ~XDue
XQuiet == xqueued = "no" /\ xrunning = "no" /\ within = "none"

-----------------------------------------------------------------------------
XNew == [mapped |-> FALSE, x |-> 0, w |-> 0, gravity |-> "left", full |-> FALSE, margin |-> 0]

XInit ==
  /\ xpending = XNew /\ xcommitted = XNew /\ xcurrent = XNew
  /\ awaiting = FALSE /\ node = FALSE /\ seen = 0 /\ lives = TRUE /\ idleReady = FALSE
  /\ offset \in Offsets
  /\ drawn = 0 /\ associated = FALSE /\ told = [x |-> 0, w |-> 0]
  /\ xqueued = "no" /\ xrunning = "no" /\ xsignalled = 0
  /\ within = "none" /\ inApply = FALSE
  /\ owned = TRUE /\ xselfRef = FALSE /\ xmapped = FALSE
  /\ placed = 0 /\ unmapLost = FALSE

(* reconfigure_xwayland_surface(): sizes that would freeze Xwayland are    *)
(* not sent.                                                               *)
Reconfigured(s, o) ==
  IF lives /\ Inner(s) > 0 THEN [x |-> s.x + s.margin + o, w |-> Inner(s)] ELSE told

(* schedule_object()                                                       *)
XEnqueue == xqueued' = IF xqueued = "no" THEN "own" ELSE xqueued

XEmitReady ==
  /\ awaiting' = FALSE
  /\ xsignalled' = IF awaiting THEN xsignalled + 1 ELSE xsignalled

-----------------------------------------------------------------------------
(* Plugins, which only know of views that are or will be mapped, and       *)
(* outputs.                                                                *)
XPluginRequest(r, group) ==
  /\ XIdle \/ inApply
  /\ xmapped \/ (owned /\ xpending.mapped)
  /\ xpending' = [xpending EXCEPT !.x = r.x, !.w = r.w, !.gravity = r.gravity,
                                  !.full = r.full, !.margin = r.margin]
  /\ xqueued' = IF xqueued = "shared" THEN "shared" ELSE group
  /\ placed' = XEdge(xpending')
  /\ UNCHANGED <<xcommitted, xcurrent, awaiting, node, seen, offset, lives, idleReady, xwindow,
                 told, xrunning, xsignalled, within, inApply, xview, unmapLost>>

(* output_geometry_changed, set_output(): set_output_offset()              *)
OutputMoves(o) ==
  /\ XIdle /\ XViewAlive
  /\ o # offset
  /\ offset' = o
  /\ told' = IF xpending.mapped THEN Reconfigured(xpending, o) ELSE told
  /\ UNCHANGED <<xpending, xcommitted, xcurrent, awaiting, node, seen, lives, idleReady, xwindow,
                 xtx, within, inApply, xview, placed, unmapLost>>

-----------------------------------------------------------------------------
(* Transactions.                                                           *)

(* xwayland_toplevel_t::commit(): the client is asked for a size or a      *)
(* state, and waited for if it has a surface to answer with.               *)
XCommit ==
  /\ xqueued # "no" /\ xrunning = "no" /\ within # "commit"
  /\ xqueued' = "no" /\ xrunning' = xqueued
  /\ xcommitted' = xpending
  /\ LET now == IF xpending.mapped /\ ~xcurrent.mapped THEN (IF node THEN drawn ELSE 0)
                ELSE Inner(xcurrent)
         resize == lives /\ now # Inner(xpending)
         waits == node /\ lives /\ (resize \/ xpending.full # xcurrent.full)
     IN  /\ told' = IF resize THEN Reconfigured(xpending, offset) ELSE told
         /\ awaiting' = waits
         /\ xsignalled' = IF waits THEN 0 ELSE 1
  /\ UNCHANGED <<xpending, xcurrent, node, seen, offset, lives, idleReady, xwindow, within,
                 inApply, xview, placed, unmapLost>>

(* What apply() makes current: the size the surface has by then, and for a *)
(* window that is gone the size it had.                                    *)
XApplied ==
  LET s == IF lives THEN xcommitted
           ELSE [xcommitted EXCEPT !.w = xcurrent.w, !.mapped = @ /\ xcurrent.mapped]
  IN  IF node THEN Resized(s, drawn + s.margin) ELSE s

\* Mutant of XTold: the X server is not told of a position.
XToldNothing == told

XTold == IF xqueued = "no" THEN Reconfigured(XApplied, offset) ELSE told

(* handle_toplevel_state_changed(): the view is mapped only if the window  *)
(* still has a surface.                                                    *)
MappedAfter ==
  IF ~XViewAlive THEN xmapped
  ELSE CASE owned /\ lives /\ associated /\ ~xcurrent.mapped /\ XApplied.mapped -> TRUE
         [] ~XApplied.mapped -> FALSE
         [] OTHER -> xmapped

(* xwayland_toplevel_t::apply(), up to the signal to the view.  A handler   *)
(* only sees the end of a transaction that it has started itself.          *)
XApplyState(timedOut) ==
  /\ xrunning # "no" /\ ~inApply /\ within # "commit"
  /\ within # "none" => xqueued = "no"
  /\ IF timedOut THEN XIdle /\ xsignalled = 0 ELSE xsignalled > 0
  /\ xcommitted' = XApplied /\ xcurrent' = XApplied
  /\ xpending' = IF xqueued = "no" THEN XApplied ELSE xpending
  /\ told' = XTold
  /\ seen' = IF node THEN drawn ELSE seen
  /\ xmapped' = MappedAfter
  /\ unmapLost' = (XApplied.mapped /\ ~xmapped')
  /\ inApply' = TRUE
  /\ UNCHANGED <<awaiting, node, offset, lives, idleReady, xwindow, xtx, within, owned, xselfRef,
                 placed>>

\* Mutant of XApplyEnd: the reference is dropped although another transaction waits.
XApplyEndDrop ==
  /\ inApply
  /\ inApply' = FALSE /\ xrunning' = "no"
  /\ xselfRef' = FALSE
  /\ UNCHANGED <<xtoplevel, xwindow, told, xqueued, xsignalled, within, owned, xmapped, placed,
                 unmapLost>>

XApplyEnd ==
  /\ inApply
  /\ inApply' = FALSE /\ xrunning' = "no"
  /\ xselfRef' = (xselfRef /\ xqueued # "no")
  /\ UNCHANGED <<xtoplevel, xwindow, told, xqueued, xsignalled, within, owned, xmapped, placed,
                 unmapLost>>

-----------------------------------------------------------------------------
(* The window.                                                             *)
Associate ==
  /\ XIdle /\ lives /\ owned
  /\ ~associated
  /\ associated' = TRUE
  /\ UNCHANGED <<xtoplevel, drawn, told, xtx, within, inApply, xview, placed, unmapLost>>

(* handle_map_request() with set_main_surface(), which gives all three     *)
(* states the size of the new surface, and                                 *)
(* adjust_view_pending_geometry_on_start_map().                            *)
XStartMap(x, w, full) ==
  LET size == w + xcurrent.margin
      box  == IF full THEN [x |-> 0, w |-> ScreenWidth]
              ELSE Within(x - xpending.margin, w + xpending.margin)
  IN  /\ node' = TRUE /\ seen' = w
      /\ xpending' = [xpending EXCEPT !.mapped = TRUE, !.x = box.x, !.w = box.w,
                                      !.full = @ \/ full]
      /\ xcurrent' = [xcurrent EXCEPT !.w = size]
      /\ xcommitted' = [xcommitted EXCEPT !.w = size]
      /\ XEnqueue
      /\ placed' = XEdge(xpending')

(* The window draws.  Its first buffer maps it, in the same wl_surface     *)
(* commit that the toplevel is told of afterwards.                         *)
Draw(w) ==
  /\ XIdle /\ lives /\ associated /\ IsNear
  /\ drawn' = w
  /\ \/ /\ drawn = 0 /\ owned
        /\ \E x \in Positions, full \in BOOLEAN : XStartMap(x, w, full)
        /\ within' = "mapping"
     \/ /\ drawn # 0 /\ node
        /\ within' = "commit"
        /\ UNCHANGED <<xpending, xcommitted, xcurrent, node, seen, xqueued, placed>>
  /\ UNCHANGED <<awaiting, offset, lives, idleReady, associated, told, xrunning, xsignalled,
                 inApply, xview, unmapLost>>

(* handle_surface_commit()                                                 *)
SurfaceCommitted ==
  \/ /\ xrunning # "no"
     /\ IF drawn # Inner(xcommitted)
        THEN UNCHANGED <<xcommitted, awaiting, xsignalled>>
        ELSE xcommitted' = Resized(xcommitted, drawn) /\ XEmitReady
     /\ UNCHANGED <<xpending, seen, xqueued>>
  \/ /\ xrunning = "no" /\ xqueued # "no"
     /\ UNCHANGED <<xpending, xcommitted, awaiting, xsignalled, seen, xqueued>>
  \/ /\ xrunning = "no" /\ xqueued = "no"
     /\ IF drawn + xcurrent.margin = xcurrent.w
        THEN seen' = drawn /\ UNCHANGED <<xpending, xqueued>>
        ELSE /\ xpending' = Resized(xpending, drawn + xcurrent.margin)
             /\ XEnqueue
             /\ UNCHANGED seen
     /\ UNCHANGED <<xcommitted, awaiting, xsignalled>>

HandleDraw ==
  /\ within \in {"mapping", "commit"} /\ ~inApply /\ ~XDue
  /\ SurfaceCommitted
  /\ within' = "none"
  /\ UNCHANGED <<xcurrent, node, offset, lives, idleReady, xwindow, told, xrunning, inApply,
                 xview, placed, unmapLost>>

(* handle_unmap_request()                                                  *)
XStartUnmap ==
  /\ xselfRef' = TRUE
  /\ node' = FALSE
  /\ xpending' = [xpending EXCEPT !.mapped = FALSE]
  /\ XEnqueue

(* The window is unmapped and loses its surface.                           *)
Unmap ==
  /\ XIdle /\ lives /\ owned
  /\ associated
  /\ drawn' = 0 /\ associated' = FALSE
  /\ IF drawn # 0 THEN XStartUnmap ELSE UNCHANGED <<xselfRef, node, xpending, xqueued>>
  /\ UNCHANGED <<xcommitted, xcurrent, awaiting, seen, offset, lives, idleReady, told, xrunning,
                 xsignalled, within, inApply, owned, xmapped, placed, unmapLost>>

(* handle_client_configure(): an unmapped window is configured as it likes,*)
(* a mapped one asks for a size: configure_request() takes the corner of   *)
(* its frame for that of the window, and puts another frame around it.     *)
(* Bound: it does so on the current workspace.                             *)
ConfigureRequest(x, w) ==
  /\ XIdle /\ lives /\ owned
  /\ xmapped => IsHere(xpending)
  /\ IF xmapped
     THEN LET box == Within(xpending.x, w)
          IN  /\ xpending' = [xpending EXCEPT !.x = box.x - xpending.margin,
                                              !.w = box.w + xpending.margin]
              /\ XEnqueue
              /\ UNCHANGED told
     ELSE /\ told' = [x |-> x, w |-> w]
          /\ xpending' = [xpending EXCEPT !.x = x - offset]
          /\ UNCHANGED xqueued
  /\ placed' = IF xqueued' # "no" THEN XEdge(xpending') ELSE placed
  /\ UNCHANGED <<xcommitted, xcurrent, awaiting, node, seen, offset, lives, idleReady, xwindow,
                 xrunning, xsignalled, within, inApply, xview, unmapLost>>

(* The controller drops its reference; of a destroyed window the toplevel  *)
(* too is told, and is ready from the next idle event on.                  *)
Dropped(how) ==
  /\ owned' = FALSE
  /\ lives' = (how # "destroy")
  /\ idleReady' = (how = "destroy")

(* The window is destroyed, or becomes one of another type: it is unmapped *)
(* first.  recreate_view() looks at the view, wlroots at the surface.      *)
Leave(how) ==
  /\ XIdle /\ lives
  /\ how = "recreate" => owned
  /\ IF how = "destroy" THEN drawn' = 0 /\ associated' = FALSE ELSE UNCHANGED xwindow
  /\ IF owned /\ (IF how = "destroy" THEN drawn # 0 ELSE xmapped)
     THEN /\ XStartUnmap
          /\ within' = how
          /\ UNCHANGED <<owned, lives, idleReady>>
     ELSE /\ Dropped(how)
          /\ node' = (node /\ how # "destroy")
          /\ UNCHANGED <<xselfRef, xpending, xqueued, within>>
  /\ UNCHANGED <<xcommitted, xcurrent, awaiting, seen, offset, told, xrunning, xsignalled,
                 inApply, xmapped, placed, unmapLost>>

Left ==
  /\ within \in {"destroy", "recreate"} /\ ~inApply /\ ~XDue
  /\ within' = "none"
  /\ Dropped(within)
  /\ UNCHANGED <<xpending, xcommitted, xcurrent, awaiting, node, seen, offset, xwindow, told, xtx,
                 inApply, xselfRef, xmapped, placed, unmapLost>>

IdleReady ==
  /\ XIdle /\ idleReady
  /\ idleReady' = FALSE
  /\ XEmitReady
  /\ UNCHANGED <<xpending, xcommitted, xcurrent, node, seen, offset, lives, xwindow, told,
                 xqueued, xrunning, within, inApply, xview, placed, unmapLost>>

-----------------------------------------------------------------------------
XTransaction == XCommit \/ (\E t \in BOOLEAN : XApplyState(t)) \/ XApplyEnd

XNext ==
  \/ \E r \in XRequests, group \in {"own", "shared"} : XPluginRequest(r, group)
  \/ \E o \in Offsets : OutputMoves(o)
  \/ XTransaction
  \/ Associate \/ Unmap
  \/ \E w \in XWidths : Draw(w)
  \/ HandleDraw
  \/ \E x \in Positions, w \in XWidths : ConfigureRequest(x, w)
  \/ \E how \in {"destroy", "recreate"} : Leave(how)
  \/ Left \/ IdleReady

XSpec == XInit /\ [][XNext]_xvars

-----------------------------------------------------------------------------
XStates == [mapped: BOOLEAN, x: Int, w: Int, gravity: {"left", "right"},
            full: BOOLEAN, margin: Nat]

XTypeOK ==
  /\ xpending \in XStates /\ xcommitted \in XStates /\ xcurrent \in XStates
  /\ awaiting \in BOOLEAN /\ node \in BOOLEAN /\ lives \in BOOLEAN /\ idleReady \in BOOLEAN
  /\ seen \in XWidths \cup {0} /\ drawn \in XWidths \cup {0} /\ associated \in BOOLEAN
  /\ offset \in Offsets /\ told \in [x: Int, w: Int]
  /\ xqueued \in {"no", "own", "shared"} /\ xrunning \in {"no", "own", "shared"} /\ xsignalled \in Nat
  /\ within \in {"none", "mapping", "commit", "destroy", "recreate"} /\ inApply \in BOOLEAN
  /\ owned \in BOOLEAN /\ xselfRef \in BOOLEAN /\ xmapped \in BOOLEAN
  /\ placed \in Int /\ unmapLost \in BOOLEAN

(* Between transactions the view is mapped exactly while the controller's  *)
(* window has a mapped surface, but for a window that lost its surface     *)
(* while it was being mapped: the next map may find the toplevel mapped    *)
(* already, and the view is not mapped until the window is unmapped.       *)
XMapFollows == XQuiet /\ ~unmapLost => xmapped = (owned /\ drawn # 0)

(* A view is unmapped before it is freed, and nobody keeps the view of a   *)
(* window that is gone once its last transaction is over.                  *)
XLifetime ==
  /\ xmapped => XViewAlive
  /\ XQuiet /\ ~owned => ~xselfRef

(* Between transactions a mapped window has the size it has drawn, is      *)
(* where the window manager put it, and the X server knows: clients place  *)
(* their menus by what they were told.                                     *)
XPlacedAndTold ==
  XQuiet /\ lives /\ owned /\ xmapped =>
    /\ xcurrent.w = drawn + xcurrent.margin /\ seen = drawn
    /\ XEdge(xcurrent) = placed
    /\ told = [x |-> xcurrent.x + xcurrent.margin + offset, w |-> Inner(xcurrent)]

(* "Use old x/y values" (xwayland-toplevel-view.hpp:63): a mapped client   *)
(* that asks for the size it has, with its frame in the workarea, stays    *)
(* where it is.  It does not, with margins; this is in no run.             *)
UsesOldPlace ==
  [][\A x \in Positions, w \in XWidths :
       ConfigureRequest(x, w) /\ xmapped /\ Inner(xpending) = w
       /\ Within(xpending.x, xpending.w) = [x |-> xpending.x, w |-> xpending.w]
       => xpending'.x = xpending.x]_xvars
=============================================================================

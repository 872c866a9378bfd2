---------------------------- MODULE MCToplevels ----------------------------
(***************************************************************************)
(* A Wayland and an X11 toplevel, checked in one run: "part" says which of *)
(* them moves, so that their states add up.  X11 has two parts: in "x11"   *)
(* outputs move and no other object joins the transactions, in "shared"    *)
(* others join and nothing is fullscreen.  Requests: a floating one with   *)
(* server-side decoration that grows to the left, and a fullscreen one.    *)
(***************************************************************************)
EXTENDS XdgToplevel, XwaylandToplevel

VARIABLE part

MCWidths == {1, 2}

MCRequests ==
  {[x |-> 0, w |-> 3, gravity |-> "right", full |-> FALSE, margin |-> 1],
   [x |-> 0, w |-> 2, gravity |-> "left", full |-> TRUE, margin |-> 0]}

(* A part that does not move the output is in one initial state only.      *)
ToplevelsInit ==
  /\ part \in {"wayland", "x11", "shared"}
  /\ Init /\ XInit
  /\ part = "x11" \/ offset = 0

ToplevelsNext ==
  /\ UNCHANGED part
  /\ \/ part = "wayland" /\ Next /\ UNCHANGED xvars
     \/ part = "x11" /\ XNext /\ UNCHANGED vars /\ xqueued' # "shared"
     \/ part = "shared" /\ XNext /\ UNCHANGED <<vars, offset>> /\ ~xpending'.full

ToplevelsSpec ==
  /\ ToplevelsInit /\ [][ToplevelsNext]_<<part, vars, xvars>>
  /\ Fairness

(* Between transactions a view is mapped exactly when its surface is.      *)
ViewsMapped == MapFollowsSurface /\ XMapFollows

(* A view is never freed before it was unmapped, and a view of X11 whose   *)
(* window is gone is freed with its last transaction.                      *)
ViewsLive == NoMappedViewFreed /\ XLifetime

(* Between transactions a toplevel is seen where it was put, in the size   *)
(* that its client drew; an X11 client knows where that is.                *)
ViewsPlaced == ShownAsPlaced /\ XPlacedAndTold
=============================================================================

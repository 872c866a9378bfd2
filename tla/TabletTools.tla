----------------------------- MODULE TabletTools ------------------------------
(***************************************************************************)
(* tablet_t and tablet_tool_t (src/src/core/seat/tablet.cpp): the node     *)
(* under the tools of tablets, the node their tip holds, and the pointer   *)
(* focus and the cursor that they take over while a tool is near.          *)
(*                                                                         *)
(* libinput reports a tip up before a proximity out, and a proximity out   *)
(* before the tablet of the tool goes away; all tools move the one cursor. *)
(***************************************************************************)
EXTENDS Cursor

CONSTANTS
  Tools,        \* tablet tools
  ToolNodes,    \* scene nodes that can be under the cursor
  SurfaceNodes, \* those that show a wl_surface
  TabletNodes,  \* those whose client listens to tablets
  NoToolNode

ASSUME TabletAssumption ==
  TabletNodes \subseteq SurfaceNodes /\ SurfaceNodes \subseteq ToolNodes /\ NoToolNode \notin ToolNodes

VARIABLES
  proximity_surface,   \* per tool: node it has entered
  grabbed_node,        \* per tool: node its tip went down on
  is_active,           \* tools for which a proximity in was handled
  near, tipDown,       \* tools near their tablet, tools whose tip is down
  focus_enabled_count, \* of the pointer (pointer.cpp)
  toolScene,           \* nodes reachable from the scene's root
  underTools           \* node under the cursor

toolVars == <<proximity_surface, grabbed_node, is_active, near, tipDown, focus_enabled_count,
              toolScene, underTools, cursor, cubesActive>>

(* set_focus(node) of one tool: the node it has entered afterwards, and    *)
(* what becomes of the cursor.                                             *)
NewFocus(node) == IF node \in TabletNodes THEN node ELSE NoToolNode
FocusCursor(c, node) == IF node \in SurfaceNodes THEN c ELSE SetCursor(c, "default")

(* update_tool_position(), for a tool that holds "grab".                   *)
WantedNode(grab, node) == IF grab # NoToolNode THEN grab ELSE node

TabletEvent == SetTouchscreenMode(cursor, FALSE)

ProximityIn(t) ==
  /\ t \notin near
  /\ near' = near \cup {t} /\ is_active' = is_active \cup {t}
  /\ \E n \in toolScene \cup {NoToolNode} :  \* the tool warps the cursor
       /\ underTools' = n
       /\ proximity_surface' = [proximity_surface EXCEPT ![t] = NewFocus(WantedNode(grabbed_node[t], n))]
       /\ cursor' = SetCursor(FocusCursor(TabletEvent, WantedNode(grabbed_node[t], n)), "crosshair")
  /\ focus_enabled_count' = focus_enabled_count - 1
  /\ UNCHANGED <<grabbed_node, tipDown, toolScene, cubesActive>>

ProximityOut(t) ==
  /\ t \in near /\ t \notin tipDown
  /\ near' = near \ {t} /\ is_active' = is_active \ {t}
  /\ proximity_surface' = [proximity_surface EXCEPT ![t] = NoToolNode]
  /\ cursor' = SetCursor(TabletEvent, "default")
  /\ focus_enabled_count' = focus_enabled_count + 1
  /\ UNCHANGED <<grabbed_node, tipDown, toolScene, underTools, cubesActive>>

(* handle_axis(): the cursor moves; only the tool itself is refocused.     *)
ToolMoves(t) ==
  /\ t \in near
  /\ \E n \in toolScene \cup {NoToolNode} :
       LET wanted == WantedNode(grabbed_node[t], n) IN
       /\ underTools' = n
       /\ proximity_surface' = [proximity_surface EXCEPT ![t] = NewFocus(wanted)]
       /\ cursor' = FocusCursor(TabletEvent, wanted)
  /\ UNCHANGED <<grabbed_node, is_active, near, tipDown, focus_enabled_count, toolScene, cubesActive>>

(* A button binding may take the tip down, but never the tip up.  The view *)
(* under the tool is raised, which is a change of the scene of its own.    *)
TipDown(t, bound) ==
  /\ t \in near \ tipDown
  /\ tipDown' = tipDown \cup {t}
  /\ grabbed_node' = IF bound THEN grabbed_node
                     ELSE [grabbed_node EXCEPT ![t] = proximity_surface[t]]
  /\ cursor' = TabletEvent
  /\ UNCHANGED <<proximity_surface, is_active, near, focus_enabled_count, toolScene, underTools, cubesActive>>

TipUp(t) ==
  /\ t \in tipDown
  /\ tipDown' = tipDown \ {t}
  /\ IF proximity_surface[t] = NoToolNode
     THEN cursor' = TabletEvent /\ UNCHANGED <<grabbed_node, proximity_surface>>
     ELSE /\ grabbed_node' = [grabbed_node EXCEPT ![t] = NoToolNode]
          /\ proximity_surface' = [proximity_surface EXCEPT ![t] = NewFocus(underTools)]
          /\ cursor' = FocusCursor(TabletEvent, underTools)
  /\ UNCHANGED <<is_active, near, focus_enabled_count, toolScene, underTools, cubesActive>>

\* Mutant of AliveGrab: the tip keeps hold of a node that is gone.
AliveGrabAlways(grab, scene) == grab

-----------------------------------------------------------------------------
(* on_root_node_updated of every tool, the scene being "scene" now and     *)
(* "node" under the cursor.                                                *)
AliveGrab(grab, scene) == IF grab \in scene THEN grab ELSE NoToolNode

UpdateTools(grabs, scene, node) ==
  LET kept == [t \in Tools |-> AliveGrab(grabs[t], scene)]
      wanted == [t \in Tools |-> WantedNode(kept[t], node)]
      lost == \E t \in is_active : wanted[t] \notin SurfaceNodes
  IN /\ toolScene' = scene /\ underTools' = node
     /\ grabbed_node' = kept
     /\ proximity_surface' = [t \in Tools |-> IF t \in is_active THEN NewFocus(wanted[t])
                                              ELSE proximity_surface[t]]
     /\ cursor' = IF lost THEN SetCursor(cursor, "default") ELSE cursor
     /\ UNCHANGED <<is_active, near, tipDown, focus_enabled_count, cubesActive>>

ToolSceneChanges ==
  \E n \in ToolNodes :
    LET scene == IF n \in toolScene THEN toolScene \ {n} ELSE toolScene \cup {n}
    IN \E node \in scene \cup {NoToolNode} : UpdateTools(grabbed_node, scene, node)

(* core.transfer_grab(): every tool lets go, and the new grab node comes   *)
(* into the scene.                                                         *)
ToolGrabsTransferred ==
  \E n \in ToolNodes \ SurfaceNodes :
    /\ n \notin toolScene
    /\ \E node \in toolScene \cup {n} :
         UpdateTools([t \in Tools |-> NoToolNode], toolScene \cup {n}, node)

ToolInit ==
  /\ CursorInit
  /\ proximity_surface = [t \in Tools |-> NoToolNode] /\ grabbed_node = [t \in Tools |-> NoToolNode]
  /\ is_active = {} /\ near = {} /\ tipDown = {} /\ focus_enabled_count = 1
  /\ toolScene = SurfaceNodes /\ underTools = NoToolNode

ToolNext ==
  \/ \E t \in Tools : \/ ProximityIn(t) \/ ProximityOut(t) \/ ToolMoves(t) \/ TipUp(t)
                      \/ \E bound \in BOOLEAN : TipDown(t, bound)
  \/ ToolSceneChanges \/ ToolGrabsTransferred
  \/ CursorNext /\ UNCHANGED <<proximity_surface, grabbed_node, is_active, near, tipDown,
                               focus_enabled_count, toolScene, underTools>>

ToolSpec == ToolInit /\ [][ToolNext]_toolVars

(* A tool is only ever in a node that is in the scene, which is the one    *)
(* its tip holds if it holds one, and in none while it is away: whatever   *)
(* goes away, takes the grab over or lifts the tip in between.             *)
ToolFocusAlive ==
  \A t \in Tools :
    /\ proximity_surface[t] \in toolScene \cup {NoToolNode}
    /\ grabbed_node[t] # NoToolNode => t \in tipDown /\ proximity_surface[t] = grabbed_node[t]
    /\ t \notin near => proximity_surface[t] = NoToolNode
=============================================================================

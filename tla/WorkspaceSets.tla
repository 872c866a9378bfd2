---------------------------- MODULE WorkspaceSets -----------------------------
(***************************************************************************)
(* Workspace sets (src/src/output/workspace-impl.cpp), the outputs that    *)
(* show them (output.cpp), the plugin that selects them and sends views to *)
(* them (src/plugins/single_plugins/wsets.cpp), and the always-on-top node *)
(* of wm-actions, where views of a set live outside of its scenegraph node.*)
(*                                                                         *)
(* The wsets plugin is loaded all the time, its indices are positive, and  *)
(* there is always an output (OutputLayout).  A set is known by its index, *)
(* which no two sets have at a time.                                       *)
(***************************************************************************)
EXTENDS Integers, FiniteSets

CONSTANTS
  WsOutputs, WsViews,
  MaxSets,        \* bound: workspace sets at a time
  MaxDrift,       \* bound: enabled_counter of a node
  NoOutput, NoSet

Index == 1..MaxSets
InSet(i) == <<"set", i>>        \* child of a set's node
OnTop(o) == <<"above", o>>      \* child of wm-actions' node of an output
Detached == <<"none", 0>>

ASSUME WsetsAssumption ==
  /\ MaxSets \in Nat \ {0} /\ MaxDrift \in Nat
  /\ NoOutput \notin WsOutputs /\ NoSet \notin Index

VARIABLES
  ws,        \* [current, available, set, view], see WsTypeOK
  inhibited, \* plugins are inhibited on the outputs (session lock)
  doubled,   \* history: views that were in two sets at a time
  raised     \* history: views that were put always on top

wsVars == <<ws, inhibited, doubled, raised>>

NewSet == [output |-> NoOutput, visible |-> FALSE, views |-> {}]
NewView == [mapped |-> FALSE, minimized |-> FALSE, above |-> FALSE, wset |-> NoSet,
            output |-> NoOutput, parent |-> Detached, enabled |-> 0]

WsTypeOK ==
  /\ ws.current \in [WsOutputs -> Index \cup {NoSet}]
  /\ ws.available \subseteq Index
  /\ ws.set \in [Index -> [output : WsOutputs \cup {NoOutput}, visible : BOOLEAN,
                           views : SUBSET WsViews]]
  /\ ws.view \in [WsViews -> [mapped : BOOLEAN, minimized : BOOLEAN, above : BOOLEAN,
       wset : Index \cup {NoSet}, output : WsOutputs \cup {NoOutput},
       parent : {InSet(i) : i \in Index} \cup {OnTop(o) : o \in WsOutputs} \cup {Detached},
       enabled : -MaxDrift..MaxDrift]]
  /\ inhibited \in BOOLEAN /\ doubled \cup raised \subseteq WsViews

Exists(s, o) == s.current[o] # NoSet
Living(s) == {i \in Index : i \in s.available \/ \E o \in WsOutputs : s.current[o] = i}
Free(s) == Index \ Living(s)

-----------------------------------------------------------------------------
(* workspace_set_t.                                                        *)
WithViews(s, V, Change(_)) ==
  [s EXCEPT !.view = [v \in WsViews |-> IF v \in V THEN Change(s.view[v]) ELSE s.view[v]]]

SetOutput(s, V, o) == WithViews(s, V, LAMBDA r : [r EXCEPT !.output = o])

(* attach_to_output(): the node goes to the new output, its children with  *)
(* it, and the views' output changes.                                      *)
Attach(s, i, o) ==
  IF s.set[i].output = o THEN s
  ELSE SetOutput([s EXCEPT !.set[i].output = o], s.set[i].views, o)

\* Mutant of Outside: the views under the set's own node are counted, too.
OutsideAll(s, i) == s.set[i].views

(* Views that are not under the node of their set.                         *)
Outside(s, i) == {v \in s.set[i].views : s.view[v].parent # InSet(i)}

(* set_visible(): the node of the set, and each view outside of it.        *)
SetVisible(s, i, visible) ==
  IF s.set[i].visible = visible THEN s
  ELSE WithViews([s EXCEPT !.set[i].visible = visible], Outside(s, i),
                 LAMBDA r : [r EXCEPT !.enabled = @ + IF visible THEN 1 ELSE -1])

(* add_view(): a view that is there already is left as it is.              *)
AddViews(s, i, V) ==
  WithViews([s EXCEPT !.set[i].views = @ \cup V], V \ s.set[i].views,
            LAMBDA r : [r EXCEPT !.wset = i, !.output = s.set[i].output])

(* remove_view(), from the set that a view takes for its own.              *)
RemoveViews(s, V) ==
  LET own(i) == {v \in V \cap s.set[i].views : s.view[v].wset = i}
  IN WithViews([s EXCEPT !.set = [i \in Index |-> [s.set[i] EXCEPT !.views = @ \ own(i)]]],
               UNION {own(i) : i \in Index}, LAMBDA r : [r EXCEPT !.wset = NoSet])

Reparent(s, V, p) == WithViews(s, V, LAMBDA r : [r EXCEPT !.parent = p])

\* Mutant of Hidden: the old set of the output stays visible.
HiddenNever(s, i) == s

Hidden(s, i) == IF i = NoSet THEN s ELSE SetVisible(s, i, FALSE)

(* output_impl_t::set_workspace_set().                                     *)
SetWorkspaceSet(s, o, i) ==
  IF s.current[o] = i THEN s
  ELSE [SetVisible(Attach(Hidden(s, s.current[o]), i, o), i, TRUE) EXCEPT !.current[o] = i]

(* A set that is neither an output's nor held by the plugin is destroyed:  *)
(* it detaches its views from its output, and they are in no set.          *)
Collect(s) ==
  LET dead == Free(s)
      lost == UNION {s.set[i].views : i \in dead}
      forgotten(r) == [r EXCEPT !.wset = NoSet, !.output = NoOutput,
                         !.parent = IF \E i \in dead : @ = InSet(i) THEN Detached ELSE @]
  IN [WithViews(s, lost, forgotten) EXCEPT
        !.set = [i \in Index |-> IF i \in dead THEN NewSet ELSE s.set[i]]]

-----------------------------------------------------------------------------
(* wm-actions.  set_keep_above_state() on the output's instance.           *)
KeepAbove(s, o, V, above) ==
  IF inhibited THEN s
  ELSE WithViews(s, V, LAMBDA r : [r EXCEPT !.above = above,
                         !.parent = IF above THEN OnTop(o) ELSE InSet(s.current[o])])

(* on_view_output_changed: a view that moved to a set of an output stays   *)
(* always on top there.                                                    *)
MovedToWset(s, i, V) ==
  IF s.set[i].output = NoOutput THEN s
  ELSE Reparent(s, {v \in V : s.view[v].above}, OnTop(s.set[i].output))

SetAlwaysOnTop(v, above) ==
  /\ ws.view[v] # NewView
  /\ ws' = IF ws.view[v].output = NoOutput THEN [ws EXCEPT !.view[v].above = TRUE]
           ELSE KeepAbove(ws, ws.view[v].output, {v}, above)
  /\ raised' = raised \cup {v} /\ UNCHANGED <<inhibited, doubled>>

(* minimize_request(), set_minimized() and on_view_minimized.              *)
Minimize(v, minimized) ==
  LET r == ws.view[v]
      s == [ws EXCEPT !.view[v].minimized = minimized,
                      !.view[v].enabled = @ + IF minimized THEN -1 ELSE 1]
  IN /\ r.mapped /\ r.minimized # minimized
     /\ ws' = IF r.above /\ ~minimized /\ r.output # NoOutput
              THEN Reparent(s, {v}, OnTop(r.output)) ELSE s
     /\ UNCHANGED <<inhibited, doubled, raised>>

-----------------------------------------------------------------------------
(* wsets.cpp.                                                              *)
Lowest(S) == CHOOSE i \in S : \A j \in S : i <= j

\* Mutant of Reference: the set that replaces a stolen one is not recorded.
ReferenceNone(s, o) == s

(* available_sets[wset index] = wset, of an output.                        *)
Reference(s, o) == [s EXCEPT !.available = @ \cup {s.current[o]}]

(* The output that shows a set which another one selects gets a new one.   *)
Dispossess(s, o) == Reference(SetWorkspaceSet(s, o, Lowest(Free(s))), o)

(* cleanup_wsets().                                                        *)
Useless(s) ==
  {i \in s.available : /\ s.set[i].views = {}
                       /\ s.set[i].output = NoOutput \/ s.current[s.set[i].output] # i}

SelectWorkspace(o, i) ==
  LET located == [ws EXCEPT !.available = @ \cup {i}]
      owner == ws.set[i].output
      stolen == owner # NoOutput /\ owner # o /\ ws.current[owner] = i
      freed == IF stolen THEN Dispossess(located, owner) ELSE located
      selected == SetWorkspaceSet(freed, o, i)
  IN /\ Exists(ws, o) /\ ~inhibited
     /\ stolen => Free(located) # {}
     /\ ws' = Collect([selected EXCEPT !.available = @ \ Useless(selected)])
     /\ UNCHANGED <<inhibited, doubled, raised>>

(* send_window_to().  It calls into the view's set: a view without one     *)
(* cannot be sent.                                                         *)
SendWindow(v, i) ==
  LET located == [ws EXCEPT !.available = @ \cup {i}]
      removed == RemoveViews(located, {v})
      placed == SetOutput(Reparent(removed, {v}, InSet(i)), {v}, removed.set[i].output)
  IN /\ ~inhibited /\ ws.view[v].wset # NoSet
     /\ ws' = Collect(MovedToWset(AddViews(placed, i, {v}), i, {v}))
     /\ UNCHANGED <<inhibited, doubled, raised>>

-----------------------------------------------------------------------------
(* Outputs.  The output makes its set, and the plugin refers to it.        *)
AddOutput(o) ==
  /\ ~Exists(ws, o) /\ Free(ws) # {}
  /\ ws' = Dispossess(ws, o)
  /\ UNCHANGED <<inhibited, doubled, raised>>

(* move_view_to_output().                                                  *)
MoveToOutput(s, V, o) ==
  LET i == s.current[o]
  IN MovedToWset(AddViews(Reparent(RemoveViews(s, V), V, InSet(i)), i, V), i, V)

InScene(s, v) ==
  \/ \E o \in WsOutputs : Exists(s, o) /\ s.view[v].parent = OnTop(o)
  \/ \E i \in Index : s.view[v].parent = InSet(i) /\ s.set[i].output # NoOutput

(* on_output_removed of the sets.                                          *)
Orphans(s, o) ==
  LET orphaned == {i \in Index : s.set[i].output = o}
  IN SetOutput([s EXCEPT !.set = [i \in Index |->
                  IF i \in orphaned THEN [s.set[i] EXCEPT !.output = NoOutput] ELSE s.set[i]]],
               UNION {s.set[i].views : i \in orphaned}, NoOutput)

(* destroy_wayfire_output(): wm-actions gives the views of the current set *)
(* back and drops its node, the views that are in the scenegraph move to   *)
(* the active output, as those without a set do, the sets lose theirs.     *)
RemoveOutput(o, to) ==
  LET i == ws.current[o]
      back == KeepAbove(ws, o, {v \in ws.set[i].views : ws.view[v].above}, FALSE)
      fallen == {v \in WsViews : back.view[v].parent = OnTop(o)}
      dropped == Reparent(back, fallen, Detached)
      moved == MoveToOutput(dropped, {v \in dropped.set[i].views : InScene(dropped, v)}, to)
      others == {v \in WsViews : moved.view[v].output = o /\ moved.view[v].wset = NoSet}
  IN /\ Exists(ws, o) /\ Exists(ws, to) /\ to # o
     /\ ws' = Collect([Orphans(SetOutput(moved, others, to), o) EXCEPT !.current[o] = NoSet])
     /\ doubled' = doubled \cup {v \in WsViews :
          Cardinality({j \in Index : v \in moved.set[j].views}) > 1}
     /\ UNCHANGED <<inhibited, raised>>

-----------------------------------------------------------------------------
(* Views.  map() and adjust_view_output_on_map(): "active" is the active   *)
(* output.  A view that was unmapped is still in its set.                  *)
MapView(v, active) ==
  LET o == IF ws.view[v].output = NoOutput THEN active ELSE ws.view[v].output
      i == ws.current[o]
      s == AddViews(Reparent(SetOutput(ws, {v}, o), {v}, InSet(i)), i, {v})
  IN /\ ~ws.view[v].mapped /\ Exists(ws, active)
     /\ ws' = [s EXCEPT !.view[v].mapped = TRUE, !.view[v].enabled = @ + 1]
     /\ doubled' = doubled \cup
          (IF \E j \in Index \ {i} : v \in ws.set[j].views THEN {v} ELSE {})
     /\ UNCHANGED <<inhibited, raised>>

UnmapView(v) ==
  /\ ws.view[v].mapped
  /\ ws' = [ws EXCEPT !.view[v].mapped = FALSE, !.view[v].enabled = @ - 1]
  /\ UNCHANGED <<inhibited, doubled, raised>>

(* on_view_destruct; another view takes the name.                          *)
DestroyView(v) ==
  /\ ~ws.view[v].mapped /\ ws.view[v] # NewView
  /\ ws' = [ws EXCEPT !.view[v] = NewView,
                      !.set = [i \in Index |-> [ws.set[i] EXCEPT !.views = @ \ {v}]]]
  /\ doubled' = doubled \ {v} /\ raised' = raised \ {v} /\ UNCHANGED inhibited

Inhibit(on) == inhibited' = on /\ inhibited # on /\ UNCHANGED <<ws, doubled, raised>>

WsInit ==
  /\ \E o \in WsOutputs : ws = Dispossess(
       [current |-> [x \in WsOutputs |-> NoSet], available |-> {},
        set |-> [i \in Index |-> NewSet], view |-> [v \in WsViews |-> NewView]], o)
  /\ inhibited = FALSE /\ doubled = {} /\ raised = {}

WsNext ==
  /\ \/ \E o \in WsOutputs :
          \/ AddOutput(o)
          \/ \E to \in WsOutputs : RemoveOutput(o, to)
          \/ \E i \in Index : SelectWorkspace(o, i)
          \/ \E v \in WsViews : MapView(v, o)
     \/ \E v \in WsViews :
          \/ \E i \in Index : SendWindow(v, i)
          \/ \E on \in BOOLEAN : SetAlwaysOnTop(v, on) \/ Minimize(v, on)
          \/ UnmapView(v) \/ DestroyView(v)
     \/ \E on \in BOOLEAN : Inhibit(on)
  /\ \A v \in WsViews : ws'.view[v].enabled \in -MaxDrift..MaxDrift

WsSpec == WsInit /\ [][WsNext]_wsVars

-----------------------------------------------------------------------------
(* Each output shows its current set, and a set is visible on an output    *)
(* only as its current set: through selecting, stealing and unplugging.    *)
OneSetShown ==
  /\ \A o \in WsOutputs : Exists(ws, o) =>
       ws.set[ws.current[o]].output = o /\ ws.set[ws.current[o]].visible
  /\ \A i \in Index : ws.set[i].visible /\ ws.set[i].output # NoOutput =>
       ws.current[ws.set[i].output] = i

(* A view that was never in two sets is, from its first mapping on, in the *)
(* set that it takes for its own, and has the output of that set.          *)
ViewsInSets ==
  \A v \in WsViews \ doubled :
    /\ ws.view[v].mapped => ws.view[v].wset # NoSet
    /\ \A i \in Index : v \in ws.set[i].views <=> ws.view[v].wset = i
    /\ ws.view[v].wset # NoSet => ws.view[v].output = ws.set[ws.view[v].wset].output

Shown(v) ==
  /\ ws.view[v].mapped /\ ws.view[v].enabled > 0
  /\ InScene(ws, v)
  /\ \A i \in Index : ws.view[v].parent = InSet(i) => ws.set[i].visible

(* A view that was never always on top nor in two sets is to be seen if    *)
(* its set is shown on an output and it is not minimized, and only then.   *)
ShownWithSet ==
  \A v \in WsViews \ (doubled \cup raised) : ws.view[v].wset # NoSet =>
    LET set == ws.set[ws.view[v].wset]
    IN Shown(v) <=> /\ ws.view[v].mapped /\ ~ws.view[v].minimized
                    /\ set.visible /\ set.output # NoOutput

(* A view is to be seen exactly where and when its set is.                 *)
SetsShown == OneSetShown /\ ViewsInSets /\ ShownWithSet
=============================================================================

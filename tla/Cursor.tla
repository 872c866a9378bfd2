-------------------------------- MODULE Cursor --------------------------------
(***************************************************************************)
(* cursor_t (src/src/core/seat/cursor.cpp): what the cursor shows, when    *)
(* several parties set it and hide it.  Each function of the class is an   *)
(* operator from the state of the cursor to the next one, because handlers *)
(* elsewhere call several of them in one event.                            *)
(***************************************************************************)
EXTENDS Integers

CONSTANTS
  Cubes,    \* cube instances: each hides the cursor while it is active
  NoShape   \* no name, no cursor picture

ASSUME CursorAssumption == NoShape \notin {"default", "crosshair", "resize", "client"}

VARIABLES
  cursor,     \* the cursor_t: see CursorInit
  cubesActive \* cube instances that hold the cursor hidden

cursorVars == <<cursor, cubesActive>>

(* set_cursor(name): the picture changes in an idle callback, run_once().  *)
SetCursor(c, name) ==
  IF c.hide_ref_counter > 0 \/ c.touchscreen_mode_active \/ c.last_cursor_name = name
  THEN c
  ELSE [c EXCEPT !.last_cursor_name = name, !.idle_set_cursor = name]

\* Mutant of HideCursor: a picture on its way is not called back.
HideCursorLate(c) ==
  [c EXCEPT !.shown = NoShape, !.hide_ref_counter = @ + 1, !.last_cursor_name = NoShape]

HideCursor(c) ==
  [c EXCEPT !.idle_set_cursor = NoShape, !.shown = NoShape,
            !.hide_ref_counter = @ + 1, !.last_cursor_name = NoShape]

UnhideCursor(c) ==
  LET left == IF c.hide_ref_counter > 0 THEN c.hide_ref_counter - 1 ELSE 0
      d == [c EXCEPT !.hide_ref_counter = left]
  IN IF left > 0 THEN d ELSE SetCursor(d, "default")

SetTouchscreenMode(c, enabled) ==
  LET d == [c EXCEPT !.touchscreen_mode_active = enabled]
  IN IF c.touchscreen_mode_active = enabled THEN c
     ELSE IF enabled THEN HideCursor(d) ELSE UnhideCursor(d)

(* The request of a client that passed validation.                         *)
ClientCursor(c) ==
  IF c.hide_ref_counter > 0 \/ c.touchscreen_mode_active THEN c
  ELSE [c EXCEPT !.shown = "client", !.last_cursor_name = NoShape]

-----------------------------------------------------------------------------
CursorIdle ==
  /\ cursor.idle_set_cursor # NoShape
  /\ cursor' = [cursor EXCEPT !.shown = cursor.idle_set_cursor, !.idle_set_cursor = NoShape]
  /\ UNCHANGED cubesActive

(* Any event of a pointer ends the mode, any of a touchscreen starts it.   *)
PointerUsed == cursor' = SetTouchscreenMode(cursor, FALSE) /\ UNCHANGED cubesActive

PluginSetsCursor ==
  /\ \E name \in {"default", "resize"} : cursor' = SetCursor(cursor, name)
  /\ UNCHANGED cubesActive

TouchUsed == cursor' = SetTouchscreenMode(cursor, TRUE) /\ UNCHANGED cubesActive

ClientSetsCursor == cursor' = ClientCursor(cursor) /\ UNCHANGED cubesActive

ConfigReloaded == cursor' = SetCursor(cursor, "default") /\ UNCHANGED cubesActive

CubeStarts ==
  /\ \E c \in Cubes \ cubesActive : cubesActive' = cubesActive \cup {c}
  /\ cursor' = HideCursor(cursor)

CubeEnds ==
  /\ \E c \in cubesActive : cubesActive' = cubesActive \ {c}
  /\ cursor' = UnhideCursor(cursor)

CursorInit ==
  /\ cursor = [hide_ref_counter |-> 0, touchscreen_mode_active |-> FALSE,
               last_cursor_name |-> "default", idle_set_cursor |-> "default", shown |-> NoShape]
  /\ cubesActive = {}

CursorNext == CursorIdle \/ PointerUsed \/ PluginSetsCursor \/ TouchUsed \/ ClientSetsCursor \/ ConfigReloaded
              \/ CubeStarts \/ CubeEnds

(* The cursor is hidden exactly while somebody still wants it so, in any   *)
(* order of cubes and touch events, with at most a picture on its way; and *)
(* no picture comes up from behind while it is hidden.                     *)
CursorShown ==
  LET wanted == cubesActive # {} \/ cursor.touchscreen_mode_active
  IN IF wanted THEN cursor.shown = NoShape /\ cursor.idle_set_cursor = NoShape
     ELSE cursor.shown # NoShape \/ cursor.idle_set_cursor # NoShape
=============================================================================

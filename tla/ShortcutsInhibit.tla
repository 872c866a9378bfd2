--------------------------- MODULE ShortcutsInhibit ---------------------------
(***************************************************************************)
(* The plugin shortcuts-inhibit (src/plugins/protocols/): while a surface  *)
(* with an inhibitor has the keyboard focus, the bindings repository is    *)
(* disabled.  Inhibitors are made by clients or, for views that match an   *)
(* option, by the plugin.                                                  *)
(***************************************************************************)
EXTENDS Integers, FiniteSets

CONSTANTS
  Inhibitable,  \* surfaces of views
  ByDefault,    \* those that match inhibit_by_default
  Ignored,      \* those that match ignore_views
  NoView         \* no such surface

ASSUME InhibitAssumption ==
  ByDefault \cup Ignored \subseteq Inhibitable /\ NoView \notin Inhibitable

VARIABLES
  inhibit,     \* the plugin: [inhibitors, active, last_focus], and the repository's enabled
  asking,      \* surfaces with a wlr_keyboard_shortcuts_inhibitor_v1
  shownViews,  \* surfaces whose view is mapped
  keyFocus,    \* the surface of the active node
  broken,      \* history: the user broke an inhibitor, and the focus did not move
  forgotten    \* history: last_focus was reset while its inhibitor was active

inhibitVars == <<inhibit, asking, shownViews, keyFocus, broken, forgotten>>

-----------------------------------------------------------------------------
(* activate_for_surface()                                                  *)
Activated(p, s) ==
  IF s = NoView THEN p
  ELSE [p EXCEPT !.enabled = IF s \in p.active THEN @ ELSE @ - 1,
                 !.active = @ \cup {s}, !.last_focus = s]

\* Mutant of Deactivated: the repository is enabled whether it was disabled or not.
DeactivatedAlways(p, s) ==
  IF s = NoView THEN p
  ELSE [p EXCEPT !.enabled = @ + 1, !.active = @ \ {s}, !.last_focus = NoView]

(* deactivate_for_surface()                                                *)
Deactivated(p, s) ==
  IF s = NoView THEN p
  ELSE [p EXCEPT !.enabled = IF s \in p.active THEN @ + 1 ELSE @,
                 !.active = @ \ {s}, !.last_focus = NoView]

\* Mutant of Checked: the surface that had the focus keeps its inhibitor active.
CheckedOnly(p, focus) ==
  LET new == IF focus \in p.inhibitors THEN focus ELSE NoView
  IN  IF new = p.last_focus \/ focus \in Ignored THEN p ELSE Activated(p, new)

(* check_inhibit()                                                         *)
Checked(p, focus) ==
  LET new == IF focus \in p.inhibitors THEN focus ELSE NoView
      old == Deactivated(p, p.last_focus)
  IN  CASE new = p.last_focus -> p
        [] new # p.last_focus /\ focus \in Ignored -> old
        [] OTHER -> Activated(old, new)

(* on_destroy of an inhibitor_t                                            *)
Erased(p, s) ==
  LET d == Deactivated(p, s) IN [d EXCEPT !.inhibitors = @ \ {s}]

Forgets(s) == forgotten \/ (inhibit.active \ {s} # {} /\ s \in inhibit.inhibitors)

-----------------------------------------------------------------------------
(* keyboard_inhibit_new: of a surface that has an inhibitor by default the *)
(* client's own is not looked at.                                          *)
NewInhibitor(s) ==
  /\ s \notin asking
  /\ asking' = asking \cup {s}
  /\ inhibit' = IF s \in inhibit.inhibitors THEN inhibit
                ELSE Checked([inhibit EXCEPT !.inhibitors = @ \cup {s}], keyFocus)
  /\ UNCHANGED <<shownViews, keyFocus, broken, forgotten>>

(* The client destroys it.  Once a view was mapped, the inhibitor by       *)
(* default has taken its place.                                            *)
DestroyInhibitor(s) ==
  /\ s \in asking
  /\ asking' = asking \ {s}
  /\ IF s \in ByDefault /\ s \in inhibit.byDefault THEN UNCHANGED <<inhibit, forgotten>>
     ELSE inhibit' = Erased(inhibit, s) /\ forgotten' = Forgets(s)
  /\ UNCHANGED <<shownViews, keyFocus, broken>>

(* on_view_mapped                                                          *)
InhibitableMapped(s) ==
  /\ s \notin shownViews
  /\ shownViews' = shownViews \cup {s}
  /\ inhibit' = IF s \notin ByDefault THEN inhibit
                ELSE Checked([inhibit EXCEPT !.inhibitors = @ \cup {s}, !.active = @ \ {s},
                                             !.byDefault = @ \cup {s}], keyFocus)
  /\ UNCHANGED <<asking, keyFocus, broken, forgotten>>

FocusMoves(f) ==
  /\ keyFocus' = f
  /\ inhibit' = Checked(inhibit, f)
  /\ broken' = FALSE

(* on_kb_focus_change                                                      *)
KeyboardFocus(f) ==
  /\ f # keyFocus
  /\ FocusMoves(f)
  /\ UNCHANGED <<asking, shownViews, forgotten>>

(* The seat looks for another focus when the view's node is disabled.      *)
InhibitableUnmapped(s, f) ==
  /\ s \in shownViews /\ f # s
  /\ shownViews' = shownViews \ {s}
  /\ IF keyFocus = s THEN FocusMoves(f) ELSE UNCHANGED <<keyFocus, inhibit, broken>>
  /\ UNCHANGED <<asking, forgotten>>

(* The surface is destroyed, and with it its inhibitors.  Its name stands  *)
(* for the next surface then.                                              *)
SurfaceDestroyed(s) ==
  /\ s \notin shownViews
  /\ s \in inhibit.inhibitors
  /\ asking' = asking \ {s}
  /\ LET e == Erased(inhibit, s) IN inhibit' = [e EXCEPT !.byDefault = @ \ {s}]
  /\ forgotten' = Forgets(s)
  /\ UNCHANGED <<shownViews, keyFocus, broken>>

(* on_key_press: break_grab                                                *)
BreakGrab ==
  /\ inhibit' = Deactivated(inhibit, inhibit.last_focus)
  /\ broken' = (keyFocus # NoView)
  /\ UNCHANGED <<asking, shownViews, keyFocus, forgotten>>

-----------------------------------------------------------------------------
InhibitInit ==
  /\ inhibit = [inhibitors |-> {}, byDefault |-> {}, active |-> {}, last_focus |-> NoView,
                enabled |-> 1]
  /\ asking = {} /\ shownViews = {} /\ keyFocus = NoView
  /\ broken = FALSE /\ forgotten = FALSE

InhibitNext ==
  \/ \E s \in Inhibitable :
       \/ NewInhibitor(s) \/ DestroyInhibitor(s) \/ InhibitableMapped(s) \/ SurfaceDestroyed(s)
       \/ \E f \in shownViews \cup {NoView} : InhibitableUnmapped(s, f)
  \/ \E f \in shownViews \cup {NoView} : KeyboardFocus(f)
  \/ BreakGrab

InhibitSpec == InhibitInit /\ [][InhibitNext]_inhibitVars

-----------------------------------------------------------------------------
InhibitTypeOK ==
  /\ inhibit \in [inhibitors: SUBSET Inhibitable, byDefault: SUBSET ByDefault,
                  active: SUBSET Inhibitable, last_focus: Inhibitable \cup {NoView}, enabled: Int]
  /\ asking \in SUBSET Inhibitable /\ shownViews \in SUBSET Inhibitable
  /\ keyFocus \in Inhibitable \cup {NoView} /\ broken \in BOOLEAN /\ forgotten \in BOOLEAN

(* The bindings are disabled once for every active inhibitor, and exactly  *)
(* the inhibitor of the surface with the focus is active, unless the user  *)
(* broke it, and unless the plugin has forgotten which one is: last_focus  *)
(* is reset when any inhibitor is destroyed.                               *)
InhibitFollowsFocus ==
  ~forgotten =>
    /\ inhibit.enabled = 1 - Cardinality(inhibit.active)
    /\ inhibit.active \subseteq {keyFocus}
    /\ ~broken => inhibit.active = {keyFocus} \cap (inhibit.inhibitors \ Ignored)
=============================================================================

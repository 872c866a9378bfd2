--------------------------- MODULE OutputPlugins ---------------------------
(***************************************************************************)
(* How the plugins of one output share it (src/src/output/output.cpp): a   *)
(* plugin is active while it holds capabilities no other active plugin     *)
(* has, and an output that is inhibited (by the session lock) cancels the  *)
(* active ones and takes new ones only if they ignore that.                *)
(*                                                                         *)
(* Every plugin of the tree deactivates itself in its cancel callback, so  *)
(* cancelling is one step.  The signals that announce it to IPC clients    *)
(* are left out.                                                           *)
(***************************************************************************)
EXTENDS Naturals

CONSTANTS
  Plugins,         \* plugin_activation_data_t objects of the output
  Capabilities,    \* CAPABILITY_GRAB_INPUT, CUSTOM_RENDERER, MANAGE_DESKTOP
  InitialCaps,     \* the capabilities each is declared with
  MaxActivations   \* bound on the activations of one plugin

ASSUME CapsAssumption == InitialCaps \in [Plugins -> SUBSET Capabilities]
ASSUME ActivationsAssumption == MaxActivations \in Nat

VARIABLES
  active,      \* active_plugins, a multiset
  caps,        \* plugin_activation_data_t::capabilities
  held         \* output_t::inhibited

registry == <<active, caps, held>>

Flags == SUBSET {"IGNORE_INHIBIT", "ALLOW_MULTIPLE"}
Active == {p \in Plugins : active[p] > 0}

RegistryInit ==
  /\ active = [p \in Plugins |-> 0]
  /\ caps = InitialCaps
  /\ held = FALSE

(* can_activate_plugin(caps, flags).                                       *)
CanActivateCaps(c, flags) ==
  /\ held => "IGNORE_INHIBIT" \in flags
  /\ \A p \in Active : caps[p] \cap c = {}

(* can_activate_plugin(owner, flags), where the owner would have caps c.   *)
CanActivate(p, c, flags) ==
  IF p \in Active THEN "ALLOW_MULTIPLE" \in flags ELSE CanActivateCaps(c, flags)

(* activate_plugin() that succeeds, with the capabilities set just before. *)
ActivatePlugin(p, c, flags) ==
  /\ CanActivate(p, c, flags)
  /\ active' = [active EXCEPT ![p] = @ + 1]
  /\ caps' = [caps EXCEPT ![p] = c]
  /\ UNCHANGED held

(* deactivate_plugin(): one activation ends.                               *)
DeactivatePlugin(p) ==
  /\ active' = [active EXCEPT ![p] = IF @ > 0 THEN @ - 1 ELSE 0]
  /\ UNCHANGED <<caps, held>>

(* set_inhibited(): cancel_active_plugins() calls the cancel of an active  *)
(* plugin once for each activation.                                        *)
SetInhibited(on) ==
  /\ held' = on
  /\ active' = IF on THEN [p \in Plugins |-> 0] ELSE active
  /\ UNCHANGED caps

-----------------------------------------------------------------------------
RegistryTypeOK ==
  /\ active \in [Plugins -> 0..MaxActivations]
  /\ caps \in [Plugins -> SUBSET Capabilities]
  /\ held \in BOOLEAN

(* plugin.hpp, "At any point, only one plugin with a given capability can  *)
(* be active on its output", also when vswitch changes its capabilities    *)
(* while it is active.                                                     *)
CapabilityExclusive == \A p, q \in Active : p # q => caps[p] \cap caps[q] = {}
=============================================================================

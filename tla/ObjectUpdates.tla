--------------------------- MODULE ObjectUpdates ---------------------------
(***************************************************************************)
(* What the transaction system promises to the rest of the compositor,     *)
(* with transactions, signals, timers and re-entrancy abstracted away.     *)
(*                                                                         *)
(* A group is a set of objects that must change together.  A requested     *)
(* group waits in "wanted"; it is then started as a whole (every object    *)
(* commits), and finished as a whole (every object applies).  Groups that  *)
(* share an object are merged while they wait and exclude each other while *)
(* they run.  See src/api/wayfire/txn/transaction-manager.hpp, lines 11-22.*)
(***************************************************************************)
EXTENDS FiniteSets

CONSTANT Objects    \* the transaction objects (toplevels)

VARIABLES
  wanted,           \* requested groups that have not been started
  running           \* groups that have been started and not yet finished

vars == <<wanted, running>>

Groups == (SUBSET Objects) \ {{}}

Disjoint(S) == \A G, H \in S : G # H => G \cap H = {}

Overlapping(G, S) == {H \in S : G \cap H # {}}

-----------------------------------------------------------------------------
Init == wanted = {} /\ running = {}

(* A request absorbs the waiting groups it overlaps.                       *)
Request(G) ==
  /\ wanted' = (wanted \ Overlapping(G, wanted))
                 \cup {G \cup UNION Overlapping(G, wanted)}
  /\ UNCHANGED running

Start(G) ==
  /\ G \in wanted
  /\ Overlapping(G, running) = {}
  /\ wanted' = wanted \ {G}
  /\ running' = running \cup {G}

Finish(G) ==
  /\ G \in running
  /\ running' = running \ {G}
  /\ UNCHANGED wanted

Next == \E G \in Groups : Request(G) \/ Start(G) \/ Finish(G)

SafetySpec == Init /\ [][Next]_vars

(* The manager starts what it can and every running group ends, at the     *)
(* latest by its timeout.  Requests are never forced.                      *)
StartFor(o) == \E G \in Groups : o \in G /\ Start(G)

Fairness ==
  /\ \A G \in Groups : WF_vars(Finish(G))
  /\ \A o \in Objects : WF_vars(StartFor(o))

Spec == SafetySpec /\ Fairness

-----------------------------------------------------------------------------
TypeOK == wanted \subseteq Groups /\ running \subseteq Groups

(* Waiting groups never overlap (they were merged), and no object takes    *)
(* part in two running groups.                                             *)
Exclusive == Disjoint(wanted) /\ Disjoint(running)
=============================================================================

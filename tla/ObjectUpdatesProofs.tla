------------------------ MODULE ObjectUpdatesProofs ------------------------
(* The safety of ObjectUpdates for every set of objects.                   *)
EXTENDS ObjectUpdates, TLAPS

Inv == TypeOK /\ Exclusive

(* Every step keeps the groups non-empty sets of objects, the waiting      *)
(* groups disjoint because a request absorbs what it overlaps, and the     *)
(* running groups disjoint because an overlapping group cannot start.      *)
LEMMA NextPreservesInv == Inv /\ [Next]_vars => Inv'
<1> SUFFICES ASSUME Inv, [Next]_vars PROVE Inv'
  OBVIOUS
<1> USE DEF Inv, TypeOK, Exclusive, Disjoint
<1>1. ASSUME NEW G \in Groups, Request(G) PROVE Inv'
  <2> DEFINE Over == Overlapping(G, wanted)
             All  == G \cup UNION Over
  <2>1. wanted' = (wanted \ Over) \cup {All} /\ running' = running
    BY <1>1 DEF Request
  <2>2. Over \subseteq wanted
    BY DEF Overlapping
  <2>3. All \in Groups
    BY <2>2 DEF Groups
  <2>4. \A H \in wanted \ Over : H \cap G = {}
    BY DEF Overlapping
  <2>5. \A H \in wanted \ Over : H \cap All = {}
    <3>1. SUFFICES ASSUME NEW H \in wanted \ Over, NEW K \in Over
                   PROVE  H \cap K = {}
      BY <2>4
    <3>2. H # K /\ K \in wanted
      BY <2>2
    <3> QED BY <3>2
  <2>6. TypeOK'
    BY <2>1, <2>3
  <2>7. Disjoint(wanted)'
    BY <2>1, <2>5
  <2> QED BY <2>1, <2>6, <2>7
<1>2. ASSUME NEW G \in Groups, Start(G) PROVE Inv'
  <2>1. \A H \in running : G \cap H = {}
    BY <1>2 DEF Start, Overlapping
  <2> QED BY <1>2, <2>1 DEF Start
<1>3. ASSUME NEW G \in Groups, Finish(G) PROVE Inv'
  BY <1>3 DEF Finish
<1>4. CASE UNCHANGED vars
  BY <1>4 DEF vars
<1> QED BY <1>1, <1>2, <1>3, <1>4 DEF Next

(* At no time do two waiting groups overlap or two running groups share an *)
(* object: the promise of transaction-manager.hpp, for any set of objects. *)
THEOREM UpdatesExclusive == SafetySpec => [](TypeOK /\ Exclusive)
<1>1. Init => Inv
  BY DEF Init, Inv, TypeOK, Exclusive, Disjoint, Groups
<1> QED BY <1>1, NextPreservesInv, PTL DEF SafetySpec, Inv
=============================================================================

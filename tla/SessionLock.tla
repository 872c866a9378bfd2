---------------------------- MODULE SessionLock ----------------------------
(***************************************************************************)
(* The ext-session-lock plugin (src/plugins/protocols/session-lock.cpp): a *)
(* client locks the session, gives each output a surface, unlocks or dies; *)
(* outputs come and go all the while.  A lock whose client died stays as   *)
(* prev_lock, in state ZOMBIE, and keeps the session locked until another  *)
(* client has locked it again.                                             *)
(*                                                                         *)
(* A lock object may be used again once it is freed, so the number of      *)
(* locks is not bounded.  Of the scene only the LOCK layer of each output  *)
(* is kept: the surface node and the crashed node of each lock there.      *)
(***************************************************************************)
EXTENDS Naturals

CONSTANTS
  Outputs,  \* the outputs, NOOP-1 among them
  Locks,    \* wayfire_session_lock objects
  None      \* a null lock

ASSUME LocksAssumption == None \notin Locks

VARIABLES
  on,         \* the outputs that have a wf::output_t, and an output_state in each lock
  inhibited,  \* output_t::inhibited
  cur, prev,  \* cur_lock, prev_lock
  state,      \* wayfire_session_lock::state, or "free"
  timer,      \* lock_timer is running
  sent,       \* the locked events sent to its client
  client,     \* the outputs for which its client has a wlr_session_lock_surface_v1
  surface,    \* output_state::surface_node: "none", "hidden", or "shown" in the LOCK layer
  crash       \* output_state::crashed_node: "hidden", "blank" or "text", "none" if reset

vars == <<on, inhibited, cur, prev, state, timer, sent, client, surface, crash>>
nodes == <<surface, crash>>

Alive == {l \in Locks : state[l] # "free"}

(* lock_output() on every output, for a lock in state st: its surface, the *)
(* crashed node with its text, or the crashed node as an empty surface.    *)
LockedSurface(st, surf) ==
  [o \in Outputs |-> IF o \in on /\ st # "ZOMBIE" /\ surf[o] # "none" THEN "shown" ELSE surf[o]]

LockedCrash(st, surf, cr) ==
  [o \in Outputs |-> IF o \notin on THEN cr[o]
                     ELSE IF st = "ZOMBIE" THEN "text"
                     ELSE IF surf[o] = "none" THEN "blank" ELSE cr[o]]

(* lock_all() for lock l in state st with surface nodes surf.              *)
LockAll(l, st, surf, cr) ==
  /\ inhibited' = [o \in Outputs |-> inhibited[o] \/ o \in on]
  /\ surface' = [surface EXCEPT ![l] = LockedSurface(st, surf)]
  /\ crash' = [cr EXCEPT ![l] = LockedCrash(st, surf, cr[l])]

(* ~wayfire_session_lock() and the resets of its pointers: the crashed     *)
(* nodes leave the scene.                                                  *)
Freed(l, cr) == IF l = None THEN cr ELSE [cr EXCEPT ![l] = [o \in Outputs |-> "none"]]

(* Mutant: the lock of the client that died is kept.                       *)
BecomesLockedKeep(l, surf) ==
  /\ sent' = [sent EXCEPT ![l] = @ + 1]
  /\ state' = [state EXCEPT ![l] = "LOCKED"]
  /\ timer' = [timer EXCEPT ![l] = FALSE]
  /\ LockAll(l, "LOCKED", surf, crash)
  /\ UNCHANGED prev

(* lock_all() of a living client: the locked event is sent, and the lock   *)
(* of a client that died earlier is freed.                                 *)
BecomesLocked(l, surf) ==
  /\ sent' = [sent EXCEPT ![l] = @ + 1]
  /\ state' = [s \in Locks |-> IF s = l THEN "LOCKED" ELSE IF s = prev THEN "free" ELSE state[s]]
  /\ prev' = None
  /\ timer' = [timer EXCEPT ![l] = FALSE]
  /\ LockAll(l, "LOCKED", surf, Freed(prev, crash))

Init ==
  /\ on \in (SUBSET Outputs) \ {{}}
  /\ inhibited = [o \in Outputs |-> FALSE]
  /\ cur = None /\ prev = None
  /\ state = [l \in Locks |-> "free"]
  /\ timer = [l \in Locks |-> FALSE]
  /\ sent = [l \in Locks |-> 0]
  /\ client = [l \in Locks |-> {}]
  /\ surface = [l \in Locks |-> [o \in Outputs |-> "none"]]
  /\ crash = [l \in Locks |-> [o \in Outputs |-> "none"]]

(* new_lock: refused while another client holds the lock.                  *)
NewLock(l) ==
  /\ cur = None
  /\ l \notin Alive
  /\ cur' = l
  /\ state' = [state EXCEPT ![l] = "LOCKING"]
  /\ timer' = [timer EXCEPT ![l] = TRUE]
  /\ sent' = [sent EXCEPT ![l] = 0]
  /\ crash' = [crash EXCEPT ![l] = [o \in Outputs |-> IF o \in on THEN "hidden" ELSE "none"]]
  /\ UNCHANGED <<on, inhibited, prev, client, surface>>

(* new_surface: the client gives one of its surfaces to an output.  With   *)
(* the last missing surface the session locks.                             *)
NewSurface(l, o) ==
  LET surf == [surface[l] EXCEPT ![o] = IF o \in on THEN "hidden" ELSE "none"]
  IN  /\ l = cur
      /\ o \notin client[l]
      /\ client' = [client EXCEPT ![l] = @ \cup {o}]
      /\ \/ /\ o \notin on
            /\ UNCHANGED <<inhibited, prev, state, timer, sent, nodes>>
         \/ /\ o \in on /\ state[l] = "LOCKED"
            /\ surface' = [surface EXCEPT ![l] = [@ EXCEPT ![o] = "shown"]]
            /\ UNCHANGED <<inhibited, prev, state, timer, sent, crash>>
         \/ /\ o \in on /\ state[l] = "LOCKING" /\ \A p \in on : surf[p] # "none"
            /\ BecomesLocked(l, surf)
         \/ /\ o \in on /\ state[l] = "LOCKING" /\ \E p \in on : surf[p] = "none"
            /\ surface' = [surface EXCEPT ![l] = surf]
            /\ UNCHANGED <<inhibited, prev, state, timer, sent, crash>>
  /\ UNCHANGED <<on, cur>>

(* The crashed node shows when a surface that is in the scene goes.        *)
WithoutSurfaces(l, gone) ==
  [o \in Outputs |->
     IF o \in gone /\ surface[l][o] # "none" /\ crash[l][o] # "none" THEN "text" ELSE crash[l][o]]

(* surface_destroy: the client destroys a lock surface.                    *)
DestroySurface(l, o) ==
  /\ l = cur
  /\ o \in client[l]
  /\ client' = [client EXCEPT ![l] = @ \ {o}]
  /\ surface' = [surface EXCEPT ![l] = [@ EXCEPT ![o] = "none"]]
  /\ crash' = [crash EXCEPT ![l] = WithoutSurfaces(l, {o})]
  /\ UNCHANGED <<on, inhibited, cur, prev, state, timer, sent>>

(* Mutant: the timer waits for the surfaces.                               *)
LockTimerWaits(l) ==
  /\ timer[l] /\ \A o \in on : surface[l][o] # "none"
  /\ BecomesLocked(l, surface[l])
  /\ UNCHANGED <<on, cur, client>>

(* lock_timer, one second after the lock was made.                         *)
LockTimer(l) ==
  /\ timer[l]
  /\ BecomesLocked(l, surface[l])
  /\ UNCHANGED <<on, cur, client>>

(* Mutant: the crashed nodes are reset after the surfaces went.            *)
UnlockAndDestroyOrder(l) ==
  /\ l = cur /\ sent[l] > 0
  /\ inhibited' = [o \in Outputs |-> inhibited[o] /\ o \notin on]
  /\ state' = [state EXCEPT ![l] = "free"]
  /\ cur' = None
  /\ crash' = [crash EXCEPT ![l] = WithoutSurfaces(l, Outputs)]
  /\ surface' = [surface EXCEPT ![l] = [o \in Outputs |-> "none"]]
  /\ client' = [client EXCEPT ![l] = {}]
  /\ UNCHANGED <<on, prev, timer, sent>>

(* Mutant: a client unlocks what another one locked before it died.        *)
UnlockAndDestroyEarly(l) ==
  /\ l = cur
  /\ inhibited' = [o \in Outputs |-> inhibited[o] /\ o \notin on]
  /\ state' = [s \in Locks |-> "free"]
  /\ cur' = None /\ prev' = None
  /\ timer' = [timer EXCEPT ![l] = FALSE]
  /\ crash' = Freed(l, Freed(prev, crash))
  /\ surface' = [surface EXCEPT ![l] = [o \in Outputs |-> "none"]]
  /\ client' = [client EXCEPT ![l] = {}]
  /\ UNCHANGED <<on, sent>>

(* unlock, then destroy, of unlock_and_destroy: wlroots refuses it before  *)
(* the locked event was sent.  The crashed nodes are reset first, so the   *)
(* surfaces that go with the lock do not bring them back.                  *)
UnlockAndDestroy(l) ==
  /\ l = cur /\ sent[l] > 0
  /\ inhibited' = [o \in Outputs |-> inhibited[o] /\ o \notin on]
  /\ state' = [state EXCEPT ![l] = "free"]
  /\ cur' = None
  /\ crash' = Freed(l, crash)
  /\ surface' = [surface EXCEPT ![l] = [o \in Outputs |-> "none"]]
  /\ client' = [client EXCEPT ![l] = {}]
  /\ UNCHANGED <<on, prev, timer, sent>>

(* destroy: the client dies, or takes its lock back before it was told of  *)
(* it.  The lock becomes a ZOMBIE in the place of an earlier one, which is *)
(* freed, and then covers every output.                                    *)
ClientGone(l) ==
  /\ l = cur
  /\ state' = [s \in Locks |-> IF s = l THEN "ZOMBIE" ELSE IF s = prev THEN "free" ELSE state[s]]
  /\ prev' = l /\ cur' = None
  /\ timer' = [timer EXCEPT ![l] = FALSE]
  /\ client' = [client EXCEPT ![l] = {}]
  /\ LockAll(l, "ZOMBIE", [o \in Outputs |-> "none"], Freed(prev, crash))
  /\ UNCHANGED <<on, sent>>

(* Mutant: only the current lock looks after new outputs.                  *)
OutputAddedCurrent(o) ==
  /\ o \notin on
  /\ on' = on \cup {o}
  /\ inhibited' = [inhibited EXCEPT ![o] = cur \in Alive /\ state[cur] = "LOCKED"]
  /\ crash' = [l \in Locks |-> [crash[l] EXCEPT ![o] =
                 IF l \notin Alive THEN "none"
                 ELSE CASE state[l] = "LOCKING" -> "hidden"
                        [] state[l] = "LOCKED"  -> "blank"
                        [] state[l] = "ZOMBIE"  -> "hidden"]]
  /\ UNCHANGED <<cur, prev, state, timer, sent, client, surface>>

(* handle_output_added(), in cur_lock and prev_lock: an output that comes  *)
(* while the session is locked is locked at once.                          *)
OutputAdded(o) ==
  /\ o \notin on
  /\ on' = on \cup {o}
  /\ inhibited' = [inhibited EXCEPT ![o] = \E l \in Alive : state[l] \in {"LOCKED", "ZOMBIE"}]
  /\ crash' = [l \in Locks |-> [crash[l] EXCEPT ![o] =
                 IF l \notin Alive THEN "none"
                 ELSE CASE state[l] = "LOCKING" -> "hidden"
                        [] state[l] = "LOCKED"  -> "blank"
                        [] state[l] = "ZOMBIE"  -> "text"]]
  /\ UNCHANGED <<cur, prev, state, timer, sent, client, surface>>

(* handle_output_removed(): the output_state and the output's LOCK layer   *)
(* go.  The client's surface stays when the output is only disabled        *)
(* (unplugged FALSE) and goes unnoticed with it otherwise.                 *)
OutputRemoved(o, unplugged) ==
  /\ o \in on /\ on # {o}
  /\ on' = on \ {o}
  /\ inhibited' = [inhibited EXCEPT ![o] = FALSE]
  /\ surface' = [l \in Locks |-> [surface[l] EXCEPT ![o] = "none"]]
  /\ crash' = [l \in Locks |-> [crash[l] EXCEPT ![o] = "none"]]
  /\ client' = IF unplugged THEN [l \in Locks |-> client[l] \ {o}] ELSE client
  /\ UNCHANGED <<cur, prev, state, timer, sent>>

Next ==
  \/ \E l \in Locks :
       \/ NewLock(l) \/ LockTimer(l) \/ UnlockAndDestroy(l) \/ ClientGone(l)
       \/ \E o \in Outputs : NewSurface(l, o) \/ DestroySurface(l, o)
  \/ \E o \in Outputs : OutputAdded(o) \/ \E unplugged \in BOOLEAN : OutputRemoved(o, unplugged)

Spec == Init /\ [][Next]_vars

(* The timer of the event loop fires.                                      *)
LockFairness == \A l \in Locks : WF_vars(LockTimer(l))
FairSpec == Spec /\ LockFairness

-----------------------------------------------------------------------------
(* The types of the plugin's state.                                        *)
TypeOK ==
  /\ on \in (SUBSET Outputs) \ {{}}
  /\ inhibited \in [Outputs -> BOOLEAN]
  /\ cur \in Locks \cup {None}
  /\ prev \in Locks \cup {None}
  /\ state \in [Locks -> {"free", "LOCKING", "LOCKED", "ZOMBIE"}]
  /\ timer \in [Locks -> BOOLEAN]
  /\ sent \in [Locks -> Nat]
  /\ client \in [Locks -> SUBSET Outputs]
  /\ surface \in [Locks -> [Outputs -> {"none", "hidden", "shown"}]]
  /\ crash \in [Locks -> [Outputs -> {"none", "hidden", "blank", "text"}]]

SessionLocked == \E l \in Locks : state[l] \in {"LOCKED", "ZOMBIE"}

Covered(o) ==
  \E l \in Locks : surface[l][o] = "shown" \/ crash[l][o] \in {"blank", "text"}

(* While a lock is LOCKED or ZOMBIE every output, also one plugged in      *)
(* after the client died or while the next client is still locking, is     *)
(* inhibited and has a surface or a crashed node of a lock in its LOCK     *)
(* layer.                                                                  *)
LockedEverywhere == SessionLocked => \A o \in on : inhibited[o] /\ Covered(o)

(* The locks that are not freed are cur_lock, whose client lives, and      *)
(* prev_lock, whose client died, and there is no prev_lock beside a LOCKED *)
(* one: an unlock by the new client leaves no crashed node of the old one  *)
(* behind (notify_lock_state()).                                           *)
OwnedLocks ==
  /\ Alive \subseteq {cur, prev}
  /\ cur # None => state[cur] \in {"LOCKING", "LOCKED"}
  /\ prev # None => state[prev] = "ZOMBIE"
  /\ cur # None /\ state[cur] = "LOCKED" => prev = None

(* Once no lock is left nothing of one is: no output is inhibited, and no  *)
(* node of a lock is in a LOCK layer (~wayfire_session_lock(),             *)
(* remove_crashed_nodes()).                                                *)
NothingLeft ==
  Alive = {} => \A o \in on : ~inhibited[o] /\ ~Covered(o)

(* Only a client that was told the session is locked unlocks it: a lock    *)
(* that dies, is refused or is replaced never does.                        *)
OnlyUnlockLifts ==
  [][(\E o \in on \cap on' : inhibited[o] /\ ~inhibited'[o])
       => \E l \in Locks : l = cur /\ sent[l] = 1 /\ state[l] = "LOCKED" /\ cur' = None /\ prev' = None]_vars

(* A client that asked for the lock has it within the second of the timer, *)
(* whatever becomes of its surfaces and outputs, unless it goes; and if it *)
(* goes the session is locked all the same.                                *)
LockingEnds == \A l \in Locks : state[l] = "LOCKING" ~> state[l] \in {"LOCKED", "ZOMBIE"}
=============================================================================

---------------------------- MODULE SessionProofs ----------------------------
(***************************************************************************)
(* The safety of the session lock, for any number of outputs and locks,    *)
(* and of the plugins that switch workspaces, for every set of plugins and *)
(* capabilities, every grid and every way of a swipe; then both for the    *)
(* specification that the run of the session checks.                       *)
(***************************************************************************)
EXTENDS MCSession, TLAPS

-----------------------------------------------------------------------------
(* The session lock: wayfire_session_lock and its states.                  *)

(* A timer runs exactly for a lock whose client waits for the locked       *)
(* event, which it is then sent once.                                      *)
Timers ==
  \A l \in Locks :
    /\ timer[l] <=> state[l] = "LOCKING"
    /\ state[l] = "LOCKING" => sent[l] = 0
    /\ state[l] = "LOCKED" => sent[l] = 1

(* What each lock has in the LOCK layers, by its state.                    *)
Layers ==
  \A l \in Locks : \A o \in Outputs :
    /\ o \notin on \/ state[l] \in {"free", "ZOMBIE"} => surface[l][o] = "none"
    /\ state[l] = "free" => crash[l][o] = "none"
    /\ o \in on /\ state[l] # "free" => crash[l][o] # "none"
    /\ o \in on /\ state[l] = "ZOMBIE" => crash[l][o] = "text"
    /\ o \in on /\ state[l] = "LOCKED" =>
         surface[l][o] = "shown" \/ (surface[l][o] = "none" /\ crash[l][o] \in {"blank", "text"})

(* An output is inhibited exactly while the session is locked.             *)
Inhibited == \A o \in on : inhibited[o] <=> SessionLocked

LockInv == TypeOK /\ OwnedLocks /\ Timers /\ Layers /\ Inhibited

(* The invariant holds before the first lock.                               *)
LEMMA LockStarts == Init => LockInv
BY LocksAssumption DEF Init, LockInv, TypeOK, OwnedLocks, Timers, Layers, Inhibited, SessionLocked, Alive

Surfaces == [Outputs -> {"none", "hidden", "shown"}]
Crashes == [Outputs -> {"none", "hidden", "blank", "text"}]

(* The nodes stay nodes when a lock is freed and when one covers the       *)
(* outputs.                                                                *)
LEMMA FreedTypes ==
  ASSUME NEW cr \in [Locks -> Crashes], NEW l \in Locks \cup {None}
  PROVE  /\ Freed(l, cr) \in [Locks -> Crashes]
         /\ \A s \in Locks : s # l => Freed(l, cr)[s] = cr[s]
         /\ \A s \in Locks, o \in Outputs : s = l => Freed(l, cr)[s][o] = "none"
BY LocksAssumption DEF Freed, Crashes

(* The nodes stay nodes when they are shown in the LOCK layer.              *)
LEMMA LockedTypes ==
  ASSUME NEW st, NEW surf \in Surfaces, NEW cr \in Crashes
  PROVE  LockedSurface(st, surf) \in Surfaces /\ LockedCrash(st, surf, cr) \in Crashes
BY DEF LockedSurface, LockedCrash, Surfaces, Crashes

(* lock_all() by a living client: with the lock of a dead one freed it is  *)
(* the only one, and it covers every output.                               *)
LEMMA BecomesLockedKeeps ==
  ASSUME LockInv, NEW l \in Locks, l = cur, state[l] = "LOCKING",
         NEW surf \in Surfaces, \A o \in Outputs \ on : surf[o] = "none",
         BecomesLocked(l, surf), client' \in [Locks -> SUBSET Outputs], UNCHANGED <<on, cur>>
  PROVE  LockInv'
<1> USE LocksAssumption DEF LockInv
<1> DEFINE fr == Freed(prev, crash)
<1>1. /\ fr \in [Locks -> Crashes]
      /\ \A s \in Locks : s # prev => fr[s] = crash[s]
      /\ \A s \in Locks, o \in Outputs : s = prev => fr[s][o] = "none"
  BY FreedTypes DEF TypeOK, Crashes
<1>2. /\ inhibited' = [o \in Outputs |-> inhibited[o] \/ o \in on]
      /\ surface' = [surface EXCEPT ![l] = LockedSurface("LOCKED", surf)]
      /\ crash' = [fr EXCEPT ![l] = LockedCrash("LOCKED", surf, fr[l])]
  BY DEF BecomesLocked, LockAll
<1> HIDE DEF fr
<1>3. TypeOK'
  <2>1. LockedSurface("LOCKED", surf) \in Surfaces /\ LockedCrash("LOCKED", surf, fr[l]) \in Crashes
    BY <1>1, LockedTypes
  <2>2. surface' \in [Locks -> Surfaces] /\ crash' \in [Locks -> Crashes]
    BY <1>1, <1>2, <2>1 DEF TypeOK, Surfaces
  <2> QED BY <1>2, <2>2 DEF BecomesLocked, TypeOK, Surfaces, Crashes
<1>4. \A s \in Locks : state'[s] = (IF s = l THEN "LOCKED" ELSE "free")
  BY DEF BecomesLocked, TypeOK, OwnedLocks, Alive
<1>5. OwnedLocks'
  BY <1>4 DEF BecomesLocked, OwnedLocks, Alive, TypeOK
<1>6. Timers'
  BY <1>4 DEF BecomesLocked, OwnedLocks, Alive, Timers, TypeOK
<1>7. Layers'
  <2> SUFFICES ASSUME NEW s \in Locks, NEW o \in Outputs
               PROVE  /\ o \notin on' \/ state'[s] \in {"free", "ZOMBIE"} => surface'[s][o] = "none"
                      /\ state'[s] = "free" => crash'[s][o] = "none"
                      /\ o \in on' /\ state'[s] # "free" => crash'[s][o] # "none"
                      /\ o \in on' /\ state'[s] = "ZOMBIE" => crash'[s][o] = "text"
                      /\ o \in on' /\ state'[s] = "LOCKED" =>
                           \/ surface'[s][o] = "shown"
                           \/ surface'[s][o] = "none" /\ crash'[s][o] \in {"blank", "text"}
    BY DEF Layers
  <2>1. CASE s = l
    <3>1. l # prev
      BY DEF OwnedLocks, Alive
    <3>2. surface'[l][o] = (IF o \in on /\ surf[o] # "none" THEN "shown" ELSE surf[o])
      BY <1>2 DEF LockedSurface, TypeOK
    <3>3. crash'[l][o] = (IF o \in on /\ surf[o] = "none" THEN "blank" ELSE crash[l][o])
      BY <1>1, <1>2, <3>1 DEF LockedCrash, TypeOK
    <3>4. o \in on => crash[l][o] # "none"
      BY DEF Layers
    <3> QED BY <2>1, <1>4, <3>2, <3>3, <3>4 DEF Surfaces
  <2>2. CASE s # l
    <3>1. state'[s] = "free" /\ (s = prev \/ state[s] = "free")
      BY <2>2, <1>4 DEF OwnedLocks, Alive, TypeOK
    <3>2. surface'[s][o] = surface[s][o] /\ crash'[s][o] = fr[s][o]
      BY <2>2, <1>1, <1>2 DEF TypeOK
    <3>3. surface[s][o] = "none" /\ fr[s][o] = "none"
      BY <3>1, <1>1 DEF Layers, OwnedLocks, Alive, TypeOK
    <3> QED BY <3>1, <3>2, <3>3
  <2> QED BY <2>1, <2>2
<1>8. Inhibited'
  BY <1>4, <1>2 DEF Inhibited, SessionLocked, TypeOK
<1> QED BY <1>3, <1>5, <1>6, <1>7, <1>8

(* A client asks for the lock: it becomes cur_lock, waited for.             *)
LEMMA NewLockKeeps == ASSUME LockInv, NEW l \in Locks, NewLock(l) PROVE LockInv'
<1> USE LocksAssumption DEF LockInv
<1>1. TypeOK'
  BY DEF NewLock, TypeOK
<1>2. \A s \in Locks : state'[s] = (IF s = l THEN "LOCKING" ELSE state[s])
  BY DEF NewLock, TypeOK
<1>3. OwnedLocks'
  BY <1>2 DEF NewLock, OwnedLocks, Alive
<1>4. Timers'
  BY <1>2 DEF NewLock, Timers, TypeOK
<1>5. Layers'
  BY <1>2 DEF NewLock, Layers, TypeOK, Alive
<1>6. Inhibited'
  BY <1>2 DEF NewLock, Inhibited, SessionLocked, Alive
<1> QED BY <1>1, <1>3, <1>4, <1>5, <1>6

(* A surface is created; the last one locks the session.                    *)
LEMMA NewSurfaceKeeps ==
  ASSUME LockInv, NEW l \in Locks, NEW o \in Outputs, NewSurface(l, o) PROVE LockInv'
<1> USE LocksAssumption DEF LockInv
<1> DEFINE surf == [surface[l] EXCEPT ![o] = IF o \in on THEN "hidden" ELSE "none"]
<1>1. /\ surf \in Surfaces /\ \A p \in Outputs \ on : surf[p] = "none"
      /\ client' \in [Locks -> SUBSET Outputs]
  BY DEF NewSurface, TypeOK, Surfaces, Layers
<1>2. CASE state[l] = "LOCKING" /\ BecomesLocked(l, surf)
  <2>1. l = cur /\ UNCHANGED <<on, cur>>
    BY DEF NewSurface
  <2> HIDE DEF surf
  <2> QED BY <1>1, <1>2, <2>1, BecomesLockedKeeps
<1>3. CASE UNCHANGED <<inhibited, prev, state, timer, sent, nodes>>
  BY <1>1, <1>3 DEF NewSurface, TypeOK, OwnedLocks, Alive, Timers, Layers, Inhibited, SessionLocked, nodes
<1>4. CASE /\ o \in on /\ state[l] = "LOCKED"
           /\ surface' = [surface EXCEPT ![l] = [@ EXCEPT ![o] = "shown"]]
           /\ UNCHANGED <<inhibited, prev, state, timer, sent, crash>>
  BY <1>1, <1>4 DEF NewSurface, TypeOK, OwnedLocks, Alive, Timers, Layers, Inhibited, SessionLocked
<1>5. CASE /\ o \in on /\ state[l] = "LOCKING"
           /\ surface' = [surface EXCEPT ![l] = surf]
           /\ UNCHANGED <<inhibited, prev, state, timer, sent, crash>>
  BY <1>1, <1>5 DEF NewSurface, TypeOK, OwnedLocks, Alive, Timers, Layers, Inhibited, SessionLocked
<1> QED BY <1>2, <1>3, <1>4, <1>5 DEF NewSurface

(* The timer fires for a lock that is still waited for.                     *)
LEMMA LockTimerKeeps == ASSUME LockInv, NEW l \in Locks, LockTimer(l) PROVE LockInv'
<1>1. l = cur /\ state[l] = "LOCKING"
  BY LocksAssumption DEF LockTimer, LockInv, Timers, OwnedLocks, Alive
<1>2. /\ surface[l] \in Surfaces /\ \A o \in Outputs \ on : surface[l][o] = "none"
      /\ client' \in [Locks -> SUBSET Outputs] /\ UNCHANGED <<on, cur>>
  BY DEF LockTimer, LockInv, TypeOK, Surfaces, Layers
<1> QED BY <1>1, <1>2, BecomesLockedKeeps DEF LockTimer

(* A lock surface is destroyed: its crash node covers the output.           *)
LEMMA DestroySurfaceKeeps ==
  ASSUME LockInv, NEW l \in Locks, NEW o \in Outputs, DestroySurface(l, o) PROVE LockInv'
<1> USE LocksAssumption DEF LockInv
<1>1. WithoutSurfaces(l, {o}) \in Crashes
  BY DEF WithoutSurfaces, Crashes, TypeOK
<1>2. TypeOK'
  BY <1>1 DEF DestroySurface, TypeOK, Crashes
<1>3. OwnedLocks' /\ Timers' /\ Inhibited'
  BY DEF DestroySurface, OwnedLocks, Alive, Timers, Inhibited, SessionLocked
<1>4. Layers'
  BY DEF DestroySurface, WithoutSurfaces, Layers, TypeOK, OwnedLocks
<1> QED BY <1>2, <1>3, <1>4

(* The client was told, so its lock is LOCKED and the only one.            *)
LEMMA UnlockAndDestroyKeeps == ASSUME LockInv, NEW l \in Locks, UnlockAndDestroy(l) PROVE LockInv'
<1> USE LocksAssumption DEF LockInv
<1>1. state[l] = "LOCKED" /\ prev = None /\ \A s \in Locks : s # l => state[s] = "free"
  BY DEF UnlockAndDestroy, OwnedLocks, Alive, Timers, TypeOK
<1>2. \A s \in Locks : state'[s] = "free"
  BY <1>1 DEF UnlockAndDestroy, TypeOK
<1>3. crash \in [Locks -> Crashes]
  BY DEF TypeOK, Crashes
<1>4. crash' \in [Locks -> Crashes] /\ \A o \in Outputs : crash'[l][o] = "none"
  BY <1>3, FreedTypes DEF UnlockAndDestroy
<1>5. \A s \in Locks : s # l => crash'[s] = crash[s] /\ surface'[s] = surface[s]
  BY DEF UnlockAndDestroy, Freed, TypeOK
<1>6. TypeOK'
  BY <1>4 DEF UnlockAndDestroy, TypeOK, Crashes
<1>7. OwnedLocks'
  BY <1>1, <1>2 DEF UnlockAndDestroy, OwnedLocks, Alive
<1>8. Timers'
  BY <1>1, <1>2 DEF UnlockAndDestroy, Timers
<1>9. Inhibited'
  BY <1>2 DEF UnlockAndDestroy, Inhibited, SessionLocked, TypeOK
<1>10. Layers'
  <2>1. \A o \in Outputs : surface'[l][o] = "none"
    BY DEF UnlockAndDestroy, TypeOK
  <2> QED BY <1>1, <1>2, <1>4, <1>5, <2>1 DEF Layers
<1> QED BY <1>6, <1>7, <1>8, <1>9, <1>10

(* The dead client's lock replaces the earlier one and covers everything.  *)
LEMMA ClientGoneKeeps == ASSUME LockInv, NEW l \in Locks, ClientGone(l) PROVE LockInv'
<1> USE LocksAssumption DEF LockInv
<1> DEFINE fr == Freed(prev, crash)
           nothing == [o \in Outputs |-> "none"]
<1>1. crash \in [Locks -> Crashes] /\ prev \in Locks \cup {None}
  BY DEF TypeOK, Crashes
<1>2. /\ fr \in [Locks -> Crashes]
      /\ \A s \in Locks : s # prev => fr[s] = crash[s]
      /\ \A s \in Locks, o \in Outputs : s = prev => fr[s][o] = "none"
  BY <1>1, FreedTypes
<1>3. /\ inhibited' = [o \in Outputs |-> inhibited[o] \/ o \in on]
      /\ surface' = [surface EXCEPT ![l] = LockedSurface("ZOMBIE", nothing)]
      /\ crash' = [fr EXCEPT ![l] = LockedCrash("ZOMBIE", nothing, fr[l])]
  BY DEF ClientGone, LockAll
<1> HIDE DEF fr
<1>4. nothing \in Surfaces
  BY DEF Surfaces
<1>5. TypeOK'
  <2>1. /\ LockedSurface("ZOMBIE", nothing) \in Surfaces
        /\ LockedCrash("ZOMBIE", nothing, fr[l]) \in Crashes
    BY <1>2, <1>4, LockedTypes
  <2>2. surface' \in [Locks -> Surfaces] /\ crash' \in [Locks -> Crashes]
    BY <1>2, <1>3, <2>1 DEF TypeOK, Surfaces
  <2> QED BY <1>3, <2>2 DEF ClientGone, TypeOK, Surfaces, Crashes
<1>6. \A s \in Locks : state'[s] = (IF s = l THEN "ZOMBIE" ELSE "free")
  BY DEF ClientGone, TypeOK, OwnedLocks, Alive
<1>7. OwnedLocks' /\ Timers' /\ Inhibited'
  BY <1>3, <1>6 DEF ClientGone, OwnedLocks, Alive, Timers, Inhibited, SessionLocked, TypeOK
<1>8. Layers'
  <2>1. ASSUME NEW o \in Outputs
        PROVE  surface'[l][o] = "none" /\ (o \in on => crash'[l][o] = "text")
    BY <1>2, <1>3 DEF LockedSurface, LockedCrash, TypeOK
  <2>2. ASSUME NEW s \in Locks, s # l, NEW o \in Outputs
        PROVE  surface'[s][o] = "none" /\ crash'[s][o] = "none"
    <3>1. s = prev \/ state[s] = "free"
      BY <2>2 DEF ClientGone, OwnedLocks, Alive
    <3>2. surface'[s][o] = surface[s][o] /\ crash'[s][o] = fr[s][o]
      BY <1>2, <1>3, <2>2 DEF TypeOK
    <3> QED BY <1>2, <3>1, <3>2 DEF Layers, OwnedLocks
  <2> QED BY <1>6, <2>1, <2>2 DEF Layers, ClientGone
<1> QED BY <1>5, <1>7, <1>8

(* An output is added.                                                      *)
LEMMA OutputAddedKeeps == ASSUME LockInv, NEW o \in Outputs, OutputAdded(o) PROVE LockInv'
<1> USE LocksAssumption DEF LockInv
<1>1. TypeOK'
  BY DEF OutputAdded, TypeOK, Alive
<1>2. OwnedLocks' /\ Timers'
  BY DEF OutputAdded, OwnedLocks, Alive, Timers
<1>3. Inhibited'
  BY DEF OutputAdded, Inhibited, SessionLocked, Alive, TypeOK
<1>4. Layers'
  BY DEF OutputAdded, Layers, Alive, TypeOK
<1> QED BY <1>1, <1>2, <1>3, <1>4

(* An output is removed.                                                    *)
LEMMA OutputRemovedKeeps ==
  ASSUME LockInv, NEW o \in Outputs, NEW unplugged \in BOOLEAN, OutputRemoved(o, unplugged) PROVE LockInv'
<1> USE LocksAssumption DEF LockInv
<1>1. TypeOK'
  BY DEF OutputRemoved, TypeOK
<1>2. OwnedLocks' /\ Timers'
  BY DEF OutputRemoved, OwnedLocks, Alive, Timers
<1>3. Inhibited'
  BY DEF OutputRemoved, Inhibited, SessionLocked, TypeOK
<1>4. Layers'
  BY DEF OutputRemoved, Layers, TypeOK
<1> QED BY <1>1, <1>2, <1>3, <1>4

(* Every step keeps the invariant.                                          *)
LEMMA LockMoves == LockInv /\ [Next]_vars => LockInv'
<1> SUFFICES ASSUME LockInv, [Next]_vars PROVE LockInv'
  OBVIOUS
<1>1. CASE UNCHANGED vars
  BY <1>1 DEF vars, LockInv, TypeOK, OwnedLocks, Alive, Timers, Layers, Inhibited, SessionLocked
<1>2. ASSUME NEW l \in Locks, NewLock(l) \/ LockTimer(l) \/ UnlockAndDestroy(l) \/ ClientGone(l)
      PROVE  LockInv'
  BY <1>2, NewLockKeeps, LockTimerKeeps, UnlockAndDestroyKeeps, ClientGoneKeeps
<1>3. ASSUME NEW l \in Locks, NEW o \in Outputs, NewSurface(l, o) \/ DestroySurface(l, o)
      PROVE  LockInv'
  BY <1>3, NewSurfaceKeeps, DestroySurfaceKeeps
<1>4. ASSUME NEW o \in Outputs, OutputAdded(o) \/ \E unplugged \in BOOLEAN : OutputRemoved(o, unplugged)
      PROVE  LockInv'
  BY <1>4, OutputAddedKeeps, OutputRemovedKeeps
<1> QED BY <1>1, <1>2, <1>3, <1>4 DEF Next

(* The invariant holds in every state.                                      *)
LEMMA LockInductive == Spec => []LockInv
BY LockStarts, LockMoves, PTL DEF Spec

(* Type correctness of the plugin's state, for any outputs and locks.      *)
THEOREM LockTyped == Spec => []TypeOK
BY LockInductive, PTL DEF LockInv

(* cur_lock and prev_lock are all there is, and an unlock leaves nothing   *)
(* of an earlier client's lock.                                            *)
THEOREM LocksAreOwned == Spec => []OwnedLocks
BY LockInductive, PTL DEF LockInv

(* While the session is locked no output shows anything but a lock,        *)
(* whatever outputs come, whichever clients die.                           *)
THEOREM AlwaysCovered == Spec => []LockedEverywhere
<1>1. LockInv => LockedEverywhere
  BY DEF LockInv, LockedEverywhere, SessionLocked, Covered, Layers, Inhibited, TypeOK
<1> QED BY <1>1, LockInductive, PTL

(* A session whose last lock is gone is as if it had never been locked.    *)
THEOREM UnlockedIsClean == Spec => []NothingLeft
<1>1. LockInv => NothingLeft
  BY DEF LockInv, NothingLeft, SessionLocked, Covered, Layers, Inhibited, TypeOK, Alive
<1> QED BY <1>1, LockInductive, PTL

LiftedByHolder ==
  (\E o \in on \cap on' : inhibited[o] /\ ~inhibited'[o])
    => \E l \in Locks : l = cur /\ sent[l] = 1 /\ state[l] = "LOCKED" /\ cur' = None /\ prev' = None

(* Only the client that holds the lock, and was told so, makes an output   *)
(* usable again.                                                           *)
THEOREM UnlockOnlyByHolder == Spec => OnlyUnlockLifts
<1>1. LockInv /\ [Next]_vars => LiftedByHolder
  <2> SUFFICES ASSUME LockInv, [Next]_vars, NEW o \in on \cap on', inhibited[o], ~inhibited'[o]
               PROVE  \E l \in Locks : /\ l = cur /\ sent[l] = 1 /\ state[l] = "LOCKED"
                                       /\ cur' = None /\ prev' = None
    BY DEF LiftedByHolder
  <2>1. PICK l \in Locks : UnlockAndDestroy(l)
    BY DEF LockInv, TypeOK, Next, vars, NewLock, NewSurface, DestroySurface, LockTimer, BecomesLocked,
           ClientGone, LockAll, OutputAdded, OutputRemoved
  <2> QED BY <2>1, LocksAssumption DEF UnlockAndDestroy, LockInv, TypeOK, OwnedLocks, Timers
<1> QED BY <1>1, LockInductive, PTL DEF Spec, OnlyUnlockLifts, LiftedByHolder

-----------------------------------------------------------------------------
(* Switches and swipes: vswitch.cpp and vswipe.cpp.                        *)

(* The number of activations has no bound here.                            *)
WallTypes ==
  /\ active \in [Plugins -> Nat]
  /\ caps \in [Plugins -> SUBSET Capabilities]
  /\ held \in BOOLEAN
  /\ ws \in Workspaces /\ origin \in Workspaces
  /\ running \in BOOLEAN /\ swipeHook \in BOOLEAN
  /\ offset \in Int

(* The two plugins are active once, and while they are they have the       *)
(* renderer: vswitch its base_caps, vswipe all there are.                  *)
Renderers ==
  /\ active[Vswitch] \in {0, 1} /\ active[Vswipe] \in {0, 1}
  /\ Vswitch \in Active => BaseCaps \subseteq caps[Vswitch]
  /\ caps[Vswipe] = Capabilities

(* The wall shows a workspace of the grid.                                 *)
WallInGrid == running => ws + offset \in Workspaces

Matching ==
  /\ running <=> Vswitch \in Active
  /\ swipeHook <=> Vswipe \in Active
  /\ held => ~running /\ ~swipeHook

WallInv == WallTypes /\ CapabilityExclusive /\ Renderers /\ Matching /\ WallInGrid

-----------------------------------------------------------------------------
(* Both plugins draw, so that they are never active together.              *)
LEMMA OneWall == WallInv => ~(running /\ swipeHook)
<1>. SUFFICES ASSUME WallInv, running, swipeHook PROVE FALSE
  OBVIOUS
<1>1. Vswitch \in Active /\ Vswipe \in Active
  BY DEF WallInv, Matching
<1>2. "CUSTOM_RENDERER" \in caps[Vswitch] /\ "CUSTOM_RENDERER" \in caps[Vswipe]
  BY <1>1, SwitchAssumption DEF WallInv, Renderers, BaseCaps
<1>. QED
  BY <1>1, <1>2, SwitchAssumption DEF WallInv, CapabilityExclusive

(* What the invariant says of the wall and its plugins.                     *)
LEMMA InvMatches == WallInv => CapabilityExclusive /\ WallsMatch
  BY OneWall DEF WallInv, Matching, WallsMatch

(* vswipe_finish_target() stays in the grid, wherever the gesture began.   *)
LEMMA TargetInGrid ==
  ASSUME NEW acc \in Int, NEW vx \in Workspaces, NEW fast \in {-1, 0, 1}
  PROVE  vx - FinishTarget(acc, vx, fast) \in Workspaces
<1>. DEFINE floor == acc \div 100
            ceil  == -((-acc) \div 100)
            right == floor + (IF acc - 100 * floor > 35 \/ ((~FreeMovement \/ floor = 0) /\ fast = 1)
                                THEN 1 ELSE 0)
            left  == ceil - (IF acc - 100 * ceil < -35 \/ ((~FreeMovement \/ ceil = 0) /\ fast = -1)
                               THEN 1 ELSE 0)
            target == IF acc > 0 THEN IF right > vx THEN vx ELSE right
                      ELSE IF acc < 0 THEN IF vx - left > Width - 1 THEN vx - Width + 1 ELSE left
                      ELSE 0
<1>1. vx \in Int /\ Width \in Int /\ 0 <= vx /\ vx <= Width - 1
  BY SwitchAssumption DEF Workspaces
<1>2. floor \in Int /\ ceil \in Int /\ (acc > 0 => floor >= 0) /\ (acc < 0 => ceil <= 0)
  OBVIOUS
<1>. HIDE DEF floor, ceil
<1>3. right \in Int /\ left \in Int /\ right >= floor /\ left <= ceil
  BY <1>2
<1>. HIDE DEF right, left
<1>4. target \in Int /\ target <= vx /\ vx - target <= Width - 1
  BY <1>1, <1>2, <1>3
<1>5. FinishTarget(acc, vx, fast) = IF FreeMovement THEN target
                                    ELSE IF target > 1 THEN 1 ELSE IF target < -1 THEN -1 ELSE target
  BY DEF FinishTarget, floor, ceil, right, left
<1>. HIDE DEF target
<1>6. FinishTarget(acc, vx, fast) \in Int /\ FinishTarget(acc, vx, fast) <= vx
      /\ vx - FinishTarget(acc, vx, fast) <= Width - 1
  BY <1>1, <1>4, <1>5
<1>. QED
  BY <1>1, <1>6 DEF Workspaces

-----------------------------------------------------------------------------
(* set_capabilities() that succeeds: whoever else is active keeps apart,   *)
(* and the renderer stays.                                                 *)
LEMMA CapabilitiesSet ==
  ASSUME WallInv, NEW C \in SUBSET Capabilities, NEW c \in SetCapabilities(C)
  PROVE  /\ c \in SUBSET Capabilities /\ BaseCaps \subseteq c
         /\ Vswitch \in Active => \A p \in Active \ {Vswitch} : caps[p] \cap c = {}
<1>1. BaseCaps \subseteq Capabilities /\ caps[Vswitch] \subseteq Capabilities
  BY SwitchAssumption DEF BaseCaps, WallInv, WallTypes
<1>2. CASE Vswitch \notin Active
  BY <1>1, <1>2 DEF SetCapabilities
<1>3. CASE Vswitch \in Active /\ C \cup BaseCaps \subseteq caps[Vswitch]
  <2>1. c = caps[Vswitch]
    BY <1>3 DEF SetCapabilities
  <2>. QED
    BY <1>1, <1>3, <2>1 DEF WallInv, CapabilityExclusive
<1>4. CASE Vswitch \in Active /\ ~(C \cup BaseCaps \subseteq caps[Vswitch])
  <2>1. c = C \cup BaseCaps /\ \A p \in Active : caps[p] \cap C = {}
    BY <1>4 DEF SetCapabilities, CanActivateCaps
  <2>2. \A p \in Active \ {Vswitch} : caps[p] \cap BaseCaps = {}
    BY <1>4 DEF WallInv, CapabilityExclusive, Renderers
  <2>. QED
    BY <1>1, <2>1, <2>2
<1>. QED
  BY <1>2, <1>3, <1>4

(* The capabilities of vswitch change, and nothing else in the registry.   *)
LEMMA NewCaps ==
  ASSUME WallInv, NEW c \in SUBSET Capabilities, BaseCaps \subseteq c,
         Vswitch \in Active => \A p \in Active \ {Vswitch} : caps[p] \cap c = {},
         caps' = [caps EXCEPT ![Vswitch] = c],
         UNCHANGED <<active, held, running, offset, swipeHook, origin>>,
         ws' \in Workspaces, running => ws' = ws
  PROVE  WallInv'
<1>1. Active' = Active
  BY DEF Active
<1>2. caps' \in [Plugins -> SUBSET Capabilities] /\ caps'[Vswitch] = c
      /\ \A p \in Plugins \ {Vswitch} : caps'[p] = caps[p]
  BY SwitchAssumption DEF WallInv, WallTypes
<1>3. WallTypes'
  BY <1>2 DEF WallInv, WallTypes
<1>4. CapabilityExclusive'
  <2>1. \A p \in Active : p \in Plugins
    BY DEF Active
  <2>. QED
    BY <1>1, <1>2, <2>1 DEF WallInv, CapabilityExclusive
<1>5. Renderers'
  BY <1>1, <1>2, SwitchAssumption DEF WallInv, Renderers
<1>6. Matching' /\ WallInGrid'
  BY <1>1 DEF WallInv, Matching, WallInGrid
<1>. QED
  BY <1>3, <1>4, <1>5, <1>6 DEF WallInv

(* start_switch() and set_target_workspace(), with set_capabilities()      *)
(* before them.                                                            *)
LEMMA SwitchInv ==
  ASSUME WallInv, NEW c \in SUBSET Capabilities, BaseCaps \subseteq c,
         Vswitch \in Active => \A p \in Active \ {Vswitch} : caps[p] \cap c = {},
         NEW view, NEW target \in Workspaces,
         Switch(c, view, target), UNCHANGED swipe
  PROVE  WallInv' /\ (running => ws' + offset' = ws + offset)
<1>1. /\ running' = TRUE /\ ws' = target /\ offset' = (IF running THEN offset ELSE 0) + ws - target
      /\ UNCHANGED <<swipeHook, origin>>
  BY DEF Switch, swipe
<1>2. ws \in Int /\ offset \in Int /\ target \in Int /\ running \in BOOLEAN
  BY DEF WallInv, WallTypes, Workspaces
<1>3. offset' \in Int /\ ws' + offset' = (IF running THEN offset ELSE 0) + ws
  BY <1>1, <1>2
<1>4. ws' + offset' \in Workspaces
  BY <1>2, <1>3 DEF WallInv, WallInGrid, WallTypes
<1>5. /\ caps' = [caps EXCEPT ![Vswitch] = c] /\ held' = held /\ ~held
      /\ active' = [active EXCEPT ![Vswitch] = 1]
      /\ \A p \in Active \ {Vswitch} : caps[p] \cap c = {}
  <2>1. CASE Vswitch \in Active
    <3>1. active[Vswitch] = 1 /\ ~held
      BY <2>1 DEF Active, WallInv, Renderers, Matching
    <3>2. caps' = [caps EXCEPT ![Vswitch] = c] /\ UNCHANGED <<active, held>>
      BY <2>1 DEF Switch
    <3>3. active = [active EXCEPT ![Vswitch] = 1]
      BY <3>1 DEF WallInv, WallTypes
    <3>. QED
      BY <2>1, <3>1, <3>2, <3>3
  <2>2. CASE Vswitch \notin Active
    <3>1. active[Vswitch] = 0
      BY <2>2, SwitchAssumption DEF Active, WallInv, Renderers
    <3>2. ActivatePlugin(Vswitch, c, {})
      BY <2>2 DEF Switch
    <3>3. CanActivateCaps(c, {})
      BY <2>2, <3>2 DEF ActivatePlugin, CanActivate
    <3>4. active' = [active EXCEPT ![Vswitch] = active[Vswitch] + 1]
      BY <3>2 DEF ActivatePlugin
    <3>. QED
      BY <3>1, <3>2, <3>3, <3>4 DEF ActivatePlugin, CanActivateCaps
  <2>. QED
    BY <2>1, <2>2
<1>6. /\ active' \in [Plugins -> Nat] /\ caps' \in [Plugins -> SUBSET Capabilities]
      /\ caps'[Vswitch] = c /\ active'[Vswitch] = 1
      /\ \A p \in Plugins \ {Vswitch} : caps'[p] = caps[p] /\ active'[p] = active[p]
  BY <1>5, SwitchAssumption DEF WallInv, WallTypes
<1>7. Active' = Active \cup {Vswitch} /\ Active \subseteq Plugins
  BY <1>6, SwitchAssumption DEF Active
<1>8. WallTypes'
  BY <1>1, <1>3, <1>5, <1>6 DEF WallInv, WallTypes
<1>9. CapabilityExclusive'
  BY <1>5, <1>6, <1>7 DEF WallInv, CapabilityExclusive
<1>10. Renderers'
  BY <1>6, <1>7, SwitchAssumption DEF WallInv, Renderers
<1>11. Matching' /\ WallInGrid'
  <2>1. Vswipe \in Active' <=> Vswipe \in Active
    BY <1>7, SwitchAssumption
  <2>. QED
    BY <1>1, <1>4, <1>5, <1>7, <2>1 DEF WallInv, Matching, WallInGrid
<1>. QED
  BY <1>2, <1>3, <1>8, <1>9, <1>10, <1>11 DEF WallInv

(* add_direction() that fails, and a request that is then carried out      *)
(* without an animation.                                                   *)
LEMMA FailInv ==
  ASSUME WallInv, NEW c \in SUBSET Capabilities, BaseCaps \subseteq c,
         SwitchFails(c), ws' \in Workspaces, UNCHANGED swipe
  PROVE  WallInv' /\ ~running
<1>1. /\ Vswitch \notin Active /\ caps' = [caps EXCEPT ![Vswitch] = c]
      /\ UNCHANGED <<active, held, running, offset, swipeHook, origin>>
  BY DEF SwitchFails, switch, swipe
<1>2. ~running
  BY <1>1 DEF WallInv, Matching
<1>. QED
  BY <1>1, <1>2, NewCaps

NoJumpStep == running /\ running' /\ ~SwitchFrame => ws' + offset' = ws + offset

(* Every way to ask vswitch for a workspace.                               *)
LEMMA RequestsInv ==
  ASSUME WallInv, NEW target \in Workspaces, NEW view \in Views \cup {NoView},
         Binding(target, view) \/ IpcSetWorkspace(target, view) \/ RequestWorkspace(target, view)
  PROVE  WallInv' /\ NoJumpStep
<1>1. ws \in Workspaces /\ UNCHANGED swipe
  BY DEF WallInv, WallTypes, Binding, IpcSetWorkspace, RequestWorkspace
<1>2. {"MANAGE_DESKTOP"} \in SUBSET Capabilities /\ Capabilities \in SUBSET Capabilities
      /\ {} \in SUBSET Capabilities
  BY SwitchAssumption
<1>3. CASE Binding(target, view)
  <2>1. PICK c \in SetCapabilities({"MANAGE_DESKTOP"}) :
          \/ /\ target = ws
             /\ caps' = [caps EXCEPT ![Vswitch] = c]
             /\ UNCHANGED <<active, held, switch, overlay, ws>>
          \/ Switch(c, view, target)
          \/ SwitchFails(c) /\ UNCHANGED ws
    BY <1>3 DEF Binding
  <2>2. /\ c \in SUBSET Capabilities /\ BaseCaps \subseteq c
        /\ Vswitch \in Active => \A p \in Active \ {Vswitch} : caps[p] \cap c = {}
    BY <1>2, CapabilitiesSet
  <2>3. CASE /\ caps' = [caps EXCEPT ![Vswitch] = c]
             /\ UNCHANGED <<active, held, switch, overlay, ws>>
    <3>1. UNCHANGED <<active, held, running, offset, swipeHook, origin, ws>>
      BY <1>1, <2>3 DEF switch, swipe
    <3>. QED
      BY <1>1, <2>2, <2>3, <3>1, NewCaps DEF NoJumpStep
  <2>4. CASE Switch(c, view, target)
    BY <1>1, <2>2, <2>4, SwitchInv DEF NoJumpStep
  <2>5. CASE SwitchFails(c) /\ UNCHANGED ws
    BY <1>1, <2>2, <2>5, FailInv DEF NoJumpStep
  <2>. QED
    BY <2>1, <2>3, <2>4, <2>5
<1>4. CASE IpcSetWorkspace(target, view)
  <2>1. PICK c \in SetCapabilities(Capabilities) :
          Switch(c, view, target) \/ (SwitchFails(c) /\ UNCHANGED ws)
    BY <1>4 DEF IpcSetWorkspace
  <2>2. /\ c \in SUBSET Capabilities /\ BaseCaps \subseteq c
        /\ Vswitch \in Active => \A p \in Active \ {Vswitch} : caps[p] \cap c = {}
    BY <1>2, CapabilitiesSet
  <2>3. CASE Switch(c, view, target)
    BY <1>1, <2>2, <2>3, SwitchInv DEF NoJumpStep
  <2>4. CASE SwitchFails(c) /\ UNCHANGED ws
    BY <1>1, <2>2, <2>4, FailInv DEF NoJumpStep
  <2>. QED
    BY <2>1, <2>3, <2>4
<1>5. CASE RequestWorkspace(target, view)
  <2>1. CASE Vswitch \in Active
    <3>1. Switch(caps[Vswitch], NoView, target)
      BY <1>5, <2>1 DEF RequestWorkspace
    <3>2. /\ caps[Vswitch] \in SUBSET Capabilities /\ BaseCaps \subseteq caps[Vswitch]
          /\ \A p \in Active \ {Vswitch} : caps[p] \cap caps[Vswitch] = {}
      BY <2>1, SwitchAssumption DEF WallInv, WallTypes, Renderers, CapabilityExclusive
    <3>. QED
      BY <1>1, <3>1, <3>2, SwitchInv DEF NoJumpStep
  <2>2. CASE Vswitch \notin Active
    <3>1. PICK c \in SetCapabilities({}) :
            Switch(c, view, target) \/ (SwitchFails(c) /\ ws' = target)
      BY <1>5, <2>2 DEF RequestWorkspace
    <3>2. c \in SUBSET Capabilities /\ BaseCaps \subseteq c
      BY <1>2, CapabilitiesSet
    <3>3. CASE Switch(c, view, target)
      BY <1>1, <2>2, <3>2, <3>3, SwitchInv DEF NoJumpStep
    <3>4. CASE SwitchFails(c) /\ ws' = target
      BY <1>1, <3>2, <3>4, FailInv DEF NoJumpStep
    <3>. QED
      BY <3>1, <3>3, <3>4
  <2>. QED
    BY <2>1, <2>2
<1>. QED
  BY <1>3, <1>4, <1>5

-----------------------------------------------------------------------------
(* The registry after an activation of a plugin that is not vswitch, and   *)
(* after one of any plugin has ended.                                      *)
LEMMA ActivationInv ==
  ASSUME WallInv, NEW p \in Plugins, NEW flags \in Flags, ActivatePlugin(p, caps[p], flags)
  PROVE  /\ active' \in [Plugins -> Nat] /\ caps' = caps /\ held' = held
         /\ active' = [active EXCEPT ![p] = active[p] + 1]
         /\ Active' = Active \cup {p}
         /\ CapabilityExclusive'
<1>1. /\ active' = [active EXCEPT ![p] = active[p] + 1] /\ caps' = [caps EXCEPT ![p] = caps[p]]
      /\ held' = held /\ CanActivate(p, caps[p], flags)
  BY DEF ActivatePlugin
<1>2. caps' = caps /\ active' \in [Plugins -> Nat]
  BY <1>1 DEF WallInv, WallTypes
<1>3. Active' = Active \cup {p} /\ Active \subseteq Plugins
  BY <1>1 DEF Active, WallInv, WallTypes
<1>4. CapabilityExclusive'
  BY <1>1, <1>2, <1>3 DEF WallInv, CapabilityExclusive, CanActivate, CanActivateCaps
<1>. QED
  BY <1>1, <1>2, <1>3, <1>4

(* A plugin is deactivated, and what it had running with it.                *)
LEMMA DeactivationInv ==
  ASSUME WallInv, NEW p \in Plugins, DeactivatePlugin(p)
  PROVE  /\ active' \in [Plugins -> Nat] /\ caps' = caps /\ held' = held
         /\ active' = [active EXCEPT ![p] = IF active[p] > 0 THEN active[p] - 1 ELSE 0]
         /\ Active' \subseteq Active
         /\ Active \ {p} \subseteq Active'
         /\ CapabilityExclusive'
<1>1. /\ active' = [active EXCEPT ![p] = IF active[p] > 0 THEN active[p] - 1 ELSE 0]
      /\ caps' = caps /\ held' = held
  BY DEF DeactivatePlugin
<1>2. active \in [Plugins -> Nat] /\ active' \in [Plugins -> Nat]
  BY <1>1 DEF WallInv, WallTypes
<1>3. Active' \subseteq Active /\ Active \ {p} \subseteq Active'
  BY <1>1, <1>2 DEF Active
<1>4. CapabilityExclusive'
  BY <1>1, <1>3 DEF WallInv, CapabilityExclusive
<1>. QED
  BY <1>1, <1>2, <1>3, <1>4

(* Frames of vswitch and their end.                                        *)
LEMMA SwitchFrameInv ==
  ASSUME WallInv, SwitchFrame
  PROVE  WallInv'
<1>1. /\ offset # 0 /\ offset' = IF offset > 0 THEN offset - 1 ELSE offset + 1
      /\ running /\ UNCHANGED <<active, caps, held, ws, running, origin, swipeHook>>
  BY DEF SwitchFrame, registry, swipe
<1>2. /\ offset \in Int /\ ws \in Int /\ 0 <= ws /\ ws <= Width - 1 /\ Width \in Int
      /\ 0 <= ws + offset /\ ws + offset <= Width - 1
  BY <1>1, SwitchAssumption DEF WallInv, WallTypes, WallInGrid, Workspaces
<1>3. offset' \in Int /\ ws' + offset' \in Workspaces
  BY <1>1, <1>2 DEF Workspaces
<1>4. Active' = Active
  BY <1>1 DEF Active
<1>. QED
  BY <1>1, <1>3, <1>4
  DEF WallInv, WallTypes, CapabilityExclusive, Renderers, Matching, WallInGrid

(* vswitch ends: its wall stops.                                            *)
LEMMA SwitchDoneInv ==
  ASSUME WallInv, SwitchDone
  PROVE  WallInv' /\ NoJumpStep
<1>1. /\ running /\ ~running' /\ running' = FALSE /\ DeactivatePlugin(Vswitch)
      /\ UNCHANGED <<ws, offset, origin, swipeHook>>
  BY DEF SwitchDone, swipe
<1>2. /\ active' \in [Plugins -> Nat] /\ caps' = caps /\ held' = held
      /\ active' = [active EXCEPT ![Vswitch] = IF active[Vswitch] > 0 THEN active[Vswitch] - 1 ELSE 0]
      /\ Active' \subseteq Active /\ Active \ {Vswitch} \subseteq Active' /\ CapabilityExclusive'
  BY <1>1, SwitchAssumption, DeactivationInv
<1>3. active'[Vswitch] = 0 /\ active'[Vswipe] = active[Vswipe]
  BY <1>2, SwitchAssumption DEF WallInv, WallTypes, Renderers
<1>4. Vswitch \notin Active' /\ (Vswipe \in Active' <=> Vswipe \in Active)
  BY <1>2, <1>3, SwitchAssumption DEF Active
<1>5. WallTypes' /\ Renderers' /\ WallInGrid'
  BY <1>1, <1>2, <1>3, <1>4 DEF WallInv, WallTypes, Renderers, WallInGrid
<1>6. Matching'
  BY <1>1, <1>2, <1>4 DEF WallInv, Matching
<1>. QED
  BY <1>1, <1>2, <1>5, <1>6 DEF WallInv, NoJumpStep

(* vswipe sees which way a swipe goes, and starts its wall.                 *)
LEMMA SwipeRecognisedInv ==
  ASSUME WallInv, SwipeRecognised
  PROVE  WallInv' /\ NoJumpStep
<1>1. UNCHANGED <<ws, running, offset, origin>>
  BY DEF SwipeRecognised, switch
<1>2. NoJumpStep
  BY <1>1 DEF NoJumpStep
<1>3. CASE CanActivate(Vswipe, caps[Vswipe], {})
  <2>1. ActivatePlugin(Vswipe, caps[Vswipe], {}) /\ swipeHook' = TRUE
    BY <1>3 DEF SwipeRecognised
  <2>2. {} \in Flags
    BY DEF Flags
  <2>3. /\ active' \in [Plugins -> Nat] /\ caps' = caps /\ held' = held
        /\ active' = [active EXCEPT ![Vswipe] = active[Vswipe] + 1]
        /\ Active' = Active \cup {Vswipe} /\ CapabilityExclusive'
    BY <2>1, <2>2, SwitchAssumption, ActivationInv
  <2>4. ~held /\ Vswipe \notin Active
    BY <1>3 DEF CanActivate, CanActivateCaps
  <2>5. active[Vswipe] = 0
    BY <2>4, SwitchAssumption DEF Active, WallInv, Renderers
  <2>6. active'[Vswipe] = 1 /\ active'[Vswitch] = active[Vswitch]
    BY <2>3, <2>5, SwitchAssumption DEF WallInv, WallTypes
  <2>7. WallTypes' /\ Renderers' /\ WallInGrid'
    BY <1>1, <2>1, <2>3, <2>6, SwitchAssumption DEF WallInv, WallTypes, Renderers, WallInGrid
  <2>8. Vswitch \in Active' <=> Vswitch \in Active
    BY <2>3, SwitchAssumption
  <2>9. Matching'
    BY <1>1, <2>1, <2>3, <2>4, <2>8 DEF WallInv, Matching
  <2>. QED
    BY <1>2, <2>3, <2>7, <2>9 DEF WallInv
<1>4. CASE ~CanActivate(Vswipe, caps[Vswipe], {})
  <2>1. UNCHANGED <<active, caps, held, swipeHook>>
    BY <1>4 DEF SwipeRecognised, registry
  <2>2. Active' = Active
    BY <2>1 DEF Active
  <2>. QED
    BY <1>1, <1>2, <2>1, <2>2
    DEF WallInv, WallTypes, CapabilityExclusive, Renderers, Matching, WallInGrid
<1>. QED
  BY <1>3, <1>4

(* The workspace changes under vswipe's wall, when vswitch has none.       *)
LEMMA SwipeEndInv ==
  ASSUME WallInv, NEW acc \in Distances, NEW fast \in {-1, 0, 1}, SwipeEnd(acc, fast)
  PROVE  WallInv' /\ NoJumpStep
<1>1. /\ ws' = IF Vswipe \in Active THEN origin - FinishTarget(acc, origin, fast) ELSE ws
      /\ UNCHANGED <<active, caps, held, running, offset, origin, swipeHook>>
  BY DEF SwipeEnd, registry, switch
<1>2. acc \in Int /\ origin \in Workspaces /\ ws \in Workspaces
  BY SwitchAssumption DEF WallInv, WallTypes
<1>3. origin - FinishTarget(acc, origin, fast) \in Workspaces
  BY <1>2, TargetInGrid
<1>4. ws' \in Workspaces
  BY <1>1, <1>2, <1>3
<1>5. running => ws' = ws
  BY <1>1, OneWall DEF WallInv, Matching
<1>6. Active' = Active
  BY <1>1 DEF Active
<1>7. WallInv'
  BY <1>1, <1>4, <1>5, <1>6
  DEF WallInv, WallTypes, CapabilityExclusive, Renderers, Matching, WallInGrid
<1>. QED
  BY <1>1, <1>5, <1>7 DEF NoJumpStep

(* vswipe ends: its wall stops.                                             *)
LEMMA SwipeDoneInv ==
  ASSUME WallInv, SwipeDone
  PROVE  WallInv' /\ NoJumpStep
<1>1. /\ swipeHook /\ swipeHook' = FALSE /\ DeactivatePlugin(Vswipe)
      /\ UNCHANGED <<ws, running, offset, origin>>
  BY DEF SwipeDone, switch
<1>2. /\ active' \in [Plugins -> Nat] /\ caps' = caps /\ held' = held
      /\ active' = [active EXCEPT ![Vswipe] = IF active[Vswipe] > 0 THEN active[Vswipe] - 1 ELSE 0]
      /\ Active' \subseteq Active /\ Active \ {Vswipe} \subseteq Active' /\ CapabilityExclusive'
  BY <1>1, SwitchAssumption, DeactivationInv
<1>3. active'[Vswipe] = 0 /\ active'[Vswitch] = active[Vswitch]
  BY <1>2, SwitchAssumption DEF WallInv, WallTypes, Renderers
<1>4. Vswipe \notin Active' /\ (Vswitch \in Active' <=> Vswitch \in Active)
  BY <1>2, <1>3, SwitchAssumption DEF Active
<1>5. WallTypes' /\ Renderers' /\ WallInGrid'
  BY <1>1, <1>2, <1>3, <1>4 DEF WallInv, WallTypes, Renderers, WallInGrid
<1>6. Matching'
  BY <1>1, <1>2, <1>4 DEF WallInv, Matching
<1>. QED
  BY <1>1, <1>2, <1>5, <1>6 DEF WallInv, NoJumpStep

(* cancel_active_plugins(): every plugin goes, with its wall.              *)
LEMMA InhibitInv ==
  ASSUME WallInv, NEW stop \in BOOLEAN, Inhibit(stop)
  PROVE  WallInv' /\ NoJumpStep
<1>1. /\ held' = stop /\ active' = (IF stop THEN [p \in Plugins |-> 0] ELSE active) /\ caps' = caps
      /\ running' = (running /\ ~stop) /\ swipeHook' = (swipeHook /\ ~stop)
      /\ UNCHANGED <<ws, offset, origin>>
  BY DEF Inhibit, SetInhibited
<1>2. WallTypes'
  BY <1>1 DEF WallInv, WallTypes
<1>3. CASE stop
  <2>0. active' = [p \in Plugins |-> 0]
    BY <1>1, <1>3, Zenon
  <2>1. Active' = {} /\ ~running' /\ ~swipeHook'
    <3>1. Active' = {}
      BY <2>0 DEF Active
    <3>2. ~running' /\ ~swipeHook'
      BY <1>1, <1>3, Zenon
    <3>. QED
      BY <3>1, <3>2
  <2>2. active'[Vswitch] = 0 /\ active'[Vswipe] = 0
    BY <2>0, SwitchAssumption
  <2>. QED
    BY <1>1, <1>2, <2>1, <2>2
    DEF WallInv, CapabilityExclusive, Renderers, Matching, WallInGrid, NoJumpStep
<1>4. CASE ~stop
  <2>1. active' = active
    BY <1>1, <1>4
  <2>2. Active' = Active
    BY <2>1 DEF Active
  <2>3. ~held' /\ (running' <=> running) /\ (swipeHook' <=> swipeHook)
    BY <1>1, <1>4
  <2>. QED
    BY <1>1, <1>2, <2>1, <2>2, <2>3
    DEF WallInv, CapabilityExclusive, Renderers, Matching, WallInGrid, NoJumpStep
<1>. QED
  BY <1>3, <1>4

(* Another plugin is activated and deactivated.                             *)
LEMMA OtherPluginInv ==
  ASSUME WallInv, NEW p \in Plugins \ {Vswitch, Vswipe}, OtherPlugin(p)
  PROVE  WallInv' /\ NoJumpStep
<1>1. UNCHANGED <<ws, running, offset, origin, swipeHook>>
  BY DEF OtherPlugin, switch, swipe
<1>2. /\ active' \in [Plugins -> Nat] /\ caps' = caps /\ held' = held
      /\ \A q \in Plugins \ {p} : active'[q] = active[q]
      /\ CapabilityExclusive'
  <2>1. CASE \E flags \in Flags : ActivatePlugin(p, caps[p], flags)
    <3>1. /\ active' \in [Plugins -> Nat] /\ caps' = caps /\ held' = held
          /\ active' = [active EXCEPT ![p] = active[p] + 1] /\ CapabilityExclusive'
      BY <2>1, ActivationInv
    <3>. QED
      BY <3>1 DEF WallInv, WallTypes
  <2>2. CASE DeactivatePlugin(p)
    <3>1. /\ active' \in [Plugins -> Nat] /\ caps' = caps /\ held' = held
          /\ active' = [active EXCEPT ![p] = IF active[p] > 0 THEN active[p] - 1 ELSE 0]
          /\ CapabilityExclusive'
      BY <2>2, DeactivationInv
    <3>. QED
      BY <3>1 DEF WallInv, WallTypes
  <2>. QED
    BY <2>1, <2>2 DEF OtherPlugin
<1>3. active'[Vswitch] = active[Vswitch] /\ active'[Vswipe] = active[Vswipe]
  BY <1>2, SwitchAssumption
<1>4. (Vswitch \in Active' <=> Vswitch \in Active) /\ (Vswipe \in Active' <=> Vswipe \in Active)
  BY <1>3, SwitchAssumption DEF Active
<1>5. WallTypes' /\ Renderers' /\ WallInGrid'
  BY <1>1, <1>2, <1>3, <1>4 DEF WallInv, WallTypes, Renderers, WallInGrid
<1>6. Matching'
  BY <1>1, <1>2, <1>4 DEF WallInv, Matching
<1>. QED
  BY <1>1, <1>2, <1>5, <1>6 DEF WallInv, NoJumpStep

(* Steps that touch neither the registry nor the walls.                    *)
LEMMA QuietInv ==
  ASSUME WallInv, SwipeBegin \/ (\E v \in Views : ViewDisappears(v)) \/ UNCHANGED wallVars
  PROVE  WallInv' /\ NoJumpStep
<1>1. UNCHANGED <<active, caps, held, ws, running, offset, swipeHook>> /\ origin' \in Workspaces
  BY DEF SwipeBegin, ViewDisappears, wallVars, registry, switch, swipe, WallInv, WallTypes
<1>2. Active' = Active
  BY <1>1 DEF Active
<1>. QED
  BY <1>1, <1>2
  DEF WallInv, WallTypes, CapabilityExclusive, Renderers, Matching, WallInGrid, NoJumpStep

-----------------------------------------------------------------------------

(* The invariant holds when nothing runs.                                   *)
LEMMA InitWall == WallInit => WallInv
<1>. SUFFICES ASSUME WallInit PROVE WallInv
  OBVIOUS
<1>1. /\ active = [p \in Plugins |-> 0] /\ caps = InitialCaps /\ held = FALSE
      /\ running = FALSE /\ swipeHook = FALSE /\ offset = 0 /\ origin = 0 /\ ws \in Workspaces
  BY DEF WallInit, RegistryInit
<1>2. Active = {} /\ 0 \in Workspaces
  BY <1>1, SwitchAssumption DEF Active, Workspaces
<1>3. ~held /\ ~running /\ ~swipeHook
  BY <1>1
<1>4. WallTypes
  <2>1. held \in BOOLEAN /\ running \in BOOLEAN /\ swipeHook \in BOOLEAN
    BY <1>1, Zenon
  <2>. QED
    BY <1>1, <1>2, <2>1, CapsAssumption DEF WallTypes
<1>5. CapabilityExclusive /\ Matching /\ WallInGrid
  BY <1>2, <1>3 DEF CapabilityExclusive, Matching, WallInGrid
<1>6. Renderers
  BY <1>1, <1>2, SwitchAssumption DEF Renderers
<1>. QED
  BY <1>4, <1>5, <1>6 DEF WallInv

(* Every step keeps the invariant.                                          *)
LEMMA NextWall ==
  ASSUME WallInv, [WallNext]_wallVars
  PROVE  WallInv' /\ NoJumpStep
<1>1. SwitchFrame => WallInv' /\ NoJumpStep
  BY SwitchFrameInv DEF NoJumpStep
<1>. QED
  BY <1>1, RequestsInv, SwitchDoneInv, SwipeRecognisedInv, SwipeEndInv, SwipeDoneInv, InhibitInv,
     OtherPluginInv, QuietInv DEF WallNext

(* The invariant holds in every state.                                      *)
LEMMA WallInductive == WallSpec => []WallInv
  BY InitWall, NextWall, PTL DEF WallSpec

(* "At any point, only one plugin with a given capability can be active on *)
(* its output" (plugin.hpp), though vswitch changes its own while active.  *)
THEOREM OnePluginPerCapability == WallSpec => []CapabilityExclusive
  BY WallInductive, InvMatches, PTL

(* A wall is shown exactly while its plugin is active, so at most one is,  *)
(* and none on an inhibited output.                                        *)
THEOREM WallsMatchPlugins == WallSpec => []WallsMatch
  BY WallInductive, InvMatches, PTL

(* Only frames of the animation move what the wall of vswitch shows.       *)
THEOREM WallNeverJumps == WallSpec => NoJump
<1>1. WallInv /\ [WallNext]_wallVars
        => [running /\ running' /\ ~SwitchFrame => ws' + offset' = ws + offset]_wallVars
  BY NextWall DEF NoJumpStep
<1>. QED
  BY <1>1, WallInductive, PTL DEF WallSpec, NoJump

(* The wall never shows a place outside of the grid, wherever switches,    *)
(* swipes and requests have met.                                           *)
THEOREM WallStaysInGrid == WallSpec => [](ws \in Workspaces /\ (running => ws + offset \in Workspaces))
<1>1. WallInv => ws \in Workspaces /\ (running => ws + offset \in Workspaces)
  BY DEF WallInv, WallTypes, WallInGrid
<1>. QED
  BY <1>1, WallInductive, PTL

-----------------------------------------------------------------------------
(* Both, as the run checks them.                                           *)

(* The run moves one of them at a time.                                    *)
LEMMA SessionIsBoth == SessionSpec => Spec /\ WallSpec
<1>1. SessionInit => Init /\ WallInit
  BY DEF SessionInit
<1>2. [SessionNext]_<<part, vars, wallVars>> => [Next]_vars /\ [WallNext]_wallVars
  BY DEF SessionNext
<1>. QED
  BY <1>1, <1>2, PTL DEF SessionSpec, Spec, WallSpec

(* A locked session shows nothing but its lock and is given back by nobody *)
(* but the client that holds it; the walls match their plugins and never   *)
(* jump.                                                                   *)
THEOREM SessionRight ==
  SessionSpec =>
    /\ [](LockedEverywhere /\ OwnedLocks /\ NothingLeft /\ CapabilityExclusive /\ WallsMatch)
    /\ OnlyUnlockLifts /\ NoJump
  BY SessionIsBoth, AlwaysCovered, LocksAreOwned, UnlockedIsClean, OnePluginPerCapability,
     WallsMatchPlugins, UnlockOnlyByHolder, WallNeverJumps, PTL
=============================================================================
